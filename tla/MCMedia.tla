------------------------------- MODULE MCMedia -------------------------------
(***************************************************************************)
(* What happens to sound on its way between the call and the peer: the     *)
(* samples of a bridge (RtwAudio), the two codecs of a media message, and   *)
(* the simulator, which plays the call's part.  They share no state and are *)
(* checked side by side: each runs while the others rest.                  *)
(***************************************************************************)
EXTENDS RtwAudio

CONSTANTS
  Payload,       \* bytes of a payload
  MaxPayload,    \* bound on its length
  Script, ReadLen, MaxRounds, PlayoutCap, MarkMax, HarvestMax    \* of RtwSim

VARIABLES
  pcm,    \* a sample: every 16-bit sample but the lowest, upwards
  in,     \* bytes: every short sequence of a few, grown one by one
  pc, running, rounds, audio, marks, outbound, sent, up, script, arriving, crowded,
  got_clear_ack, verdict

Mulaw == INSTANCE RtwMulaw
Base64 == INSTANCE RtwBase64
Sim == INSTANCE RtwSim

\* A clear takes the last mark, if it has not been read past, and what else waits;
\* the others are read past one by one or, when the peer is quick, together: then
\* they are too many for the array of marks, or for one harvest.
MCScript ==
  <<"media", "mark", "mark", "mark", "mark", "media", "media", "mark", "clear">>

codecVars == <<pcm, in>>
simVars == <<pc, running, rounds, audio, marks, outbound, sent, up, script, arriving,
             crowded, got_clear_ack, verdict>>
mediaVars == <<vars, codecVars, simVars>>

ASSUME PartsConstants ==
  /\ Sim!SimConstants
  /\ Payload \subseteq 0 .. 255 /\ MaxPayload \in Nat

MulawInit == pcm = -32767
MulawNext == pcm < 32767 /\ pcm' = pcm + 1

\* In the configuration, the lowest byte, the highest and one that mixes bits: up
\* to two groups and one byte more.
Base64Init == in = <<>>
Base64Next == Len(in) < MaxPayload /\ \E b \in Payload : in' = Append(in, b)
Base64Spec == Base64Init /\ [][Base64Next]_in

MediaInit == Init /\ MulawInit /\ Base64Init /\ Sim!Init

\* The two directions of the audio have only flags in common, which neither writes.
OneWay == now' = 0 \/ (media' = 0 /\ elapsed' = 0)

MediaNext ==
  \/ /\ MulawInit /\ Base64Init /\ Sim!Init
     /\ Next /\ OneWay /\ UNCHANGED <<codecVars, simVars>>
  \/ Init /\ Base64Init /\ Sim!Init /\ MulawNext /\ UNCHANGED <<vars, in, simVars>>
  \/ Init /\ MulawInit /\ Sim!Init /\ Base64Next /\ UNCHANGED <<vars, pcm, simVars>>
  \/ Init /\ MulawInit /\ Base64Init /\ Sim!Next /\ UNCHANGED <<vars, codecVars>>

MediaSpec == MediaInit /\ [][MediaNext]_mediaVars

-----------------------------------------------------------------------------
(* Properties *)

Abs(x) == IF x < 0 THEN -x ELSE x
Heard(x) == Mulaw!rtw_mulaw_to_linear(Mulaw!rtw_linear_to_mulaw(x))

\* What the peer hears of a sample is off by no more than half a step of its
\* segment, a thirty-second of the biased sample; what CLIP takes from the
\* loudest is less than that.
CloseToSample == 32 * Abs(Heard(pcm) - pcm) <= Abs(pcm) + Mulaw!BIAS

\* rtw_mulaw.h: this is G.711.  The codec is close to the sample, monotone (a
\* louder sample is never heard softer) and settled: what was once coded is not
\* changed by being coded again, so an echo of the peer comes back unharmed.
SampleSurvives ==
  /\ CloseToSample
  /\ pcm > -32767 => Heard(pcm - 1) <= Heard(pcm)
  /\ Heard(Heard(pcm)) = Heard(pcm)

Encoded == Base64!rtw_base64_encode(in, Base64!rtw_base64_encoded_len(Len(in))).out

\* A media payload survives: what rtw_build_media encodes, rtw_parse_inbound
\* decodes to the same bytes in a buffer that just fits, and in one byte less
\* not at all; blanks anywhere, within a group too, change nothing.
\* rtw_base64_encoded_len is what the encoder writes with its NUL.
PayloadSurvives ==
  /\ Base64!rtw_base64_decode(Encoded, Len(in)) = [failed |-> FALSE, out |-> in]
  /\ in # <<>> => Base64!rtw_base64_decode(Encoded, Len(in) - 1).failed
  /\ \A k \in 1 .. Len(Encoded) + 1 :
       Base64!rtw_base64_decode(InsertAt(Encoded, k, 32), Len(in)).out = in
  /\ Len(Encoded) + 1 = Base64!rtw_base64_encoded_len(Len(in))

\* The simulator's peer sees a whole call, or the beginning of one, and in it an
\* acknowledgement of every mark that there was room for, whichever of the two loops
\* sent it.
WholeCall == Sim!WholeCall /\ Sim!MarksAccounted
=============================================================================
