------------------------------ MODULE RtwAudio ------------------------------
(***************************************************************************)
(* The media path of a bridge (src/mod/rtw_bridge.c):                      *)
(* rtw_bridge_on_read_pcm16, which turns the call's samples into frames for *)
(* the peer, and rtw_bridge_apply_write_frame, which puts the peer's audio  *)
(* into the call.                                                          *)
(*                                                                         *)
(* A sample of the call is the time it was taken at, counted in samples    *)
(* since the start of the call, so that time t is t / (8000 * rate) s; a    *)
(* sample for the peer is the set of the samples it is the average of.      *)
(* What becomes of the frames is RtwSession; of the peer's audio, which is  *)
(* numbered here as it is taken into the playout, RtwPlayout.              *)
(***************************************************************************)
EXTENDS Integers, SequencesExt

CONSTANTS
  Rates,        \* sampling / 8000
  FrameLen,     \* samples of a frame (160)
  HoldCap,      \* room in pcm_hold (320)
  AgentCap,     \* most samples injected at once (640)
  ReadLens,     \* samples a READ callback may have, those of both channels
  WriteLens,    \* samples a frame of the WRITE_REPLACE callback may have
  MediaLens,    \* samples a media message of the peer may have
  MaxTime,      \* bound on the samples of the call, either way
  MaxMedia      \* bound on the samples of the peer

ASSUME AudioConstants ==
  /\ Rates \subseteq Nat \ {0}
  /\ FrameLen \in Nat \ {0} /\ HoldCap \in Nat /\ FrameLen <= HoldCap
  /\ AgentCap \in Nat \ {0}
  /\ ReadLens \subseteq Nat \ {0} /\ WriteLens \subseteq Nat \ {0}
  /\ MediaLens \subseteq Nat \ {0}
  /\ MaxTime \in Nat /\ MaxMedia \in Nat

VARIABLES
  rate,          \* sampling / 8000; 0 before the start
  channels,      \* 1, or 2 with the left samples first
  audio_paused, stopping,
  inject_mode,   \* "replace" or "mix"
  now,           \* samples that the READ callback has been called for
  accepted,      \* the left samples of the callbacks that were not skipped
  lone,          \* of these, by position, the ones that had no second to go with
  pcm_hold,
  frames,        \* the frames pushed to the session
  media,         \* samples that the peer has sent
  playout,       \* those not played yet
  cleared,       \* those that a clear took away
  elapsed,       \* samples that the WRITE_REPLACE callback has been called for
  played,        \* the samples that got into the call
  last           \* the last frame of that callback, [out, dry, skipped]: what came
                 \* out, whether the playout was empty then, and whether the
                 \* callback was skipped

upVars == <<now, accepted, lone, pcm_hold, frames>>
downVars == <<media, playout, cleared, elapsed, played, last>>
flagVars == <<rate, channels, audio_paused, stopping, inject_mode>>
vars == <<flagVars, upVars, downVars>>

Init ==
  /\ rate = 0 /\ channels = 0
  /\ audio_paused = FALSE /\ stopping = FALSE /\ inject_mode = "replace"
  /\ now = 0 /\ accepted = <<>> /\ lone = {} /\ pcm_hold = <<>> /\ frames = <<>>
  /\ media = 0 /\ playout = <<>> /\ cleared = {} /\ elapsed = 0 /\ played = <<>>
  /\ last = [out |-> <<>>, dry |-> TRUE, skipped |-> FALSE]

-----------------------------------------------------------------------------

\* What rtw_bridge_start settles: any multiple of 8000 will do for the rate.
Starts ==
  /\ rate = 0
  /\ rate' \in Rates /\ channels' \in {1, 2}
  /\ inject_mode' \in {"replace", "mix"}
  /\ UNCHANGED <<audio_paused, stopping, upVars, downVars>>

-----------------------------------------------------------------------------
(* rtw_bridge_on_read_pcm16 *)

\* The time that a callback of n samples takes, in samples of one channel.
Lasts(n) == (n + channels - 1) \div channels

\* The samples the loop looks at: the left ones, as long as the right one is
\* there too.
Times(n) == [k \in 1 .. n \div channels |-> now + k - 1]

\* At 16 kHz two successive samples become one, within the callback: the last of an
\* odd number goes alone.
Resampled(s) ==
  IF rate = 2
    THEN [k \in 1 .. (Len(s) + 1) \div 2 |->
            {s[j] : j \in {2 * k - 1, 2 * k} \cap DOMAIN s}]
    ELSE [k \in DOMAIN s |-> {s[k]}]

\* Mutant: the sample that completes a frame begins the next one, too.
HoldTwiceBug(st, x) ==
  LET h == IF Len(st.hold) < HoldCap THEN Append(st.hold, x) ELSE st.hold
  IN IF Len(h) >= FrameLen
       THEN [hold |-> <<x>>, pushed |-> Append(st.pushed, SubSeq(h, 1, FrameLen))]
       ELSE [hold |-> h, pushed |-> st.pushed]

\* One sample is put into pcm_hold, if it has room, and a full frame pushed.
Hold(st, x) ==
  LET h == IF Len(st.hold) < HoldCap THEN Append(st.hold, x) ELSE st.hold
  IN IF Len(h) >= FrameLen
       THEN [hold |-> <<>>, pushed |-> Append(st.pushed, SubSeq(h, 1, FrameLen))]
       ELSE [hold |-> h, pushed |-> st.pushed]

HoldAll(s) ==
  LET st[k \in 0 .. Len(s)] ==
        IF k = 0 THEN [hold |-> pcm_hold, pushed |-> frames] ELSE Hold(st[k - 1], s[k])
  IN  st[Len(s)]

OnRead ==
  /\ rate # 0 /\ ~stopping /\ ~audio_paused
  /\ \E n \in ReadLens :
       LET s == Times(n)
           st == HoldAll(Resampled(s)) IN
         /\ now + Lasts(n) <= MaxTime
         /\ now' = now + Lasts(n)
         /\ accepted' = accepted \o s
         /\ lone' = IF rate = 2 /\ Len(s) % 2 = 1
                     THEN lone \cup {Len(accepted) + Len(s)} ELSE lone
         /\ pcm_hold' = st.hold
         /\ frames' = st.pushed
  /\ UNCHANGED <<flagVars, downVars>>

\* The stream is paused, or another thread has the lock: the samples are gone.
OnReadSkipped ==
  /\ rate # 0
  /\ \E n \in ReadLens :
       /\ now + Lasts(n) <= MaxTime
       /\ now' = now + Lasts(n)
  /\ UNCHANGED <<flagVars, accepted, lone, pcm_hold, frames, downVars>>

-----------------------------------------------------------------------------
(* rtw_bridge_apply_write_frame *)

\* A sample of the call is the set of the voices in it: the peer's, by number,
\* and the caller's own, 0.
Caller == {0}
Silence == {}

\* The frame of n samples that s is put into: what s does not fill is the
\* caller's if the audio is mixed, and silent if it is replaced.
Written(n, s) ==
  LET under == IF inject_mode = "mix" \/ s = <<>> THEN Caller ELSE Silence
  IN [k \in 1 .. n |-> IF k <= Len(s) THEN under \cup {s[k]} ELSE under]

Wanted(n) == Min({n, AgentCap})

ApplyWriteFrame ==
  /\ rate # 0 /\ ~stopping
  /\ \E n \in WriteLens :
       LET k == Min({Wanted(n), Len(playout)})
           s == SubSeq(playout, 1, k)
       IN /\ elapsed + n <= MaxTime
          /\ elapsed' = elapsed + n
          /\ playout' = SubSeq(playout, k + 1, Len(playout))
          /\ played' = played \o s
          /\ last' = [out |-> Written(n, s), dry |-> k = Len(playout), skipped |-> FALSE]
  /\ UNCHANGED <<flagVars, upVars, media, cleared>>

\* Mutant: the audio that the skipped frame would have had is dropped.
WriteSkippedBug ==
  /\ rate # 0 /\ ~stopping
  /\ \E n \in WriteLens :
       /\ elapsed + n <= MaxTime
       /\ elapsed' = elapsed + n
       /\ playout' = SubSeq(playout, Min({n, Len(playout)}) + 1, Len(playout))
       /\ last' = [out |-> Written(n, <<>>), dry |-> playout = <<>>, skipped |-> TRUE]
  /\ UNCHANGED <<flagVars, upVars, media, cleared, played>>

\* Another thread has the lock: the caller's own frame goes out as it is, whatever
\* waits, and what waits goes on waiting.
WriteSkipped ==
  /\ rate # 0 /\ ~stopping
  /\ \E n \in WriteLens :
       /\ elapsed + n <= MaxTime
       /\ elapsed' = elapsed + n
       /\ last' = [out |-> Written(n, <<>>), dry |-> playout = <<>>, skipped |-> TRUE]
  /\ UNCHANGED <<flagVars, upVars, media, playout, cleared, played>>

-----------------------------------------------------------------------------

\* rtw_playout_write of a media message that there is room for.
PeerMedia ==
  /\ rate # 0 /\ ~stopping
  /\ \E n \in MediaLens :
       /\ media + n <= MaxMedia
       /\ media' = media + n
       /\ playout' = playout \o [k \in 1 .. n |-> media + k]
  /\ UNCHANGED <<flagVars, upVars, cleared, elapsed, played, last>>

\* rtw_playout_clear
PeerClear ==
  /\ rate # 0 /\ ~stopping
  /\ playout' = <<>>
  /\ cleared' = cleared \cup Range(playout)
  /\ UNCHANGED <<flagVars, upVars, media, elapsed, played, last>>

\* rtw_bridge_pause
Pause ==
  /\ rate # 0 /\ ~stopping
  /\ audio_paused' = ~audio_paused
  /\ UNCHANGED <<rate, channels, stopping, inject_mode, upVars, downVars>>

Stop ==
  /\ rate # 0
  /\ stopping' = TRUE
  /\ UNCHANGED <<rate, channels, audio_paused, inject_mode, upVars, downVars>>

Next ==
  \/ Starts \/ OnRead \/ OnReadSkipped \/ ApplyWriteFrame \/ WriteSkipped
  \/ PeerMedia \/ PeerClear \/ Pause \/ Stop

Spec == Init /\ [][Next]_vars

-----------------------------------------------------------------------------
(* Properties *)

\* Where on the wire the j-th accepted sample is: at 16 kHz samples go in pairs, but
\* for the lone ones; at any other rate each goes alone.
WireOf(j) ==
  IF rate = 2 THEN (j + Cardinality({o \in lone : o < j}) + 1) \div 2 ELSE j

\* The samples that the k-th of the wire is the average of.
SamplesOf(k) == {accepted[j] : j \in {i \in DOMAIN accepted : WireOf(i) = k}}

\* docs/ARCHITECTURE.md: audio is resampled at the module's edge.  However the
\* call's samples are cut into callbacks, odd ones and such as bring a left sample
\* without its right, whatever is skipped, and at every rate: each accepted sample is
\* in one sample of the wire, at 16 kHz with the other of its pair, and in no other;
\* the wire has no others, in order and in whole frames.  Between two callbacks
\* pcm_hold keeps less than a frame, so that its test for room never refuses a sample.
\* A stable rate this is not: an odd callback at 16 kHz adds a sample to the wire,
\* and at 24 kHz, which is accepted, nothing is averaged.
SamplesReachTheWire ==
  LET pushed == Len(frames) * FrameLen
  IN  /\ Len(pcm_hold) < FrameLen
      /\ \A f \in DOMAIN frames : Len(frames[f]) = FrameLen
      /\ pushed + Len(pcm_hold) = IF rate = 2 THEN (Len(accepted) + Cardinality(lone)) \div 2
                                             ELSE Len(accepted)
      /\ \A f \in DOMAIN frames, k \in 1 .. FrameLen :
           frames[f][k] = SamplesOf((f - 1) * FrameLen + k)
      /\ \A k \in DOMAIN pcm_hold : pcm_hold[k] = SamplesOf(pushed + k)

\* The peer's audio gets into the call in the order it was sent, every sample at
\* most once, and nothing that is still to come precedes what was heard.
HeardInOrder ==
  LET s == played \o playout
  IN \A j, k \in DOMAIN s : j < k => s[j] < s[k]

\* What the peer has sent was heard, waits to be, or was taken away by a clear: a
\* skipped callback puts it off and does not lose it.
OnlyClearsLose == Range(played) \cup Range(playout) \cup cleared = 1 .. media

\* In replace mode no frame has both the peer's audio and the caller's: what the
\* peer's audio does not fill is silent.  It falls short only when the playout has
\* run dry, or when the frame (20 ms at 48 kHz, say) is longer than the buffer that
\* the audio passes, or when the callback was skipped: then the caller is heard for a
\* whole frame in the midst of the peer's audio, in replace mode too.
NoGapsNoLeaks ==
  /\ inject_mode = "replace" =>
       (Caller \in Range(last.out) => Range(last.out) = {Caller})
  /\ Range(last.out) \cap {Caller, Silence} # {} =>
       last.dry \/ last.skipped \/ Len(last.out) > AgentCap

\* mod_realtime_ws.h: the call has its own rate, "L0 wire is always 8k mulaw".
\* In a call at the wire's rate the peer's audio takes as long to hear as it took
\* to say; at a higher one it is played as it comes, and is over too soon.
DownlinkAtCallRate == rate = 1 => Len(played) <= elapsed

\* rtw_bridge_apply_write_frame: whatever the lengths of the call's frames and of
\* the peer's messages, and whichever callbacks are skipped, the peer is heard in
\* order and but for what it clears whole, and no faster than it speaks; frames have
\* gaps, or the caller, only for the reasons given.
PeerIsHeard == HeardInOrder /\ OnlyClearsLose /\ NoGapsNoLeaks /\ DownlinkAtCallRate
=============================================================================
