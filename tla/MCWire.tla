------------------------------- MODULE MCWire -------------------------------
(***************************************************************************)
(* The wire: the receiving half of the WebSocket client (WsClient), its     *)
(* sending half, and one message of the peer on its way into the session.   *)
(* They share no state and are checked side by side: each runs while the    *)
(* others rest.                                                            *)
(***************************************************************************)
EXTENDS WsClient

CONSTANTS
  Radix, LenCode, Xor(_, _), Texts, Keys, MaxSends,   \* of WsSend
  SidMax, NameMax, JsonMax, JsonRest, PayloadCap, OurLen, NameLens, PayloadLens
                                                      \* of RtwInbound

VARIABLES
  frame, off, text, wire, broken, sentTexts, sends, noMemory,
  stage, api, msg, ev, effect, echo

\* Bytes of two bits: texts with lengths of one and of two bytes, at their
\* limits, and the first one that is too long.  The bytes of a text differ, so
\* that a shift would show.
MCXor(a, b) == 2 * ((a \div 2 + b \div 2) % 2) + ((a + b) % 2)

MCTexts == {[i \in 1 .. n |-> (i + n) % 4] : n \in {0, 1, 2, 3, 4, 15, 16}}

MCKeys == {<<0, 0, 0, 0>>, <<1, 2, 3, 0>>}

Sending == INSTANCE WsSend WITH sent <- sentTexts, failures <- noMemory

\* In the configuration the buffers are as long as they are in the code, names
\* and payloads around their ends.
Inbound == INSTANCE RtwInbound

\* Frames of two to six bytes after a response that fits the handshake's
\* buffer, or does not; a record may be longer than the room made for it.
MCFrames ==
  {[op |-> "text", hdr |-> 2, len |-> 0],
   [op |-> "text", hdr |-> 3, len |-> 3],
   [op |-> "fragment", hdr |-> 2, len |-> 1],
   [op |-> "other", hdr |-> 2, len |-> 1],
   [op |-> "close", hdr |-> 2, len |-> 0],
   [op |-> "toolong", hdr |-> 3, len |-> 1]}

sendVars == <<frame, off, text, wire, broken, sentTexts, sends, noMemory>>
inboundVars == <<stage, api, msg, ev, effect, echo>>
wireVars == <<vars, sendVars, inboundVars>>

ASSUME PartsConstants ==
  Sending!SendConstants /\ Inbound!InboundConstants /\ Inbound!BuffersFit

WireInit == Init /\ Sending!Init /\ Inbound!Init

WireNext ==
  \/ Sending!Init /\ Inbound!Init /\ Next /\ UNCHANGED <<sendVars, inboundVars>>
  \/ Init /\ Inbound!Init /\ Sending!Next /\ UNCHANGED <<vars, inboundVars>>
  \/ Init /\ Sending!Init /\ Inbound!Next /\ UNCHANGED <<vars, sendVars>>

WireSpec == WireInit /\ [][WireNext]_wireVars

-----------------------------------------------------------------------------
(* Properties *)

\* rtw_ws_send_text: the peer can read exactly the texts whose send succeeded.
PeerReadsWhatWasSent == Sending!PeerReadsWhatWasSent

\* rtw_session_handle_peer_json and rtw_bridge_send_mark: a message for another
\* stream does nothing, and a mark accepted from the API comes back under its own
\* name, whatever the lengths of both.
NamesHold == Inbound!ForeignIsInert /\ Inbound!SentMarkComesBack
=============================================================================
