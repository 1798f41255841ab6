----------------------------- MODULE RtwInbound -----------------------------
(***************************************************************************)
(* One message on its way in: from the peer, or made by                    *)
(* rtw_bridge_send_mark, through rtw_parse_inbound (src/core/rtw_protocol.c) *)
(* and the tests of rtw_session_handle_peer_json to what it does to the      *)
(* session; and the name of a mark on its way back to the peer.            *)
(*                                                                         *)
(* A string is its kind and its length, and is compared by both; buffers    *)
(* have the sizes of the code.  What a media message, a mark or a clear then *)
(* does is RtwSession.                                                     *)
(***************************************************************************)
EXTENDS Naturals

CONSTANTS
  SidMax,        \* RTW_SID_MAX
  NameMax,       \* RTW_MARK_NAME_MAX and RTW_MARK_NAME_LEN
  JsonMax,       \* char json[256] of rtw_bridge_send_mark
  JsonRest,      \* what the format string itself adds to it
  PayloadCap,    \* payload_cap
  OurLen,        \* length of stream_sid
  NameLens, PayloadLens   \* the lengths that occur

\* What the constants stand for.
InboundConstants ==
  /\ {SidMax, NameMax, JsonMax, JsonRest, PayloadCap, OurLen} \subseteq Nat
  /\ OurLen < SidMax /\ NameMax > 0
  /\ NameLens \subseteq Nat /\ PayloadLens \subseteq Nat

\* What the sizes of the buffers have to be for its properties, and are in the code:
\* a stream id one longer than ours is not cut down to ours, and the text of
\* send_mark takes the longest name.
BuffersFit ==
  /\ OurLen + 1 < SidMax
  /\ JsonRest + OurLen + NameMax <= JsonMax

Events == {"connected", "start", "media", "dtmf", "mark", "clear", "stop"}

Str(kind, len) == [kind |-> kind, len |-> len]
None == Str("none", 0)
Ours == Str("ours", OurLen)

\* A longer string that begins like ours, and others.
Sids == {None, Str("empty", 0), Ours, Str("ours", OurLen + 1), Str("ours", SidMax),
         Str("other", OurLen), Str("other", SidMax)}

\* json: the text is JSON with a string for its event; body: the member that the
\* event asks for is there and is an object; text: its payload or its name.
Messages ==
  [json : BOOLEAN, event : Events \cup {"else"}, sid : Sids, body : BOOLEAN,
   text : {None, Str("bad", 0)} \cup {Str("good", n) : n \in NameLens \cup PayloadLens}]

VARIABLES
  stage,     \* "idle", "wire", "parsed", "handled", "echoed" or "refused"
  api,       \* the message was made by send_mark
  msg,
  ev,        \* what rtw_parse_inbound has found: [type, stream_sid, text]
  effect,    \* "none", "write", "mark" or "clear"
  echo       \* the name in the mark for the peer

vars == <<stage, api, msg, ev, effect, echo>>

NoMsg == [json |-> FALSE, event |-> "else", sid |-> None, body |-> FALSE, text |-> None]
NoEv == [type |-> "else", stream_sid |-> None, text |-> None]

Init ==
  /\ stage = "idle"
  /\ api = FALSE
  /\ msg = NoMsg
  /\ ev = NoEv /\ effect = "none" /\ echo = None

PeerSends ==
  /\ stage = "idle"
  /\ stage' = "wire"
  /\ msg' \in Messages
  /\ UNCHANGED <<api, ev, effect, echo>>

-----------------------------------------------------------------------------
(* rtw_bridge_send_mark *)

\* Mutant: off by one, the NUL is forgotten.
valid_mark_nameBug(n) == n > 0 /\ n <= NameMax

valid_mark_name(n) == n > 0 /\ n < NameMax

\* snprintf cuts what does not fit, and what is cut is no JSON.
SendMark(n) ==
  /\ stage = "idle"
  /\ IF valid_mark_name(n)
       THEN /\ stage' = "wire" /\ api' = TRUE
            /\ msg' = [json |-> JsonRest + OurLen + n < JsonMax, event |-> "mark",
                       sid |-> Ours, body |-> TRUE, text |-> Str("good", n)]
       ELSE stage' = "refused" /\ UNCHANGED <<api, msg>>
  /\ UNCHANGED <<ev, effect, echo>>

-----------------------------------------------------------------------------
(* rtw_parse_inbound *)

Cut(s, max) == IF s.len < max THEN s ELSE Str(s.kind, max - 1)

copy_sid(s) == IF s.kind \in {"none", "empty"} THEN None ELSE Cut(s, SidMax)

\* The payload of a media message, decoded: there, base64, and not too long.
GoodPayload(m) ==
  /\ m.body /\ m.text.kind = "good"
  /\ m.text.len <= PayloadCap

Parses ==
  /\ stage = "wire"
  /\ msg.json
  /\ msg.event = "media" => GoodPayload(msg)
  /\ stage' = "parsed"
  /\ ev' = [type |-> msg.event, stream_sid |-> copy_sid(msg.sid),
            text |-> CASE msg.event = "media" -> msg.text
                       [] msg.event = "mark" /\ msg.body /\ msg.text.kind = "good" ->
                            Cut(msg.text, NameMax)
                       [] OTHER -> None]
  /\ UNCHANGED <<api, msg, effect, echo>>

ParseFails ==
  /\ stage = "wire"
  /\ ~msg.json \/ (msg.event = "media" /\ ~GoodPayload(msg))
  /\ stage' = "refused"
  /\ UNCHANGED <<api, msg, ev, effect, echo>>

-----------------------------------------------------------------------------
(* rtw_session_handle_peer_json, in a running session *)

Foreign(s) == s # None /\ s # Ours

Handles ==
  /\ stage = "parsed"
  /\ stage' = "handled"
  /\ effect' = CASE Foreign(ev.stream_sid) -> "none"
                 [] ev.type = "media" /\ ~Foreign(ev.stream_sid) -> "write"
                 [] ev.type \in {"mark", "clear"} /\ ~Foreign(ev.stream_sid) -> ev.type
                 [] OTHER -> "none"
  /\ UNCHANGED <<api, msg, ev, echo>>

\* rtw_playout_add_mark, and later, of a completed or flushed mark,
\* rtw_playout_pop_completed_marks or rtw_playout_clear and rtw_build_mark: the
\* name is copied three times.
Echoes ==
  /\ stage = "handled" /\ effect = "mark"
  /\ stage' = "echoed"
  /\ echo' = Cut(Cut(ev.text, NameMax), NameMax)
  /\ UNCHANGED <<api, msg, ev, effect>>

Next ==
  \/ PeerSends \/ \E n \in NameLens : SendMark(n)
  \/ Parses \/ ParseFails \/ Handles \/ Echoes

Spec == Init /\ [][Next]_vars

-----------------------------------------------------------------------------
(* Properties *)

\* docs/PROTOCOL.md: "Wrong streamSid", drop.  No message that names another
\* stream does anything to this one, also one that is longer than the buffer it
\* is copied to.
ForeignIsInert ==
  effect # "none" => msg.sid \in {None, Str("empty", 0), Ours}

\* A mark that send_mark has accepted is placed and comes back under its own
\* name: the text it puts together is never cut, nor the name in any of the
\* buffers it passes.
SentMarkComesBack ==
  api => /\ stage # "refused"
         /\ stage = "handled" => effect = "mark"
         /\ stage = "echoed" => echo = msg.text
=============================================================================
