------------------------------ MODULE WsClient ------------------------------
(***************************************************************************)
(* The receiving half of the WebSocket client (src/core/rtw_ws_client.c):  *)
(* the handshake, rtw_ws_poll and process_frames, over a byte stream that   *)
(* the network cuts where it likes.                                        *)
(*                                                                         *)
(* What the peer writes is one stream of bytes: the response to the        *)
(* handshake, then frames.  A byte is its position in the stream, so the   *)
(* buffer rx is the interval of rx_len positions from base on, and moving   *)
(* its rest to the front is an addition to base.  With TLS the stream comes *)
(* in records: OpenSSL decrypts a whole record, of which SSL_read hands out *)
(* no more than there is room for; the rest waits inside the TLS object,    *)
(* where poll does not see it.                                             *)
(***************************************************************************)
EXTENDS Naturals, Sequences, FiniteSetsExt, Functions

CONSTANTS
  RxCap,          \* initial rx_cap (65536)
  Chunk,          \* the room made before every read (8192)
  HandshakeCap,   \* what the handshake reads at most (2047)
  RecordMax,      \* longest piece that arrives at once; a TLS record
  Responses,      \* lengths of the response that the peer may choose from
  Frames,         \* the frames the peer may send: [op, hdr, len]
  MaxSent,        \* bound on the frames sent
  MaxFailures     \* bound on the allocations that fail

Ops == {"text", "fragment", "other", "close", "toolong"}

ASSUME WsConstants ==
  /\ RxCap \in Nat /\ RecordMax \in 1 .. RxCap /\ Chunk \in 1 .. RecordMax
  /\ HandshakeCap \in Nat \ {0}
  /\ Responses \subseteq Nat \ {0}
  /\ Frames \subseteq [op : Ops, hdr : Nat \ {0, 1}, len : Nat]
  /\ MaxSent \in Nat /\ MaxFailures \in Nat

VARIABLES
  pc,          \* "none", "handshake", "idle", "read", "frames" or "closed"
  use_tls,     \* wss://
  response,    \* length of the peer's response
  accepted,    \* it contains "101"
  sent,        \* the frames the peer has written: [op, hdr, len, at]
  arrived,     \* the stream up to here has reached the socket
  records,     \* where the TLS records that arrived and are not read end
  decoded,     \* the stream up to here has been taken from the socket
  start,       \* where rx began when the handshake was done
  base, rx_len, rx_cap,
  delivered,   \* the frames given to on_text, by number; 0 is garbage
  failed,      \* the frames for whose text there was no memory
  failures     \* the allocations that failed

streamVars == <<use_tls, response, accepted, sent, arrived>>
rxVars == <<records, decoded, start, base, rx_len, rx_cap>>
textVars == <<delivered, failed, failures>>
vars == <<pc, streamVars, rxVars, textVars>>

-----------------------------------------------------------------------------

Size(f) == f.hdr + f.len

\* The end of what the peer has written, and of what the client has read.
Written == IF sent = <<>> THEN response ELSE sent[Len(sent)].at + Size(sent[Len(sent)])
ReadTo == base + rx_len

Init ==
  /\ pc = "none"
  /\ use_tls = FALSE /\ response = 0 /\ accepted = FALSE
  /\ sent = <<>>
  /\ arrived = 0 /\ records = {}
  /\ decoded = 0 /\ start = 0
  /\ base = 0 /\ rx_len = 0 /\ rx_cap = RxCap
  /\ delivered = <<>> /\ failed = {} /\ failures = 0

-----------------------------------------------------------------------------
(* The peer and the network *)

\* The client has asked for a WebSocket; the peer settles for a response.
Asks ==
  /\ pc = "none"
  /\ pc' = "handshake"
  /\ use_tls' \in BOOLEAN /\ response' \in Responses /\ accepted' \in BOOLEAN
  /\ UNCHANGED <<sent, arrived, rxVars, textVars>>

PeerSends ==
  /\ pc # "none"
  /\ Len(sent) < MaxSent
  /\ \E f \in Frames :
       sent' = Append(sent, [op |-> f.op, hdr |-> f.hdr, len |-> f.len, at |-> Written])
  /\ UNCHANGED <<pc, use_tls, response, accepted, arrived, rxVars, textVars>>

Arrives ==
  /\ \E n \in 1 .. RecordMax :
       /\ arrived + n <= Written
       /\ arrived' = arrived + n
       /\ records' = IF use_tls THEN records \cup {arrived + n} ELSE records
  /\ UNCHANGED <<pc, use_tls, response, accepted, sent, decoded, start, base, rx_len, rx_cap, textVars>>

-----------------------------------------------------------------------------
(* io_read into a buffer with room for the given number of bytes: how far   *)
(* the socket is read, and how far the stream has then come to the caller.  *)
(* With TLS that is what is left of a record, or else the next record.      *)

TakenUpTo(from, room) ==
  CASE ~use_tls -> Min({arrived, from + room})
    [] use_tls /\ decoded > from -> decoded
    [] use_tls /\ decoded = from -> Min({r \in records : r > decoded})

Io_read(from, room) ==
  /\ decoded' = TakenUpTo(from, room)
  /\ records' = {r \in records : r > TakenUpTo(from, room)}
  /\ rx_len' = Min({TakenUpTo(from, room), from + room}) - base

\* There is something for io_read to return at once; it blocks otherwise.
CanRead(from) == arrived > decoded \/ decoded > from

\* http_handshake reads until it has seen the end of the response, or has no
\* room left; rx_len stands for nread.
HandshakeReads ==
  /\ pc = "handshake"
  /\ rx_len < response /\ rx_len < HandshakeCap
  /\ CanRead(rx_len)
  /\ Io_read(rx_len, HandshakeCap - rx_len)
  /\ UNCHANGED <<pc, streamVars, start, base, rx_cap, textVars>>

\* All that the handshake has read is gone with its buffer, whether it belonged
\* to the response or not.
Discarded == rx_len

HandshakeDone ==
  /\ pc = "handshake"
  /\ rx_len >= response \/ rx_len >= HandshakeCap
  /\ pc' = IF accepted THEN "idle" ELSE "closed"
  /\ start' = Discarded
  /\ base' = Discarded
  /\ rx_len' = rx_len - Discarded
  /\ UNCHANGED <<streamVars, records, decoded, rx_cap, textVars>>

-----------------------------------------------------------------------------
(* rtw_ws_poll *)

\* ensure_rx_cap
GrownCap == Max({rx_cap, rx_len + Chunk})

\* The socket is readable; room is made, which may fail.
PollReadable ==
  /\ pc = "idle"
  /\ arrived > decoded
  /\ pc' = "read"
  /\ rx_cap' = GrownCap
  /\ UNCHANGED <<streamVars, records, decoded, start, base, rx_len, textVars>>

\* No memory, an interrupted poll, or the end of the stream: the connection is
\* given up, rtw_ws_poll returns -1.
PollFails ==
  /\ pc = "idle"
  /\ pc' = "closed"
  /\ UNCHANGED <<streamVars, rxVars, textVars>>

PollReads ==
  /\ pc = "read"
  /\ Io_read(ReadTo, rx_cap - rx_len)
  /\ pc' = "frames"
  /\ UNCHANGED <<streamVars, start, base, rx_cap, textVars>>

-----------------------------------------------------------------------------
(* process_frames: one action per outcome of a round of its loop *)

\* The frames that begin where rx does: one, unless the handshake has read too
\* far or not far enough.
AtHead == {i \in DOMAIN sent : sent[i].at = base}
Skewed == AtHead = {} /\ (base # Written)

\* Mutant: an extended length or a mask is not counted.
NeededBug(f) == 2 + f.len

Needed(f) == Size(f)

Consume(n) ==
  /\ base' = base + n
  /\ rx_len' = rx_len - n
  /\ UNCHANGED <<records, decoded, start, rx_cap>>

\* Fewer bytes than a header, or than the frame: wait for more.
FramesWait ==
  /\ pc = "frames"
  /\ \/ rx_len < 2
     \/ \E i \in AtHead : sent[i].op # "toolong" /\ rx_len < Needed(sent[i])
  /\ pc' = "idle"
  /\ UNCHANGED <<streamVars, rxVars, textVars>>

\* Mutant: one frame for every read.
FrameTextBug ==
  /\ pc = "frames"
  /\ \E i \in AtHead :
       /\ sent[i].op \in {"text", "fragment"}
       /\ rx_len >= 2 /\ rx_len >= Needed(sent[i])
       /\ delivered' = Append(delivered, i)
       /\ Consume(Needed(sent[i]))
  /\ pc' = "idle"
  /\ UNCHANGED <<streamVars, failed, failures>>

\* A text frame, its FIN bit aside: on_text gets its payload.
FrameText ==
  /\ pc = "frames"
  /\ \E i \in AtHead :
       /\ sent[i].op \in {"text", "fragment"}
       /\ rx_len >= 2 /\ rx_len >= Needed(sent[i])
       /\ delivered' = Append(delivered, i)
       /\ Consume(Needed(sent[i]))
  /\ UNCHANGED <<pc, streamVars, failed, failures>>

\* There is no memory for the text: it is skipped without a word.
FrameTextFails ==
  /\ pc = "frames"
  /\ failures < MaxFailures
  /\ \E i \in AtHead :
       /\ sent[i].op \in {"text", "fragment"}
       /\ rx_len >= 2 /\ rx_len >= Needed(sent[i])
       /\ failed' = failed \cup {i}
       /\ Consume(Needed(sent[i]))
  /\ failures' = failures + 1
  /\ UNCHANGED <<pc, streamVars, delivered>>

\* Ping, pong, binary and continuation frames are skipped.
FrameSkipped ==
  /\ pc = "frames"
  /\ \E i \in AtHead :
       /\ sent[i].op = "other"
       /\ rx_len >= 2 /\ rx_len >= Needed(sent[i])
       /\ Consume(Needed(sent[i]))
  /\ UNCHANGED <<pc, streamVars, textVars>>

\* A close frame, or a length of 64 bits, ends the connection.
FrameEnds ==
  /\ pc = "frames"
  /\ \E i \in AtHead :
       \/ sent[i].op = "close" /\ rx_len >= 2 /\ rx_len >= Needed(sent[i])
       \/ sent[i].op = "toolong" /\ rx_len >= 2
  /\ pc' = "closed"
  /\ UNCHANGED <<streamVars, rxVars, textVars>>

\* rx does not begin with a frame: its bytes are taken for one all the same,
\* of any kind and length.
FrameGarbage ==
  /\ pc = "frames"
  /\ Skewed /\ rx_len >= 2
  /\ \/ pc' \in {"idle", "closed"} /\ UNCHANGED <<rxVars, delivered>>
     \/ /\ \E n \in 2 .. rx_len : Consume(n)
        /\ delivered' \in {delivered, Append(delivered, 0)}
        /\ UNCHANGED pc
  /\ UNCHANGED <<streamVars, failed, failures>>

FrameStep ==
  \/ FramesWait \/ FrameText \/ FrameTextFails \/ FrameSkipped \/ FrameEnds
  \/ FrameGarbage

ClientStep ==
  HandshakeReads \/ HandshakeDone \/ PollReadable \/ PollReads \/ FrameStep

Next == Asks \/ PeerSends \/ Arrives \/ ClientStep \/ PollFails

Spec == Init /\ [][Next]_vars

-----------------------------------------------------------------------------
(* Properties *)

\* The frames, of those whose bytes are gone from rx, that carry a text.
TextsPassed ==
  {i \in DOMAIN sent : /\ sent[i].op \in {"text", "fragment"}
                       /\ sent[i].at + Size(sent[i]) <= base}

\* However the network cuts the stream into reads, rx is never written past its
\* end, and once the handshake has read no more and no less than the response,
\* process_frames gives on_text every text that it has passed, once and in the
\* order of sending, but for those it had no memory for.
TextsInOrder ==
  /\ pc \in {"idle", "read", "frames"} => rx_len <= rx_cap
  /\ pc = "read" => rx_cap - rx_len >= Chunk
  /\ start = response =>
       /\ TextsPassed = Range(delivered) \cup failed
       /\ \A j, k \in DOMAIN delivered : j < k => delivered[j] < delivered[k]

\* When rtw_ws_poll waits for the socket, rx holds no frame that it could have
\* given to on_text, for it looks at rx only after a read; and when the socket
\* has nothing either, every text that has arrived whole was given to on_text: no
\* message of the peer waits for the next one.  That is without TLS: rtw_ws_poll
\* does not ask SSL_pending.
NothingStranded ==
  pc = "idle" /\ start = response =>
    /\ \A i \in AtHead : sent[i].op # "toolong" => rx_len < Size(sent[i])
    /\ ~use_tls /\ arrived = decoded =>
         \A i \in DOMAIN sent :
           sent[i].op = "text" /\ sent[i].at + Size(sent[i]) <= arrived =>
             i \in Range(delivered) \cup failed
=============================================================================
