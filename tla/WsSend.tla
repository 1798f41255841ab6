------------------------------- MODULE WsSend -------------------------------
(***************************************************************************)
(* The sending half of the WebSocket client (src/core/rtw_ws_client.c):     *)
(* rtw_ws_send_text builds a masked text frame, and io_write_all hands it   *)
(* to a socket that takes as much of it at a time as it likes.  The bridge  *)
(* calls it with its mutex, so one send is over before the next begins.     *)
(*                                                                         *)
(* A byte is a number below Radix and LenCode the length that announces two *)
(* more bytes of length: 256 and 126 in the code, smaller here.             *)
(***************************************************************************)
EXTENDS Naturals, Sequences

CONSTANTS
  Radix,         \* values of a byte (256)
  LenCode,       \* (126)
  Xor(_, _),     \* the exclusive or of two bytes
  Texts,         \* the texts, as sequences of bytes
  Keys,          \* the masks mask_key may draw, or fall back to
  MaxSends,      \* bound on the sends
  MaxFailures    \* bound on the allocations that fail

Bytes == 0 .. Radix - 1

\* What the constants stand for.  Of the exclusive or nothing counts but that
\* it undoes itself.
SendConstants ==
  /\ Radix \in Nat /\ LenCode \in 1 .. Radix - 1
  /\ \A a, b \in Bytes : Xor(a, b) \in Bytes /\ Xor(Xor(a, b), b) = a
  /\ Texts \subseteq Seq(Bytes)
  /\ Keys \subseteq [1 .. 4 -> Bytes]
  /\ MaxSends \in Nat /\ MaxFailures \in Nat

VARIABLES
  frame,      \* what is being written; empty between sends
  off,        \* how much of it io_write_all has written
  text,       \* the text that frame is of
  wire,       \* the bytes the socket has taken
  broken,     \* the connection is gone
  sent,       \* the texts whose send returned 0
  sends,      \* sends begun
  failures    \* the allocations that failed

vars == <<frame, off, text, wire, broken, sent, sends, failures>>

Init ==
  /\ frame = <<>> /\ off = 0 /\ text = <<>>
  /\ wire = <<>> /\ broken = FALSE
  /\ sent = <<>> /\ sends = 0 /\ failures = 0

-----------------------------------------------------------------------------

TooLong(n) == n >= Radix * Radix

\* Mutant: a length equal to the code is written in one byte.
HeaderBug(n) ==
  IF n <= LenCode THEN <<1, n>>
  ELSE <<1, LenCode, (n \div Radix) % Radix, n % Radix>>

\* FIN and opcode, then the length.
Header(n) ==
  IF n < LenCode THEN <<1, n>>
  ELSE <<1, LenCode, (n \div Radix) % Radix, n % Radix>>

Masked(t, key) == [i \in 1 .. Len(t) |-> Xor(t[i], key[((i - 1) % 4) + 1])]

Frame(t, key) == Header(Len(t)) \o key \o Masked(t, key)

SendBegins ==
  /\ frame = <<>> /\ sends < MaxSends
  /\ \E t \in Texts, key \in Keys :
       /\ ~TooLong(Len(t))
       /\ text' = t
       /\ frame' = Frame(t, key)
  /\ off' = 0 /\ sends' = sends + 1
  /\ UNCHANGED <<wire, broken, sent, failures>>

\* The text is too long for a frame: -1, and nothing is written.
SendRefused ==
  /\ frame = <<>> /\ sends < MaxSends
  /\ \E t \in Texts : TooLong(Len(t))
  /\ sends' = sends + 1
  /\ UNCHANGED <<frame, off, text, wire, broken, sent, failures>>

\* So does a send without memory for the frame.
SendNoMemory ==
  /\ frame = <<>> /\ sends < MaxSends /\ failures < MaxFailures
  /\ \E t \in Texts : ~TooLong(Len(t))
  /\ sends' = sends + 1 /\ failures' = failures + 1
  /\ UNCHANGED <<frame, off, text, wire, broken, sent>>

\* One send or SSL_write of io_write_all; with the last of them the text is sent.
\* A call that is interrupted, or wants to be repeated, writes nothing.
Written(n) ==
  /\ wire' = wire \o SubSeq(frame, off + 1, off + n)
  /\ off' = off + n

Writes ==
  /\ frame # <<>> /\ ~broken
  /\ \E n \in 1 .. Len(frame) - off :
       /\ Written(n)
       /\ IF off' = Len(frame)
            THEN frame' = <<>> /\ sent' = Append(sent, text)
            ELSE UNCHANGED <<frame, sent>>
  /\ UNCHANGED <<text, broken, sends, failures>>

\* The connection breaks; it does not come back under the same client.
Breaks ==
  /\ ~broken
  /\ broken' = TRUE
  /\ UNCHANGED <<frame, off, text, wire, sent, sends, failures>>

WriteFails ==
  /\ frame # <<>> /\ broken
  /\ frame' = <<>>
  /\ UNCHANGED <<off, text, wire, broken, sent, sends, failures>>

Next == SendBegins \/ SendRefused \/ SendNoMemory \/ Writes \/ Breaks \/ WriteFails

Spec == Init /\ [][Next]_vars

-----------------------------------------------------------------------------
(* The peer, as RFC 6455 has it: the texts of the frames that are complete. *)

\* The frame at position p of w: the header, the first byte of its text, and
\* where the next frame begins.
Long(w, p) == w[p + 1] = LenCode

HasHeader(w, p) == p + 1 <= Len(w) /\ (Long(w, p) => p + 3 <= Len(w))

TextLen(w, p) == IF Long(w, p) THEN w[p + 2] * Radix + w[p + 3] ELSE w[p + 1]

TextFrom(w, p) == p + (IF Long(w, p) THEN 8 ELSE 6)

NextFrom(w, p) == TextFrom(w, p) + TextLen(w, p)

Complete(w, p) == HasHeader(w, p) /\ NextFrom(w, p) <= Len(w) + 1

TextAt(w, p) ==
  Masked(SubSeq(w, TextFrom(w, p), NextFrom(w, p) - 1),
         SubSeq(w, TextFrom(w, p) - 4, TextFrom(w, p) - 1))

\* One frame is read, if there is another.
ReadFrame(w, st) ==
  IF Complete(w, st.at)
    THEN [at |-> NextFrom(w, st.at), texts |-> Append(st.texts, TextAt(w, st.at))]
    ELSE st

\* w has fewer frames than bytes.
PeerReads(w) ==
  LET read[k \in 0 .. Len(w)] ==
        IF k = 0 THEN [at |-> 1, texts |-> <<>>] ELSE ReadFrame(w, read[k - 1])
  IN  read[Len(w)].texts

-----------------------------------------------------------------------------
(* Properties *)

\* The peer can read exactly the texts whose send has succeeded, whole and in
\* order, wherever the socket cuts a frame, whichever sends were refused in
\* between, and also when the connection breaks within a frame.
PeerReadsWhatWasSent == PeerReads(wire) = sent
=============================================================================
