------------------------------ MODULE Playout ------------------------------
(***************************************************************************)
(* What the playout buffer promises to a session: a bounded stream of      *)
(* audio bytes with marks between them.  Bytes are named by their position *)
(* in the stream of accepted bytes (1, 2, ...), marks by their order of    *)
(* arrival (1, 2, ...).  A mark sits behind the bytes accepted before it   *)
(* and is complete once all of these have been consumed, that is, read or  *)
(* thrown away by a clear.  RtwPlayout, the buffer of rtw_playout.c,       *)
(* implements this specification.                                          *)
(***************************************************************************)
EXTENDS Naturals, Sequences, FiniteSets, MarkOrder

CONSTANTS
  Capacity,      \* bytes the buffer can hold
  MarkMax,       \* RTW_MARK_MAX, marks it can hold
  MaxOut,        \* the possible limits on the marks one call hands out
  MaxBytes,      \* bound on the bytes accepted
  MaxMarks,      \* bound on the marks accepted
  MaxClears      \* bound on the clears

VARIABLES
  open,          \* between rtw_playout_init and rtw_playout_destroy
  written,       \* bytes accepted so far
  consumed,      \* bytes read or cleared so far
  marks,         \* pending marks: arrival number -> bytes accepted before it
  lastMark,      \* arrival number of the newest mark
  clears,        \* clears so far
  audio,         \* the bytes handed out by the last read
  names          \* the marks handed out by the last call that returns marks

vars == <<open, written, consumed, marks, lastMark, clears, audio, names>>

-----------------------------------------------------------------------------

\* The pending marks all of whose audio has been consumed.
Done == {k \in DOMAIN marks : marks[k] <= consumed}

-----------------------------------------------------------------------------

Zeroed ==
  /\ written = 0 /\ consumed = 0
  /\ marks = NoMarks
  /\ lastMark = 0
  /\ clears = 0

Init ==
  /\ open = FALSE
  /\ Zeroed
  /\ audio = <<>>
  /\ names = {}

Open ==
  /\ ~open
  /\ open' = TRUE
  /\ Zeroed'
  /\ UNCHANGED <<audio, names>>

\* A chunk is accepted whole, or not at all when it does not fit.
Write(len) ==
  /\ open
  /\ written + len <= MaxBytes
  /\ (written - consumed) + len <= Capacity
  /\ written' = written + len
  /\ UNCHANGED <<open, consumed, marks, lastMark, clears, audio, names>>

\* The next bytes of the stream, as many as there are up to a limit.
Read(n) ==
  /\ open
  /\ n <= written - consumed
  /\ audio' = [i \in 1 .. n |-> consumed + i]
  /\ consumed' = consumed + n
  /\ UNCHANGED <<open, written, marks, lastMark, clears, names>>

AddMark ==
  /\ open
  /\ lastMark < MaxMarks
  /\ Cardinality(DOMAIN marks) < MarkMax
  /\ lastMark' = lastMark + 1
  /\ marks' = [k \in DOMAIN marks \cup {lastMark + 1} |->
                 IF k = lastMark + 1 THEN written ELSE marks[k]]
  /\ UNCHANGED <<open, written, consumed, clears, audio, names>>

\* Every complete mark leaves the buffer; the first m are handed out.
PopCompleted(m) ==
  /\ names' = First(m, Done)
  /\ marks' = Without(marks, Done)
  /\ UNCHANGED <<open, written, consumed, lastMark, clears, audio>>

\* All audio and all marks leave the buffer; the first m marks are handed out.
Clear(m) ==
  /\ open
  /\ clears < MaxClears
  /\ names' = First(m, DOMAIN marks)
  /\ marks' = NoMarks
  /\ consumed' = written
  /\ clears' = clears + 1
  /\ UNCHANGED <<open, written, lastMark, audio>>

Close ==
  /\ open
  /\ open' = FALSE
  /\ Zeroed'
  /\ UNCHANGED <<audio, names>>

Next ==
  \/ Open
  \/ \E len \in 1 .. Capacity : Write(len)
  \/ \E n \in 0 .. Capacity : Read(n)
  \/ AddMark
  \/ \E m \in MaxOut : PopCompleted(m) \/ Clear(m)
  \/ Close

Spec == Init /\ [][Next]_vars
=============================================================================
