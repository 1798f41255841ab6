----------------------------- MODULE RtwPlayout -----------------------------
(***************************************************************************)
(* The playout buffer of src/core/rtw_playout.c: a byte ring (buf, head,   *)
(* tail, size) and an array of marks, each with the number of bytes still  *)
(* to be read before it.  One action per function.                         *)
(*                                                                         *)
(* A byte is its position in the stream of accepted bytes, so that a byte  *)
(* read twice, skipped or out of order shows.  The array of marks, kept    *)
(* dense and in arrival order by a memmove, is a function from arrival     *)
(* numbers to bytes_after; mark_count is the size of its domain.           *)
(***************************************************************************)
EXTENDS Naturals, Sequences, FiniteSets, MarkOrder

CONSTANTS
  Capacity,      \* capacity_bytes given to rtw_playout_init
  MarkMax,       \* RTW_MARK_MAX
  MaxOut,        \* the max_out arguments of the callers
  MaxBytes,      \* bound on enqueued_bytes
  MaxMarks,      \* bound on the marks added in one life of the buffer
  MaxClears,     \* bound on clear_count
  NoByte         \* what malloc left in a byte that was never written

ASSUME CapacityAssumption == Capacity \in Nat \ {0}
ASSUME BoundsAssumption ==
  /\ MarkMax \in Nat /\ MaxBytes \in Nat /\ MaxMarks \in Nat /\ MaxClears \in Nat
  /\ MaxOut \subseteq Nat
ASSUME NoByteAssumption == NoByte \notin Nat

VARIABLES
  buf,           \* the bytes, 0 .. capacity - 1 (none before init)
  head, tail, size,
  capacity,      \* 0 in a zeroed struct, Capacity once initialised
  marks,         \* arrival number -> bytes_after
  enqueued_bytes, dequeued_bytes, clear_count,
  out,           \* the bytes the last read stored for its caller
  names_out,     \* the marks the last pop or clear stored for its caller
  lastMark,      \* history: arrival number of the newest mark
  markPos        \* history: arrival number -> bytes accepted before the mark

ring == <<buf, head, tail, size, capacity>>
vars == <<ring, marks, enqueued_bytes, dequeued_bytes, clear_count, out,
          names_out, lastMark, markPos>>

Slots(n) == 0 .. (n - 1)

-----------------------------------------------------------------------------

\* The struct is zeroed by its owner (rtw_session_init) before it is set up.
Init ==
  /\ buf = [i \in Slots(0) |-> NoByte]
  /\ head = 0 /\ tail = 0 /\ size = 0 /\ capacity = 0
  /\ marks = NoMarks
  /\ enqueued_bytes = 0 /\ dequeued_bytes = 0 /\ clear_count = 0
  /\ out = <<>> /\ names_out = {}
  /\ lastMark = 0 /\ markPos = NoMarks

\* rtw_playout_init
PlayoutInit ==
  /\ capacity = 0
  /\ buf' = [i \in Slots(Capacity) |-> NoByte]
  /\ head' = 0 /\ tail' = 0 /\ size' = 0 /\ capacity' = Capacity
  /\ marks' = NoMarks
  /\ enqueued_bytes' = 0 /\ dequeued_bytes' = 0 /\ clear_count' = 0
  /\ lastMark' = 0 /\ markPos' = NoMarks
  /\ UNCHANGED <<out, names_out>>

\* Mutant: the slots after the wrap are missed.
BehindBug(i) == i + (capacity - tail)

\* How many steps slot i is behind the slot tail.
Behind(i) == (i + (capacity - tail)) % capacity

\* A chunk that does not fit is refused whole, before any byte is stored.
Fits(len) == size + len <= capacity

\* rtw_playout_write: the len bytes go to the slots from tail on.
Write(len) ==
  /\ capacity > 0 /\ len > 0
  /\ enqueued_bytes + len <= MaxBytes
  /\ Fits(len)
  /\ buf' = [i \in Slots(capacity) |->
               IF Behind(i) < len THEN enqueued_bytes + Behind(i) + 1 ELSE buf[i]]
  /\ tail' = (tail + len) % capacity
  /\ size' = size + len
  /\ enqueued_bytes' = enqueued_bytes + len
  /\ UNCHANGED <<head, capacity, marks, dequeued_bytes, clear_count, out,
                 names_out, lastMark, markPos>>

\* Mutant: a mark that is less than n bytes away is not completed.
AdvanceMarksOnReadBug(n) ==
  [k \in DOMAIN marks |-> IF marks[k] >= n THEN marks[k] - n ELSE marks[k]]

\* advance_marks_on_read
AdvanceMarksOnRead(n) ==
  [k \in DOMAIN marks |-> IF marks[k] >= n THEN marks[k] - n ELSE 0]

\* rtw_playout_read
Read(max_len) ==
  LET n == IF max_len < size THEN max_len ELSE size IN
  /\ capacity > 0 /\ max_len > 0
  /\ out' = [i \in 1 .. n |-> buf[(head + (i - 1)) % capacity]]
  /\ head' = (head + n) % capacity
  /\ size' = size - n
  /\ dequeued_bytes' = dequeued_bytes + n
  /\ marks' = AdvanceMarksOnRead(n)
  /\ UNCHANGED <<buf, tail, capacity, enqueued_bytes, clear_count, names_out,
                 lastMark, markPos>>

\* Mutant: counts the bytes accepted so far, not the ones still buffered.
BytesAfterBug == enqueued_bytes

\* The bytes still to be read before a mark that is added now.
BytesAfter == size

\* rtw_playout_add_mark: refused when the array is full.
AddMark ==
  /\ capacity > 0
  /\ lastMark < MaxMarks
  /\ Cardinality(DOMAIN marks) < MarkMax
  /\ lastMark' = lastMark + 1
  /\ marks' = [k \in DOMAIN marks \cup {lastMark + 1} |->
                 IF k = lastMark + 1 THEN BytesAfter ELSE marks[k]]
  /\ markPos' = [k \in DOMAIN markPos \cup {lastMark + 1} |->
                   IF k = lastMark + 1 THEN enqueued_bytes ELSE markPos[k]]
  /\ UNCHANGED <<ring, enqueued_bytes, dequeued_bytes, clear_count, out, names_out>>

\* Mutant: a mark that is one byte away counts as completed.
CompletedBug == {k \in DOMAIN marks : marks[k] <= 1}

Completed == {k \in DOMAIN marks : marks[k] = 0}

\* rtw_playout_pop_completed_marks: every completed mark leaves the array,
\* the first max_out names are stored for the caller.
PopCompletedMarks(max_out) ==
  /\ names_out' = First(max_out, Completed)
  /\ marks' = Without(marks, Completed)
  /\ markPos' = Without(markPos, Completed)
  /\ UNCHANGED <<ring, enqueued_bytes, dequeued_bytes, clear_count, out, lastMark>>

\* rtw_playout_clear
Clear(max_out) ==
  /\ capacity > 0
  /\ clear_count < MaxClears
  /\ names_out' = First(max_out, DOMAIN marks)
  /\ head' = 0 /\ tail' = 0 /\ size' = 0
  /\ marks' = NoMarks /\ markPos' = NoMarks
  /\ clear_count' = clear_count + 1
  /\ UNCHANGED <<buf, capacity, enqueued_bytes, dequeued_bytes, out, lastMark>>

\* rtw_playout_destroy: the buffer is freed and the struct zeroed.
Destroy ==
  /\ capacity > 0
  /\ buf' = [i \in Slots(0) |-> NoByte]
  /\ head' = 0 /\ tail' = 0 /\ size' = 0 /\ capacity' = 0
  /\ marks' = NoMarks
  /\ enqueued_bytes' = 0 /\ dequeued_bytes' = 0 /\ clear_count' = 0
  /\ lastMark' = 0 /\ markPos' = NoMarks
  /\ UNCHANGED <<out, names_out>>

Next ==
  \/ PlayoutInit
  \/ \E len \in 1 .. Capacity : Write(len)
  \/ \E max_len \in 1 .. Capacity : Read(max_len)
  \/ AddMark
  \/ \E m \in MaxOut : PopCompletedMarks(m)
  \/ \E m \in MaxOut : Clear(m)
  \/ Destroy

Spec == Init /\ [][Next]_vars

-----------------------------------------------------------------------------

\* Bytes that have left the ring, read or cleared.
Consumed == enqueued_bytes - size

\* The types of the fields; an index never leaves the buffer and the array of
\* marks never holds more than RTW_MARK_MAX.
TypeOK ==
  /\ capacity \in {0, Capacity}
  /\ buf \in [Slots(capacity) -> Nat \cup {NoByte}]
  /\ head \in Nat /\ tail \in Nat
  /\ size \in 0 .. capacity
  /\ capacity > 0 => head \in Slots(capacity) /\ tail \in Slots(capacity)
  /\ enqueued_bytes \in 0 .. MaxBytes /\ size <= enqueued_bytes
  /\ dequeued_bytes \in Nat
  /\ clear_count \in 0 .. MaxClears
  /\ lastMark \in 0 .. MaxMarks
  /\ DOMAIN marks \subseteq 1 .. lastMark
  /\ marks \in [DOMAIN marks -> Nat]
  /\ markPos \in [DOMAIN marks -> 0 .. enqueued_bytes]
  /\ Cardinality(DOMAIN marks) <= MarkMax

\* The ring holds exactly the bytes that were accepted and not yet consumed,
\* in their order: a read hands out the stream without a gap, a repetition or
\* a byte that was never written, across wraps and across clears.
RingHoldsStream ==
  \A i \in 0 .. (size - 1) : buf[(head + i) % capacity] = Consumed + i + 1

\* bytes_after, a counter kept by add_mark and by every later read, is always
\* exactly the distance to the mark's place in the stream, and a mark cannot
\* outlive a clear: completion is neither early nor late.
MarksExact ==
  \A k \in DOMAIN marks :
    /\ markPos[k] >= Consumed => marks[k] = markPos[k] - Consumed
    /\ markPos[k] < Consumed => marks[k] = 0

\* Marks complete in the order in which the peer sent them: a mark is never
\* taken from the array by a pop while an earlier one stays behind.
CompletionInOrder ==
  [][\A j, k \in DOMAIN marks :
       j < k /\ k \notin DOMAIN marks' => j \notin DOMAIN marks']_vars

-----------------------------------------------------------------------------

Abstract == INSTANCE Playout WITH
              open <- capacity > 0, written <- enqueued_bytes,
              consumed <- Consumed, marks <- markPos, clears <- clear_count,
              audio <- out, names <- names_out

\* The byte counters and the ring together behave as the stream with marks.
Refines == Abstract!Spec
=============================================================================
