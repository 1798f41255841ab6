-------------------------- MODULE RtwPlayoutProof --------------------------
(***************************************************************************)
(* Proofs about the playout buffer, for every capacity and every bound.    *)
(* The inductive invariant adds to the properties: where tail is, the      *)
(* content of the ring without modulus, and that the positions of the      *)
(* pending marks grow with their arrival numbers.                          *)
(***************************************************************************)
EXTENDS RtwPlayout, FiniteSetTheorems, TLAPS

-----------------------------------------------------------------------------
(* Indexes of the ring *)

\* The index a + b wrapped once, as it is for every a and b used here.
Wrapped(a, b, C) == IF a + b < C THEN a + b ELSE a + b - C

\* (a + b) % C for an index a of the ring and a distance b of at most C.
LEMMA ModWrap ==
  ASSUME NEW C \in Nat \ {0}, NEW a \in 0 .. (C - 1), NEW b \in 0 .. C
  PROVE  (a + b) % C = Wrapped(a, b, C)
<1>1. CASE a + b < C
  BY <1>1 DEF Wrapped
<1>2. CASE a + b >= C
  <2>1. a + b - C \in 0 .. (C - 1)
    BY <1>2
  <2>2. a + b = C + (a + b - C)
    OBVIOUS
  <2> QED BY <1>2, <2>1, <2>2 DEF Wrapped
<1> QED BY <1>1, <1>2

-----------------------------------------------------------------------------
(* The inductive invariant *)

\* tail is the slot that follows the last buffered byte.
TailInv == capacity > 0 => tail = Wrapped(head, size, capacity)

\* RingHoldsStream, slot by slot.
RingInv ==
  \A i \in 0 .. (size - 1) : buf[Wrapped(head, i, capacity)] = Consumed + i + 1

\* A later mark is never in front of an earlier one.
PosInv == \A j, k \in DOMAIN marks : j < k => markPos[j] <= markPos[k]

IInv == TypeOK /\ TailInv /\ RingInv /\ MarksExact /\ PosInv

-----------------------------------------------------------------------------

\* The fields of an initialised buffer, without the definitions around them.
LEMMA Fields ==
  ASSUME IInv, capacity > 0
  PROVE  /\ capacity = Capacity /\ capacity \in Nat \ {0}
         /\ head \in 0 .. (capacity - 1) /\ tail \in 0 .. (capacity - 1)
         /\ size \in 0 .. capacity /\ size <= enqueued_bytes
         /\ enqueued_bytes \in 0 .. MaxBytes /\ MaxBytes \in Nat
         /\ enqueued_bytes \in Nat /\ dequeued_bytes \in Nat
         /\ buf \in [0 .. (capacity - 1) -> Nat \cup {NoByte}]
         /\ tail = Wrapped(head, size, capacity)
  BY CapacityAssumption, BoundsAssumption DEF IInv, TypeOK, TailInv, Slots

\* The slot i steps from head is i - size steps behind tail, modulo a turn.
LEMMA StepsBehind ==
  ASSUME NEW C \in Nat \ {0}, NEW h \in 0 .. (C - 1), NEW s \in 0 .. C,
         NEW i \in 0 .. (C - 1)
  PROVE  Wrapped(Wrapped(h, i, C), C - Wrapped(h, s, C), C) =
           IF i >= s THEN i - s ELSE i - s + C
  BY DEF Wrapped

\* No more than RTW_MARK_MAX marks are left when some are taken out.
LEMMA FewerMarks ==
  ASSUME TypeOK, NEW S
  PROVE  Cardinality(DOMAIN marks \ S) <= MarkMax
<1>1. lastMark \in Nat /\ DOMAIN marks \in SUBSET (1 .. lastMark)
  BY BoundsAssumption DEF TypeOK
<1>2. IsFiniteSet(1 .. lastMark)
  BY <1>1, FS_Interval
<1>3. IsFiniteSet(DOMAIN marks)
  BY <1>1, <1>2, FS_Subset
<1>4. DOMAIN marks \ S \in SUBSET DOMAIN marks
  OBVIOUS
<1>5. /\ IsFiniteSet(DOMAIN marks \ S)
      /\ Cardinality(DOMAIN marks \ S) <= Cardinality(DOMAIN marks)
  BY <1>3, <1>4, FS_Subset
<1>6. Cardinality(DOMAIN marks) \in Nat /\ Cardinality(DOMAIN marks \ S) \in Nat
  BY <1>3, <1>5, FS_CardinalityType
<1> QED BY <1>5, <1>6, BoundsAssumption DEF TypeOK

-----------------------------------------------------------------------------

\* A zeroed struct, or one that has just been initialised, is in order.
LEMMA FreshIInv ==
  ASSUME NEW C \in {0, Capacity}, capacity' = C,
         buf' = [i \in Slots(C) |-> NoByte],
         head' = 0, tail' = 0, size' = 0, marks' = NoMarks, markPos' = NoMarks,
         enqueued_bytes' = 0, dequeued_bytes' = 0, clear_count' = 0, lastMark' = 0
  PROVE  IInv'
<1>1. DOMAIN NoMarks = {} /\ Cardinality({}) = 0
  BY FS_EmptySet DEF NoMarks
<1>2. TypeOK'
  BY <1>1, CapacityAssumption, BoundsAssumption DEF TypeOK, Slots, NoMarks
<1>3. TailInv'
  BY CapacityAssumption DEF TailInv, Wrapped
<1>4. RingInv' /\ MarksExact' /\ PosInv'
  BY <1>1 DEF RingInv, MarksExact, PosInv
<1> QED BY <1>2, <1>3, <1>4 DEF IInv

LEMMA InitIInv == Init => IInv
<1> SUFFICES ASSUME Init PROVE IInv
  OBVIOUS
<1>1. DOMAIN NoMarks = {} /\ Cardinality({}) = 0
  BY FS_EmptySet DEF NoMarks
<1>2. TypeOK
  BY <1>1, CapacityAssumption, BoundsAssumption DEF Init, TypeOK, Slots, NoMarks
<1>3. TailInv /\ RingInv /\ MarksExact /\ PosInv
  BY <1>1 DEF Init, TailInv, RingInv, MarksExact, PosInv
<1> QED BY <1>2, <1>3 DEF IInv

LEMMA WriteIInv ==
  ASSUME IInv, NEW len \in 1 .. Capacity, Write(len)
  PROVE  IInv'
<1>0. /\ capacity > 0 /\ size + len <= capacity
      /\ enqueued_bytes + len <= MaxBytes
      /\ tail' = (tail + len) % capacity /\ size' = size + len
      /\ enqueued_bytes' = enqueued_bytes + len
      /\ UNCHANGED <<head, capacity, marks, dequeued_bytes, clear_count, lastMark,
                     markPos>>
  BY DEF Write, Fits
<1>1. /\ capacity = Capacity /\ capacity \in Nat \ {0}
      /\ head \in 0 .. (capacity - 1) /\ tail \in 0 .. (capacity - 1)
      /\ size \in 0 .. capacity /\ size <= enqueued_bytes
      /\ enqueued_bytes \in Nat /\ MaxBytes \in Nat
      /\ buf \in [0 .. (capacity - 1) -> Nat \cup {NoByte}]
      /\ tail = Wrapped(head, size, capacity)
      /\ len \in 1 .. (capacity - size)
  <2>1. /\ capacity = Capacity /\ capacity \in Nat \ {0}
        /\ head \in 0 .. (capacity - 1) /\ tail \in 0 .. (capacity - 1)
        /\ size \in 0 .. capacity /\ size <= enqueued_bytes
        /\ enqueued_bytes \in Nat /\ MaxBytes \in Nat
        /\ buf \in [0 .. (capacity - 1) -> Nat \cup {NoByte}]
        /\ tail = Wrapped(head, size, capacity)
    BY <1>0, Fields, Zenon
  <2>2. len \in 1 .. (capacity - size)
    BY <1>0, <2>1
  <2> QED BY <2>1, <2>2
<1>2. tail' = Wrapped(tail, len, capacity)
  <2>1. len \in 0 .. capacity
    BY <1>1
  <2> QED BY <1>0, <1>1, <2>1, ModWrap
<1>3. ASSUME NEW i \in 0 .. (capacity - 1)
      PROVE  Behind(i) = Wrapped(i, capacity - tail, capacity) /\ Behind(i) \in Nat
  <2>1. capacity - tail \in 0 .. capacity
    BY <1>1
  <2>2. (i + (capacity - tail)) % capacity = Wrapped(i, capacity - tail, capacity)
    BY <1>1, <2>1, ModWrap
  <2> QED BY <1>1, <2>1, <2>2 DEF Behind, Wrapped
<1>4. buf' = [i \in 0 .. (capacity - 1) |->
                IF Behind(i) < len THEN enqueued_bytes + Behind(i) + 1 ELSE buf[i]]
  BY DEF Write, Slots
<1>a. buf' \in [0 .. (capacity - 1) -> Nat \cup {NoByte}]
  <2>1. ASSUME NEW i \in 0 .. (capacity - 1)
        PROVE  (IF Behind(i) < len THEN enqueued_bytes + Behind(i) + 1 ELSE buf[i])
                 \in Nat \cup {NoByte}
    <3>1. enqueued_bytes \in Nat /\ Behind(i) \in Nat
      BY <1>1, <1>3
    <3>2. enqueued_bytes + Behind(i) + 1 \in Nat
      BY <3>1
    <3>3. buf[i] \in Nat \cup {NoByte}
      BY <1>1
    <3> QED BY <3>2, <3>3
  <2> QED BY <1>4, <2>1
<1>5. TypeOK'
  <2>1. tail' \in 0 .. (capacity - 1)
    BY <1>1, <1>2 DEF Wrapped
  <2>2. size' \in 0 .. capacity' /\ size' <= enqueued_bytes'
        /\ enqueued_bytes' \in 0 .. MaxBytes
    BY <1>0, <1>1
  <2>3. markPos \in [DOMAIN marks -> 0 .. (enqueued_bytes + len)]
    <3>1. markPos \in [DOMAIN marks -> 0 .. enqueued_bytes]
      BY DEF IInv, TypeOK
    <3>2. 0 .. enqueued_bytes \subseteq 0 .. (enqueued_bytes + len)
      BY <1>1
    <3> QED BY <3>1, <3>2
  <2>4. /\ capacity \in {0, Capacity} /\ clear_count \in 0 .. MaxClears
        /\ lastMark \in 0 .. MaxMarks /\ DOMAIN marks \subseteq 1 .. lastMark
        /\ marks \in [DOMAIN marks -> Nat] /\ Cardinality(DOMAIN marks) <= MarkMax
        /\ dequeued_bytes \in Nat
    BY DEF IInv, TypeOK
  <2>5. markPos' \in [DOMAIN marks' -> 0 .. enqueued_bytes']
    BY <1>0, <2>3
  <2>6. buf' \in [Slots(capacity') -> Nat \cup {NoByte}]
        /\ head' \in Slots(capacity') /\ tail' \in Slots(capacity')
    BY <1>0, <1>1, <1>a, <2>1 DEF Slots
  <2>7. head' \in Nat /\ tail' \in Nat
    BY <1>0, <1>1, <2>1
  <2> QED BY <1>0, <2>2, <2>4, <2>5, <2>6, <2>7 DEF TypeOK
<1>6. TailInv'
  BY <1>0, <1>1, <1>2 DEF TailInv, Wrapped
<1>7. Consumed' = Consumed
  BY <1>0, <1>1 DEF Consumed
<1>8. RingInv'
  <2> SUFFICES ASSUME NEW i \in 0 .. (size + len - 1)
               PROVE  buf'[Wrapped(head, i, capacity)] = Consumed + i + 1
    BY <1>0, <1>1, <1>7 DEF RingInv
  <2> DEFINE s == Wrapped(head, i, capacity)
  <2>1. i \in 0 .. (capacity - 1) /\ s \in 0 .. (capacity - 1)
    BY <1>1 DEF Wrapped
  <2>2. Behind(s) = IF i >= size THEN i - size ELSE i - size + capacity
    <3>1. Behind(s) = Wrapped(s, capacity - tail, capacity)
      BY <1>3, <2>1
    <3>2. Wrapped(Wrapped(head, i, capacity),
                  capacity - Wrapped(head, size, capacity), capacity) =
            IF i >= size THEN i - size ELSE i - size + capacity
      BY <1>1, <2>1, StepsBehind
    <3> QED BY <1>1, <3>1, <3>2
  <2>3. buf'[s] = IF Behind(s) < len THEN enqueued_bytes + Behind(s) + 1 ELSE buf[s]
    BY <1>4, <2>1
  <2>4. CASE i >= size
    <3>1. Behind(s) = i - size /\ i - size < len
      BY <1>1, <2>2, <2>4
    <3>2. buf'[s] = enqueued_bytes + (i - size) + 1
      BY <2>3, <3>1
    <3> QED BY <1>1, <3>2 DEF Consumed
  <2>5. CASE i < size
    <3>1. ~(Behind(s) < len)
      BY <1>1, <2>2, <2>5
    <3>2. buf[s] = Consumed + i + 1
      BY <1>1, <2>5 DEF IInv, RingInv
    <3> QED BY <2>3, <3>1, <3>2
  <2> QED BY <1>1, <2>4, <2>5
<1>9. MarksExact' /\ PosInv'
  BY <1>0, <1>7 DEF IInv, MarksExact, PosInv
<1> QED BY <1>5, <1>6, <1>8, <1>9 DEF IInv

LEMMA ReadIInv ==
  ASSUME IInv, NEW max_len \in 1 .. Capacity, Read(max_len)
  PROVE  IInv'
<1> DEFINE n == IF max_len < size THEN max_len ELSE size
<1>0. /\ capacity > 0
      /\ head' = (head + n) % capacity /\ size' = size - n
      /\ dequeued_bytes' = dequeued_bytes + n
      /\ marks' = AdvanceMarksOnRead(n)
      /\ UNCHANGED <<buf, tail, capacity, enqueued_bytes, clear_count, lastMark, markPos>>
  BY DEF Read
<1>1. /\ capacity = Capacity /\ capacity \in Nat \ {0}
      /\ head \in 0 .. (capacity - 1) /\ tail \in 0 .. (capacity - 1)
      /\ size \in 0 .. capacity /\ size <= enqueued_bytes
      /\ enqueued_bytes \in Nat /\ MaxBytes \in Nat /\ dequeued_bytes \in Nat
      /\ tail = Wrapped(head, size, capacity)
      /\ n \in 0 .. size /\ n \in 0 .. capacity
  BY <1>0, Fields, CapacityAssumption
<1> HIDE DEF n
<1>2. head' = Wrapped(head, n, capacity)
  BY <1>0, <1>1, ModWrap
<1>3. Consumed' = Consumed + n /\ Consumed \in Nat
  BY <1>0, <1>1 DEF Consumed
<1>4. DOMAIN marks' = DOMAIN marks /\ marks' \in [DOMAIN marks -> Nat]
  BY <1>0, <1>1 DEF AdvanceMarksOnRead, IInv, TypeOK
<1>5. TypeOK'
  <2>1. head' \in 0 .. (capacity - 1)
    BY <1>1, <1>2 DEF Wrapped
  <2>2. size' \in 0 .. capacity' /\ size' <= enqueued_bytes' /\ dequeued_bytes' \in Nat
    BY <1>0, <1>1
  <2>4. /\ capacity \in {0, Capacity} /\ clear_count \in 0 .. MaxClears
        /\ lastMark \in 0 .. MaxMarks /\ DOMAIN marks \subseteq 1 .. lastMark
        /\ markPos \in [DOMAIN marks -> 0 .. enqueued_bytes]
        /\ Cardinality(DOMAIN marks) <= MarkMax
        /\ enqueued_bytes \in 0 .. MaxBytes
        /\ buf \in [Slots(capacity) -> Nat \cup {NoByte}]
    BY DEF IInv, TypeOK
  <2> QED BY <1>0, <1>1, <1>4, <2>1, <2>2, <2>4 DEF TypeOK, Slots
<1>6. TailInv'
  BY <1>0, <1>1, <1>2 DEF TailInv, Wrapped
<1>7. RingInv'
  <2> SUFFICES ASSUME NEW i \in 0 .. (size - n - 1)
               PROVE  buf[Wrapped(head', i, capacity)] = Consumed + n + i + 1
    BY <1>0, <1>1, <1>3 DEF RingInv
  <2>1. n + i \in 0 .. (size - 1)
    BY <1>1
  <2>2. Wrapped(head', i, capacity) = Wrapped(head, n + i, capacity)
    BY <1>1, <1>2, <2>1 DEF Wrapped
  <2>3. buf[Wrapped(head, n + i, capacity)] = Consumed + (n + i) + 1
    BY <2>1 DEF IInv, RingInv
  <2> QED BY <1>1, <1>3, <2>2, <2>3
<1>8. MarksExact'
  <2> SUFFICES ASSUME NEW k \in DOMAIN marks
               PROVE  /\ markPos[k] >= Consumed + n =>
                           marks'[k] = markPos[k] - (Consumed + n)
                      /\ markPos[k] < Consumed + n => marks'[k] = 0
    BY <1>0, <1>3, <1>4 DEF MarksExact
  <2>1. marks[k] \in Nat /\ markPos[k] \in Nat
    BY <1>1 DEF IInv, TypeOK
  <2>2. marks'[k] = IF marks[k] >= n THEN marks[k] - n ELSE 0
    BY <1>0 DEF AdvanceMarksOnRead
  <2>3. /\ markPos[k] >= Consumed => marks[k] = markPos[k] - Consumed
        /\ markPos[k] < Consumed => marks[k] = 0
    BY DEF IInv, MarksExact
  <2> QED BY <1>1, <1>3, <2>1, <2>2, <2>3
<1>9. PosInv'
  BY <1>0, <1>4 DEF IInv, PosInv
<1> QED BY <1>5, <1>6, <1>7, <1>8, <1>9 DEF IInv

LEMMA AddMarkIInv ==
  ASSUME IInv, AddMark
  PROVE  IInv'
<1> DEFINE m == lastMark + 1
<1>1. /\ capacity > 0 /\ lastMark < MaxMarks /\ lastMark' = m
      /\ Cardinality(DOMAIN marks) < MarkMax
      /\ marks' = [k \in DOMAIN marks \cup {m} |-> IF k = m THEN size ELSE marks[k]]
      /\ markPos' = [k \in DOMAIN markPos \cup {m} |->
                       IF k = m THEN enqueued_bytes ELSE markPos[k]]
      /\ UNCHANGED <<ring, enqueued_bytes, dequeued_bytes, clear_count>>
  BY DEF AddMark, BytesAfter
<1>2. /\ lastMark \in Nat /\ m \in 1 .. MaxMarks /\ DOMAIN marks \subseteq 1 .. lastMark
      /\ marks \in [DOMAIN marks -> Nat]
      /\ markPos \in [DOMAIN marks -> 0 .. enqueued_bytes]
      /\ DOMAIN markPos = DOMAIN marks
      /\ size \in Nat /\ enqueued_bytes \in Nat /\ size <= enqueued_bytes
      /\ m \notin DOMAIN marks
  <2>1. /\ lastMark \in 0 .. MaxMarks /\ DOMAIN marks \subseteq 1 .. lastMark
        /\ marks \in [DOMAIN marks -> Nat]
        /\ markPos \in [DOMAIN marks -> 0 .. enqueued_bytes]
    BY DEF IInv, TypeOK
  <2>2. /\ size \in 0 .. capacity /\ enqueued_bytes \in Nat /\ size <= enqueued_bytes
        /\ capacity \in Nat
    BY <1>1, Fields
  <2>3. lastMark \in Nat /\ m \in 1 .. MaxMarks /\ m \notin 1 .. lastMark
    BY <1>1, <2>1, BoundsAssumption
  <2> HIDE DEF m
  <2> QED BY <2>1, <2>2, <2>3
<1> HIDE DEF m
<1>3. DOMAIN marks' = DOMAIN marks \cup {m} /\ marks' \in [DOMAIN marks' -> Nat]
      /\ markPos' \in [DOMAIN marks' -> 0 .. enqueued_bytes]
  <2>1. DOMAIN marks' = DOMAIN marks \cup {m} /\ DOMAIN markPos' = DOMAIN marks'
    BY <1>1, <1>2
  <2>2. marks' \in [DOMAIN marks' -> Nat]
    BY <1>1, <1>2
  <2>3. enqueued_bytes \in 0 .. enqueued_bytes
    BY <1>2
  <2>4. markPos' \in [DOMAIN marks' -> 0 .. enqueued_bytes]
    BY <1>1, <1>2, <2>1, <2>3
  <2> QED BY <2>1, <2>2, <2>4
<1>4. Cardinality(DOMAIN marks') <= MarkMax
  <2>1. IsFiniteSet(1 .. lastMark)
    <3>1. lastMark \in Nat
      BY <1>2
    <3> QED BY <3>1, FS_Interval
  <2>2. IsFiniteSet(DOMAIN marks)
    BY <1>2, <2>1, FS_Subset
  <2>3. Cardinality(DOMAIN marks \cup {m}) = Cardinality(DOMAIN marks) + 1
    BY <1>2, <2>2, FS_AddElement
  <2>4. Cardinality(DOMAIN marks) \in Nat
    BY <2>2, FS_CardinalityType
  <2> QED BY <1>1, <1>3, <2>3, <2>4, BoundsAssumption
<1>5. DOMAIN marks' \subseteq 1 .. lastMark' /\ lastMark' \in 0 .. MaxMarks
  BY <1>1, <1>2, <1>3, BoundsAssumption DEF m
<1>6. TypeOK'
  <2>1. /\ UNCHANGED <<buf, head, tail, size, capacity>>
        /\ UNCHANGED <<enqueued_bytes, dequeued_bytes, clear_count>>
    BY <1>1 DEF ring
  <2> HIDE <1>1
  <2> QED BY <2>1, <1>3, <1>4, <1>5 DEF IInv, TypeOK, Slots
<1>7. TailInv' /\ RingInv' /\ Consumed' = Consumed
  BY <1>1 DEF IInv, TailInv, RingInv, Consumed, ring
<1>8. MarksExact'
  <2> SUFFICES ASSUME NEW k \in DOMAIN marks \cup {m}
               PROVE  /\ markPos'[k] >= Consumed => marks'[k] = markPos'[k] - Consumed
                      /\ markPos'[k] < Consumed => marks'[k] = 0
    BY <1>3, <1>7 DEF MarksExact
  <2>1. CASE k = m
    BY <1>1, <1>2, <2>1 DEF Consumed
  <2>2. CASE k # m
    <3>1. k \in DOMAIN marks /\ marks'[k] = marks[k] /\ markPos'[k] = markPos[k]
      BY <1>1, <1>2, <2>2
    <3> QED BY <3>1 DEF IInv, MarksExact
  <2> QED BY <2>1, <2>2
<1>9. PosInv'
  <2> SUFFICES ASSUME NEW j \in DOMAIN marks \cup {m}, NEW k \in DOMAIN marks \cup {m},
                      j < k
               PROVE  markPos'[j] <= markPos'[k]
    BY <1>3 DEF PosInv
  <2>1. j # m /\ j \in DOMAIN marks /\ markPos'[j] = markPos[j]
        /\ markPos[j] \in 0 .. enqueued_bytes
    BY <1>1, <1>2 DEF m
  <2>2. CASE k = m
    BY <1>1, <1>2, <2>1, <2>2
  <2>3. CASE k # m
    <3>1. k \in DOMAIN marks /\ markPos'[k] = markPos[k]
      BY <1>1, <1>2, <2>3
    <3> QED BY <2>1, <3>1 DEF IInv, PosInv
  <2> QED BY <2>2, <2>3
<1> QED BY <1>6, <1>7, <1>8, <1>9 DEF IInv

LEMMA PopIInv ==
  ASSUME IInv, NEW m, PopCompletedMarks(m)
  PROVE  IInv'
<1>1. /\ marks' = [k \in DOMAIN marks \ Completed |-> marks[k]]
      /\ markPos' = [k \in DOMAIN markPos \ Completed |-> markPos[k]]
      /\ UNCHANGED <<ring, enqueued_bytes, dequeued_bytes, clear_count, lastMark>>
  BY DEF PopCompletedMarks, Without
<1>2. /\ marks \in [DOMAIN marks -> Nat]
      /\ markPos \in [DOMAIN marks -> 0 .. enqueued_bytes]
      /\ DOMAIN markPos = DOMAIN marks
      /\ Cardinality(DOMAIN marks \ Completed) <= MarkMax
  BY FewerMarks DEF IInv, TypeOK
<1>3. /\ DOMAIN marks' = DOMAIN marks \ Completed
      /\ marks' \in [DOMAIN marks' -> Nat]
      /\ markPos' \in [DOMAIN marks' -> 0 .. enqueued_bytes]
  BY <1>1, <1>2
<1>4. TypeOK'
  BY <1>1, <1>2, <1>3 DEF IInv, TypeOK, ring, Slots
<1>5. TailInv' /\ RingInv' /\ Consumed' = Consumed
  BY <1>1 DEF IInv, TailInv, RingInv, Consumed, ring
<1>6. ASSUME NEW k \in DOMAIN marks'
      PROVE  k \in DOMAIN marks /\ marks'[k] = marks[k] /\ markPos'[k] = markPos[k]
  BY <1>1, <1>2, <1>3
<1>7. MarksExact' /\ PosInv'
  BY <1>5, <1>6 DEF IInv, MarksExact, PosInv
<1> QED BY <1>4, <1>5, <1>7 DEF IInv

LEMMA ClearIInv ==
  ASSUME IInv, NEW m, Clear(m)
  PROVE  IInv'
<1>1. /\ capacity > 0 /\ head' = 0 /\ tail' = 0 /\ size' = 0
      /\ marks' = NoMarks /\ markPos' = NoMarks
      /\ clear_count < MaxClears /\ clear_count' = clear_count + 1
      /\ UNCHANGED <<buf, capacity, enqueued_bytes, dequeued_bytes, lastMark>>
  BY DEF Clear
<1>2. DOMAIN NoMarks = {} /\ Cardinality({}) = 0
  BY FS_EmptySet DEF NoMarks
<1>3. /\ capacity \in Nat \ {0} /\ enqueued_bytes \in Nat
      /\ clear_count' \in 0 .. MaxClears
  <2>1. clear_count \in 0 .. MaxClears
    BY DEF IInv, TypeOK
  <2>2. capacity \in Nat \ {0} /\ enqueued_bytes \in Nat
    BY <1>1, Fields
  <2> QED BY <1>1, <2>1, <2>2, BoundsAssumption
<1>4. TypeOK'
  <2>1. /\ DOMAIN marks' = {} /\ DOMAIN markPos' = {}
        /\ marks' \in [DOMAIN marks' -> Nat]
        /\ markPos' \in [DOMAIN marks' -> 0 .. enqueued_bytes']
    BY <1>1, <1>2 DEF NoMarks
  <2>2. Cardinality(DOMAIN marks') <= MarkMax
    BY <1>2, <2>1, BoundsAssumption
  <2>3. /\ capacity \in {0, Capacity} /\ buf \in [Slots(capacity) -> Nat \cup {NoByte}]
        /\ enqueued_bytes \in 0 .. MaxBytes /\ dequeued_bytes \in Nat
        /\ lastMark \in 0 .. MaxMarks
    BY DEF IInv, TypeOK
  <2>4. 0 \in Slots(capacity) /\ 0 \in 0 .. capacity /\ 0 <= enqueued_bytes
    BY <1>3 DEF Slots
  <2>5. DOMAIN marks' \subseteq 1 .. lastMark'
    BY <2>1
  <2> QED BY <1>1, <1>3, <2>1, <2>2, <2>3, <2>4, <2>5 DEF TypeOK
<1>5. TailInv'
  BY <1>1, <1>3 DEF TailInv, Wrapped
<1>6. RingInv' /\ MarksExact' /\ PosInv'
  BY <1>1, <1>2 DEF RingInv, MarksExact, PosInv
<1> QED BY <1>4, <1>5, <1>6 DEF IInv

LEMMA StepIInv == IInv /\ [Next]_vars => IInv'
<1> SUFFICES ASSUME IInv, [Next]_vars PROVE IInv'
  OBVIOUS
<1>1. CASE PlayoutInit
  BY <1>1, FreshIInv DEF PlayoutInit
<1>2. ASSUME NEW len \in 1 .. Capacity, Write(len) PROVE IInv'
  BY <1>2, WriteIInv
<1>3. ASSUME NEW n \in 1 .. Capacity, Read(n) PROVE IInv'
  BY <1>3, ReadIInv
<1>4. CASE AddMark
  BY <1>4, AddMarkIInv
<1>5. ASSUME NEW m \in MaxOut, PopCompletedMarks(m) PROVE IInv'
  BY <1>5, PopIInv
<1>6. ASSUME NEW m \in MaxOut, Clear(m) PROVE IInv'
  BY <1>6, ClearIInv
<1>7. CASE Destroy
  BY <1>7, FreshIInv DEF Destroy
<1>8. CASE UNCHANGED vars
  <2>1. TypeOK'
    BY <1>8 DEF vars, ring, IInv, TypeOK, Slots
  <2>2. TailInv' /\ RingInv' /\ MarksExact' /\ PosInv'
    BY <1>8 DEF vars, ring, IInv, TailInv, RingInv, MarksExact, PosInv, Consumed
  <2> QED BY <2>1, <2>2 DEF IInv
<1> QED BY <1>1, <1>2, <1>3, <1>4, <1>5, <1>6, <1>7, <1>8 DEF Next

\* No index of rtw_playout.c leaves the buffer and the array of marks never
\* holds more than RTW_MARK_MAX, whatever the capacity.
THEOREM TypeCorrect == Spec => []TypeOK
<1>1. IInv => TypeOK
  BY DEF IInv
<1> QED BY <1>1, InitIInv, StepIInv, PTL DEF Spec

\* rtw_playout_read hands out the accepted stream, without gap or repetition.
THEOREM StreamIsKept == Spec => []RingHoldsStream
<1>1. IInv => RingHoldsStream
  <2> SUFFICES ASSUME IInv, NEW i \in 0 .. (size - 1)
               PROVE  buf[(head + i) % capacity] = Consumed + i + 1
    BY DEF RingHoldsStream
  <2>1. capacity > 0
    BY CapacityAssumption DEF IInv, TypeOK
  <2>2. capacity \in Nat \ {0} /\ head \in 0 .. (capacity - 1) /\ i \in 0 .. capacity
    BY <2>1, Fields
  <2>3. (head + i) % capacity = Wrapped(head, i, capacity)
    BY <2>2, ModWrap
  <2> QED BY <2>3 DEF IInv, RingInv
<1> QED BY <1>1, InitIInv, StepIInv, PTL DEF Spec

\* bytes_after is exact: a mark completes when the last byte in front of it
\* has been read, and not before.
THEOREM MarksAreExact == Spec => []MarksExact
<1>1. IInv => MarksExact
  BY DEF IInv
<1> QED BY <1>1, InitIInv, StepIInv, PTL DEF Spec

\* Marks are taken from the array in the order in which they arrived.
THEOREM MarksCompleteInOrder == Spec => CompletionInOrder
<1>1. IInv /\ [Next]_vars =>
        [\A j, k \in DOMAIN marks :
           j < k /\ k \notin DOMAIN marks' => j \notin DOMAIN marks']_vars
  <2> SUFFICES ASSUME IInv, Next, NEW j \in DOMAIN marks, NEW k \in DOMAIN marks,
                      j < k, k \notin DOMAIN marks'
               PROVE  j \notin DOMAIN marks'
    OBVIOUS
  <2>1. ASSUME NEW m \in MaxOut, PopCompletedMarks(m) PROVE j \notin DOMAIN marks'
    <3>1. DOMAIN marks' = DOMAIN marks \ Completed
      BY <2>1 DEF PopCompletedMarks, Without
    <3>2. marks[k] = 0
      BY <3>1 DEF Completed
    <3>3. markPos[j] <= markPos[k]
      BY DEF IInv, PosInv
    <3>4. /\ marks[j] \in Nat /\ markPos[j] \in Nat /\ markPos[k] \in Nat
          /\ Consumed \in Nat
      BY BoundsAssumption, CapacityAssumption DEF IInv, TypeOK, Consumed
    <3>5. /\ markPos[k] >= Consumed => marks[k] = markPos[k] - Consumed
          /\ markPos[j] >= Consumed => marks[j] = markPos[j] - Consumed
          /\ markPos[j] < Consumed => marks[j] = 0
      BY DEF IInv, MarksExact
    <3>6. marks[j] = 0
      BY <3>2, <3>3, <3>4, <3>5
    <3> QED BY <3>1, <3>6 DEF Completed
  <2>2. CASE PlayoutInit \/ Destroy \/ \E m \in MaxOut : Clear(m)
    BY <2>2 DEF PlayoutInit, Destroy, Clear, NoMarks
  <2>3. CASE AddMark
    BY <2>3 DEF AddMark
  <2>4. CASE \/ \E len \in 1 .. Capacity : Write(len)
             \/ \E n \in 1 .. Capacity : Read(n)
    BY <2>4 DEF Write, Read, AdvanceMarksOnRead
  <2> QED BY <2>1, <2>2, <2>3, <2>4 DEF Next
<1> QED BY <1>1, InitIInv, StepIInv, PTL DEF Spec, CompletionInOrder

-----------------------------------------------------------------------------

\* The marks whose counter has reached zero are the ones behind consumed bytes.
LEMMA CompletedIsDone == ASSUME IInv PROVE Completed = Abstract!Done
<1>1. DOMAIN markPos = DOMAIN marks
  BY DEF IInv, TypeOK
<1>2. ASSUME NEW k \in DOMAIN marks PROVE marks[k] = 0 <=> markPos[k] <= Consumed
  <2>1. marks[k] \in Nat /\ markPos[k] \in Nat /\ Consumed \in Nat
    BY BoundsAssumption, CapacityAssumption DEF IInv, TypeOK, Consumed
  <2>2. /\ markPos[k] >= Consumed => marks[k] = markPos[k] - Consumed
        /\ markPos[k] < Consumed => marks[k] = 0
    BY DEF IInv, MarksExact
  <2> QED BY <2>1, <2>2
<1> QED BY <1>1, <1>2 DEF Completed, Abstract!Done

\* The helpers that both modules define are the same.
LEMMA SameHelpers ==
  /\ \A S : Cardinality(S) = Abstract!Cardinality(S)
  /\ \A n, S : First(n, S) = Abstract!First(n, S)
  /\ \A f, S : Without(f, S) = Abstract!Without(f, S)
<1>1. \A S : Cardinality(S) = Abstract!Cardinality(S)
  BY DEF Cardinality, Abstract!Cardinality
<1>2. \A n, S : First(n, S) = Abstract!First(n, S)
  BY <1>1 DEF First, Abstract!First
<1>3. \A f, S : Without(f, S) = Abstract!Without(f, S)
  BY DEF Without, Abstract!Without
<1> QED BY <1>1, <1>2, <1>3

LEMMA ReadRefines ==
  ASSUME IInv, NEW max_len \in 1 .. Capacity, Read(max_len)
  PROVE  \E n \in 0 .. Capacity : Abstract!Read(n)
<1> DEFINE n == IF max_len < size THEN max_len ELSE size
<1>0. /\ capacity > 0 /\ size' = size - n
      /\ out' = [i \in 1 .. n |-> buf[(head + (i - 1)) % capacity]]
      /\ UNCHANGED <<capacity, enqueued_bytes, clear_count, names_out, lastMark, markPos>>
  BY DEF Read
<1>1. /\ capacity = Capacity /\ capacity \in Nat \ {0} /\ head \in 0 .. (capacity - 1)
      /\ size \in 0 .. capacity /\ size <= enqueued_bytes /\ enqueued_bytes \in Nat
      /\ n \in 0 .. size /\ n \in 0 .. Capacity
  BY <1>0, Fields, CapacityAssumption
<1> HIDE DEF n
<1>2. ASSUME NEW i \in 1 .. n
      PROVE  buf[(head + (i - 1)) % capacity] = Consumed + i
  <2>1. i - 1 \in 0 .. capacity /\ i - 1 \in 0 .. (size - 1)
    BY <1>1
  <2>2. (head + (i - 1)) % capacity = Wrapped(head, i - 1, capacity)
    BY <1>1, <2>1, ModWrap
  <2>3. buf[Wrapped(head, i - 1, capacity)] = Consumed + (i - 1) + 1
    BY <2>1 DEF IInv, RingInv
  <2> QED BY <1>1, <2>2, <2>3 DEF Consumed
<1>3. out' = [i \in 1 .. n |-> Consumed + i]
  BY <1>0, <1>2
<1>4. Consumed' = Consumed + n /\ n <= enqueued_bytes - Consumed
  BY <1>0, <1>1 DEF Consumed
<1>5. Abstract!Read(n)
  BY <1>0, <1>3, <1>4 DEF Abstract!Read
<1> QED BY <1>1, <1>5

LEMMA InitRefines == Init => Abstract!Init
  BY DEF Init, Abstract!Init, Abstract!Zeroed, Consumed, NoMarks,
         Abstract!NoMarks

LEMMA StepRefines ==
  IInv /\ [Next]_vars => [Abstract!Next]_(Abstract!vars)
<1> SUFFICES ASSUME IInv, [Next]_vars
             PROVE  Abstract!Next \/ UNCHANGED Abstract!vars
  OBVIOUS
<1>0. DOMAIN markPos = DOMAIN marks
  BY DEF IInv, TypeOK
<1>1. CASE PlayoutInit
  <2>1. Abstract!Open
    BY <1>1, CapacityAssumption
       DEF PlayoutInit, Abstract!Open, Abstract!Zeroed, Consumed, NoMarks,
         Abstract!NoMarks
  <2> QED BY <2>1 DEF Abstract!Next
<1>2. ASSUME NEW len \in 1 .. Capacity, Write(len) PROVE Abstract!Next
  <2>1. /\ capacity = Capacity /\ size \in Nat /\ enqueued_bytes \in Nat
        /\ len \in Nat
    BY <1>2, Fields, CapacityAssumption DEF Write
  <2>2. /\ capacity > 0 /\ enqueued_bytes + len <= MaxBytes /\ size + len <= capacity
        /\ enqueued_bytes' = enqueued_bytes + len /\ size' = size + len
        /\ UNCHANGED <<capacity, clear_count, out, names_out, lastMark, markPos>>
    BY <1>2 DEF Write, Fits
  <2>3. Consumed' = Consumed /\ (enqueued_bytes - Consumed) + len <= Capacity
    BY <2>1, <2>2 DEF Consumed
  <2>4. Abstract!Write(len)
    BY <2>2, <2>3 DEF Abstract!Write
  <2> QED BY <2>4 DEF Abstract!Next
<1>3. ASSUME NEW n \in 1 .. Capacity, Read(n) PROVE Abstract!Next
  BY <1>3, ReadRefines DEF Abstract!Next
<1>4. CASE AddMark
  <2>1. /\ capacity > 0 /\ lastMark < MaxMarks
        /\ Cardinality(DOMAIN markPos) < MarkMax
        /\ lastMark' = lastMark + 1
        /\ UNCHANGED <<capacity, enqueued_bytes, clear_count, out, names_out>>
    BY <1>0, <1>4 DEF AddMark, ring
  <2>2. Consumed' = Consumed
    BY <1>4 DEF AddMark, ring, Consumed
  <2>3. markPos' = [k \in DOMAIN markPos \cup {lastMark + 1} |->
                      IF k = lastMark + 1 THEN enqueued_bytes ELSE markPos[k]]
    BY <1>4 DEF AddMark
  <2>4. Abstract!AddMark
    BY <2>1, <2>2, <2>3, SameHelpers DEF Abstract!AddMark
  <2> QED BY <2>4 DEF Abstract!Next
<1>5. ASSUME NEW m \in MaxOut, PopCompletedMarks(m) PROVE Abstract!Next
  <2>1. /\ names_out' = Abstract!First(m, Abstract!Done)
        /\ markPos' = Abstract!Without(markPos, Abstract!Done)
    BY <1>5, SameHelpers, CompletedIsDone DEF PopCompletedMarks
  <2>2. UNCHANGED <<capacity, enqueued_bytes, clear_count, out, lastMark>>
    BY <1>5 DEF PopCompletedMarks, ring
  <2>3. Consumed' = Consumed
    BY <1>5 DEF PopCompletedMarks, ring, Consumed
  <2>4. Abstract!PopCompleted(m)
    BY <2>1, <2>2, <2>3 DEF Abstract!PopCompleted
  <2> QED BY <2>4 DEF Abstract!Next
<1>6. ASSUME NEW m \in MaxOut, Clear(m) PROVE Abstract!Next
  <2>1. enqueued_bytes \in Nat
    BY <1>6, Fields DEF Clear
  <2>2. Consumed' = enqueued_bytes
    BY <1>6, <2>1 DEF Clear, Consumed
  <2>3. names_out' = Abstract!First(m, DOMAIN markPos)
    BY <1>0, <1>6, SameHelpers DEF Clear
  <2>4. markPos' = Abstract!NoMarks
    BY <1>6 DEF Clear, NoMarks, Abstract!NoMarks
  <2>5. /\ capacity > 0 /\ clear_count < MaxClears /\ clear_count' = clear_count + 1
        /\ UNCHANGED <<capacity, enqueued_bytes, lastMark, out>>
    BY <1>6 DEF Clear
  <2>6. Abstract!Clear(m)
    BY <2>2, <2>3, <2>4, <2>5 DEF Abstract!Clear
  <2> QED BY <2>6 DEF Abstract!Next
<1>7. CASE Destroy
  <2>1. Abstract!Close
    BY <1>7 DEF Destroy, Abstract!Close, Abstract!Zeroed, Consumed, NoMarks,
         Abstract!NoMarks
  <2> QED BY <2>1 DEF Abstract!Next
<1>8. CASE UNCHANGED vars
  BY <1>8 DEF vars, ring, Abstract!vars, Consumed
<1> QED BY <1>1, <1>2, <1>3, <1>4, <1>5, <1>6, <1>7, <1>8 DEF Next

\* The playout buffer implements the stream of bytes with marks between them,
\* for every capacity and every sequence of calls.
THEOREM PlayoutRefinesStream == Spec => Refines
<1>1. Spec => []IInv
  BY InitIInv, StepIInv, PTL DEF Spec
<1> QED BY <1>1, InitRefines, StepRefines, PTL DEF Spec, Refines, Abstract!Spec
=============================================================================
