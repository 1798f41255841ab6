--------------------------- MODULE RtwQueueProof ---------------------------
(***************************************************************************)
(* Proofs about the ring of RtwQueue, for every set of messages, every     *)
(* capacity and every bound.  The induction needs two facts that the       *)
(* properties do not mention: where tail is (it is redundant, but the code *)
(* keeps it as a field of its own) and, slot by slot and without modulus,  *)
(* which slots hold a message.                                             *)
(***************************************************************************)
EXTENDS RtwQueue, SequenceTheorems, TLAPS

-----------------------------------------------------------------------------
(* Indexes of the ring *)

\* The index a + b wrapped once, as it is for every a and b used here.
Wrapped(a, b, C) == IF a + b < C THEN a + b ELSE a + b - C

\* (a + b) % C for an index a of the ring and a distance b of at most C.
LEMMA ModWrap ==
  ASSUME NEW C \in Nat \ {0}, NEW a \in 0 .. (C - 1), NEW b \in 0 .. C
  PROVE  (a + b) % C = Wrapped(a, b, C)
<1>1. CASE a + b < C
  BY <1>1 DEF Wrapped
<1>2. CASE a + b >= C
  <2>1. a + b - C \in 0 .. (C - 1)
    BY <1>2
  <2>2. a + b = C + (a + b - C)
    OBVIOUS
  <2> QED BY <1>2, <2>1, <2>2 DEF Wrapped
<1> QED BY <1>1, <1>2

-----------------------------------------------------------------------------
(* The inductive invariant *)

\* How far slot i is behind the head.
Offset(i) == IF i >= head THEN i - head ELSE i - head + capacity

\* tail is the slot that follows the last message.
TailInv == capacity > 0 => tail = Wrapped(head, size, capacity)

\* A slot holds a message exactly when its offset is less than size.
OwnedInv == \A i \in Slots(capacity) : items[i] # NULL <=> Offset(i) < size

IInv == TypeOK /\ TailInv /\ OwnedInv

-----------------------------------------------------------------------------

\* Succ on an index of the ring, without modulus.
LEMMA SuccWrap ==
  ASSUME TypeOK, capacity > 0, NEW i \in Slots(capacity)
  PROVE  /\ Succ(i) = IF i + 1 < capacity THEN i + 1 ELSE 0
         /\ Succ(i) \in Slots(capacity)
<1>1. capacity \in Nat \ {0} /\ i \in 0 .. (capacity - 1) /\ 1 \in 0 .. capacity
  BY CapacityAssumption DEF TypeOK, Slots
<1>2. Succ(i) = Wrapped(i, 1, capacity)
  BY <1>1, ModWrap DEF Succ
<1> QED BY <1>1, <1>2 DEF Wrapped, Slots

\* Slot on a distance of at most capacity, without modulus.
LEMMA SlotWrap ==
  ASSUME TypeOK, capacity > 0, NEW i \in 0 .. capacity
  PROVE  /\ Slot(i) = Wrapped(head, i, capacity)
         /\ Slot(i) \in Slots(capacity)
         /\ i < capacity => Offset(Slot(i)) = i
<1>1. capacity \in Nat \ {0} /\ head \in 0 .. (capacity - 1)
  BY CapacityAssumption DEF TypeOK, Slots
<1>2. Slot(i) = Wrapped(head, i, capacity)
  BY <1>1, ModWrap DEF Slot
<1> QED BY <1>1, <1>2 DEF Wrapped, Slots, Offset

\* The window of queued slots, slot by slot.
LEMMA WindowOffset ==
  ASSUME TypeOK, capacity > 0, NEW i \in Slots(capacity)
  PROVE  i \in Window <=> Offset(i) < size
<1>1. /\ capacity \in Nat \ {0} /\ head \in 0 .. (capacity - 1)
      /\ i \in 0 .. (capacity - 1) /\ size \in 0 .. capacity
  BY CapacityAssumption DEF TypeOK, Slots
<1>2. ASSUME i \in Window PROVE Offset(i) < size
  <2>1. PICK j \in 0 .. (size - 1) : i = Slot(j)
    BY <1>2 DEF Window
  <2>2. j \in 0 .. capacity /\ j < capacity
    BY <1>1
  <2>3. Offset(Slot(j)) = j
    BY <2>2, SlotWrap
  <2> QED BY <1>1, <2>1, <2>3
<1>3. ASSUME Offset(i) < size PROVE i \in Window
  <2>1. Offset(i) \in 0 .. (size - 1) /\ Offset(i) \in 0 .. capacity
    BY <1>1, <1>3 DEF Offset
  <2>2. Slot(Offset(i)) = Wrapped(head, Offset(i), capacity)
    BY <2>1, SlotWrap
  <2>3. Slot(Offset(i)) = i
    BY <2>2, <1>1 DEF Offset, Wrapped
  <2> QED BY <2>1, <2>3 DEF Window
<1> QED BY <1>2, <1>3

-----------------------------------------------------------------------------

LEMMA InitIInv == Init => IInv
  BY CapacityAssumption, MaxEnqueuedAssumption
     DEF Init, IInv, TypeOK, TailInv, OwnedInv, Slots

\* What rtw_queue_push has in hand after it made room: the invariant again,
\* with a free slot at tail.
LEMMA RoomMade ==
  ASSUME IInv, capacity > 0
  PROVE  /\ ItemsWithRoom \in [Slots(capacity) -> Item \cup {NULL}]
         /\ HeadWithRoom \in Slots(capacity)
         /\ SizeWithRoom \in 0 .. (capacity - 1)
         /\ DropsWithRoom \in Nat
         /\ tail = Wrapped(HeadWithRoom, SizeWithRoom, capacity)
         /\ tail \in Slots(capacity)
         /\ Succ(tail) = Wrapped(HeadWithRoom, SizeWithRoom + 1, capacity)
         /\ Succ(tail) \in Slots(capacity)
         /\ \A i \in Slots(capacity) :
              ItemsWithRoom[i] # NULL <=>
                (IF i >= HeadWithRoom THEN i - HeadWithRoom
                 ELSE i - HeadWithRoom + capacity) < SizeWithRoom
<1>1. /\ capacity \in Nat \ {0} /\ head \in 0 .. (capacity - 1)
      /\ tail \in 0 .. (capacity - 1) /\ size \in 0 .. capacity
      /\ drops \in Nat
      /\ items \in [0 .. (capacity - 1) -> Item \cup {NULL}]
      /\ tail = Wrapped(head, size, capacity)
      /\ \A i \in 0 .. (capacity - 1) :
           items[i] # NULL <=>
             (IF i >= head THEN i - head ELSE i - head + capacity) < size
  BY CapacityAssumption DEF IInv, TypeOK, TailInv, OwnedInv, Slots, Offset
<1>2. /\ Succ(head) = IF head + 1 < capacity THEN head + 1 ELSE 0
      /\ Succ(tail) = IF tail + 1 < capacity THEN tail + 1 ELSE 0
  BY <1>1, SuccWrap DEF IInv, Slots
<1>3. CASE ~Full
  BY <1>1, <1>2, <1>3 DEF Full, ItemsWithRoom, HeadWithRoom, SizeWithRoom,
     DropsWithRoom, Wrapped, Slots
<1>4. CASE Full
  <2>1. /\ ItemsWithRoom = [items EXCEPT ![head] = NULL]
        /\ HeadWithRoom = IF head + 1 < capacity THEN head + 1 ELSE 0
        /\ SizeWithRoom = capacity - 1
        /\ DropsWithRoom = drops + 1
        /\ tail = head /\ size = capacity
    BY <1>1, <1>2, <1>4 DEF Full, ItemsWithRoom, HeadWithRoom, SizeWithRoom,
       DropsWithRoom, FreeSlot, Wrapped
  <2> QED BY <1>1, <1>2, <2>1 DEF Wrapped, Slots
<1> QED BY <1>3, <1>4

\* Taking the head out of the ring, as pop and drop_head do.
LEMMA HeadTaken ==
  ASSUME IInv, size > 0, items' = [items EXCEPT ![head] = NULL],
         head' = Succ(head), size' = size - 1, tail' = tail,
         capacity' = capacity, drops' = drops, enqueued' = enqueued,
         out' \in Item \cup {NULL}
  PROVE  IInv'
<1>1. /\ capacity \in Nat \ {0} /\ head \in 0 .. (capacity - 1)
      /\ tail \in 0 .. (capacity - 1) /\ size \in 0 .. capacity
      /\ items \in [0 .. (capacity - 1) -> Item \cup {NULL}]
      /\ tail = Wrapped(head, size, capacity)
      /\ \A i \in 0 .. (capacity - 1) :
           items[i] # NULL <=>
             (IF i >= head THEN i - head ELSE i - head + capacity) < size
  BY CapacityAssumption DEF IInv, TypeOK, TailInv, OwnedInv, Slots, Offset
<1>2. head' = IF head + 1 < capacity THEN head + 1 ELSE 0
  BY <1>1, SuccWrap DEF IInv, Slots
<1>3. TypeOK'
  BY <1>1, <1>2 DEF IInv, TypeOK, Slots
<1>4. TailInv'
  BY <1>1, <1>2 DEF TailInv, Wrapped
<1>5. OwnedInv'
  BY <1>1, <1>2 DEF OwnedInv, Offset, Slots
<1> QED BY <1>3, <1>4, <1>5 DEF IInv

LEMMA StepIInv == IInv /\ [Next]_vars => IInv'
<1> SUFFICES ASSUME IInv, [Next]_vars PROVE IInv'
  OBVIOUS
<1>1. CASE QueueInit
  BY <1>1, CapacityAssumption, MaxEnqueuedAssumption
     DEF QueueInit, IInv, TypeOK, TailInv, OwnedInv, Slots, Offset, Wrapped
<1>2. ASSUME NEW x \in Item, Push(x) PROVE IInv'
  <2>1. capacity > 0 /\ capacity \in Nat \ {0} /\ enqueued' \in 0 .. MaxEnqueued
        /\ capacity' = capacity /\ capacity \in {0, Capacity}
        /\ out' \in Item \cup {NULL}
    BY <1>2, CapacityAssumption, MaxEnqueuedAssumption DEF Push, IInv, TypeOK
  <2>2. items' \in [Slots(capacity) -> Item \cup {NULL}]
    BY <1>2, <2>1, RoomMade DEF Push
  <2>3. TypeOK'
    BY <1>2, <2>1, <2>2, RoomMade DEF Push, TypeOK, Slots
  <2>4. TailInv'
    BY <1>2, <2>1, RoomMade DEF Push, TailInv
  <2>5. OwnedInv'
    <3> SUFFICES ASSUME NEW i \in Slots(capacity)
                 PROVE  items'[i] # NULL <=> Offset(i)' < size'
      BY <2>1 DEF OwnedInv, Slots
    <3>1. /\ HeadWithRoom \in 0 .. (capacity - 1)
          /\ SizeWithRoom \in 0 .. (capacity - 1)
          /\ tail = Wrapped(HeadWithRoom, SizeWithRoom, capacity)
          /\ i \in 0 .. (capacity - 1)
          /\ head' = HeadWithRoom /\ size' = SizeWithRoom + 1
      BY <1>2, <2>1, RoomMade DEF Push, Slots
    <3>2. items'[i] = IF i = tail THEN x ELSE ItemsWithRoom[i]
      BY <1>2, <2>1, RoomMade DEF Push
    <3>3. Offset(i)' = IF i >= HeadWithRoom THEN i - HeadWithRoom
                       ELSE i - HeadWithRoom + capacity
      BY <2>1, <3>1 DEF Offset
    <3>4. i = tail <=> Offset(i)' = SizeWithRoom
      BY <2>1, <3>1, <3>3 DEF Wrapped
    <3>5. ItemsWithRoom[i] # NULL <=> Offset(i)' < SizeWithRoom
      BY <2>1, <3>3, RoomMade
    <3>6. Offset(i)' \in Nat
      BY <2>1, <3>1, <3>3
    <3> QED BY <3>1, <3>2, <3>4, <3>5, <3>6, NullAssumption
  <2> QED BY <2>3, <2>4, <2>5 DEF IInv
<1>3. CASE PushFails
  <2>1. capacity > 0 /\ capacity \in Nat \ {0} /\ enqueued' \in 0 .. MaxEnqueued
        /\ capacity' = capacity /\ capacity \in {0, Capacity}
        /\ out' \in Item \cup {NULL}
    BY <1>3, CapacityAssumption, MaxEnqueuedAssumption DEF PushFails, IInv, TypeOK
  <2>2. TypeOK'
    BY <1>3, <2>1, RoomMade DEF PushFails, TypeOK, Slots
  <2>3. TailInv'
    BY <1>3, <2>1, RoomMade DEF PushFails, TailInv
  <2>4. OwnedInv'
    BY <1>3, <2>1, RoomMade DEF PushFails, OwnedInv, Offset, Slots
  <2> QED BY <2>2, <2>3, <2>4 DEF IInv
<1>4. CASE Pop
  <2>1. out' \in Item \cup {NULL}
    BY <1>4, CapacityAssumption DEF Pop, IInv, TypeOK, Slots
  <2> QED BY <1>4, <2>1, HeadTaken DEF Pop
<1>5. CASE Peek
  <2>1. out' \in Item \cup {NULL}
    BY <1>5, CapacityAssumption DEF Peek, IInv, TypeOK, Slots
  <2> QED BY <1>5, <2>1 DEF Peek, IInv, TypeOK, TailInv, OwnedInv, Offset, Slots
<1>6. CASE DropHead
  <2>1. out' \in Item \cup {NULL}
    BY <1>6 DEF DropHead, IInv, TypeOK
  <2> QED BY <1>6, <2>1, HeadTaken DEF DropHead, FreeSlot
<1>7. CASE Destroy
  BY <1>7, CapacityAssumption, MaxEnqueuedAssumption
     DEF Destroy, IInv, TypeOK, TailInv, OwnedInv, Slots, Offset, Wrapped
<1>8. CASE UNCHANGED vars
  BY <1>8 DEF vars, IInv, TypeOK, TailInv, OwnedInv, Offset, Slots
<1> QED BY <1>1, <1>2, <1>3, <1>4, <1>5, <1>6, <1>7, <1>8 DEF Next

\* Head and tail never leave the array and size never exceeds the capacity,
\* whatever the capacity.
THEOREM TypeCorrect == Spec => []TypeOK
<1>1. IInv => TypeOK
  BY DEF IInv
<1> QED BY <1>1, InitIInv, StepIInv, PTL DEF Spec

\* A copy is owned by exactly the slots between head and tail: nothing is
\* leaked by an overwrite and nothing queued is NULL.
THEOREM SlotsAreOwned == Spec => []SlotsOwned
<1>1. IInv => SlotsOwned
  <2> SUFFICES ASSUME IInv, NEW i \in Slots(capacity)
               PROVE  items[i] # NULL <=> i \in Window
    BY DEF SlotsOwned
  <2>1. capacity > 0
    BY CapacityAssumption DEF IInv, TypeOK, Slots
  <2> QED BY <2>1, WindowOffset DEF IInv, OwnedInv
<1> QED BY <1>1, InitIInv, StepIInv, PTL DEF Spec

-----------------------------------------------------------------------------

\* Contents is a sequence of messages, as long as size says.
ContentsOK ==
  /\ Contents \in Seq(Item)
  /\ Len(Contents) = size
  /\ \A j \in 1 .. size : Contents[j] = items[Wrapped(head, j - 1, capacity)]

LEMMA ContentsIsSeq == IInv => ContentsOK
<1> SUFFICES ASSUME IInv PROVE ContentsOK
  OBVIOUS
<1>1. size \in Nat
  BY CapacityAssumption DEF IInv, TypeOK
<1>2. ASSUME NEW j \in 1 .. size
      PROVE  /\ items[Slot(j - 1)] \in Item
             /\ items[Slot(j - 1)] = items[Wrapped(head, j - 1, capacity)]
  <2>1. capacity > 0 /\ j - 1 \in 0 .. capacity /\ j - 1 < capacity
        /\ size \in Nat /\ j - 1 < size
    BY <1>2, CapacityAssumption DEF IInv, TypeOK
  <2>2. /\ Slot(j - 1) = Wrapped(head, j - 1, capacity)
        /\ Slot(j - 1) \in Slots(capacity)
        /\ Offset(Slot(j - 1)) = j - 1
    BY <2>1, SlotWrap DEF IInv
  <2>3. items[Slot(j - 1)] # NULL
    BY <2>1, <2>2 DEF IInv, OwnedInv
  <2> QED BY <2>2, <2>3 DEF IInv, TypeOK
<1>3. Contents \in [1 .. size -> Item]
  BY <1>2 DEF Contents
<1>4. Contents \in Seq(Item)
  BY <1>1, <1>3
<1>5. Len(Contents) = size
  BY <1>1, <1>3, <1>4
<1> QED BY <1>2, <1>4, <1>5 DEF Contents, ContentsOK

\* Taking the head out of the ring takes the head off the sequence.
LEMMA HeadOff ==
  ASSUME IInv, IInv', size > 0, items' = [items EXCEPT ![head] = NULL],
         head' = Succ(head), size' = size - 1, capacity' = capacity
  PROVE  /\ Contents # <<>>
         /\ items[head] = Head(Contents)
         /\ Contents' = Tail(Contents)
<1>1. /\ capacity \in Nat \ {0} /\ head \in 0 .. (capacity - 1)
      /\ size \in 1 .. capacity
      /\ items \in [0 .. (capacity - 1) -> Item \cup {NULL}]
  BY CapacityAssumption DEF IInv, TypeOK, Slots
<1>2. head' = IF head + 1 < capacity THEN head + 1 ELSE 0
  BY <1>1, SuccWrap DEF IInv, Slots
<1>3. /\ Contents \in Seq(Item) /\ Len(Contents) = size
      /\ \A j \in 1 .. size :
           Contents[j] = items[Wrapped(head, j - 1, capacity)]
  BY ContentsIsSeq DEF ContentsOK
<1>4. /\ Contents' \in Seq(Item) /\ Len(Contents') = size - 1
      /\ \A j \in 1 .. (size - 1) :
           Contents'[j] = items'[Wrapped(head', j - 1, capacity)]
  <2>1. ContentsOK'
    BY ContentsIsSeq, PTL
  <2> QED BY <2>1 DEF ContentsOK
<1>5. Contents # <<>>
  BY <1>1, <1>3
<1>6. items[head] = Head(Contents)
  BY <1>1, <1>3, <1>5 DEF Wrapped
<1>7. Tail(Contents) \in Seq(Item) /\ Len(Tail(Contents)) = size - 1
  BY <1>1, <1>3, <1>5
<1>8. ASSUME NEW j \in 1 .. (size - 1) PROVE Contents'[j] = Tail(Contents)[j]
  <2>1. Tail(Contents)[j] = Contents[j + 1]
    BY <1>1, <1>3, <1>5
  <2>2. Contents[j + 1] = items[Wrapped(head, j, capacity)]
    BY <1>1, <1>3
  <2>3. Wrapped(head, j, capacity) = Wrapped(head', j - 1, capacity)
    BY <1>1, <1>2 DEF Wrapped
  <2>4. Wrapped(head, j, capacity) \in 0 .. (capacity - 1)
        /\ Wrapped(head, j, capacity) # head
    BY <1>1 DEF Wrapped
  <2>5. Contents'[j] = items[Wrapped(head, j, capacity)]
    BY <1>1, <1>4, <2>3, <2>4
  <2> QED BY <2>1, <2>2, <2>5
<1>9. Contents' = Tail(Contents)
  BY <1>1, <1>4, <1>7, <1>8, SeqEqual
<1> QED BY <1>5, <1>6, <1>9

\* The messages of the ring once rtw_queue_push has made room for one more.
ContentsWithRoom ==
  [i \in 1 .. SizeWithRoom |->
     ItemsWithRoom[Wrapped(HeadWithRoom, i - 1, capacity)]]

LEMMA RoomIsEvicted ==
  ASSUME IInv, capacity > 0
  PROVE  /\ ContentsWithRoom = Abstract!Evicted(Contents)
         /\ ContentsWithRoom \in Seq(Item)
         /\ Len(ContentsWithRoom) = SizeWithRoom
         /\ DropsWithRoom = drops + Abstract!Evictions(Contents)
<1>1. /\ capacity \in Nat \ {0} /\ head \in 0 .. (capacity - 1)
      /\ size \in 0 .. capacity /\ capacity = Capacity /\ drops \in Nat
      /\ items \in [0 .. (capacity - 1) -> Item \cup {NULL}]
  BY CapacityAssumption DEF IInv, TypeOK, Slots
<1>2. /\ Contents \in Seq(Item) /\ Len(Contents) = size
      /\ \A j \in 1 .. size :
           Contents[j] = items[Wrapped(head, j - 1, capacity)]
  BY ContentsIsSeq DEF ContentsOK
<1>3. CASE ~Full
  <2>1. ContentsWithRoom =
          [i \in 1 .. size |-> items[Wrapped(head, i - 1, capacity)]]
    BY <1>3 DEF ContentsWithRoom, SizeWithRoom, ItemsWithRoom, HeadWithRoom
  <2>2. Contents = [i \in 1 .. size |-> Contents[i]]
    BY DEF Contents
  <2>3. ContentsWithRoom = Contents
    BY <1>2, <2>1, <2>2
  <2> QED BY <1>1, <1>2, <1>3, <2>3
          DEF Full, SizeWithRoom, DropsWithRoom, Abstract!Evicted, Abstract!Evictions
<1>4. CASE Full
  <2>1. /\ ItemsWithRoom = [items EXCEPT ![head] = NULL]
        /\ HeadWithRoom = IF head + 1 < capacity THEN head + 1 ELSE 0
        /\ SizeWithRoom = size - 1 /\ size = capacity
        /\ DropsWithRoom = drops + 1
    BY <1>1, <1>4, SuccWrap DEF Full, ItemsWithRoom, HeadWithRoom, SizeWithRoom,
       DropsWithRoom, FreeSlot, IInv, Slots
  <2>2. Tail(Contents) \in Seq(Item) /\ Len(Tail(Contents)) = size - 1
    BY <1>1, <1>2, <2>1
  <2>3. ASSUME NEW j \in 1 .. (size - 1)
        PROVE  Tail(Contents)[j] =
                 ItemsWithRoom[Wrapped(HeadWithRoom, j - 1, capacity)]
    <3>1. Tail(Contents)[j] = Contents[j + 1]
      BY <1>1, <1>2, <2>1
    <3>2. Contents[j + 1] = items[Wrapped(head, j, capacity)]
      BY <1>1, <1>2
    <3>3. Wrapped(head, j, capacity) = Wrapped(HeadWithRoom, j - 1, capacity)
      BY <1>1, <2>1 DEF Wrapped
    <3>4. Wrapped(head, j, capacity) \in 0 .. (capacity - 1)
          /\ Wrapped(head, j, capacity) # head
      BY <1>1, <2>1 DEF Wrapped
    <3> QED BY <1>1, <2>1, <3>1, <3>2, <3>3, <3>4
  <2>4. Tail(Contents) = [i \in 1 .. (size - 1) |-> Tail(Contents)[i]]
    <3>1. Tail(Contents) \in [1 .. (size - 1) -> Item]
      BY <2>2, LenProperties
    <3> QED BY <3>1
  <2>5. ContentsWithRoom = Tail(Contents)
    BY <2>1, <2>3, <2>4 DEF ContentsWithRoom
  <2> QED BY <1>1, <1>2, <2>1, <2>2, <2>5
          DEF Abstract!Evicted, Abstract!Evictions
<1> QED BY <1>3, <1>4

\* After a successful push the sequence has the new message at its end.
LEMMA PushAppends ==
  ASSUME IInv, IInv', NEW x \in Item, Push(x)
  PROVE  Contents' = Append(Abstract!Evicted(Contents), x)
<1>1. /\ capacity \in Nat \ {0} /\ capacity > 0 /\ capacity' = capacity
      /\ size' = SizeWithRoom + 1 /\ head' = HeadWithRoom
      /\ items' = [ItemsWithRoom EXCEPT ![tail] = x]
  BY CapacityAssumption DEF Push, IInv, TypeOK
<1>2. /\ SizeWithRoom \in 0 .. (capacity - 1) /\ HeadWithRoom \in 0 .. (capacity - 1)
      /\ ItemsWithRoom \in [0 .. (capacity - 1) -> Item \cup {NULL}]
      /\ tail = Wrapped(HeadWithRoom, SizeWithRoom, capacity)
      /\ tail \in 0 .. (capacity - 1)
  BY <1>1, RoomMade DEF Slots
<1>3. /\ Contents' \in Seq(Item) /\ Len(Contents') = SizeWithRoom + 1
      /\ \A j \in 1 .. (SizeWithRoom + 1) :
           Contents'[j] = items'[Wrapped(HeadWithRoom, j - 1, capacity)]
  <2>1. ContentsOK'
    BY ContentsIsSeq, PTL
  <2> QED BY <1>1, <2>1 DEF ContentsOK
<1>4. ContentsWithRoom \in Seq(Item) /\ Len(ContentsWithRoom) = SizeWithRoom
  BY <1>1, RoomIsEvicted
<1>5. /\ Append(ContentsWithRoom, x) \in Seq(Item)
      /\ Len(Append(ContentsWithRoom, x)) = SizeWithRoom + 1
      /\ \A j \in 1 .. SizeWithRoom :
           Append(ContentsWithRoom, x)[j] = ContentsWithRoom[j]
      /\ Append(ContentsWithRoom, x)[SizeWithRoom + 1] = x
  BY <1>4, AppendProperties
<1>6. ASSUME NEW j \in 1 .. (SizeWithRoom + 1)
      PROVE  Contents'[j] = Append(ContentsWithRoom, x)[j]
  <2>1. Wrapped(HeadWithRoom, j - 1, capacity) \in 0 .. (capacity - 1)
        /\ (Wrapped(HeadWithRoom, j - 1, capacity) = tail <=> j = SizeWithRoom + 1)
    BY <1>1, <1>2 DEF Wrapped
  <2>2. CASE j = SizeWithRoom + 1
    <3>1. Contents'[j] = items'[tail]
      BY <1>3, <2>1, <2>2
    <3>2. items'[tail] = x
      BY <1>1, <1>2
    <3> QED BY <1>5, <2>2, <3>1, <3>2
  <2>3. CASE j # SizeWithRoom + 1
    <3>1. j \in 1 .. SizeWithRoom
      BY <1>2, <2>3
    <3>2. ContentsWithRoom[j] = ItemsWithRoom[Wrapped(HeadWithRoom, j - 1, capacity)]
      BY <3>1 DEF ContentsWithRoom
    <3>3. Contents'[j] = ItemsWithRoom[Wrapped(HeadWithRoom, j - 1, capacity)]
      BY <1>1, <1>2, <1>3, <2>1, <2>3
    <3> QED BY <1>5, <3>1, <3>2, <3>3
  <2> QED BY <2>2, <2>3
<1>7. Contents' = Append(ContentsWithRoom, x)
  BY <1>2, <1>3, <1>5, <1>6, SeqEqual
<1> QED BY <1>1, <1>7, RoomIsEvicted

\* After a failed push the sequence is what eviction left of it.
LEMMA FailedPushEvicts ==
  ASSUME IInv, IInv', PushFails
  PROVE  Contents' = Abstract!Evicted(Contents)
<1>1. /\ capacity \in Nat \ {0} /\ capacity > 0 /\ capacity' = capacity
      /\ size' = SizeWithRoom /\ head' = HeadWithRoom
      /\ items' = ItemsWithRoom /\ SizeWithRoom \in Nat
  BY CapacityAssumption, RoomMade DEF PushFails, IInv, TypeOK
<1>2. /\ Contents' \in Seq(Item) /\ Len(Contents') = SizeWithRoom
      /\ \A j \in 1 .. SizeWithRoom :
           Contents'[j] = ItemsWithRoom[Wrapped(HeadWithRoom, j - 1, capacity)]
  <2>1. ContentsOK'
    BY ContentsIsSeq, PTL
  <2> QED BY <1>1, <2>1 DEF ContentsOK
<1>3. ContentsWithRoom \in Seq(Item) /\ Len(ContentsWithRoom) = SizeWithRoom
  BY <1>1, RoomIsEvicted
<1>4. \A j \in 1 .. SizeWithRoom : Contents'[j] = ContentsWithRoom[j]
  BY <1>2 DEF ContentsWithRoom
<1>5. Contents' = ContentsWithRoom
  BY <1>1, <1>2, <1>3, <1>4, SeqEqual
<1> QED BY <1>1, <1>5, RoomIsEvicted

LEMMA InitRefines == Init => Abstract!Init
<1> SUFFICES ASSUME Init PROVE Abstract!Init
  OBVIOUS
<1>1. Contents = <<>>
  <2>1. ContentsOK /\ size = 0
    BY InitIInv, ContentsIsSeq DEF Init
  <2> QED BY <2>1, EmptySeq DEF ContentsOK
<1> QED BY <1>1 DEF Init, Abstract!Init

LEMMA StepRefines ==
  IInv /\ IInv' /\ [Next]_vars => [Abstract!Next]_(Abstract!vars)
<1> SUFFICES ASSUME IInv, IInv', [Next]_vars
             PROVE  Abstract!Next \/ UNCHANGED Abstract!vars
  OBVIOUS
<1>a. ContentsOK /\ ContentsOK'
  BY ContentsIsSeq, PTL
<1>1. CASE QueueInit
  <2>1. Contents' = <<>>
    BY <1>1, <1>a, EmptySeq DEF ContentsOK, QueueInit
  <2>2. Abstract!Open
    BY <1>1, <2>1, CapacityAssumption DEF QueueInit, Abstract!Open
  <2> QED BY <2>2 DEF Abstract!Next
<1>2. ASSUME NEW x \in Item, Push(x) PROVE Abstract!Next
  <2>1. Contents' = Append(Abstract!Evicted(Contents), x)
    BY <1>2, PushAppends
  <2>2. drops' = drops + Abstract!Evictions(Contents)
    BY <1>2, RoomIsEvicted DEF Push
  <2>3. Abstract!Push(x)
    BY <1>2, <2>1, <2>2 DEF Push, Abstract!Push
  <2> QED BY <2>3 DEF Abstract!Next
<1>3. CASE PushFails
  <2>1. Contents' = Abstract!Evicted(Contents)
    BY <1>3, FailedPushEvicts
  <2>2. drops' = drops + Abstract!Evictions(Contents)
    BY <1>3, RoomIsEvicted DEF PushFails
  <2>3. Abstract!PushFails
    BY <1>3, <2>1, <2>2 DEF PushFails, Abstract!PushFails
  <2> QED BY <2>3 DEF Abstract!Next
<1>4. CASE Pop
  <2>1. Contents # <<>> /\ items[head] = Head(Contents) /\ Contents' = Tail(Contents)
    BY <1>4, HeadOff DEF Pop
  <2>2. Abstract!Pop
    BY <1>4, <2>1 DEF Pop, Abstract!Pop
  <2> QED BY <2>2 DEF Abstract!Next
<1>5. CASE Peek
  <2>1. /\ capacity \in Nat \ {0} /\ head \in 0 .. (capacity - 1)
        /\ size \in 1 .. capacity
    BY <1>5, CapacityAssumption DEF Peek, IInv, TypeOK, Slots
  <2>2. Contents # <<>> /\ Contents[1] = items[head]
    BY <1>a, <2>1, EmptySeq DEF ContentsOK, Wrapped
  <2>3. Contents' = Contents
    BY <1>5 DEF Peek, Contents, Slot
  <2>4. items[head] = Head(Contents)
    BY <1>a, <2>2 DEF ContentsOK
  <2>5. Abstract!Peek
    BY <1>5, <2>2, <2>3, <2>4 DEF Peek, Abstract!Peek
  <2> QED BY <2>5 DEF Abstract!Next
<1>6. CASE DropHead
  <2>1. Contents # <<>> /\ Contents' = Tail(Contents)
    BY <1>6, HeadOff DEF DropHead, FreeSlot
  <2>2. Abstract!DropHead
    BY <1>6, <2>1 DEF DropHead, Abstract!DropHead
  <2> QED BY <2>2 DEF Abstract!Next
<1>7. CASE Destroy
  <2>1. Contents' = <<>>
    BY <1>7, <1>a, EmptySeq DEF ContentsOK, Destroy
  <2>2. Abstract!Close
    BY <1>7, <2>1 DEF Destroy, Abstract!Close
  <2> QED BY <2>2 DEF Abstract!Next
<1>8. CASE UNCHANGED vars
  BY <1>8 DEF vars, Abstract!vars, Contents, Slot
<1> QED BY <1>1, <1>2, <1>3, <1>4, <1>5, <1>6, <1>7, <1>8 DEF Next

\* The ring of rtw_queue.c implements the FIFO that drops its oldest message,
\* for every capacity and every sequence of calls, failed pushes included.
THEOREM RingRefinesQueue == Spec => Refines
<1>1. Spec => []IInv
  BY InitIInv, StepIInv, PTL DEF Spec
<1> QED BY <1>1, InitRefines, StepRefines, PTL DEF Spec, Refines, Abstract!Spec
=============================================================================
