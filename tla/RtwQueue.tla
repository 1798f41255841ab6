------------------------------ MODULE RtwQueue ------------------------------
(***************************************************************************)
(* The ring buffer of src/core/rtw_queue.c: an array of slots, each        *)
(* holding an owned copy of a message or NULL, a head, a tail and a size.  *)
(* One action per function; a call that returns -1 without touching the    *)
(* struct is a stuttering step and has no action.                          *)
(***************************************************************************)
EXTENDS Naturals, Sequences

CONSTANTS
  Item,          \* the messages that can be queued
  NULL,          \* the null pointer: an empty slot, or nothing handed out
  Capacity,      \* the capacity given to rtw_queue_init
  MaxEnqueued    \* bound on the pushes of one life of the queue

ASSUME CapacityAssumption == Capacity \in Nat \ {0}
ASSUME NullAssumption == NULL \notin Item
ASSUME MaxEnqueuedAssumption == MaxEnqueued \in Nat

VARIABLES
  items,         \* the slots, 0 .. capacity - 1 (none before init)
  head, tail, size,
  capacity,      \* 0 in a zeroed struct, Capacity once initialised
  drops, enqueued,
  out            \* what the last pop or peek stored through its out parameter

vars == <<items, head, tail, size, capacity, drops, enqueued, out>>

Slots(n) == 0 .. (n - 1)

-----------------------------------------------------------------------------

\* The struct is zeroed by its owner (rtw_session_init) before it is set up.
Init ==
  /\ items = [i \in Slots(0) |-> NULL]
  /\ head = 0 /\ tail = 0 /\ size = 0
  /\ capacity = 0
  /\ drops = 0 /\ enqueued = 0
  /\ out = NULL

\* rtw_queue_init: calloc leaves every slot NULL.
QueueInit ==
  /\ capacity = 0
  /\ items' = [i \in Slots(Capacity) |-> NULL]
  /\ head' = 0 /\ tail' = 0 /\ size' = 0
  /\ capacity' = Capacity
  /\ drops' = 0 /\ enqueued' = 0
  /\ UNCHANGED out

\* Mutant: makes room although one slot is still free.
FullBug == size + 1 = capacity

\* rtw_queue_push makes room for the new message when every slot is taken.
Full == size = capacity

\* Mutant: forgets to reset the freed slot to NULL.
FreeSlotBug(slots, i) == slots

FreeSlot(slots, i) == [slots EXCEPT ![i] = NULL]

Succ(i) == (i + 1) % capacity

\* The fields of the struct once room has been made for one more message.
ItemsWithRoom == IF Full THEN FreeSlot(items, head) ELSE items

HeadWithRoom == IF Full THEN Succ(head) ELSE head

SizeWithRoom == IF Full THEN size - 1 ELSE size

DropsWithRoom == IF Full THEN drops + 1 ELSE drops

\* rtw_queue_push, when there is memory for the copy of the message.
\* Its callers only push to an initialised queue.
Push(x) ==
  /\ capacity > 0
  /\ enqueued < MaxEnqueued
  /\ items' = [ItemsWithRoom EXCEPT ![tail] = x]
  /\ head' = HeadWithRoom
  /\ tail' = Succ(tail)
  /\ size' = SizeWithRoom + 1
  /\ drops' = DropsWithRoom
  /\ enqueued' = enqueued + 1
  /\ UNCHANGED <<capacity, out>>

\* rtw_queue_push, when malloc fails: the oldest message is gone already.
PushFails ==
  /\ capacity > 0
  /\ items' = ItemsWithRoom
  /\ head' = HeadWithRoom
  /\ size' = SizeWithRoom
  /\ drops' = DropsWithRoom
  /\ UNCHANGED <<tail, capacity, enqueued, out>>

\* rtw_queue_pop: the caller takes the copy over, its slot becomes NULL.
Pop ==
  /\ size > 0
  /\ out' = items[head]
  /\ items' = [items EXCEPT ![head] = NULL]
  /\ head' = Succ(head)
  /\ size' = size - 1
  /\ UNCHANGED <<tail, capacity, drops, enqueued>>

\* rtw_queue_peek
Peek ==
  /\ size > 0
  /\ out' = items[head]
  /\ UNCHANGED <<items, head, tail, size, capacity, drops, enqueued>>

\* rtw_queue_drop_head
DropHead ==
  /\ size > 0
  /\ items' = FreeSlot(items, head)
  /\ head' = Succ(head)
  /\ size' = size - 1
  /\ UNCHANGED <<tail, capacity, drops, enqueued, out>>

\* rtw_queue_destroy: every slot is freed, then the struct is zeroed.
Destroy ==
  /\ capacity > 0
  /\ items' = [i \in Slots(0) |-> NULL]
  /\ head' = 0 /\ tail' = 0 /\ size' = 0
  /\ capacity' = 0
  /\ drops' = 0 /\ enqueued' = 0
  /\ UNCHANGED out

Next ==
  \/ QueueInit
  \/ \E x \in Item : Push(x)
  \/ PushFails
  \/ Pop
  \/ Peek
  \/ DropHead
  \/ Destroy

Spec == Init /\ [][Next]_vars

-----------------------------------------------------------------------------

\* The types of the fields; an index never leaves the array.
TypeOK ==
  /\ capacity \in {0, Capacity}
  /\ items \in [Slots(capacity) -> Item \cup {NULL}]
  /\ head \in Nat /\ tail \in Nat
  /\ size \in 0 .. capacity
  /\ capacity > 0 => head \in Slots(capacity) /\ tail \in Slots(capacity)
  /\ drops \in Nat /\ enqueued \in 0 .. MaxEnqueued
  /\ out \in Item \cup {NULL}

\* The slot of the i-th queued message, counted from 0 at the head.
Slot(i) == (head + i) % capacity

Window == {Slot(i) : i \in 0 .. (size - 1)}

\* A slot holds a copy exactly when it is one of the size slots that follow
\* head: no copy is leaked by an overwrite or left behind (free_slot and the
\* slot reset of rtw_queue_pop), and no queued slot is a NULL that
\* rtw_queue_peek would hand to the sender.
SlotsOwned == \A i \in Slots(capacity) : items[i] # NULL <=> i \in Window

-----------------------------------------------------------------------------

\* The messages in the queue, oldest first.
Contents == [i \in 1 .. size |-> items[Slot(i - 1)]]

Abstract == INSTANCE DropOldestQueue WITH
              NoItem <- NULL, open <- capacity > 0, queue <- Contents

\* Whatever the sequence of calls, across every wrap of head and tail, the
\* ring behaves as the FIFO that drops its oldest message.
Refines == Abstract!Spec
=============================================================================
