-------------------------- MODULE DropOldestQueue --------------------------
(***************************************************************************)
(* What the outbound queue of a session promises (rtw_queue.h): a FIFO of  *)
(* at most Capacity messages that, when it is full, drops its OLDEST       *)
(* message to make room for a new one.  RtwQueue, the ring buffer of       *)
(* rtw_queue.c, implements this specification, and RtwSession is built on  *)
(* its operators.                                                          *)
(***************************************************************************)
EXTENDS Naturals, Sequences

CONSTANTS
  Item,          \* the messages that can be queued
  NoItem,        \* stands for "no message handed out yet"
  Capacity,      \* the capacity given to rtw_queue_init
  MaxEnqueued    \* bound on the pushes of one life of the queue

VARIABLES
  open,          \* between rtw_queue_init and rtw_queue_destroy
  queue,         \* the queued messages, oldest first
  drops,         \* messages dropped to make room
  enqueued,      \* messages accepted
  out            \* the message the last pop or peek handed to its caller

vars == <<open, queue, drops, enqueued, out>>

-----------------------------------------------------------------------------

\* The queue q after room has been made for one more message.
Evicted(q) == IF Len(q) = Capacity THEN Tail(q) ELSE q

\* How many messages making room in q drops: none or one.
Evictions(q) == IF Len(q) = Capacity THEN 1 ELSE 0

-----------------------------------------------------------------------------

Init ==
  /\ open = FALSE
  /\ queue = <<>>
  /\ drops = 0
  /\ enqueued = 0
  /\ out = NoItem

Open ==
  /\ ~open
  /\ open' = TRUE
  /\ queue' = <<>>
  /\ drops' = 0
  /\ enqueued' = 0
  /\ UNCHANGED out

Push(x) ==
  /\ open
  /\ enqueued < MaxEnqueued
  /\ queue' = Append(Evicted(queue), x)
  /\ drops' = drops + Evictions(queue)
  /\ enqueued' = enqueued + 1
  /\ UNCHANGED <<open, out>>

\* There is no memory for the new message: room was made for it all the same.
PushFails ==
  /\ open
  /\ queue' = Evicted(queue)
  /\ drops' = drops + Evictions(queue)
  /\ UNCHANGED <<open, enqueued, out>>

\* The head is handed to the caller, who now owns it.
Pop ==
  /\ queue # <<>>
  /\ out' = Head(queue)
  /\ queue' = Tail(queue)
  /\ UNCHANGED <<open, drops, enqueued>>

\* The head is shown to the caller and stays queued.
Peek ==
  /\ queue # <<>>
  /\ out' = Head(queue)
  /\ UNCHANGED <<open, queue, drops, enqueued>>

\* The head, once sent, is discarded.
DropHead ==
  /\ queue # <<>>
  /\ queue' = Tail(queue)
  /\ UNCHANGED <<open, drops, enqueued, out>>

Close ==
  /\ open
  /\ open' = FALSE
  /\ queue' = <<>>
  /\ drops' = 0
  /\ enqueued' = 0
  /\ UNCHANGED out

Next ==
  \/ Open
  \/ \E x \in Item : Push(x)
  \/ PushFails
  \/ Pop
  \/ Peek
  \/ DropHead
  \/ Close

Spec == Init /\ [][Next]_vars
=============================================================================
