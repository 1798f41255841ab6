----------------------------- MODULE RtwSession -----------------------------
(***************************************************************************)
(* A session (src/core/rtw_session.c): the protocol state machine between  *)
(* the call and the peer.  It numbers and queues the messages for the peer *)
(* (connected, start, media, mark, stop), buffers the peer's audio for the *)
(* call and acknowledges the peer's marks.  One action per function of     *)
(* rtw_session.h.                                                          *)
(*                                                                         *)
(* The session is built on what its two parts promise: the outbound queue  *)
(* is the FIFO of DropOldestQueue and the playout buffer the stream of     *)
(* Playout.  A function may push several messages; pushing ms one by one   *)
(* leaves the newest QueueCap of outbound \o ms.  Message texts are        *)
(* records of the fields that the protocol gives a meaning; audio bytes    *)
(* are counted, marks are named by their order of arrival.  The functions  *)
(* run under the bridge's mutex, so each is one step here.                 *)
(***************************************************************************)
EXTENDS Naturals, Sequences, FiniteSets, MarkOrder

CONSTANTS
  QueueCap,      \* capacity of the outbound queue
  PlayoutCap,    \* capacity of the playout buffer
  MarkMax,       \* RTW_MARK_MAX
  HarvestMax,    \* size of the array completed[8] of harvest_marks
  Frames,        \* how many whole frames one call of push_pcm16 brings
  Lens,          \* payload lengths of the peer's media
  MaxSeq,        \* bound on the sequence numbers used
  MaxBytes,      \* bound on the bytes the peer sends
  MaxMarks,      \* bound on the marks the peer sends
  MaxClears,     \* bound on the clears the peer sends
  MaxFailures    \* bound on failed allocations, one per call at most

ASSUME SessionConstants ==
  /\ QueueCap \in Nat \ {0} /\ PlayoutCap \in Nat \ {0}
  /\ MarkMax \in Nat /\ HarvestMax \in Nat
  /\ Frames \subseteq Nat \ {0} /\ Lens \subseteq Nat \ {0}
  /\ MaxSeq \in Nat /\ MaxBytes \in Nat /\ MaxMarks \in Nat
  /\ MaxClears \in Nat /\ MaxFailures \in Nat

VARIABLES
  state, paused,
  seq,           \* the next sequence number
  chunk,         \* the next media chunk number
  timestamp_ms,  \* of the next media chunk
  outbound,      \* the queued messages
  drops,         \* messages the full queue dropped
  written, consumed, pending,  \* the playout stream and its pending marks
  clear_events, clear_armed, clear_latency_samples,
  wire,          \* history: the messages taken from the queue to be sent
  markPos,       \* history: for each mark, the bytes accepted before it
  failures       \* history: failed allocations

queueVars == <<outbound, drops, failures>>
playoutVars == <<written, consumed, pending, markPos>>
clearVars == <<clear_events, clear_armed, clear_latency_samples>>
sessionVars == <<state, paused, seq, chunk, timestamp_ms, queueVars, playoutVars,
                 clearVars, wire>>

-----------------------------------------------------------------------------
(* Messages (rtw_protocol.c) and the queue they go to. *)

NoMsg == [event |-> "none", seq |-> 0, chunk |-> 0, timestamp |-> 0, mark |-> 0]
ConnectedMsg == [NoMsg EXCEPT !.event = "connected"]
StartMsg(s) == [NoMsg EXCEPT !.event = "start", !.seq = s]
MediaMsg(s, c, t) ==
  [NoMsg EXCEPT !.event = "media", !.seq = s, !.chunk = c, !.timestamp = t]
MarkMsg(s, m) == [NoMsg EXCEPT !.event = "mark", !.seq = s, !.mark = m]
StopMsg(s) == [NoMsg EXCEPT !.event = "stop", !.seq = s]

\* What repeated pushes leave of the messages pushed.
Newest(q) ==
  IF Len(q) > QueueCap THEN SubSeq(q, Len(q) - QueueCap + 1, Len(q)) ELSE q

\* What a push that fails on its own allocation leaves of the queue.
Evicted(q) == IF Len(q) = QueueCap THEN Tail(q) ELSE q

\* How a run of enqueue_json calls for the messages ms may end: all are
\* queued, or one finds no memory.  It is lost, either while its text is
\* built or after the queue has made room for it (evict); then the caller
\* gives up, or goes on with the messages after it (goOn).
EnqueueOutcomes(ms, goOn) ==
  {[queue |-> Newest(outbound \o ms), pushed |-> Len(ms)]} \cup
  {LET before == Newest(outbound \o SubSeq(ms, 1, k - 1))
       after == IF goOn THEN SubSeq(ms, k + 1, Len(ms)) ELSE <<>>
   IN  [queue |-> Newest((IF evict THEN Evicted(before) ELSE before) \o after),
        pushed |-> k - 1 + Len(after)] :
     k \in {i \in 1 .. Len(ms) : failures < MaxFailures}, evict \in BOOLEAN}

\* Mutant: drops are not counted.
DroppedBug(o) == 0

\* How many messages the full queue has dropped when o is the outcome.
Dropped(o) == Len(outbound) + o.pushed - Len(o.queue)

\* Queue the outcome o of enqueueing ms, and count what was lost.
Enqueue(ms, o) ==
  /\ outbound' = o.queue
  /\ drops' = drops + Dropped(o)
  /\ failures' = failures + IF o.pushed < Len(ms) THEN 1 ELSE 0

\* How many messages of ms a caller that gives up has numbered.
NumbersUsed(ms, o) == IF o.pushed < Len(ms) THEN o.pushed + 1 ELSE Len(ms)

-----------------------------------------------------------------------------

\* rtw_session_init
Init ==
  /\ state = "IDLE" /\ paused = FALSE
  /\ seq = 0 /\ chunk = 0 /\ timestamp_ms = 0
  /\ outbound = <<>> /\ drops = 0 /\ failures = 0
  /\ written = 0 /\ consumed = 0 /\ pending = {} /\ markPos = <<>>
  /\ clear_events = 0 /\ clear_armed = FALSE /\ clear_latency_samples = 0
  /\ wire = <<>>

\* rtw_session_start: called once, on a session that was just initialised.
\* There may be no memory for the custom parameters, which come first.
SessionStart ==
  LET ms == <<ConnectedMsg, StartMsg(1)>> IN
  /\ state = "IDLE"
  /\ MaxSeq >= 1
  /\ \/ /\ \E o \in EnqueueOutcomes(ms, FALSE) :
             /\ Enqueue(ms, o)
             /\ seq' = IF o.pushed = 0 THEN 1 ELSE 2
             /\ state' = IF o.pushed = Len(ms) THEN "RUNNING" ELSE "STARTING"
        /\ chunk' = 1 /\ timestamp_ms' = 0
     \/ /\ failures < MaxFailures
        /\ failures' = failures + 1
        /\ UNCHANGED <<outbound, drops, seq, state, chunk, timestamp_ms>>
  /\ UNCHANGED <<paused, playoutVars, clearVars, wire>>

\* rtw_session_push_pcm16 on audio with n whole frames.
PushPcm16(n) ==
  LET ms == [i \in 1 .. n |->
               MediaMsg(seq + i - 1, chunk + i - 1, timestamp_ms + 20 * (i - 1))]
  IN
  /\ state = "RUNNING" /\ ~paused
  /\ seq + n - 1 <= MaxSeq
  /\ \E o \in EnqueueOutcomes(ms, FALSE) :
       /\ Enqueue(ms, o)
       /\ seq' = seq + NumbersUsed(ms, o)
       /\ chunk' = chunk + o.pushed
       /\ timestamp_ms' = timestamp_ms + 20 * o.pushed
  /\ UNCHANGED <<state, paused, playoutVars, clearVars, wire>>

\* rtw_session_handle_peer_json, a media event; audio that does not fit in
\* the playout buffer is refused.
PeerMedia(len) ==
  /\ state = "RUNNING"
  /\ written + len <= MaxBytes
  /\ (written - consumed) + len <= PlayoutCap
  /\ written' = written + len
  /\ UNCHANGED <<state, paused, seq, chunk, timestamp_ms, queueVars, consumed,
                 pending, markPos, clearVars, wire>>

\* rtw_session_handle_peer_json, a mark event
PeerMark ==
  /\ state = "RUNNING"
  /\ Len(markPos) < MaxMarks
  /\ Cardinality(pending) < MarkMax
  /\ markPos' = Append(markPos, written)
  /\ pending' = pending \cup {Len(markPos) + 1}
  /\ UNCHANGED <<state, paused, seq, chunk, timestamp_ms, queueVars, written,
                 consumed, clearVars, wire>>

\* Mutant: the marks are acknowledged newest first.
AcksBug(S, s) ==
  [i \in 1 .. Cardinality(S) |-> MarkMsg(s + i - 1, Nth(S, Cardinality(S) + 1 - i))]

\* The acknowledgements of the marks of S, numbered from s on.
Acks(S, s) == [i \in 1 .. Cardinality(S) |-> MarkMsg(s + i - 1, Nth(S, i))]

\* rtw_session_handle_peer_json, a clear event: the buffered audio is thrown
\* away, and every pending mark is acknowledged until one cannot be queued.
PeerClear ==
  LET ms == Acks(pending, seq) IN
  /\ state = "RUNNING"
  /\ clear_events < MaxClears
  /\ seq + Len(ms) - 1 <= MaxSeq
  /\ consumed' = written
  /\ pending' = {}
  /\ clear_events' = clear_events + 1
  /\ clear_armed' = TRUE
  /\ \E o \in EnqueueOutcomes(ms, FALSE) :
       /\ Enqueue(ms, o)
       /\ seq' = seq + NumbersUsed(ms, o)
  /\ UNCHANGED <<state, paused, chunk, timestamp_ms, written, markPos,
                 clear_latency_samples, wire>>

\* Mutant: a mark is complete one byte early.
CompletedBug == {k \in pending : markPos[k] <= consumed + 1}

\* The marks that rtw_playout_pop_completed_marks removes.
Completed == {k \in pending : markPos[k] <= consumed}

\* Mutant: of the marks that are completed together the last is not acknowledged.
HarvestBug == Acks(First(Cardinality(Completed) - 1, Completed), seq)

\* The acknowledgements that harvest_marks queues: those of the first
\* HarvestMax completed marks.
Harvest == Acks(First(HarvestMax, Completed), seq)

\* Everything harvest_marks changes but the queue itself.
HarvestMarks(o) ==
  /\ seq + Len(Harvest) - 1 <= MaxSeq
  /\ drops' = drops + Dropped(o)
  /\ failures' = failures + IF o.pushed < Len(Harvest) THEN 1 ELSE 0
  /\ seq' = seq + Len(Harvest)
  /\ pending' = pending \ Completed
  /\ UNCHANGED <<state, paused, chunk, timestamp_ms, written, consumed, markPos,
                 clearVars>>

\* rtw_session_peek_outbound: harvests, then shows the head of the queue.
PeekOutbound ==
  \E o \in EnqueueOutcomes(Harvest, TRUE) :
    /\ HarvestMarks(o)
    /\ outbound' = o.queue
    /\ UNCHANGED wire

\* rtw_session_pop_outbound: harvests, then takes the head off the queue.
PopOutbound ==
  \E o \in EnqueueOutcomes(Harvest, TRUE) :
    /\ HarvestMarks(o)
    /\ IF o.queue = <<>>
         THEN outbound' = <<>> /\ wire' = wire
         ELSE outbound' = Tail(o.queue) /\ wire' = Append(wire, Head(o.queue))

\* rtw_session_drop_outbound_head: the caller has sent the head.
DropOutboundHead ==
  /\ outbound # <<>>
  /\ outbound' = Tail(outbound)
  /\ wire' = Append(wire, Head(outbound))
  /\ UNCHANGED <<state, paused, seq, chunk, timestamp_ms, drops, failures,
                 playoutVars, clearVars>>

\* How much a read of at most max_len bytes takes.
BytesRead(max_len) ==
  IF max_len < written - consumed THEN max_len ELSE written - consumed

\* rtw_session_read_playout
ReadPlayout(max_len) ==
  /\ consumed' = consumed + BytesRead(max_len)
  /\ UNCHANGED <<state, paused, seq, chunk, timestamp_ms, queueVars, written,
                 pending, markPos, clearVars, wire>>

\* Mutant: the measurement is not disarmed.
ArmedAfterSampleBug == TRUE

\* A measurement is taken once per clear.
ArmedAfterSample == FALSE

\* rtw_session_note_write_after_clear, when nothing was written to the call.
NoteWriteAfterClear ==
  /\ clear_armed
  /\ clear_latency_samples < MaxClears + 1
  /\ clear_latency_samples' = clear_latency_samples + 1
  /\ clear_armed' = ArmedAfterSample
  /\ UNCHANGED <<state, paused, seq, chunk, timestamp_ms, queueVars, playoutVars,
                 clear_events, wire>>

\* session.paused, as rtw_bridge_pause sets it.
SetPaused(p) ==
  /\ paused' = p
  /\ UNCHANGED <<state, seq, chunk, timestamp_ms, queueVars, playoutVars,
                 clearVars, wire>>

\* Mutant: a stopped session can be stopped again.
MayStopBug == state # "IDLE"

MayStop == state \notin {"IDLE", "STOPPED"}

\* rtw_session_stop
SessionStop ==
  LET ms == <<StopMsg(seq)>> IN
  /\ MayStop
  /\ seq <= MaxSeq
  /\ seq' = seq + 1
  /\ \E o \in EnqueueOutcomes(ms, FALSE) :
       /\ Enqueue(ms, o)
       /\ state' = IF o.pushed = 1 THEN "STOPPED" ELSE "STOPPING"
  /\ UNCHANGED <<paused, chunk, timestamp_ms, playoutVars, clearVars, wire>>

\* Mutant: a new connection starts numbering afresh.
RestartSeqBug == 1

\* The number a new connection goes on with.
RestartSeq == seq

\* rtw_session_rehandshake
Rehandshake ==
  LET ms == <<ConnectedMsg, StartMsg(RestartSeq)>> IN
  /\ state = "RUNNING"
  /\ seq <= MaxSeq
  /\ \E o \in EnqueueOutcomes(ms, FALSE) :
       /\ Enqueue(ms, o)
       /\ seq' = IF o.pushed = 0 THEN RestartSeq ELSE RestartSeq + 1
  /\ UNCHANGED <<state, paused, chunk, timestamp_ms, playoutVars, clearVars, wire>>

\* rtw_session_destroy: both parts are freed and the struct is zeroed, as
\* rtw_session_init leaves it for the next session.
SessionDestroy ==
  /\ state' = "IDLE" /\ paused' = FALSE
  /\ seq' = 0 /\ chunk' = 0 /\ timestamp_ms' = 0
  /\ outbound' = <<>> /\ drops' = 0 /\ failures' = 0
  /\ written' = 0 /\ consumed' = 0 /\ pending' = {} /\ markPos' = <<>>
  /\ clear_events' = 0 /\ clear_armed' = FALSE /\ clear_latency_samples' = 0
  /\ wire' = <<>>

SessionNext ==
  \/ SessionStart
  \/ \E n \in Frames : PushPcm16(n)
  \/ \E len \in Lens : PeerMedia(len)
  \/ PeerMark
  \/ PeerClear
  \/ PeekOutbound
  \/ PopOutbound
  \/ DropOutboundHead
  \/ \E n \in Lens : ReadPlayout(n)
  \/ NoteWriteAfterClear
  \/ \E p \in BOOLEAN : SetPaused(p)
  \/ SessionStop
  \/ Rehandshake
  \/ SessionDestroy

SessionSpec == Init /\ [][SessionNext]_sessionVars

-----------------------------------------------------------------------------
(* Properties *)

\* The numbered messages a peer gets, in order: sent ones, then queued ones.
Stream == wire \o outbound

Numbered == {i \in DOMAIN Stream : Stream[i].seq > 0}

Event(e) == {i \in DOMAIN Stream : Stream[i].event = e}

Message ==
  [event : {"connected", "start", "media", "mark", "stop"},
   seq : 0 .. MaxSeq, chunk : Nat, timestamp : Nat, mark : 0 .. MaxMarks]

\* The fields of rtw_session_t keep their types; the queue, the buffer and the
\* array of marks never hold more than they have room for.
SessionTypeOK ==
  /\ state \in {"IDLE", "STARTING", "RUNNING", "STOPPING", "STOPPED"}
  /\ paused \in BOOLEAN
  /\ seq \in 0 .. (MaxSeq + 1)
  /\ chunk \in Nat /\ timestamp_ms \in Nat /\ drops \in Nat
  /\ outbound \in Seq(Message) /\ Len(outbound) <= QueueCap
  /\ wire \in Seq(Message)
  /\ written \in 0 .. MaxBytes /\ consumed \in 0 .. written
  /\ written - consumed <= PlayoutCap
  /\ markPos \in Seq(0 .. MaxBytes) /\ Len(markPos) <= MaxMarks
  /\ pending \subseteq DOMAIN markPos /\ Cardinality(pending) <= MarkMax
  /\ clear_events \in 0 .. MaxClears /\ clear_armed \in BOOLEAN
  /\ clear_latency_samples \in Nat
  /\ failures \in 0 .. MaxFailures

\* The peer sees sequence numbers, media chunk numbers and timestamps that
\* only grow, whatever was dropped, failed, acknowledged or announced again
\* in between, and a chunk's timestamp always matches its number.
StreamOrdered ==
  /\ \A i, j \in Numbered : i < j => Stream[i].seq < Stream[j].seq
  /\ \A i, j \in Event("media") : i < j => Stream[i].chunk < Stream[j].chunk
  /\ \A i \in Event("media") : Stream[i].timestamp = 20 * (Stream[i].chunk - 1)

\* Every number missing from the stream is a message that the queue dropped
\* and counted, or one that found no memory: nothing is skipped in silence.
GapsExplained ==
  state # "IDLE" => seq - 1 <= Cardinality(Numbered) + drops + failures

\* A mark is acknowledged at most once, and the acknowledgements come in the
\* order in which the peer sent the marks, be they played out or cleared.
AcksInOrder ==
  \A i, j \in Event("mark") : i < j => Stream[i].mark < Stream[j].mark

\* A mark is acknowledged only once all audio before it was played or cleared.
AckAfterAudio == \A i \in Event("mark") : markPos[Stream[i].mark] <= consumed

\* The stop message is sent once, and after it nothing but acknowledgements
\* of marks that were already pending.
OnlyAcksAfterStop ==
  \A i \in Event("stop"), j \in DOMAIN Stream : i < j => Stream[j].event = "mark"

\* A clear is measured at most once, however many silent writes follow it.
OneSamplePerClear ==
  clear_latency_samples + (IF clear_armed THEN 1 ELSE 0) <= clear_events

\* What docs/PROTOCOL.md says of marks: each is echoed when its audio has
\* finished playing or was cleared (unless the bounded queue dropped a
\* message or there was no memory).
EveryMarkEchoed ==
  drops = 0 /\ failures = 0 =>
    \A k \in DOMAIN markPos :
      k \in pending \/ \E i \in Event("mark") : Stream[i].mark = k
=============================================================================
