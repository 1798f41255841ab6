----------------------------- MODULE RtwBridge -----------------------------
(***************************************************************************)
(* The bridge (src/mod/rtw_bridge.c): the threads that share one session,  *)
(* its mutex and its WebSocket connection.                                 *)
(*                                                                         *)
(*   "control"  the thread that runs rtw_bridge_start and, later,          *)
(*              rtw_bridge_stop (an API command or the hangup's CLOSE);    *)
(*   "worker"   ws_worker: polls, handles the peer's messages, flushes the *)
(*              outbound queue and reconnects;                             *)
(*   "api"      a thread running pause, clear, send_mark or status;        *)
(*   "media"    the thread that calls the media bug's READ and             *)
(*              WRITE_REPLACE callbacks; it only ever trylocks the mutex;  *)
(*   the network, which may break a connection at any time.                *)
(*                                                                         *)
(* pc[t] is the place thread t is at, ret[t] where it goes on after        *)
(* flush_outbound.  A thread that meets the mutex held waits; the sends    *)
(* and the connect are blocking calls whose result is a step of its own,   *)
(* so that everything else can happen while a thread is inside them.       *)
(***************************************************************************)
EXTENDS RtwSession

CONSTANTS
  MaxConns,      \* bound on the connections opened, the first one included
  MaxFrames,     \* bound on the frames read from the call
  ReconnectMax   \* reconnect_max

\* The queue of 256 messages has room for a harvest of 8 and one more.
ASSUME BridgeConstants ==
  /\ MaxConns \in Nat \ {0} /\ MaxFrames \in Nat /\ ReconnectMax \in Nat \ {0}
  /\ HarvestMax < QueueCap

Thread == {"control", "worker", "api", "media"}
Conns == 1 .. MaxConns

VARIABLES
  mutex,               \* the thread holding tech->mutex, or "none"
  ws,                  \* tech->ws: a connection, or 0 for NULL
  ws_ready,
  close_requested, cleanup_started, reconnect_enabled,
  reconnect_attempts,
  freed,               \* tech has been freed (or was never handed out)
  pc, ret,
  using,               \* the connection a thread is inside a send on
  conn,                \* "unused", "up", "down" (broken) or "closed" (freed)
  delivered            \* history: what the peer received on each connection

linkVars == <<ws, ws_ready, conn, delivered>>
flagVars == <<close_requested, cleanup_started, reconnect_enabled>>
bridgeVars == <<mutex, linkVars, flagVars, reconnect_attempts, freed, pc, ret, using>>
vars == <<sessionVars, bridgeVars>>

-----------------------------------------------------------------------------

BridgeInit ==
  /\ Init
  /\ mutex = "none"
  /\ ws = 0 /\ ws_ready = FALSE
  /\ close_requested = FALSE /\ cleanup_started = FALSE
  /\ reconnect_enabled \in BOOLEAN   \* RTW_RECONNECT
  /\ reconnect_attempts = 0
  /\ freed = FALSE
  /\ pc = [control |-> "start", worker |-> "none", api |-> "idle", media |-> "idle"]
  /\ ret = [t \in Thread |-> "none"]
  /\ using = [t \in Thread |-> 0]
  /\ conn = [c \in Conns |-> "unused"]
  /\ delivered = [c \in Conns |-> <<>>]

Stopping == close_requested \/ cleanup_started

Goto(t, l) == pc' = [pc EXCEPT ![t] = l]

\* The connection tech->ws points to is closed and its memory freed.
Closed == IF ws = 0 THEN conn ELSE [conn EXCEPT ![ws] = "closed"]

\* The media bug is attached and the channel's private data set.
Attached == pc["worker"] # "none" /\ ~freed

-----------------------------------------------------------------------------
(* flush_outbound, run by thread t; ret[t] is where t goes on. *)

CallFlush(t, l) ==
  /\ pc' = [pc EXCEPT ![t] = "flush"]
  /\ ret' = [ret EXCEPT ![t] = l]

\* Mutant: the mutex is kept when there was nothing to flush to.
MutexAfterFlushBug(t) == IF mutex = t /\ ws_ready THEN "none" ELSE mutex

\* The mutex is released right after the flush, by the thread that holds it.
MutexAfterFlush(t) == IF mutex = t THEN "none" ELSE mutex

FlushReturns(t) ==
  /\ Goto(t, ret[t])
  /\ ret' = [ret EXCEPT ![t] = "none"]
  /\ mutex' = MutexAfterFlush(t)

Flush(t) ==
  /\ pc[t] = "flush"
  /\ IF ws = 0 \/ ~ws_ready
       THEN FlushReturns(t)
       ELSE Goto(t, "peek") /\ UNCHANGED <<mutex, ret>>
  /\ UNCHANGED <<sessionVars, linkVars, flagVars, reconnect_attempts, freed, using>>

\* The next round of the loop: completed marks are harvested; then either the
\* queue is empty or the send of its head begins, on what tech->ws is now.
Peek(t) ==
  /\ pc[t] = "peek"
  /\ PeekOutbound
  /\ IF outbound' = <<>>
       THEN FlushReturns(t) /\ UNCHANGED using
       ELSE /\ Goto(t, "send")
            /\ using' = [using EXCEPT ![t] = ws]
            /\ UNCHANGED <<mutex, ret>>
  /\ UNCHANGED <<linkVars, flagVars, reconnect_attempts, freed>>

\* Mutant: the message stays queued after it was sent.
DropSentBug == UNCHANGED sessionVars

DropSent == DropOutboundHead

\* The send returns 0.  On a connection that is up the peer has the message;
\* on a broken one it is lost in a buffer; on a freed one that is one of the
\* outcomes of undefined behaviour.
SendSucceeds(t) ==
  /\ pc[t] = "send" /\ using[t] # 0
  /\ delivered' = IF conn[using[t]] = "up"
                    THEN [delivered EXCEPT ![using[t]] = Append(@, Head(outbound))]
                    ELSE delivered
  /\ DropSent
  /\ Goto(t, "peek")
  /\ using' = [using EXCEPT ![t] = 0]
  /\ UNCHANGED <<mutex, ws, ws_ready, conn, flagVars, reconnect_attempts, freed, ret>>

\* The send returns -1: there is no connection, it is lost, or there is no
\* memory for the frame.
SendFails(t) ==
  /\ pc[t] = "send"
  /\ IF using[t] # 0 /\ conn[using[t]] = "up"
       THEN /\ failures < MaxFailures
            /\ failures' = failures + 1
       ELSE UNCHANGED failures
  /\ Goto(t, "failed")
  /\ using' = [using EXCEPT ![t] = 0]
  /\ UNCHANGED <<state, paused, seq, chunk, timestamp_ms, outbound, drops, playoutVars,
                 clearVars, wire, mutex, linkVars, flagVars, reconnect_attempts, freed,
                 ret>>

\* The flag that tells the worker to reconnect is set a step after that.
FlushFailed(t) ==
  /\ pc[t] = "failed"
  /\ ws_ready' = FALSE
  /\ FlushReturns(t)
  /\ UNCHANGED <<sessionVars, ws, conn, delivered, flagVars, reconnect_attempts,
                 freed, using>>

-----------------------------------------------------------------------------
(* rtw_bridge_start and rtw_bridge_stop *)

\* The session is set up and its handshake queued; when there is no memory
\* for that, everything is freed again and nothing is handed out.
StartSession ==
  /\ pc["control"] = "start"
  /\ SessionStart
  /\ IF state' = "RUNNING"
       THEN Goto("control", "connect")
       ELSE Goto("control", "free")
  /\ UNCHANGED <<mutex, linkVars, flagVars, reconnect_attempts, freed, ret, using>>

\* The first connect; on success the handshake is flushed without the mutex.
StartConnects ==
  /\ pc["control"] = "connect"
  /\ ws' = 1 /\ ws_ready' = TRUE
  /\ conn' = [conn EXCEPT ![1] = "up"]
  /\ CallFlush("control", "spawn")
  /\ UNCHANGED <<sessionVars, mutex, delivered, flagVars, reconnect_attempts, freed, using>>

StartConnectFails ==
  /\ pc["control"] = "connect"
  /\ Goto("control", "free")
  /\ UNCHANGED <<sessionVars, mutex, linkVars, flagVars, reconnect_attempts, freed,
                 ret, using>>

\* pthread_create; the tech is handed out and the media bug attached.
StartSpawns ==
  /\ pc["control"] = "spawn"
  /\ pc' = [pc EXCEPT !["control"] = "run", !["worker"] = "loop"]
  /\ UNCHANGED <<sessionVars, mutex, linkVars, flagVars, reconnect_attempts, freed,
                 ret, using>>

\* pthread_create fails: the connection is closed and everything freed.
StartSpawnFails ==
  /\ pc["control"] = "spawn"
  /\ Goto("control", "close")
  /\ UNCHANGED <<sessionVars, mutex, linkVars, flagVars, reconnect_attempts, freed,
                 ret, using>>

\* do_stop announces the stop before the bug is removed; a hangup does not.
RequestClose ==
  /\ pc["control"] = "run"
  /\ ~close_requested
  /\ close_requested' = TRUE
  /\ UNCHANGED <<sessionVars, mutex, linkVars, cleanup_started, reconnect_enabled,
                 reconnect_attempts, freed, pc, ret, using>>

\* rtw_bridge_stop raises its flags, then joins the worker.  It runs in the
\* CLOSE callback, which FreeSWITCH calls when no other callback is running.
StopBegins ==
  /\ pc["control"] = "run"
  /\ pc["media"] = "idle"
  /\ cleanup_started' = TRUE /\ close_requested' = TRUE /\ reconnect_enabled' = FALSE
  /\ Goto("control", "join")
  /\ UNCHANGED <<sessionVars, mutex, linkVars, reconnect_attempts, freed, ret, using>>

WorkerJoined == pc["worker"] = "exit"

StopLocks ==
  /\ pc["control"] = "join"
  /\ WorkerJoined
  /\ mutex = "none"
  /\ mutex' = "control"
  /\ Goto("control", "stop")
  /\ UNCHANGED <<sessionVars, linkVars, flagVars, reconnect_attempts, freed, ret, using>>

\* Mutant: the flush is not retried on a connection marked as not ready.
ReadyForStopBug == ws_ready

\* Best effort: the stop message is flushed even when ws_ready is 0.
ReadyForStop == IF ws # 0 THEN TRUE ELSE ws_ready

StopSession ==
  /\ pc["control"] = "stop"
  /\ IF MayStop THEN SessionStop ELSE UNCHANGED sessionVars
  /\ ws_ready' = ReadyForStop
  /\ CallFlush("control", "close")
  /\ UNCHANGED <<mutex, ws, conn, delivered, flagVars, reconnect_attempts, freed, using>>

\* What a failed start and a stop have in common.  First, the connection, if
\* there is one, is closed ...
StopCloses ==
  /\ pc["control"] = "close"
  /\ conn' = Closed
  /\ ws' = 0
  /\ ws_ready' = (ws = 0 /\ ws_ready)
  /\ Goto("control", "free")
  /\ UNCHANGED <<sessionVars, mutex, delivered, flagVars, reconnect_attempts, freed,
                 ret, using>>

\* ... then the session and the mutex are destroyed and tech is freed.
StopFrees ==
  /\ pc["control"] = "free"
  /\ SessionDestroy
  /\ freed' = TRUE
  /\ Goto("control", "done")
  /\ UNCHANGED <<mutex, linkVars, flagVars, reconnect_attempts, ret, using>>

-----------------------------------------------------------------------------
(* ws_worker *)

\* Mutant: a connection that is not ready is left to itself.
LoopTargetBug ==
  IF Stopping THEN "exit" ELSE IF ws # 0 /\ ws_ready THEN "poll" ELSE "tail"

\* Where the head of the worker's loop leads.
LoopTarget ==
  CASE Stopping -> "exit"
    [] ~Stopping /\ ws # 0 /\ ws_ready -> "poll"
    [] ~Stopping /\ ws # 0 /\ ~ws_ready -> "reconnect"
    [] ~Stopping /\ ws = 0 -> "tail"

WorkerLoop ==
  /\ pc["worker"] = "loop"
  /\ Goto("worker", LoopTarget)
  /\ UNCHANGED <<sessionVars, mutex, linkVars, flagVars, reconnect_attempts, freed,
                 ret, using>>

\* rtw_ws_poll times out, or there is no further text frame in what it read.
PollIdle ==
  /\ pc["worker"] = "poll"
  /\ Goto("worker", "tail")
  /\ UNCHANGED <<sessionVars, mutex, linkVars, flagVars, reconnect_attempts, freed,
                 ret, using>>

\* rtw_ws_poll calls on_ws_text with the next text frame of what it read; when
\* the bridge is stopping that and all the others are ignored.
PollText ==
  /\ pc["worker"] = "poll"
  /\ Goto("worker", IF Stopping THEN "tail" ELSE "text")
  /\ UNCHANGED <<sessionVars, mutex, linkVars, flagVars, reconnect_attempts, freed,
                 ret, using>>

\* on_ws_close, and again ws_worker after the poll
ReadyAfterBreak == FALSE

\* rtw_ws_poll returns -1: the connection was closed or is broken, or, on one
\* that works, poll was interrupted or the frame is longer than supported.
PollFails ==
  /\ pc["worker"] = "poll"
  /\ ws_ready' = ReadyAfterBreak
  /\ Goto("worker", "reconnect")
  /\ UNCHANGED <<sessionVars, mutex, ws, conn, delivered, flagVars,
                 reconnect_attempts, freed, ret, using>>

TextLocks ==
  /\ pc["worker"] = "text"
  /\ mutex = "none"
  /\ mutex' = "worker"
  /\ Goto("worker", "handle")
  /\ UNCHANGED <<sessionVars, linkVars, flagVars, reconnect_attempts, freed, ret, using>>

\* What rtw_session_handle_peer_json does with a message: media, mark, clear,
\* or one that it ignores or refuses.
HandlePeerJson ==
  \/ \E len \in Lens : PeerMedia(len)
  \/ PeerMark
  \/ PeerClear
  \/ UNCHANGED sessionVars

TextHandled ==
  /\ pc["worker"] = "handle"
  /\ IF Stopping
       THEN /\ UNCHANGED <<sessionVars, ret>>
            /\ mutex' = "none"
            /\ Goto("worker", "tail")
       ELSE /\ HandlePeerJson
            /\ CallFlush("worker", "poll")
            /\ UNCHANGED mutex
  /\ UNCHANGED <<linkVars, flagVars, reconnect_attempts, freed, using>>

\* Mutant: the worker does not flush.
TailFlushesBug ==
  /\ pc["worker"] = "tail"
  /\ ~Stopping /\ mutex = "none"
  /\ Goto("worker", "loop")
  /\ UNCHANGED <<sessionVars, mutex, linkVars, flagVars, reconnect_attempts, freed,
                 ret, using>>

\* The end of the worker's loop, when it gets the mutex at once ...
TailFlushes ==
  /\ pc["worker"] = "tail"
  /\ ~Stopping
  /\ mutex = "none"
  /\ mutex' = "worker"
  /\ CallFlush("worker", "loop")
  /\ UNCHANGED <<sessionVars, linkVars, flagVars, reconnect_attempts, freed, using>>

\* ... and when it does not, or has to stop.
TailSkips ==
  /\ pc["worker"] = "tail"
  /\ Stopping \/ mutex # "none"
  /\ Goto("worker", IF Stopping THEN "exit" ELSE "loop")
  /\ UNCHANGED <<sessionVars, mutex, linkVars, flagVars, reconnect_attempts, freed,
                 ret, using>>

-----------------------------------------------------------------------------
(* try_reconnect; whenever it does not return 0 the worker exits. *)

MayReconnect ==
  reconnect_enabled /\ ~Stopping /\ reconnect_attempts < ReconnectMax

ReconnectBegins ==
  /\ pc["worker"] = "reconnect"
  /\ IF MayReconnect
       THEN /\ reconnect_attempts' = reconnect_attempts + 1
            /\ Goto("worker", "backoff")
       ELSE /\ Goto("worker", "exit")
            /\ UNCHANGED reconnect_attempts
  /\ UNCHANGED <<sessionVars, mutex, linkVars, flagVars, freed, ret, using>>

\* sleep_interruptible_ms
BackoffEnds ==
  /\ pc["worker"] = "backoff"
  /\ Goto("worker", IF Stopping \/ ~reconnect_enabled THEN "exit" ELSE "close")
  /\ UNCHANGED <<sessionVars, mutex, linkVars, flagVars, reconnect_attempts, freed,
                 ret, using>>

\* Mutant: the old connection is forgotten, not closed.
OldClosedBug == conn

OldClosed == Closed

\* The old connection is closed, without the mutex.
ReconnectCloses ==
  /\ pc["worker"] = "close"
  /\ conn' = OldClosed
  /\ ws' = 0
  /\ Goto("worker", "dial")
  /\ UNCHANGED <<sessionVars, mutex, ws_ready, delivered, flagVars,
                 reconnect_attempts, freed, ret, using>>

\* rtw_ws_connect_ex, a blocking call without a timeout, has a result.
DialSucceeds ==
  /\ pc["worker"] = "dial"
  /\ \E c \in Conns :
       /\ conn[c] = "unused"
       /\ \A b \in Conns : b < c => conn[b] # "unused"
       /\ ws' = c
       /\ conn' = [conn EXCEPT ![c] = "up"]
  /\ Goto("worker", "dialed")
  /\ UNCHANGED <<sessionVars, mutex, ws_ready, delivered, flagVars,
                 reconnect_attempts, freed, ret, using>>

DialFails ==
  /\ pc["worker"] = "dial"
  /\ Goto("worker", "exit")
  /\ UNCHANGED <<sessionVars, mutex, linkVars, flagVars, reconnect_attempts, freed,
                 ret, using>>

\* A stop that came during the connect closes the new connection.
DialChecked ==
  /\ pc["worker"] = "dialed"
  /\ IF Stopping
       THEN /\ conn' = Closed
            /\ ws' = 0
            /\ Goto("worker", "exit")
            /\ UNCHANGED ws_ready
       ELSE /\ ws_ready' = TRUE
            /\ Goto("worker", "relock")
            /\ UNCHANGED <<ws, conn>>
  /\ UNCHANGED <<sessionVars, mutex, delivered, flagVars, reconnect_attempts, freed,
                 ret, using>>

RehandshakeLocks ==
  /\ pc["worker"] = "relock"
  /\ mutex = "none"
  /\ mutex' = "worker"
  /\ Goto("worker", "rehandshake")
  /\ UNCHANGED <<sessionVars, linkVars, flagVars, reconnect_attempts, freed, ret, using>>

Rehandshakes ==
  /\ pc["worker"] = "rehandshake"
  /\ IF Stopping
       THEN /\ UNCHANGED <<sessionVars, ret>>
            /\ mutex' = "none"
            /\ Goto("worker", "reconnected")
       ELSE /\ Rehandshake
            /\ CallFlush("worker", "reconnected")
            /\ UNCHANGED mutex
  /\ UNCHANGED <<linkVars, flagVars, reconnect_attempts, freed, using>>

Reconnected ==
  /\ pc["worker"] = "reconnected"
  /\ reconnect_attempts' = 0
  /\ Goto("worker", "loop")
  /\ UNCHANGED <<sessionVars, mutex, linkVars, flagVars, freed, ret, using>>

-----------------------------------------------------------------------------
(* rtw_bridge_pause, rtw_bridge_clear, rtw_bridge_send_mark, rtw_bridge_get_stats *)

\* The command has fetched tech from the channel's private data, which is
\* there until a stop begins.
ApiEnters ==
  /\ pc["api"] = "idle"
  /\ Attached /\ pc["control"] = "run"
  /\ Goto("api", "check")
  /\ UNCHANGED <<sessionVars, mutex, linkVars, flagVars, reconnect_attempts, freed,
                 ret, using>>

\* The command looks at cleanup_started before it asks for the mutex.
ApiChecks ==
  /\ pc["api"] = "check"
  /\ ~freed
  /\ Goto("api", IF cleanup_started THEN "idle" ELSE "lock")
  /\ UNCHANGED <<sessionVars, mutex, linkVars, flagVars, reconnect_attempts, freed,
                 ret, using>>

\* clear and send_mark go through rtw_session_handle_peer_json and flush.
ApiClearOrMark ==
  /\ pc["api"] = "lock"
  /\ ~freed /\ mutex = "none"
  /\ mutex' = "api"
  /\ PeerClear \/ PeerMark \/ UNCHANGED sessionVars
  /\ CallFlush("api", "idle")
  /\ UNCHANGED <<linkVars, flagVars, reconnect_attempts, freed, using>>

\* pause and resume change one flag; status changes nothing.
ApiPauseOrStatus ==
  /\ pc["api"] = "lock"
  /\ ~freed /\ mutex = "none"
  /\ (\E p \in BOOLEAN : SetPaused(p)) \/ UNCHANGED sessionVars
  /\ Goto("api", "idle")
  /\ UNCHANGED <<mutex, linkVars, flagVars, reconnect_attempts, freed, ret, using>>

-----------------------------------------------------------------------------
(* The media thread and the network *)

\* A callback looks at the flags before it tries to lock the mutex.
MediaEnters(l) ==
  /\ pc["media"] = "idle"
  /\ Attached /\ pc["control"] = "run"
  /\ ~Stopping
  /\ Goto("media", l)
  /\ UNCHANGED <<sessionVars, mutex, linkVars, flagVars, reconnect_attempts, freed,
                 ret, using>>

MediaReadEnters == MediaEnters("read") /\ ~paused /\ chunk <= MaxFrames

MediaWriteEnters == MediaEnters("write")

MediaReturns ==
  /\ Goto("media", "idle")
  /\ UNCHANGED <<mutex, linkVars, flagVars, reconnect_attempts, freed, ret, using>>

\* rtw_bridge_on_read_pcm16: one frame of the call is queued for the peer; it
\* is given up when the mutex is held or the session was paused meanwhile.
MediaRead ==
  /\ pc["media"] = "read"
  /\ IF mutex = "none" /\ ~paused THEN PushPcm16(1) ELSE UNCHANGED sessionVars
  /\ MediaReturns

\* rtw_bridge_apply_write_frame: the call gets audio of the peer ...
MediaPlays ==
  /\ pc["media"] = "write"
  /\ mutex = "none" /\ written > consumed
  /\ \E n \in Lens : ReadPlayout(n)
  /\ MediaReturns

\* ... or, when there is none, silence, which ends the measurement of a clear;
\* nothing happens when the mutex is held.
MediaSilence ==
  /\ pc["media"] = "write"
  /\ mutex # "none" \/ written = consumed
  /\ IF mutex = "none" /\ clear_armed
       THEN NoteWriteAfterClear
       ELSE UNCHANGED sessionVars
  /\ MediaReturns

NetworkBreaks ==
  /\ \E c \in Conns : conn[c] = "up" /\ conn' = [conn EXCEPT ![c] = "down"]
  /\ UNCHANGED <<sessionVars, mutex, ws, ws_ready, delivered, flagVars,
                 reconnect_attempts, freed, pc, ret, using>>

-----------------------------------------------------------------------------

\* The steps of flush_outbound; an API thread whose tech was freed under it
\* does nothing that could be relied on and is left where it is.
FlushStep(t) ==
  /\ t = "api" => ~freed
  /\ Flush(t) \/ Peek(t) \/ SendSucceeds(t) \/ SendFails(t) \/ FlushFailed(t)

ControlStep ==
  \/ StartSession \/ StartConnects \/ StartConnectFails
  \/ StartSpawns \/ StartSpawnFails
  \/ StopLocks \/ StopSession \/ StopCloses \/ StopFrees

WorkerStep ==
  \/ WorkerLoop \/ PollIdle \/ PollText \/ PollFails
  \/ TextLocks \/ TextHandled \/ TailFlushes \/ TailSkips
  \/ ReconnectBegins \/ BackoffEnds \/ ReconnectCloses
  \/ DialChecked \/ RehandshakeLocks \/ Rehandshakes \/ Reconnected

DialStep == DialSucceeds \/ DialFails

ApiStep == ApiChecks \/ ApiClearOrMark \/ ApiPauseOrStatus

MediaStep == MediaRead \/ MediaPlays \/ MediaSilence

Next ==
  \/ \E t \in {"control", "worker", "api"} : FlushStep(t)
  \/ ControlStep \/ RequestClose \/ StopBegins
  \/ WorkerStep \/ DialStep
  \/ ApiEnters \/ ApiStep
  \/ MediaReadEnters \/ MediaWriteEnters \/ MediaStep
  \/ NetworkBreaks

Spec == BridgeInit /\ [][Next]_vars

\* Fairness.  Every thread is scheduled, and a blocking send returns, be it
\* with an error.  Nothing is assumed of the network, of the callers, or of
\* the connect: rtw_ws_connect_ex waits for the peer's handshake without a
\* timeout.
ThreadFairness ==
  /\ WF_vars(ControlStep \/ FlushStep("control"))
  /\ WF_vars(WorkerStep \/ FlushStep("worker"))
  /\ WF_vars(ApiStep \/ FlushStep("api"))
  /\ WF_vars(MediaStep)

\* The peer, or the kernel on its behalf, answers every connect in the end.
ConnectFairness == WF_vars(DialStep)

\* The worker gets the mutex in the end: its other holders are API commands,
\* which do not come in an endless burst, and media callbacks, which hold it
\* for microseconds.  A broken connection is reported by poll.
RetryFairness ==
  /\ SF_vars(TailFlushes \/ TextLocks \/ RehandshakeLocks)
  /\ SF_vars(PollFails /\ ws # 0 /\ conn[ws] # "up")

FairSpec == Spec /\ ThreadFairness /\ ConnectFairness /\ RetryFairness

\* FreeSWITCH asks for a frame every 20 ms as long as the call lives, and not
\* every time at a moment when the mutex is held.  A poll reads once, into a buffer,
\* and so has an end however many texts the peer sends.
PlaybackFairness ==
  /\ SF_vars(MediaPlays) /\ SF_vars(PollIdle)
  /\ []<>(\/ pc["control"] # "run" \/ Stopping
          \/ pc["media"] = "write" /\ mutex = "none")

\* Whether the worker may reconnect matters only once the connection is lost.
PlaybackInit == BridgeInit /\ reconnect_enabled = FALSE

PlaybackSpec ==
  /\ PlaybackInit /\ [][Next]_vars
  /\ ThreadFairness /\ ConnectFairness /\ RetryFairness /\ PlaybackFairness

\* FairSpec without any assumption on the peer's answer to a connect.
UnansweredSpec == Spec /\ ThreadFairness /\ RetryFairness

-----------------------------------------------------------------------------
(* Properties *)

Labels ==
  {"none", "start", "connect", "spawn", "run", "join", "stop", "close", "free",
   "done", "loop", "poll", "text", "handle", "tail", "reconnect", "backoff", "dial",
   "dialed", "relock", "rehandshake", "reconnected", "exit", "idle", "check", "lock",
   "read", "write", "flush", "peek", "send", "failed"}

\* The fields of rtw_tech_t, the threads and the connections.
TechTypeOK ==
  /\ mutex \in Thread \cup {"none"}
  /\ ws \in Conns \cup {0} /\ ws_ready \in BOOLEAN
  /\ close_requested \in BOOLEAN /\ cleanup_started \in BOOLEAN
  /\ reconnect_enabled \in BOOLEAN
  /\ reconnect_attempts \in 0 .. ReconnectMax
  /\ freed \in BOOLEAN
  /\ pc \in [Thread -> Labels] /\ ret \in [Thread -> Labels]
  /\ using \in [Thread -> Conns \cup {0}]
  /\ conn \in [Conns -> {"unused", "up", "down", "closed"}]
  /\ delivered \in [Conns -> Seq(Message)]

\* The fields of rtw_tech_t keep their types, never more than reconnect_max
\* attempts are counted, and the session stays within its bounds.
BridgeTypeOK == SessionTypeOK /\ TechTypeOK

\* Whoever flushes, the worker, an API thread or the stop, and over however
\* many connections: the peer gets a numbered message at most once, and the
\* messages in the order of their numbers.
DeliveredInOrder ==
  \A b, c \in Conns :
    \A i \in DOMAIN delivered[b], j \in DOMAIN delivered[c] :
      /\ b < c \/ (b = c /\ i < j)
      /\ delivered[b][i].seq > 0 /\ delivered[c][j].seq > 0
      => delivered[b][i].seq < delivered[c][j].seq

\* The bridge never has two connections open, and none once it is freed:
\* neither a reconnect nor a stop that races it leaks one.
NoConnectionLeaked ==
  LET open == {c \in Conns : conn[c] \in {"up", "down"}} IN
  Cardinality(open) <= IF freed THEN 0 ELSE 1

\* A stop on a connection that works tells the peer: when rtw_bridge_stop has
\* flushed, the stop message is among what the peer received on it, unless
\* there was no memory for a message.
StopReachesPeer ==
  pc["control"] = "close" /\ cleanup_started /\ ws # 0 =>
    \/ conn[ws] # "up" \/ failures > 0
    \/ \E i \in DOMAIN delivered[ws] : delivered[ws][i].event = "stop"

\* Until a stop is asked for, a connection that is marked ready is there and
\* has a running worker.  (One that is marked not ready: BreakIsHandled.)
ReadyIsServed ==
  ws_ready /\ ~Stopping /\ pc["control"] = "run" => ws # 0 /\ pc["worker"] # "exit"

\* rtw_bridge_stop, once begun, completes.
StopCompletes == cleanup_started ~> freed

\* What is queued is sent, unless the connection is lost, the worker has given
\* up or the bridge is stopped.
QueueDrains ==
  outbound # <<>> /\ pc["worker"] # "none" ~>
    outbound = <<>> \/ Stopping \/ ws = 0 \/ conn[ws] # "up" \/ pc["worker"] = "exit"

\* The peer has got the acknowledgement of mark k.
Echoed(k) ==
  \E c \in Conns : \E i \in DOMAIN delivered[c] :
    delivered[c][i].event = "mark" /\ delivered[c][i].mark = k

\* Mark k has completed together with more marks before it than one harvest takes.
BeyondHarvest(k) == k \in Completed \ First(HarvestMax, Completed)

\* docs/PROTOCOL.md: the peer gets its mark back when the audio before it has been
\* played or cleared.  The acknowledgement waits for the call to play that audio, and
\* for nothing else: the worker picks it up though no thread tells it that the audio
\* was played.  It is lost only for a reason: since the mark came a message found no
\* memory, or the full queue dropped one; the mark is one too many for its harvest;
\* the connection is lost, the bridge stopped or the worker gone.
MarkIsAnswered ==
  \A k \in 1 .. MaxMarks, n \in 0 .. MaxFailures :
    k \in pending /\ failures = n ~>
      \/ Echoed(k)
      \/ failures > n \/ drops > 0 \/ BeyondHarvest(k)
      \/ ws = 0 \/ conn[ws] # "up" \/ Stopping \/ pc["worker"] = "exit"

\* A connection that is broken, or that is marked not ready although it works,
\* because a send on the one before it failed late, does not linger: it is closed, for
\* another to take its place, unless the worker gives up or the bridge is stopped.
BreakIsHandled ==
  pc["worker"] # "none" /\ ws # 0 /\ (conn[ws] = "down" \/ ~ws_ready) ~>
    ws = 0 \/ (conn[ws] = "up" /\ ws_ready) \/ Stopping \/ pc["worker"] = "exit"

\* docs/PROTOCOL.md: connected is the first message after the WebSocket is up.
ConnectedComesFirst ==
  \A c \in Conns : delivered[c] # <<>> => delivered[c][1].event = "connected"

\* docs/ARCHITECTURE.md: no use after free.  Here: of a connection that the
\* worker closes while another thread is sending on it.
NoSendOnClosedConnection ==
  \A t \in Thread : using[t] # 0 => conn[using[t]] # "closed"

\* docs/ARCHITECTURE.md: inject and shutdown are thread-safe.  Here: the worker,
\* which polls and reads without the mutex, and a thread that sends are never in
\* the same connection, whose TLS object serves one thread at a time.
PollAndSendApart ==
  pc["worker"] = "poll" /\ ws # 0 => \A t \in Thread \ {"worker"} : using[t] # ws

\* docs/ARCHITECTURE.md: no use after free.  Here: of the bridge itself, by an
\* API thread that is still inside a command when the stop frees it.
NoUseOfFreedBridge == freed => pc["api"] = "idle"

\* docs/PARITY.md and docs/ROADMAP.md: a lost connection is retried with a
\* backoff.  The worker gives up after reconnect_max attempts in a row (or
\* when it must not reconnect), not before.
GivesUpAtMax ==
  pc["worker"] = "exit" /\ ~Stopping /\ reconnect_enabled =>
    reconnect_attempts >= ReconnectMax
=============================================================================
