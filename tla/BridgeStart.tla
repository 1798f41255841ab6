---------------------------- MODULE BridgeStart ----------------------------
(***************************************************************************)
(* What a bridge owns (src/mod/rtw_bridge.c): rtw_bridge_start takes it     *)
(* piece by piece, and each step that fails has its own list of what to     *)
(* give back; the worker closes and replaces the connection; and            *)
(* rtw_bridge_stop gives back what there is then.  The connection itself is *)
(* WsConnect: a start and the worker call rtw_ws_connect_ex, whose steps    *)
(* are ConnectStep, and each of three places may close what it returned.    *)
(***************************************************************************)
EXTENDS WsConnect

CONSTANT MaxStarts   \* bound on the bridges started

ASSUME StartConstants == MaxStarts \in Nat

VARIABLES
  step,     \* the next step of the start, "run", or of the stop
  worker,   \* "none", "loop", "redial", "dialing" or "done" (not yet joined)
  owned,    \* what is allocated: tech, its mutex, the two results of
            \* split_metadata, the parts of the session, ws and the worker
  surplus,  \* what was given back without being owned
  starts

bridgeVars == <<step, worker, owned, surplus, starts>>
vars == <<bridgeVars, connectVars>>

Init ==
  /\ ConnectInit
  /\ step = "none" /\ worker = "none" /\ owned = {} /\ surplus = {} /\ starts = 0

Acquire(S) == owned' = owned \cup S /\ UNCHANGED surplus

Release(S) == owned' = owned \ S /\ surplus' = surplus \cup (S \ owned)

\* tech_free_meta: free(NULL) is nothing.
Meta == owned \cap {"headers", "params"}

\* rtw_session_destroy; its copy of the parameters may be NULL as well.
SessionParts == {"queue", "playout"} \cup (owned \cap {"custom"})

-----------------------------------------------------------------------------
(* rtw_bridge_start *)

Allocates ==
  /\ step = "none" /\ starts < MaxStarts
  /\ starts' = starts + 1
  /\ Acquire({"tech"})
  /\ step' = "mutex"
  /\ UNCHANGED <<worker, connectVars>>

InitsMutex ==
  /\ step = "mutex"
  /\ \/ step' = "none" /\ Release({"tech"})
     \/ step' = "meta" /\ Acquire({"mutex"})
  /\ UNCHANGED <<worker, starts, connectVars>>

\* split_metadata hands out headers, parameters, both or neither; when it fails
\* it has freed what it had.
SplitsMetadata ==
  /\ step = "meta"
  /\ \/ step' = "none" /\ Release({"mutex", "tech"})
     \/ step' = "session" /\ \E S \in SUBSET {"headers", "params"} : Acquire(S)
  /\ UNCHANGED <<worker, starts, connectVars>>

\* rtw_session_init: the queue, then the playout buffer.
InitsSession ==
  /\ step = "session"
  /\ \/ step' = "session_failed" /\ UNCHANGED <<owned, surplus>>
     \/ step' = "playout" /\ Acquire({"queue"})
  /\ UNCHANGED <<worker, starts, connectVars>>

InitsPlayout ==
  /\ step = "playout"
  /\ \/ step' = "session_failed" /\ Release({"queue"})
     \/ step' = "session_start" /\ Acquire({"playout"})
  /\ UNCHANGED <<worker, starts, connectVars>>

\* Mutant: the metadata of a start without a session is forgotten.
SessionFailedBug == Release({"mutex", "tech"})

SessionFailed == Release(Meta \cup {"mutex", "tech"})

GivesUpSession ==
  /\ step = "session_failed"
  /\ step' = "none" /\ SessionFailed
  /\ UNCHANGED <<worker, starts, connectVars>>

\* The way out of a start that has a session.
Abandons == Release(SessionParts \cup Meta \cup {"mutex", "tech"})

\* rtw_session_start copies the parameters and queues two messages.
CopiesParams ==
  /\ step = "session_start"
  /\ \/ step' = "none" /\ Abandons
     \/ step' = "messages" /\ Acquire(IF "params" \in owned THEN {"custom"} ELSE {})
  /\ UNCHANGED <<worker, starts, connectVars>>

QueuesStart ==
  /\ step = "messages"
  /\ \/ step' = "none" /\ Abandons
     \/ step' = "connect" /\ UNCHANGED <<owned, surplus>>
  /\ UNCHANGED <<worker, starts, connectVars>>

\* The call of rtw_ws_connect_ex, with the headers that there are.
Calls == Call /\ with_headers' = ("headers" \in owned)

Dials ==
  /\ step = "connect"
  /\ Calls
  /\ step' = "dialing"
  /\ UNCHANGED <<worker, owned, surplus, starts>>

DialReturns ==
  /\ step = "dialing"
  /\ \/ pc = "none" /\ step' = "none" /\ Abandons
     \/ pc = "open" /\ step' = "spawn" /\ Acquire({"ws"})
  /\ UNCHANGED <<worker, starts, connectVars>>

\* pthread_create
Spawns ==
  /\ step = "spawn"
  /\ step' = "run" /\ worker' = "loop" /\ Acquire({"worker"})
  /\ UNCHANGED <<starts, connectVars>>

SpawnFails ==
  /\ step = "spawn"
  /\ CloseCall
  /\ step' = "none"
  /\ Release({"ws"} \cup SessionParts \cup Meta \cup {"mutex", "tech"})
  /\ UNCHANGED <<worker, starts>>

-----------------------------------------------------------------------------
(* rtw_ws_connect_ex, in the start or on the worker *)

ConnectStep ==
  /\ step = "dialing" \/ worker = "dialing"
  /\ \/ Resolves \/ Socket \/ Connects \/ NoAddress
     \/ AllocClient \/ AllocHeaders \/ AllocRx \/ SetsUpTls \/ Handshakes
  /\ UNCHANGED bridgeVars

-----------------------------------------------------------------------------
(* ws_worker and try_reconnect *)

\* Mutant: the pointer to the closed connection stays.
StaleWsBug == UNCHANGED <<owned, surplus>> /\ CloseCall

Replaces == Release({"ws"}) /\ CloseCall

DropsConnection ==
  /\ worker = "loop" /\ "ws" \in owned
  /\ Replaces
  /\ worker' = "redial"
  /\ UNCHANGED <<step, starts>>

Redials ==
  /\ worker = "redial"
  /\ Calls
  /\ worker' = "dialing"
  /\ UNCHANGED <<step, owned, surplus, starts>>

\* Mutant: a connection that comes when the bridge is being stopped is forgotten.
ForgottenBug ==
  /\ worker = "dialing"
  /\ \/ /\ pc = "none" /\ worker' = "done"
        /\ UNCHANGED <<owned, surplus, connectVars>>
     \/ /\ pc = "open" /\ worker' = "loop"
        /\ Acquire({"ws"}) /\ UNCHANGED connectVars
     \/ /\ pc = "open" /\ step = "join" /\ worker' = "done"
        /\ UNCHANGED <<owned, surplus, connectVars>>
  /\ UNCHANGED <<step, starts>>

\* A connection that comes when the bridge is being stopped is closed at once.
RedialReturns ==
  /\ worker = "dialing"
  /\ \/ /\ pc = "none" /\ worker' = "done"
        /\ UNCHANGED <<owned, surplus, connectVars>>
     \/ /\ pc = "open" /\ worker' = "loop"
        /\ Acquire({"ws"}) /\ UNCHANGED connectVars
     \/ /\ pc = "open" /\ step = "join" /\ worker' = "done"
        /\ CloseCall /\ UNCHANGED <<owned, surplus>>
  /\ UNCHANGED <<step, starts>>

\* The loop ends: the bridge is stopped, or reconnecting is over or off.
WorkerEnds ==
  /\ worker = "loop"
  /\ worker' = "done"
  /\ UNCHANGED <<step, owned, surplus, starts, connectVars>>

-----------------------------------------------------------------------------
(* rtw_bridge_stop *)

StopBegins ==
  /\ step = "run"
  /\ step' = "join"
  /\ UNCHANGED <<worker, owned, surplus, starts, connectVars>>

\* Mutant: the stop does not wait for the worker.
JoinsBug ==
  /\ step = "join"
  /\ step' = "close"
  /\ UNCHANGED <<worker, owned, surplus, starts, connectVars>>

Joins ==
  /\ step = "join" /\ worker = "done"
  /\ step' = "close" /\ worker' = "none" /\ Release({"worker"})
  /\ UNCHANGED <<starts, connectVars>>

\* if (tech->ws): the last attempt to reconnect may have failed.
LastClosed ==
  IF "ws" \in owned THEN Release({"ws"}) /\ CloseCall
  ELSE UNCHANGED <<owned, surplus, connectVars>>

ClosesLast ==
  /\ step = "close"
  /\ step' = "destroy" /\ LastClosed
  /\ UNCHANGED <<worker, starts>>

DestroysSession ==
  /\ step = "destroy"
  /\ step' = "free" /\ Release(SessionParts)
  /\ UNCHANGED <<worker, starts, connectVars>>

Frees ==
  /\ step = "free"
  /\ step' = "none" /\ Release(Meta \cup {"mutex", "tech"})
  /\ UNCHANGED <<worker, starts, connectVars>>

-----------------------------------------------------------------------------

Next ==
  \/ Allocates \/ InitsMutex \/ SplitsMetadata \/ InitsSession \/ InitsPlayout
  \/ GivesUpSession \/ CopiesParams \/ QueuesStart
  \/ Dials \/ ConnectStep \/ DialReturns \/ Spawns \/ SpawnFails
  \/ DropsConnection \/ Redials \/ RedialReturns \/ WorkerEnds
  \/ StopBegins \/ Joins \/ ClosesLast \/ DestroysSession \/ Frees

Spec == Init /\ [][Next]_vars

-----------------------------------------------------------------------------
(* Properties *)

\* A start that failed, at whatever step, and a stop leave nothing behind, of
\* the bridge or of its connections.
BridgeLeaksNothing == step = "none" => owned = {} /\ held = {}

\* Nothing is freed, destroyed, closed or joined that is not there, of the bridge
\* or of a connection, wherever the start failed and whatever the worker did.
FreedOnce == surplus = {} /\ GivenBackOnce

\* As long as there is a worker, so is all it uses without asking: the bridge,
\* its mutex and both halves of the session.
WorkerHasBridge ==
  "worker" \in owned => {"tech", "mutex", "queue", "playout"} \subseteq owned

\* tech->ws points to an open connection or is NULL, and an open connection that
\* rtw_ws_connect_ex has returned is what it points to.
ConnectionIsOwned ==
  /\ "ws" \in owned => pc = "open"
  /\ pc # "none" /\ "ws" \notin owned => step = "dialing" \/ worker = "dialing"
============================================================================
