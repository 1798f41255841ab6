--------------------------- MODULE RtwBridgeProof ---------------------------
(***************************************************************************)
(* The threads of the bridge, for every size of the session and any number *)
(* of connections.  The session's own invariant carries over: each step of *)
(* the bridge is a step of the session, or changes none of it but for the   *)
(* count of failures.  What the bridge adds is who holds the mutex, which   *)
(* connection is open, and what is left of the stop message's way out.     *)
(***************************************************************************)
EXTENDS RtwBridge, RtwSessionProof

-----------------------------------------------------------------------------
(* The inductive invariant *)

\* The places inside flush_outbound.
Flushing == {"flush", "peek", "send", "failed"}

\* Where a thread can be, and where it goes on after a flush.
Places ==
  /\ pc["control"] \in {"start", "connect", "spawn", "run", "join", "stop", "close",
                        "free", "done"} \cup Flushing
  /\ pc["worker"] \in {"none", "loop", "poll", "text", "handle", "tail", "reconnect",
                       "backoff", "close", "dial", "dialed", "relock", "rehandshake",
                       "reconnected", "exit"} \cup Flushing
  /\ pc["api"] \in {"idle", "check", "lock"} \cup Flushing
  /\ pc["media"] \in {"idle", "read", "write"}
  /\ pc["control"] \in Flushing => ret["control"] \in {"spawn", "close"}
  /\ pc["worker"] \in Flushing => ret["worker"] \in {"poll", "loop", "reconnected"}
  /\ pc["api"] \in Flushing => ret["api"] = "idle"

\* rtw_bridge_start has not handed out the bridge yet ...
Starting ==
  \/ pc["control"] \in {"start", "connect", "spawn"}
  \/ pc["control"] \in Flushing /\ ret["control"] = "spawn"

\* ... rtw_bridge_stop has joined the worker, or the start has failed.
Ending ==
  \/ pc["control"] \in {"stop", "close", "free", "done"}
  \/ pc["control"] \in Flushing /\ ret["control"] = "close"

\* What the other threads can do meanwhile.
Phases ==
  /\ Starting => pc["worker"] = "none"
  /\ pc["control"] \in {"run", "join", "stop"} => pc["worker"] # "none"
  /\ Ending => pc["worker"] \in {"exit", "none"}
  /\ pc["control"] \in {"connect", "spawn", "run", "join", "stop"} => state = "RUNNING"
  /\ pc["control"] \in Flushing /\ ret["control"] = "spawn" => state = "RUNNING"
  /\ pc["worker"] = "none" =>
       /\ ~Stopping /\ mutex = "none" /\ pc["api"] = "idle" /\ pc["media"] = "idle"
       /\ pc["control"] \in Flushing => ret["control"] = "spawn"
  /\ pc["worker"] # "none" /\ pc["control"] # "run" => Stopping /\ pc["media"] = "idle"
  /\ freed <=> pc["control"] = "done"

\* Who is inside flush_outbound, or about to change the session, has the
\* mutex; only rtw_bridge_start, which is alone, does without.
Exclusive ==
  /\ \A t \in Thread : pc[t] \in Flushing =>
       mutex = t \/ (t = "control" /\ ret["control"] = "spawn")
  /\ pc["worker"] \in {"handle", "rehandshake"} => mutex = "worker"
  /\ pc["control"] = "stop" => mutex = "control"

\* There is at most one open connection, the one tech->ws points to, and it
\* is the last one opened.
LastIsOpen ==
  /\ \A c \in Conns : conn[c] \in {"up", "down"} => c = ws
  /\ ws # 0 => conn[ws] \in {"up", "down"}
  /\ \A b, c \in Conns : b < c /\ (conn[b] = "unused" \/ b = ws) => conn[c] = "unused"
  /\ \A c \in Conns : conn[c] = "unused" => delivered[c] = <<>>

Links ==
  /\ LastIsOpen
  /\ pc["worker"] = "dial" => ws = 0
  /\ pc["worker"] = "dialed" => ws # 0
  /\ pc["control"] \in {"start", "connect"} => ws = 0 /\ \A c \in Conns : conn[c] = "unused"
  /\ pc["control"] \in {"free", "done"} => ws = 0
  /\ pc["control"] \in {"peek", "send"} => ws # 0
  /\ pc["control"] = "send" => using["control"] = ws

\* Who reconnects has seen the flag down, and nobody raises it meanwhile.
Ready ==
  /\ ws = 0 => ~ws_ready
  /\ pc["worker"] \in {"reconnect", "backoff", "close", "dial", "dialed"} => ~ws_ready
  /\ pc["worker"] = "exit" => Stopping \/ ~ws_ready

Threads == Places /\ Phases /\ Exclusive /\ Ready

\* What the peer has got was taken off the queue.
Delivered ==
  /\ DeliveredInOrder
  /\ ~freed => \A c \in Conns : \A i \in 1 .. Len(delivered[c]) :
                 \E k \in 1 .. Len(wire) : delivered[c][i] = wire[k]

\* The peer has got the stop message, or cannot get it any more.
StopSettled ==
  \/ conn[ws] # "up" \/ failures > 0
  \/ \E i \in DOMAIN delivered[ws] : delivered[ws][i].event = "stop"

\* The stop message is in the queue, and no more acknowledgements come behind
\* it than the queue has room for.
StopQueued ==
  \E i \in 1 .. Len(outbound) :
    /\ outbound[i].event = "stop"
    /\ i = Len(outbound) \/ (Completed = {} /\ Len(outbound) <= i + HarvestMax)

\* The stop message's way to the peer.
StopUnderway ==
  /\ pc["control"] \in Flushing /\ ret["control"] = "close" /\ ws # 0 =>
       \/ StopSettled
       \/ StopQueued /\ ws_ready /\ pc["control"] # "failed"
  /\ StopReachesPeer

\* When rtw_bridge_stop has flushed there is nothing left to send, or nothing
\* to send it on: a late API command does not begin a send.
Drained ==
  /\ pc["worker"] # "none" /\ pc["control"] \in {"close", "free"} \cup Flushing =>
       state # "RUNNING"
  /\ pc["worker"] # "none" /\ pc["control"] \in {"close", "free"} =>
       /\ pc["api"] \notin {"send", "failed"}
       /\ \/ outbound = <<>> /\ Completed = {}
          \/ (ws = 0 \/ ~ws_ready) /\ pc["api"] # "peek"

BridgeInv ==
  /\ BridgeTypeOK
  /\ SessionInv
  /\ Threads
  /\ Links /\ Delivered /\ StopUnderway /\ Drained

-----------------------------------------------------------------------------
(* The session under the bridge *)

\* A send that finds no memory for its frame counts as a failed allocation.
SendFailure ==
  /\ failures < MaxFailures
  /\ failures' = failures + 1
  /\ UNCHANGED <<state, paused, seq, chunk, timestamp_ms, outbound, drops, playoutVars,
                 clearVars, wire>>

LEMMA SendFailureKeeps ==
  ASSUME SessionInv, SendFailure
  PROVE  SessionInv'
<1>1. /\ UNCHANGED <<state, paused, seq, chunk, timestamp_ms, outbound, drops, written,
                     consumed, pending, markPos, clear_events, clear_armed,
                     clear_latency_samples, wire>>
      /\ failures < MaxFailures /\ failures' = failures + 1
  BY DEF SendFailure, playoutVars, clearVars
<1>2. PICK f \in 0 .. MaxFailures : f = failures' /\ f = failures + 1
  BY <1>1, SessionConstants DEF SessionInv, SessionTypeOK
<1>3. SessionTypeOK'
  BY <1>1, <1>2 DEF SessionInv, SessionTypeOK
<1>4. Stream' = Stream
  BY <1>1 DEF Stream
<1>5. /\ InOrder(Stream)' /\ (\A i \in 1 .. Len(Stream) : Sound(Stream[i]))'
      /\ Counting' /\ MarksInOrder' /\ OneSamplePerClear'
  BY <1>1, <1>4 DEF SessionInv, InOrder, Sound, Counting, MarksInOrder, OneSamplePerClear
<1>6. GapsExplained'
  <2>1. Numbered' = Numbered
    BY <1>4 DEF Numbered
  <2>2. Cardinality(Numbered) \in Nat
    BY StreamType, FiniteDomain, FS_Subset, FS_CardinalityType DEF SessionInv, Numbered
  <2>3. ASSUME NEW n \in Nat, n = Cardinality(Numbered), state # "IDLE"
        PROVE  seq - 1 <= n + drops + f
    <3>1. seq \in Nat /\ drops \in Nat /\ failures \in Nat
      BY SessionConstants DEF SessionInv, SessionTypeOK
    <3>2. seq - 1 <= n + drops + failures
      BY <2>3 DEF SessionInv, GapsExplained
    <3> QED BY <1>2, <3>1, <3>2
  <2> QED BY <1>1, <1>2, <2>1, <2>2, <2>3 DEF GapsExplained
<1> QED BY <1>3, <1>5, <1>6 DEF SessionInv

\* What a step of the bridge does to the session while it lives.
SessionMove ==
  \/ SessionStart \/ SessionStop \/ Rehandshake
  \/ PushPcm16(1) \/ PeekOutbound \/ DropOutboundHead \/ SendFailure
  \/ (\E len \in Lens : PeerMedia(len)) \/ PeerMark \/ PeerClear
  \/ (\E n \in Lens : ReadPlayout(n)) \/ NoteWriteAfterClear
  \/ (\E p \in BOOLEAN : SetPaused(p))
  \/ UNCHANGED sessionVars

LEMMA SessionMoveKeeps ==
  ASSUME SessionInv, SessionMove
  PROVE  SessionInv'
<1>1. 1 \in Nat \ {0}
  OBVIOUS
<1>2. CASE [SessionNext]_sessionVars
  BY <1>2, SessionStep
<1>3. CASE PushPcm16(1) \/ SendFailure
  BY <1>1, <1>3, PushKeeps, SendFailureKeeps
<1> QED BY <1>2, <1>3 DEF SessionMove, SessionNext

\* A failed allocation is remembered.
LEMMA FailuresStay ==
  ASSUME SessionInv, SessionMove, failures > 0
  PROVE  failures' > 0
<1>1. failures \in Nat
  BY SessionConstants DEF SessionInv, SessionTypeOK
<1>2. ASSUME NEW ms, NEW o, Enqueue(ms, o)
      PROVE  failures' > 0
  BY <1>1, <1>2 DEF Enqueue
<1>3. CASE SessionStart
  <2>1. (\E ms, o : Enqueue(ms, o)) \/ failures' = failures + 1
    BY <1>3 DEF SessionStart
  <2> QED BY <1>1, <1>2, <2>1
<1>4. CASE SessionStop \/ Rehandshake \/ PushPcm16(1) \/ PeerClear
  BY <1>2, <1>4 DEF SessionStop, Rehandshake, PushPcm16, PeerClear
<1>5. CASE PeekOutbound
  BY <1>1, <1>5 DEF PeekOutbound, HarvestMarks
<1>6. CASE SendFailure
  BY <1>1, <1>6 DEF SendFailure
<1>7. CASE \/ DropOutboundHead \/ (\E len \in Lens : PeerMedia(len)) \/ PeerMark
           \/ (\E n \in Lens : ReadPlayout(n)) \/ NoteWriteAfterClear
           \/ (\E p \in BOOLEAN : SetPaused(p)) \/ UNCHANGED sessionVars
  BY <1>7 DEF DropOutboundHead, PeerMedia, PeerMark, ReadPlayout, NoteWriteAfterClear,
              SetPaused, sessionVars, queueVars
<1> QED BY <1>3, <1>4, <1>5, <1>6, <1>7 DEF SessionMove

\* Each step of the bridge is at most one of the session.
LEMMA BridgeMovesSession ==
  ASSUME [Next]_vars
  PROVE  SessionMove \/ StopFrees
<1> USE DEF SessionMove
<1>1. ASSUME NEW t, FlushStep(t)
      PROVE  SessionMove \/ StopFrees
  <2>1. CASE Flush(t) \/ FlushFailed(t)
    BY <2>1 DEF Flush, FlushFailed
  <2>2. CASE Peek(t)
    BY <2>2 DEF Peek
  <2>3. CASE SendSucceeds(t)
    BY <2>3 DEF SendSucceeds, DropSent
  <2>4. CASE SendFails(t)
    BY <2>4 DEF SendFails, SendFailure, sessionVars, queueVars
  <2> QED BY <1>1, <2>1, <2>2, <2>3, <2>4 DEF FlushStep
<1>2. CASE ControlStep
  <2>1. CASE StartSession \/ StopSession \/ StopFrees
    BY <2>1 DEF StartSession, StopSession
  <2>2. CASE \/ StartConnects \/ StartConnectFails \/ StartSpawns \/ StartSpawnFails
             \/ StopLocks \/ StopCloses
    BY <2>2 DEF StartConnects, StartConnectFails, StartSpawns, StartSpawnFails, StopLocks,
                StopCloses
  <2> QED BY <1>2, <2>1, <2>2 DEF ControlStep
<1>3. CASE RequestClose \/ StopBegins \/ NetworkBreaks
  BY <1>3 DEF RequestClose, StopBegins, NetworkBreaks
<1>4. CASE WorkerStep
  <2>1. CASE TextHandled
    BY <2>1 DEF TextHandled, HandlePeerJson
  <2>2. CASE Rehandshakes
    BY <2>2 DEF Rehandshakes
  <2>3. CASE \/ WorkerLoop \/ PollIdle \/ PollText \/ PollFails \/ TextLocks
             \/ TailFlushes \/ TailSkips
    BY <2>3 DEF WorkerLoop, PollIdle, PollText, PollFails, TextLocks, TailFlushes, TailSkips
  <2>4. CASE \/ ReconnectBegins \/ BackoffEnds \/ ReconnectCloses \/ DialChecked
             \/ RehandshakeLocks \/ Reconnected
    BY <2>4 DEF ReconnectBegins, BackoffEnds, ReconnectCloses, DialChecked,
                RehandshakeLocks, Reconnected
  <2> QED BY <1>4, <2>1, <2>2, <2>3, <2>4 DEF WorkerStep
<1>5. CASE DialStep
  BY <1>5 DEF DialStep, DialSucceeds, DialFails
<1>6. CASE ApiEnters \/ ApiStep
  BY <1>6 DEF ApiEnters, ApiStep, ApiChecks, ApiClearOrMark, ApiPauseOrStatus
<1>7. CASE MediaReadEnters \/ MediaWriteEnters \/ MediaStep
  BY <1>7 DEF MediaReadEnters, MediaWriteEnters, MediaEnters, MediaStep, MediaRead,
              MediaPlays, MediaSilence
<1>8. CASE UNCHANGED vars
  BY <1>8 DEF vars
<1> QED BY <1>1, <1>2, <1>3, <1>4, <1>5, <1>6, <1>7, <1>8 DEF Next

-----------------------------------------------------------------------------
(* Types *)

LEMMA TypesKept ==
  ASSUME BridgeInv, [Next]_vars
  PROVE  TechTypeOK'
<1> USE BridgeConstants DEF Goto, CallFlush, Thread, Labels, linkVars, flagVars
<1>0. TechTypeOK
  BY DEF BridgeInv, BridgeTypeOK
<1>1. ASSUME NEW t \in {"control", "worker", "api"}, FlushStep(t)
      PROVE  TechTypeOK'
  <2>1. CASE Flush(t)
    BY <1>0, <2>1 DEF Flush, FlushReturns, MutexAfterFlush, TechTypeOK
  <2>2. CASE Peek(t)
    BY <1>0, <2>2 DEF Peek, FlushReturns, MutexAfterFlush, TechTypeOK
  <2>3. CASE SendSucceeds(t)
    <3>1. outbound \in Seq(Message) /\ outbound # <<>>
      BY <2>3 DEF SendSucceeds, DropSent, DropOutboundHead, BridgeInv, BridgeTypeOK,
                  SessionTypeOK
    <3>2. Head(outbound) \in Message
      BY <3>1
    <3>3. ASSUME NEW d \in Seq(Message)
          PROVE  Append(d, Head(outbound)) \in Seq(Message)
      BY <3>2
    <3>4. delivered' \in [Conns -> Seq(Message)]
      <4>1. delivered \in [Conns -> Seq(Message)]
        BY <1>0 DEF TechTypeOK
      <4> HIDE DEF Message
      <4> QED BY <4>1, <2>3, <3>3 DEF SendSucceeds
    <3> QED BY <1>0, <2>3, <3>4 DEF SendSucceeds, TechTypeOK
  <2>4. CASE SendFails(t)
    BY <1>0, <2>4 DEF SendFails, TechTypeOK
  <2>5. CASE FlushFailed(t)
    BY <1>0, <2>5 DEF FlushFailed, FlushReturns, MutexAfterFlush, TechTypeOK
  <2> QED BY <1>1, <2>1, <2>2, <2>3, <2>4, <2>5 DEF FlushStep
<1>2. CASE ControlStep
  <2>1. CASE StartSession
    BY <1>0, <2>1 DEF StartSession, TechTypeOK
  <2>2. CASE StartConnects
    BY <1>0, <2>2 DEF StartConnects, TechTypeOK, Conns
  <2>3. CASE StartConnectFails \/ StartSpawns \/ StartSpawnFails \/ StopLocks
    BY <1>0, <2>3 DEF StartConnectFails, StartSpawns, StartSpawnFails, StopLocks, TechTypeOK
  <2>4. CASE StopSession
    <3>1. ws_ready' \in BOOLEAN
      BY <1>0, <2>4 DEF StopSession, ReadyForStop, TechTypeOK
    <3> QED BY <1>0, <2>4, <3>1 DEF StopSession, TechTypeOK
  <2>5. CASE StopCloses
    BY <1>0, <2>5 DEF StopCloses, Closed, TechTypeOK
  <2>6. CASE StopFrees
    BY <1>0, <2>6 DEF StopFrees, TechTypeOK
  <2> QED BY <1>2, <2>1, <2>2, <2>3, <2>4, <2>5, <2>6 DEF ControlStep
<1>3. CASE RequestClose \/ StopBegins \/ NetworkBreaks
  <2>1. CASE RequestClose
    BY <1>0, <2>1 DEF RequestClose, TechTypeOK
  <2>2. CASE StopBegins
    BY <1>0, <2>2 DEF StopBegins, TechTypeOK
  <2>3. CASE NetworkBreaks
    BY <1>0, <2>3 DEF NetworkBreaks, TechTypeOK
  <2> QED BY <1>3, <2>1, <2>2, <2>3
<1>4. CASE WorkerStep
  <2>1. CASE WorkerLoop
    BY <1>0, <2>1 DEF WorkerLoop, LoopTarget, Stopping, TechTypeOK
  <2>2. CASE PollIdle \/ PollText \/ TextLocks
    BY <1>0, <2>2 DEF PollIdle, PollText, TextLocks, TechTypeOK
  <2>8. CASE PollFails
    BY <1>0, <2>8 DEF PollFails, ReadyAfterBreak, TechTypeOK
  <2>3. CASE TextHandled \/ Rehandshakes
    BY <1>0, <2>3 DEF TextHandled, Rehandshakes, TechTypeOK
  <2>4. CASE TailFlushes \/ TailSkips
    BY <1>0, <2>4 DEF TailFlushes, TailSkips, TechTypeOK
  <2>5. CASE ReconnectBegins \/ Reconnected
    BY <1>0, <2>5 DEF ReconnectBegins, Reconnected, MayReconnect, TechTypeOK
  <2>6. CASE BackoffEnds \/ RehandshakeLocks
    BY <1>0, <2>6 DEF BackoffEnds, RehandshakeLocks, TechTypeOK
  <2>7. CASE ReconnectCloses
    BY <1>0, <2>7 DEF ReconnectCloses, OldClosed, Closed, TechTypeOK
  <2>9. CASE DialChecked
    <3>1. ws_ready' \in BOOLEAN
      BY <1>0, <2>9 DEF DialChecked, TechTypeOK
    <3>2. conn' \in [Conns -> {"unused", "up", "down", "closed"}] /\ ws' \in Conns \cup {0}
      BY <1>0, <2>9 DEF DialChecked, Closed, TechTypeOK
    <3> QED BY <1>0, <2>9, <3>1, <3>2 DEF DialChecked, TechTypeOK
  <2> QED BY <1>4, <2>1, <2>2, <2>3, <2>4, <2>5, <2>6, <2>7, <2>8, <2>9 DEF WorkerStep
<1>5. CASE DialStep
  <2>1. CASE DialSucceeds
    BY <1>0, <2>1 DEF DialSucceeds, TechTypeOK
  <2>2. CASE DialFails
    BY <1>0, <2>2 DEF DialFails, TechTypeOK
  <2> QED BY <1>5, <2>1, <2>2 DEF DialStep
<1>6. CASE ApiEnters \/ ApiStep
  BY <1>0, <1>6 DEF ApiEnters, ApiStep, ApiChecks, ApiClearOrMark, ApiPauseOrStatus, TechTypeOK
<1>7. CASE MediaReadEnters \/ MediaWriteEnters \/ MediaStep
  BY <1>0, <1>7 DEF MediaReadEnters, MediaWriteEnters, MediaEnters, MediaStep, MediaRead,
                    MediaPlays, MediaSilence, MediaReturns, TechTypeOK
<1>8. CASE UNCHANGED vars
  BY <1>0, <1>8 DEF vars, bridgeVars, TechTypeOK
<1> QED BY <1>1, <1>2, <1>3, <1>4, <1>5, <1>6, <1>7, <1>8 DEF Next

-----------------------------------------------------------------------------
(* Connections *)

LEMMA ConnectionType ==
  ASSUME NEW c \in Conns
  PROVE  c \in Nat /\ c # 0
BY BridgeConstants DEF Conns

\* The new connection comes after all those that were opened before it.
LEMMA OpeningKeeps ==
  ASSUME TechTypeOK, LastIsOpen, ws = 0, NEW c \in Conns, conn[c] = "unused",
         \A b \in Conns : b < c => conn[b] # "unused",
         ws' = c, conn' = [conn EXCEPT ![c] = "up"], delivered' = delivered
  PROVE  LastIsOpen'
<1>1. /\ \A b \in Conns : conn'[b] = IF b = c THEN "up" ELSE conn[b]
      /\ \A b \in Conns : conn[b] \notin {"up", "down"}
  BY ConnectionType DEF TechTypeOK, LastIsOpen
<1>2. ASSUME NEW b \in Conns, NEW d \in Conns, b < d, conn'[b] = "unused" \/ b = c
      PROVE  conn'[d] = "unused"
  <2>1. b \in Nat /\ c \in Nat /\ d \in Nat
    BY ConnectionType
  <2>2. b >= c
    BY <1>1, <1>2, <2>1
  <2>3. d # c /\ conn[b] = "unused"
    BY <1>1, <1>2, <2>1, <2>2
  <2> QED BY <1>1, <1>2, <2>3 DEF LastIsOpen
<1> QED BY <1>1, <1>2 DEF LastIsOpen

LEMMA ClosingKeeps ==
  ASSUME TechTypeOK, LastIsOpen, ws' = 0, conn' = Closed, delivered' = delivered
  PROVE  LastIsOpen' /\ \A c \in Conns : conn'[c] \notin {"up", "down"}
<1>1. \A c \in Conns : conn'[c] = IF c = ws THEN "closed" ELSE conn[c]
  BY ConnectionType DEF TechTypeOK, Closed
<1>2. \A c \in Conns : conn'[c] \notin {"up", "down"}
  BY <1>1 DEF LastIsOpen
<1>3. ASSUME NEW b \in Conns, NEW c \in Conns, b < c, conn'[b] = "unused" \/ b = 0
      PROVE  conn'[c] = "unused"
  <2>1. conn[b] = "unused"
    BY <1>1, <1>3, ConnectionType
  <2>2. conn[c] = "unused"
    BY <2>1, <1>3 DEF LastIsOpen
  <2>3. c # ws
    BY <2>2, ConnectionType DEF LastIsOpen
  <2> QED BY <1>1, <2>2, <2>3
<1> QED BY <1>1, <1>2, <1>3 DEF LastIsOpen

-----------------------------------------------------------------------------
(* Threads *)

\* Only the start, the stop and the freeing of a session change its state.
LEMMA StateKept ==
  ASSUME \/ \E t \in {"control", "worker", "api"} : FlushStep(t)
         \/ WorkerStep \/ ApiStep \/ MediaStep
  PROVE  state' = state
<1> USE DEF sessionVars
<1>1. ASSUME NEW t, FlushStep(t)
      PROVE  state' = state
  BY <1>1 DEF FlushStep, Flush, FlushFailed, Peek, PeekOutbound, HarvestMarks,
              SendSucceeds, DropSent, DropOutboundHead, SendFails
<1>2. CASE WorkerStep
  BY <1>2 DEF WorkerStep, WorkerLoop, PollIdle, PollText, PollFails, TextLocks, TextHandled,
              HandlePeerJson, PeerMedia, PeerMark, PeerClear, TailFlushes, TailSkips,
              ReconnectBegins, BackoffEnds, ReconnectCloses, DialChecked,
              RehandshakeLocks, Rehandshakes, Rehandshake, Reconnected
<1>3. CASE ApiStep
  BY <1>3 DEF ApiStep, ApiChecks, ApiClearOrMark, PeerMark, PeerClear, ApiPauseOrStatus,
              SetPaused
<1>4. CASE MediaStep
  BY <1>4 DEF MediaStep, MediaRead, MediaPlays, MediaSilence, PushPcm16, ReadPlayout,
              NoteWriteAfterClear
<1> QED BY <1>1, <1>2, <1>3, <1>4

LEMMA ThreadsKept ==
  ASSUME BridgeInv, [Next]_vars
  PROVE  Threads'
<1> USE DEF TechTypeOK, Threads, Places, Phases, Starting, Ending, Exclusive, Ready, Links,
            Goto, CallFlush, Thread, Labels, Flushing, linkVars, flagVars, sessionVars,
            Stopping
<1>0. TechTypeOK /\ Threads /\ Links
  BY DEF BridgeInv, BridgeTypeOK
<1>1. ASSUME NEW t \in {"control", "worker", "api"}, FlushStep(t)
      PROVE  Threads'
  <2>1. state' = state
    BY <1>1, StateKept
  <2>2. CASE Flush(t)
    BY <1>0, <2>1, <2>2 DEF Flush, FlushReturns, MutexAfterFlush
  <2>3. CASE Peek(t)
    BY <1>0, <2>1, <2>3 DEF Peek, FlushReturns, MutexAfterFlush
  <2>4. CASE SendSucceeds(t) \/ SendFails(t)
    BY <1>0, <2>1, <2>4 DEF SendSucceeds, SendFails
  <2>5. CASE FlushFailed(t)
    BY <1>0, <2>1, <2>5 DEF FlushFailed, FlushReturns, MutexAfterFlush
  <2> QED BY <1>1, <2>2, <2>3, <2>4, <2>5 DEF FlushStep
<1>2. CASE ControlStep
  <2>1. CASE StartSession
    BY <1>0, <2>1 DEF StartSession, SessionStart
  <2>2. CASE StartConnects \/ StartConnectFails
    BY <1>0, <2>2 DEF StartConnects, StartConnectFails
  <2>3. CASE StartSpawns
    BY <1>0, <2>3 DEF StartSpawns
  <2>4. CASE StartSpawnFails
    BY <1>0, <2>4 DEF StartSpawnFails
  <2>5. CASE StopLocks
    BY <1>0, <2>5 DEF StopLocks, WorkerJoined
  <2>6. CASE StopSession
    BY <1>0, <2>6 DEF StopSession, ReadyForStop
  <2>7. CASE StopCloses \/ StopFrees
    BY <1>0, <2>7 DEF StopCloses, StopFrees
  <2> QED BY <1>2, <2>1, <2>2, <2>3, <2>4, <2>5, <2>6, <2>7 DEF ControlStep
<1>3. CASE RequestClose \/ StopBegins \/ NetworkBreaks
  <2>1. CASE RequestClose \/ StopBegins
    BY <1>0, <2>1 DEF RequestClose, StopBegins
  <2>2. CASE NetworkBreaks
    BY <1>0, <2>2 DEF NetworkBreaks
  <2> QED BY <1>3, <2>1, <2>2
<1>4. CASE WorkerStep
  <2>1. state' = state
    BY <1>4, StateKept
  <2>2. CASE WorkerLoop \/ PollIdle \/ PollText \/ PollFails
    BY <1>0, <2>1, <2>2 DEF WorkerLoop, LoopTarget, PollIdle, PollText, PollFails,
                            ReadyAfterBreak
  <2>3. CASE TextLocks \/ TextHandled \/ TailFlushes \/ TailSkips
    BY <1>0, <2>1, <2>3 DEF TextLocks, TextHandled, TailFlushes, TailSkips
  <2>4. CASE ReconnectBegins \/ BackoffEnds \/ ReconnectCloses
    BY <1>0, <2>1, <2>4 DEF ReconnectBegins, BackoffEnds, ReconnectCloses
  <2>5. CASE DialChecked
    BY <1>0, <2>1, <2>5 DEF DialChecked
  <2>6. CASE RehandshakeLocks \/ Rehandshakes \/ Reconnected
    BY <1>0, <2>1, <2>6 DEF RehandshakeLocks, Rehandshakes, Reconnected
  <2> QED BY <1>4, <2>2, <2>3, <2>4, <2>5, <2>6 DEF WorkerStep
<1>5. CASE DialStep
  BY <1>0, <1>5, ConnectionType DEF DialStep, DialSucceeds, DialFails
<1>6. CASE ApiEnters \/ ApiStep
  <2>1. ApiStep => state' = state
    BY StateKept
  <2> QED BY <1>0, <1>6, <2>1 DEF ApiEnters, Attached, ApiStep, ApiChecks, ApiClearOrMark,
                                  ApiPauseOrStatus
<1>7. CASE MediaReadEnters \/ MediaWriteEnters \/ MediaStep
  <2>1. MediaStep => state' = state
    BY StateKept
  <2> QED BY <1>0, <1>7, <2>1 DEF MediaReadEnters, MediaWriteEnters, MediaEnters, Attached,
                                  MediaStep, MediaRead, MediaPlays, MediaSilence, MediaReturns
<1>8. CASE UNCHANGED vars
  BY <1>0, <1>8 DEF vars, bridgeVars
<1> QED BY <1>1, <1>2, <1>3, <1>4, <1>5, <1>6, <1>7, <1>8 DEF Next

\* The connections that the threads open, break and close.
LEMMA LinksKept ==
  ASSUME BridgeInv, [Next]_vars
  PROVE  Links'
<1> USE DEF TechTypeOK, Threads, Places, Phases, Starting, Ending, Exclusive, Links,
            Goto, CallFlush, Thread, Labels, Flushing, linkVars, flagVars, Stopping
<1>0. TechTypeOK /\ Places /\ Phases /\ Exclusive /\ Links
  BY DEF BridgeInv, BridgeTypeOK
<1>1. ASSUME NEW t \in {"control", "worker", "api"}, FlushStep(t)
      PROVE  Links'
  <2>1. CASE SendSucceeds(t)
    BY <1>0, <2>1 DEF SendSucceeds, LastIsOpen
  <2>2. CASE Flush(t) \/ Peek(t) \/ SendFails(t) \/ FlushFailed(t)
    <3>1. LastIsOpen'
      BY <1>0, <2>2 DEF Flush, Peek, FlushReturns, SendFails, FlushFailed, LastIsOpen
    <3> QED BY <1>0, <2>2, <3>1 DEF Flush, Peek, FlushReturns, SendFails, FlushFailed
  <2> QED BY <1>1, <2>1, <2>2 DEF FlushStep
<1>2. CASE ControlStep
  <2>1. CASE StartConnects
    <3>1. 1 \in Conns /\ \A b \in Conns : ~(b < 1)
      BY BridgeConstants DEF Conns
    <3>2. LastIsOpen'
      BY <1>0, <2>1, <3>1, OpeningKeeps DEF StartConnects
    <3> QED BY <1>0, <2>1, <3>1, <3>2 DEF StartConnects
  <2>2. CASE StopCloses
    <3>1. LastIsOpen'
      BY <1>0, <2>2, ClosingKeeps DEF StopCloses
    <3> QED BY <1>0, <2>2, <3>1 DEF StopCloses
  <2>3. CASE StartSession \/ StartConnectFails \/ StartSpawns \/ StartSpawnFails
    BY <1>0, <2>3 DEF StartSession, StartConnectFails, StartSpawns, StartSpawnFails,
                      LastIsOpen
  <2>4. CASE StopLocks \/ StopSession \/ StopFrees
    BY <1>0, <2>4 DEF StopLocks, StopSession, StopFrees, LastIsOpen
  <2> QED BY <1>2, <2>1, <2>2, <2>3, <2>4 DEF ControlStep
<1>3. CASE RequestClose \/ StopBegins
  BY <1>0, <1>3 DEF RequestClose, StopBegins, LastIsOpen
<1>4. CASE NetworkBreaks
  BY <1>0, <1>4 DEF NetworkBreaks, LastIsOpen
<1>5. CASE WorkerStep
  <2>1. CASE ReconnectCloses
    <3>1. LastIsOpen'
      BY <1>0, <2>1, ClosingKeeps DEF ReconnectCloses, OldClosed
    <3> QED BY <1>0, <2>1, <3>1 DEF ReconnectCloses
  <2>2. CASE DialChecked
    <3>1. LastIsOpen'
      <4>1. CASE Stopping
        BY <1>0, <2>2, <4>1, ClosingKeeps DEF DialChecked
      <4>2. CASE ~Stopping
        BY <1>0, <2>2, <4>2 DEF DialChecked, LastIsOpen
      <4> QED BY <4>1, <4>2
    <3> QED BY <1>0, <2>2, <3>1 DEF DialChecked
  <2>3. CASE WorkerLoop \/ PollIdle \/ PollText \/ PollFails \/ TextLocks \/ TextHandled
    BY <1>0, <2>3 DEF WorkerLoop, LoopTarget, PollIdle, PollText, PollFails, TextLocks,
                      TextHandled, LastIsOpen
  <2>4. CASE TailFlushes \/ TailSkips \/ ReconnectBegins \/ BackoffEnds
    BY <1>0, <2>4 DEF TailFlushes, TailSkips, ReconnectBegins, BackoffEnds, LastIsOpen
  <2>5. CASE RehandshakeLocks \/ Rehandshakes \/ Reconnected
    BY <1>0, <2>5 DEF RehandshakeLocks, Rehandshakes, Reconnected, LastIsOpen
  <2> QED BY <1>5, <2>1, <2>2, <2>3, <2>4, <2>5 DEF WorkerStep
<1>6. CASE DialStep
  <2>1. CASE DialSucceeds
    <3>1. LastIsOpen'
      BY <1>0, <2>1, OpeningKeeps DEF DialSucceeds
    <3> QED BY <1>0, <2>1, <3>1, ConnectionType DEF DialSucceeds
  <2>2. CASE DialFails
    BY <1>0, <2>2 DEF DialFails, LastIsOpen
  <2> QED BY <1>6, <2>1, <2>2 DEF DialStep
<1>7. CASE ApiEnters \/ ApiStep
  BY <1>0, <1>7 DEF ApiEnters, ApiStep, ApiChecks, ApiClearOrMark, ApiPauseOrStatus,
                    LastIsOpen
<1>8. CASE MediaReadEnters \/ MediaWriteEnters \/ MediaStep
  BY <1>0, <1>8 DEF MediaReadEnters, MediaWriteEnters, MediaEnters, MediaStep, MediaRead,
                    MediaPlays, MediaSilence, MediaReturns, LastIsOpen
<1>9. CASE UNCHANGED vars
  BY <1>0, <1>9 DEF vars, bridgeVars, LastIsOpen
<1> QED BY <1>1, <1>2, <1>3, <1>4, <1>5, <1>6, <1>7, <1>8, <1>9 DEF Next

-----------------------------------------------------------------------------
(* What the peer receives *)

\* Only a send and the freeing of the bridge have to do with it.
LEMMA WireSteps ==
  ASSUME [Next]_vars
  PROVE  \/ \E t \in {"control", "worker", "api"} : FlushStep(t) /\ SendSucceeds(t)
         \/ StopFrees
         \/ UNCHANGED <<delivered, wire, freed>>
<1> USE DEF sessionVars, linkVars
<1>1. ASSUME NEW t \in {"control", "worker", "api"}, FlushStep(t), ~SendSucceeds(t)
      PROVE  UNCHANGED <<delivered, wire, freed>>
  BY <1>1 DEF FlushStep, Flush, FlushFailed, Peek, PeekOutbound, SendFails
<1>2. ASSUME ControlStep, ~StopFrees
      PROVE  UNCHANGED <<delivered, wire, freed>>
  BY <1>2 DEF ControlStep, StartSession, SessionStart, StartConnects, StartConnectFails,
              StartSpawns, StartSpawnFails, StopLocks, StopSession, SessionStop, StopCloses
<1>3. ASSUME RequestClose \/ StopBegins \/ NetworkBreaks \/ DialStep
      PROVE  UNCHANGED <<delivered, wire, freed>>
  BY <1>3 DEF RequestClose, StopBegins, NetworkBreaks, DialStep, DialSucceeds, DialFails
<1>4. ASSUME WorkerStep
      PROVE  UNCHANGED <<delivered, wire, freed>>
  BY <1>4 DEF WorkerStep, WorkerLoop, PollIdle, PollText, PollFails, TextLocks, TextHandled,
              HandlePeerJson, PeerMedia, PeerMark, PeerClear, TailFlushes, TailSkips,
              ReconnectBegins, BackoffEnds, ReconnectCloses, DialChecked,
              RehandshakeLocks, Rehandshakes, Rehandshake, Reconnected
<1>5. ASSUME ApiEnters \/ ApiStep
      PROVE  UNCHANGED <<delivered, wire, freed>>
  BY <1>5 DEF ApiEnters, ApiStep, ApiChecks, ApiClearOrMark, PeerMark, PeerClear,
              ApiPauseOrStatus, SetPaused
<1>6. ASSUME MediaReadEnters \/ MediaWriteEnters \/ MediaStep
      PROVE  UNCHANGED <<delivered, wire, freed>>
  BY <1>6 DEF MediaReadEnters, MediaWriteEnters, MediaEnters, MediaStep, MediaRead,
              MediaPlays, MediaSilence, MediaReturns, PushPcm16, ReadPlayout,
              NoteWriteAfterClear
<1>7. CASE UNCHANGED vars
  BY <1>7 DEF vars, bridgeVars
<1> QED BY <1>1, <1>2, <1>3, <1>4, <1>5, <1>6, <1>7 DEF Next

\* The head of the queue comes after all that was taken off it.
LEMMA HeadFollows ==
  ASSUME SessionInv, outbound # <<>>
  PROVE  /\ Head(outbound) \in Message
         /\ \A k \in 1 .. Len(wire) :
              wire[k] \in Message /\ Precedes(wire[k], Head(outbound))
<1>1. /\ wire \in Seq(Message) /\ outbound \in Seq(Message) /\ Len(outbound) > 0
      /\ Len(wire) \in Nat /\ Len(outbound) \in Nat /\ InOrder(Stream)
  BY LenProperties, EmptySeq DEF SessionInv, SessionTypeOK
<1>2. Head(outbound) = outbound[1] /\ Head(outbound) \in Message
  BY <1>1
<1>3. /\ Len(Stream) = Len(wire) + Len(outbound)
      /\ Stream[Len(wire) + 1] = outbound[1]
      /\ \A k \in 1 .. Len(wire) : Stream[k] = wire[k]
  BY <1>1, ConcatProperties DEF Stream
<1>4. ASSUME NEW k \in 1 .. Len(wire)
      PROVE  wire[k] \in Message /\ Precedes(wire[k], Head(outbound))
  <2>1. wire[k] \in Message
    BY <1>1, ElementOfSeq
  <2>2. /\ k \in 1 .. Len(Stream) /\ Len(wire) + 1 \in 1 .. Len(Stream)
        /\ k < Len(wire) + 1
    BY <1>1, <1>3
  <2>3. Precedes(Stream[k], Stream[Len(wire) + 1])
    BY <1>1, <2>2 DEF InOrder
  <2> QED BY <1>2, <1>3, <2>1, <2>3
<1> QED BY <1>2, <1>4

\* A connection that still delivers is the one tech->ws points to, and those
\* after it have not been opened.
LEMMA UpIsLast ==
  ASSUME LastIsOpen, NEW c \in Conns, conn[c] = "up"
  PROVE  c = ws /\ \A d \in Conns : c < d => delivered[d] = <<>>
BY DEF LastIsOpen

\* The freed bridge has no thread that sends.
LEMMA SenderLives ==
  ASSUME Threads, NEW t \in {"control", "worker", "api"}, FlushStep(t)
  PROVE  ~freed /\ pc[t] \in Flushing
<1>1. pc[t] \in Flushing
  BY DEF FlushStep, Flush, Peek, SendSucceeds, SendFails, FlushFailed, Flushing
<1> QED BY <1>1 DEF Threads, Places, Phases, Ending, Flushing, FlushStep

\* A message that the peer gets was the head of the queue.
LEMMA DeliveryKeepsOrder ==
  ASSUME BridgeInv, outbound # <<>>, NEW u \in Conns, conn[u] = "up", ~freed,
         delivered' = [delivered EXCEPT ![u] = Append(@, Head(outbound))]
  PROVE  DeliveredInOrder'
<1>0. TechTypeOK /\ SessionInv /\ LastIsOpen /\ Delivered
  BY DEF BridgeInv, BridgeTypeOK, Links
<1> DEFINE h == Head(outbound)
           n == Len(delivered[u])
<1>1. /\ h \in Message
      /\ \A k \in 1 .. Len(wire) : wire[k] \in Message /\ Precedes(wire[k], h)
  BY <1>0, HeadFollows
<1>2. delivered[u] \in Seq(Message) /\ n \in Nat
  BY <1>0 DEF TechTypeOK
<1>3. /\ \A c \in Conns \ {u} : delivered'[c] = delivered[c]
      /\ delivered'[u] = Append(delivered[u], h)
  BY <1>0 DEF TechTypeOK
<1>4. /\ DOMAIN delivered'[u] = 1 .. (n + 1) /\ delivered'[u][n + 1] = h
      /\ \A i \in 1 .. n : delivered'[u][i] = delivered[u][i]
  BY <1>1, <1>2, <1>3, AppendProperties
<1>5. \A c \in Conns : u < c => delivered[c] = <<>>
  BY <1>0, UpIsLast
<1>6. ASSUME NEW c \in Conns, NEW i \in DOMAIN delivered[c]
      PROVE  delivered[c][i].seq > 0 /\ h.seq > 0 => delivered[c][i].seq < h.seq
  <2>1. delivered[c] \in Seq(Message)
    BY <1>0 DEF TechTypeOK
  <2>2. i \in 1 .. Len(delivered[c])
    BY <2>1
  <2>3. PICK k \in 1 .. Len(wire) : delivered[c][i] = wire[k]
    BY <1>0, <2>2 DEF Delivered
  <2> QED BY <1>1, <2>3 DEF Precedes
<1>7. ASSUME NEW b \in Conns, NEW c \in Conns,
             NEW i \in DOMAIN delivered'[b], NEW j \in DOMAIN delivered'[c],
             b < c \/ (b = c /\ i < j),
             delivered'[b][i].seq > 0, delivered'[c][j].seq > 0
      PROVE  delivered'[b][i].seq < delivered'[c][j].seq
  <2>1. b \in Nat /\ c \in Nat /\ u \in Nat
    BY ConnectionType
  <2>2. DOMAIN delivered[u] = 1 .. n
    BY <1>2
  <2>3. CASE b = u /\ i = n + 1
    <3>1. CASE b < c
      <4>1. c # u /\ delivered[c] = <<>>
        BY <2>1, <2>3, <3>1, <1>5
      <4>2. j \in DOMAIN <<>>
        BY <1>3, <4>1
      <4> QED BY <4>2
    <3>2. CASE b = c /\ i < j
      BY <2>3, <3>2, <1>2, <1>4
    <3> QED BY <1>7, <3>1, <3>2
  <2>4. CASE ~(b = u /\ i = n + 1)
    <3>1. i \in DOMAIN delivered[b] /\ delivered'[b][i] = delivered[b][i]
      BY <2>4, <2>2, <1>2, <1>3, <1>4
    <3>2. CASE c = u /\ j = n + 1
      BY <3>1, <3>2, <1>4, <1>6, <1>7
    <3>3. CASE ~(c = u /\ j = n + 1)
      <4>1. j \in DOMAIN delivered[c] /\ delivered'[c][j] = delivered[c][j]
        BY <3>3, <2>2, <1>2, <1>3, <1>4
      <4> QED BY <1>0, <1>7, <3>1, <4>1 DEF Delivered, DeliveredInOrder
    <3> QED BY <3>2, <3>3
  <2> QED BY <2>3, <2>4
<1> QED BY <1>7 DEF DeliveredInOrder

LEMMA DeliveredKept ==
  ASSUME BridgeInv, [Next]_vars
  PROVE  Delivered'
<1>0. TechTypeOK /\ SessionInv /\ Threads /\ Delivered
  BY DEF BridgeInv, BridgeTypeOK
<1>1. ASSUME NEW t \in {"control", "worker", "api"}, FlushStep(t), SendSucceeds(t)
      PROVE  Delivered'
  <2>1. /\ outbound # <<>> /\ wire' = Append(wire, Head(outbound))
        /\ ~freed /\ using[t] \in Conns
    BY <1>0, <1>1, SenderLives DEF SendSucceeds, DropSent, DropOutboundHead, TechTypeOK, Thread
  <2>2. /\ Head(outbound) \in Message /\ wire \in Seq(Message) /\ Len(wire) \in Nat
        /\ delivered \in [Conns -> Seq(Message)]
    BY <1>0, <2>1, HeadFollows DEF SessionInv, SessionTypeOK, TechTypeOK
  <2>3. /\ Len(wire') = Len(wire) + 1 /\ wire'[Len(wire) + 1] = Head(outbound)
        /\ \A k \in 1 .. Len(wire) : wire'[k] = wire[k]
    BY <2>1, <2>2, AppendProperties
  <2>4. \A k \in 1 .. Len(wire) : k \in 1 .. Len(wire')
    BY <2>2, <2>3
  <2>5. \A c \in Conns : \A i \in 1 .. Len(delivered[c]) :
          \E k \in 1 .. Len(wire') : delivered[c][i] = wire'[k]
    BY <1>0, <2>1, <2>3, <2>4 DEF Delivered
  <2>6. CASE conn[using[t]] = "up"
    <3> DEFINE u == using[t]
               n == Len(delivered[u])
    <3>1. /\ delivered' = [delivered EXCEPT ![u] = Append(@, Head(outbound))]
      BY <1>1, <2>6 DEF SendSucceeds
    <3>2. DeliveredInOrder'
      BY <2>1, <2>6, <3>1, DeliveryKeepsOrder
    <3>3. ASSUME NEW c \in Conns, NEW i \in 1 .. Len(delivered'[c])
          PROVE  \E k \in 1 .. Len(wire') : delivered'[c][i] = wire'[k]
      <4>1. CASE c # u
        BY <2>2, <2>5, <3>1, <4>1
      <4>2. CASE c = u
        <5>1. /\ n \in Nat /\ delivered'[u] = Append(delivered[u], Head(outbound))
              /\ delivered[u] \in Seq(Message)
          BY <2>1, <2>2, <3>1
        <5>2. /\ Len(delivered'[u]) = n + 1 /\ delivered'[u][n + 1] = Head(outbound)
              /\ \A k \in 1 .. n : delivered'[u][k] = delivered[u][k]
          BY <2>2, <5>1, AppendProperties
        <5>3. CASE i = n + 1
          <6>1. Len(wire) + 1 \in 1 .. Len(wire')
            BY <2>2, <2>3
          <6> QED BY <2>3, <4>2, <5>2, <5>3, <6>1
        <5>4. CASE i # n + 1
          <6>1. i \in 1 .. n
            BY <4>2, <5>1, <5>2, <5>4
          <6>2. PICK k \in 1 .. Len(wire') : delivered[u][i] = wire'[k]
            BY <2>1, <2>5, <6>1
          <6>3. delivered'[c][i] = delivered[u][i]
            BY <4>2, <5>2, <6>1
          <6> QED BY <6>2, <6>3
        <5> QED BY <5>3, <5>4
      <4> QED BY <4>1, <4>2
    <3> QED BY <3>2, <3>3 DEF Delivered
  <2>7. CASE conn[using[t]] # "up"
    <3>1. delivered' = delivered
      BY <1>1, <2>7 DEF SendSucceeds
    <3> QED BY <1>0, <2>5, <3>1 DEF Delivered, DeliveredInOrder
  <2> QED BY <2>6, <2>7
<1>2. CASE StopFrees
  BY <1>0, <1>2 DEF StopFrees, linkVars, Delivered, DeliveredInOrder
<1>3. CASE UNCHANGED <<delivered, wire, freed>>
  BY <1>0, <1>3 DEF Delivered, DeliveredInOrder
<1> QED BY <1>1, <1>2, <1>3, WireSteps

-----------------------------------------------------------------------------
(* The stop message in the queue *)

\* A full queue loses its oldest messages: an element near the end stays, as
\* far from the end as it was.
LEMMA NewestKeepsEnd ==
  ASSUME NEW S, NEW q \in Seq(S), NEW i \in 1 .. Len(q), Len(q) - i < QueueCap
  PROVE  \E j \in 1 .. Len(Newest(q)) :
           Newest(q)[j] = q[i] /\ Len(Newest(q)) - j = Len(q) - i
<1>1. Len(q) \in Nat /\ QueueCap \in Nat
  BY SessionConstants
<1>2. CASE Len(q) > QueueCap
  <2> DEFINE k == Len(q) - QueueCap
  <2>1. k \in 1 .. Len(q) /\ Newest(q) = SubSeq(q, k + 1, Len(q)) /\ Len(q) - k = QueueCap
    BY <1>1, <1>2, SessionConstants DEF Newest
  <2> HIDE DEF k
  <2>2. \A n \in (k + 1) .. Len(q) : q[n] \in S
    BY <1>1, <2>1, ElementOfSeq
  <2>3. /\ Len(Newest(q)) = QueueCap
        /\ \A n \in 1 .. QueueCap : Newest(q)[n] = q[n + k]
    BY <1>1, <2>1, <2>2, SubSeqProperties, SessionConstants
  <2>4. i - k \in 1 .. QueueCap /\ QueueCap - (i - k) = Len(q) - i /\ (i - k) + k = i
    BY <1>1, <2>1
  <2> QED BY <2>3, <2>4
<1>3. CASE ~(Len(q) > QueueCap)
  BY <1>1, <1>3 DEF Newest
<1> QED BY <1>2, <1>3

\* Either all messages are queued or one of them found no memory.
LEMMA OutcomeOrFailure ==
  ASSUME NEW ms \in Seq(Message), NEW goOn \in BOOLEAN, NEW o \in EnqueueOutcomes(ms, goOn)
  PROVE  o.queue = Newest(outbound \o ms) \/ o.pushed < Len(ms)
<1>1. Len(ms) \in Nat
  OBVIOUS
<1>2. ASSUME NEW k \in 1 .. Len(ms), NEW after,
             after = IF goOn THEN SubSeq(ms, k + 1, Len(ms)) ELSE <<>>
      PROVE  k - 1 + Len(after) < Len(ms)
  <2>1. Len(SubSeq(ms, k + 1, Len(ms))) = Len(ms) - k
    BY <1>1, SuffixThins
  <2> QED BY <1>1, <1>2, <2>1
<1>3. \/ o = [queue |-> Newest(outbound \o ms), pushed |-> Len(ms)]
      \/ \E k \in {i \in 1 .. Len(ms) : failures < MaxFailures}, evict \in BOOLEAN :
           LET before == Newest(outbound \o SubSeq(ms, 1, k - 1))
               after == IF goOn THEN SubSeq(ms, k + 1, Len(ms)) ELSE <<>>
           IN  o = [queue |-> Newest((IF evict THEN Evicted(before) ELSE before) \o after),
                    pushed |-> k - 1 + Len(after)]
  BY DEF EnqueueOutcomes
<1>4. ASSUME NEW k \in {i \in 1 .. Len(ms) : failures < MaxFailures}, NEW evict \in BOOLEAN,
             LET before == Newest(outbound \o SubSeq(ms, 1, k - 1))
                 after == IF goOn THEN SubSeq(ms, k + 1, Len(ms)) ELSE <<>>
             IN  o = [queue |-> Newest((IF evict THEN Evicted(before) ELSE before) \o after),
                      pushed |-> k - 1 + Len(after)]
      PROVE  o.pushed < Len(ms)
  <2> DEFINE after == IF goOn THEN SubSeq(ms, k + 1, Len(ms)) ELSE <<>>
  <2>1. o.pushed = k - 1 + Len(after)
    BY <1>4
  <2> QED BY <1>2, <2>1
<1> QED BY <1>3, <1>4

\* rtw_session_stop puts the stop message at the end of the queue.
LEMMA StopEntersQueue ==
  ASSUME SessionInv, SessionStop
  PROVE  failures' > 0 \/ StopQueued'
<1> DEFINE ms == <<StopMsg(seq)>>
<1>1. /\ seq \in 0 .. MaxSeq /\ failures \in Nat /\ outbound \in Seq(Message)
      /\ QueueCap \in Nat \ {0} /\ Len(outbound) \in Nat
  BY SessionConstants DEF SessionInv, SessionTypeOK, SessionStop
<1>2. PICK o \in EnqueueOutcomes(ms, FALSE) : Enqueue(ms, o)
  BY DEF SessionStop
<1>3. ms \in Seq(Message) /\ Len(ms) = 1 /\ ms[1].event = "stop"
  BY <1>1, StopFields
<1> HIDE DEF ms
<1>4. CASE o.pushed < Len(ms)
  BY <1>1, <1>2, <1>4 DEF Enqueue
<1>5. CASE o.queue = Newest(outbound \o ms)
  <2> DEFINE q == outbound \o ms
             n == Len(outbound) + 1
  <2>1. q \in Seq(Message) /\ Len(q) = n /\ n \in 1 .. Len(q) /\ q[n] = ms[1]
    <3>1. /\ q \in Seq(Message) /\ Len(q) = Len(outbound) + Len(ms)
          /\ \A i \in 1 .. Len(outbound) + Len(ms) :
               q[i] = IF i <= Len(outbound) THEN outbound[i] ELSE ms[i - Len(outbound)]
      BY <1>1, <1>3, ConcatProperties, Zenon
    <3>2. PICK l \in Nat : l = Len(outbound)
      BY <1>1
    <3>3. l + 1 \in 1 .. l + 1 /\ ~(l + 1 <= l) /\ l + 1 - l = 1
      OBVIOUS
    <3> HIDE DEF q
    <3> QED BY <1>3, <3>1, <3>2, <3>3
  <2>2. Len(q) - n = 0 /\ Len(q) - n < QueueCap
    BY <1>1, <2>1
  <2> HIDE DEF q, n
  <2>3. PICK j \in 1 .. Len(Newest(q)) :
          Newest(q)[j] = q[n] /\ Len(Newest(q)) - j = Len(q) - n
    BY <2>1, <2>2, NewestKeepsEnd
  <2>4. Len(Newest(q)) \in Nat
    BY <2>1, NewestThins
  <2>5. j = Len(Newest(q))
    BY <2>2, <2>3, <2>4
  <2>6. outbound' = Newest(q)
    BY <1>2, <1>5 DEF Enqueue, q
  <2> QED BY <1>3, <2>1, <2>3, <2>5, <2>6 DEF StopQueued
<1> QED BY <1>3, <1>4, <1>5, OutcomeOrFailure

\* A harvest queues no more acknowledgements than its array holds, and leaves
\* no completed mark behind.
LEMMA HarvestShort ==
  ASSUME SessionInv, NEW o \in EnqueueOutcomes(Harvest, TRUE), HarvestMarks(o)
  PROVE  /\ Harvest \in Seq(Message) /\ Len(Harvest) \in 0 .. HarvestMax
         /\ Completed = {} => Harvest = <<>>
         /\ Completed' = {}
<1> DEFINE S == First(HarvestMax, Completed)
<1>1. /\ Len(markPos) \in Nat /\ pending \in SUBSET (1 .. Len(markPos))
      /\ IsFiniteSet(pending) /\ HarvestMax \in Nat
  BY MarkType, SessionConstants DEF SessionInv
<1>2. S \in SUBSET pending /\ Completed \in SUBSET (1 .. Len(markPos))
  BY <1>1, CompletedFirst
<1>3. Cardinality(S) \in Nat /\ Cardinality(S) <= HarvestMax
  <2>1. Cardinality(S) <= HarvestMax
    BY <1>1, <1>2, FirstCount
  <2> HIDE DEF S
  <2>2. IsFiniteSet(S)
    BY <1>1, <1>2, FS_Subset
  <2> QED BY <2>1, <2>2, FS_CardinalityType DEF S
<1>4. Harvest = Acks(S, seq) /\ Len(Harvest) = Cardinality(S)
  BY <1>3 DEF Harvest, Acks
<1>5. seq + Cardinality(S) - 1 <= MaxSeq
  BY <1>4 DEF HarvestMarks
<1>6. Harvest \in Seq(Message)
  <2> HIDE DEF S
  <2> QED BY <1>2, <1>4, <1>5, AcksFields
<1>7. Completed = {} => Harvest = <<>>
  <2>1. Completed = {} => S = {}
    BY DEF First
  <2>2. Completed = {} => Len(Harvest) = 0
    BY <1>4, <2>1, FS_EmptySet
  <2> QED BY <1>6, <2>2, EmptySeq
<1>8. Completed' = {}
  BY DEF HarvestMarks, Completed
<1> QED BY <1>3, <1>4, <1>6, <1>7, <1>8, <1>1

\* The acknowledgements that a harvest queues do not push it out.
LEMMA StopStaysQueued ==
  ASSUME SessionInv, PeekOutbound, StopQueued
  PROVE  failures' > 0 \/ (StopQueued' /\ outbound' # <<>>)
<1>1. PICK o \in EnqueueOutcomes(Harvest, TRUE) : HarvestMarks(o) /\ outbound' = o.queue
  BY DEF PeekOutbound
<1>2. /\ Harvest \in Seq(Message) /\ Len(Harvest) \in 0 .. HarvestMax
      /\ Completed = {} => Harvest = <<>>
      /\ Completed' = {}
  BY <1>1, HarvestShort
<1>3. /\ failures \in Nat /\ outbound \in Seq(Message) /\ Len(outbound) \in Nat
      /\ QueueCap \in Nat /\ HarvestMax \in Nat /\ HarvestMax < QueueCap
  BY SessionConstants, BridgeConstants DEF SessionInv, SessionTypeOK
<1>4. CASE o.pushed < Len(Harvest)
  BY <1>1, <1>3, <1>4 DEF HarvestMarks
<1>5. CASE o.queue = Newest(outbound \o Harvest)
  <2> DEFINE q == outbound \o Harvest
             n == Len(Harvest)
  <2>1. PICK i \in 1 .. Len(outbound) :
          /\ outbound[i].event = "stop"
          /\ i = Len(outbound) \/ (Completed = {} /\ Len(outbound) <= i + HarvestMax)
    BY DEF StopQueued
  <2>2. /\ q \in Seq(Message) /\ Len(q) = Len(outbound) + n /\ q[i] = outbound[i]
        /\ i \in 1 .. Len(q) /\ n \in Nat
    BY <1>2, <1>3, ConcatProperties
  <2>3. n = 0 \/ i = Len(outbound)
    BY <1>2, <2>1
  <2>4. Len(q) - i <= HarvestMax /\ Len(q) - i < QueueCap
    BY <1>2, <1>3, <2>1, <2>2, <2>3
  <2> HIDE DEF q, n
  <2>5. PICK j \in 1 .. Len(Newest(q)) :
          Newest(q)[j] = q[i] /\ Len(Newest(q)) - j = Len(q) - i
    BY <2>2, <2>4, NewestKeepsEnd
  <2>6. Newest(q) \in Seq(Message) /\ Len(Newest(q)) \in Nat
    BY <2>2, NewestThins
  <2>7. Len(Newest(q)) <= j + HarvestMax /\ Newest(q) # <<>>
    BY <1>3, <2>2, <2>4, <2>5, <2>6
  <2>8. outbound' = Newest(q)
    BY <1>1, <1>5 DEF q
  <2> QED BY <1>2, <2>1, <2>2, <2>5, <2>7, <2>8 DEF StopQueued
<1> QED BY <1>1, <1>2, <1>4, <1>5, OutcomeOrFailure

\* With each message that is sent it comes one nearer to the head.
LEMMA StopAdvances ==
  ASSUME SessionInv, DropOutboundHead, StopQueued
  PROVE  Head(outbound).event = "stop" \/ StopQueued'
<1>1. /\ outbound \in Seq(Message) /\ outbound # <<>> /\ outbound' = Tail(outbound)
      /\ Len(outbound) \in Nat /\ Completed' = Completed /\ HarvestMax \in Nat
  BY SessionConstants DEF SessionInv, SessionTypeOK, DropOutboundHead, Completed, playoutVars
<1>2. PICK i \in 1 .. Len(outbound) :
        /\ outbound[i].event = "stop"
        /\ i = Len(outbound) \/ (Completed = {} /\ Len(outbound) <= i + HarvestMax)
  BY DEF StopQueued
<1>3. CASE i = 1
  BY <1>1, <1>2, <1>3
<1>4. CASE i # 1
  <2> DEFINE q == Tail(outbound)
             j == i - 1
  <2>1. /\ Len(q) = Len(outbound) - 1
        /\ \A k \in 1 .. Len(q) : q[k] = outbound[k + 1]
    BY <1>1, HeadTailProperties
  <2> HIDE DEF q
  <2>5. Len(outbound) \in Nat /\ HarvestMax \in Nat /\ Len(q) = Len(outbound) - 1 /\ i # 1
    BY <1>1, <1>4, <2>1
  <2>2. /\ j \in 1 .. Len(q) /\ j + 1 = i
        /\ i = Len(outbound) => j = Len(q)
        /\ Len(outbound) <= i + HarvestMax => Len(q) <= j + HarvestMax
    BY ONLY <2>5, i \in 1 .. Len(outbound)
  <2>3. q[j].event = "stop"
    BY <1>2, <2>1, <2>2
  <2> HIDE DEF j
  <2>4. outbound' = q
    BY <1>1 DEF q
  <2> QED BY <1>1, <1>2, <2>2, <2>3, <2>4 DEF StopQueued
<1> QED BY <1>3, <1>4

\* What is settled stays so as long as the connection is kept.
LEMMA SettledStays ==
  ASSUME BridgeInv, [Next]_vars, ws # 0, ws' = ws, StopSettled
  PROVE  StopSettled'
<1>0. TechTypeOK /\ SessionInv /\ Threads /\ Links /\ ws \in Conns /\ ~StopFrees
  BY DEF BridgeInv, BridgeTypeOK, TechTypeOK, Links, StopFrees
<1>1. CASE failures > 0
  BY <1>0, <1>1, BridgeMovesSession, FailuresStay DEF StopSettled
<1>2. CASE conn[ws] # "up"
  <2>1. ASSUME conn' # conn
        PROVE  conn'[ws] # "up"
    <3>1. \/ StartConnects \/ StopCloses \/ ReconnectCloses \/ DialChecked \/ DialSucceeds
          \/ NetworkBreaks
      BY <2>1 DEF Next, vars, bridgeVars, linkVars, FlushStep, Flush, Peek, SendSucceeds,
           SendFails, FlushFailed, ControlStep, StartSession, StartConnectFails, StartSpawns,
           StartSpawnFails, StopLocks, StopSession, StopFrees, RequestClose, StopBegins,
           WorkerStep, WorkerLoop, PollIdle, PollText, PollFails, TextLocks, TextHandled,
           TailFlushes, TailSkips, ReconnectBegins, BackoffEnds, RehandshakeLocks,
           Rehandshakes, Reconnected, DialStep, DialFails, ApiEnters, ApiStep, ApiChecks,
           ApiClearOrMark, ApiPauseOrStatus, MediaReadEnters, MediaWriteEnters,
           MediaEnters, MediaStep, MediaRead, MediaPlays, MediaSilence, MediaReturns
    <3> QED BY <1>0, <1>2, <2>1, <3>1 DEF TechTypeOK, Links, StartConnects, StopCloses,
              ReconnectCloses, DialChecked, DialSucceeds, NetworkBreaks
  <2> QED BY <1>2, <2>1 DEF StopSettled
<1>3. ASSUME NEW i \in DOMAIN delivered[ws], delivered[ws][i].event = "stop"
      PROVE  \E j \in DOMAIN delivered'[ws] : delivered'[ws][j].event = "stop"
  <2>1. CASE UNCHANGED delivered
    BY <1>3, <2>1
  <2>2. ASSUME NEW t \in {"control", "worker", "api"}, FlushStep(t), SendSucceeds(t)
        PROVE  i \in DOMAIN delivered'[ws] /\ delivered'[ws][i] = delivered[ws][i]
    <3>1. outbound # <<>> /\ Head(outbound) \in Message /\ delivered[ws] \in Seq(Message)
      BY <1>0, <2>2, HeadFollows DEF SendSucceeds, DropSent, DropOutboundHead, TechTypeOK
    <3>2. i \in 1 .. Len(delivered[ws]) /\ Len(delivered[ws]) \in Nat
      BY <3>1
    <3>3. \/ delivered'[ws] = delivered[ws]
          \/ delivered'[ws] = Append(delivered[ws], Head(outbound))
      BY <1>0, <2>2 DEF SendSucceeds, TechTypeOK
    <3> QED BY <3>1, <3>2, <3>3, AppendProperties
  <2> QED BY <1>0, <1>3, <2>1, <2>2, WireSteps
<1> QED BY <1>1, <1>2, <1>3 DEF StopSettled

\* While rtw_bridge_stop flushes, nobody else touches the session, the queue
\* or the connection's flag; only the network can break the connection.
LEMMA StopperAlone ==
  ASSUME BridgeInv, [Next]_vars, pc["control"] \in Flushing, ret["control"] = "close"
  PROVE  \/ FlushStep("control")
         \/ /\ UNCHANGED <<sessionVars, ws, ws_ready, ret>>
            /\ pc'["control"] = pc["control"]
<1>0. TechTypeOK /\ Threads
  BY DEF BridgeInv, BridgeTypeOK
<1> USE DEF TechTypeOK, Threads, Places, Phases, Ending, Exclusive, Flushing, Thread, Goto,
            linkVars
<1>1. ASSUME NEW t \in {"worker", "api"}, FlushStep(t)
      PROVE  FALSE
  <2>1. pc[t] \in Flushing
    BY <1>0, <1>1, SenderLives
  <2> QED BY <1>0, <2>1
<1>2. CASE ControlStep \/ RequestClose \/ StopBegins
  BY <1>0, <1>2 DEF ControlStep, StartSession, StartConnects, StartConnectFails,
       StartSpawns, StartSpawnFails, StopLocks, StopSession, StopCloses, StopFrees,
       RequestClose, StopBegins
<1>3. CASE WorkerStep \/ DialStep
  BY <1>0, <1>3 DEF WorkerStep, WorkerLoop, PollIdle, PollText, PollFails, TextLocks,
       TextHandled, TailFlushes, TailSkips, ReconnectBegins, BackoffEnds, ReconnectCloses,
       DialChecked, RehandshakeLocks, Rehandshakes, Reconnected, DialStep, DialSucceeds,
       DialFails
<1>4. CASE ApiEnters \/ ApiStep
  BY <1>0, <1>4 DEF ApiEnters, ApiStep, ApiChecks, ApiClearOrMark, ApiPauseOrStatus
<1>5. CASE MediaReadEnters \/ MediaWriteEnters \/ MediaStep
  BY <1>0, <1>5 DEF MediaReadEnters, MediaWriteEnters, MediaEnters, MediaStep, MediaRead,
       MediaPlays, MediaSilence
<1>6. CASE NetworkBreaks \/ UNCHANGED vars
  BY <1>6 DEF NetworkBreaks, vars, bridgeVars
<1> QED BY <1>1, <1>2, <1>3, <1>4, <1>5, <1>6 DEF Next

\* What a step of its flush makes of the stop message.
LEMMA StopperStep ==
  ASSUME BridgeInv, [Next]_vars, FlushStep("control"), ret["control"] = "close", ws # 0,
         ~StopSettled, StopQueued, ws_ready, pc["control"] # "failed"
  PROVE  \/ StopSettled'
         \/ StopQueued' /\ ws_ready' /\ pc'["control"] \in Flushing \ {"failed"}
<1>0. TechTypeOK /\ SessionInv /\ Threads /\ Links /\ ws \in Conns
  BY DEF BridgeInv, BridgeTypeOK, TechTypeOK
<1> USE DEF Goto, linkVars, Thread, Flushing
<1>1. CASE Flush("control")
  <2>1. pc'["control"] = "peek" /\ UNCHANGED <<sessionVars, ws, ws_ready, ret>>
    BY <1>0, <1>1 DEF Flush, TechTypeOK
  <2>2. UNCHANGED <<outbound, pending, markPos, consumed>>
    BY <2>1 DEF sessionVars, queueVars, playoutVars
  <2> QED BY <2>1, <2>2 DEF StopQueued, Completed
<1>2. CASE Peek("control")
  <2>1. failures' > 0 \/ (StopQueued' /\ outbound' # <<>>)
    BY <1>0, <1>2, StopStaysQueued DEF Peek
  <2>2. UNCHANGED <<ws, ws_ready>> /\ (outbound' # <<>> => pc'["control"] = "send")
    BY <1>0, <1>2 DEF Peek, TechTypeOK
  <2> QED BY <2>1, <2>2 DEF StopSettled
<1>3. CASE SendSucceeds("control")
  <2>1. /\ outbound # <<>> /\ using["control"] = ws /\ conn[ws] = "up" /\ DropOutboundHead
        /\ UNCHANGED <<ws, ws_ready, ret, conn>> /\ pc'["control"] = "peek"
        /\ delivered' = [delivered EXCEPT ![ws] = Append(@, Head(outbound))]
    BY <1>0, <1>3 DEF SendSucceeds, DropSent, DropOutboundHead, Links, TechTypeOK, StopSettled
  <2>2. CASE StopQueued'
    BY <2>1, <2>2
  <2>3. CASE Head(outbound).event = "stop"
    <3>1. Head(outbound) \in Message /\ delivered[ws] \in Seq(Message)
      BY <1>0, <2>1, HeadFollows DEF TechTypeOK
    <3>2. delivered'[ws] = Append(delivered[ws], Head(outbound))
      BY <1>0, <2>1 DEF TechTypeOK
    <3>3. /\ Len(delivered[ws]) + 1 \in DOMAIN delivered'[ws]
          /\ delivered'[ws][Len(delivered[ws]) + 1] = Head(outbound)
      BY <3>1, <3>2, AppendProperties
    <3> QED BY <2>1, <2>3, <3>3 DEF StopSettled
  <2> QED BY <1>0, <2>1, <2>2, <2>3, StopAdvances
<1>4. CASE SendFails("control")
  <2>1. /\ using["control"] = ws /\ conn[ws] = "up" /\ failures' = failures + 1
        /\ UNCHANGED <<ws, ret>> /\ pc'["control"] = "failed"
    BY <1>0, <1>4 DEF SendFails, Links, TechTypeOK, StopSettled
  <2>2. failures \in Nat
    BY <1>0, SessionConstants DEF SessionInv, SessionTypeOK
  <2>3. failures' > 0
    BY <2>1, <2>2
  <2> QED BY <2>1, <2>3 DEF StopSettled
<1>5. CASE FlushFailed("control")
  BY <1>5 DEF FlushFailed
<1> QED BY <1>1, <1>2, <1>3, <1>4, <1>5 DEF FlushStep

\* Only StopSession begins that flush, and only its end leads to the closing.
LEMMA StopperComesFrom ==
  ASSUME BridgeInv, [Next]_vars, ~StopSession,
         \/ pc'["control"] \in Flushing /\ ret'["control"] = "close"
         \/ pc'["control"] = "close" /\ cleanup_started'
  PROVE  /\ ws' = ws
         /\ \/ pc["control"] \in Flushing /\ ret["control"] = "close"
            \/ pc["control"] = "close" /\ cleanup_started
<1>0. TechTypeOK /\ Threads
  BY DEF BridgeInv, BridgeTypeOK
<1> USE DEF TechTypeOK, Threads, Places, Phases, Starting, Ending, Stopping, Flushing, Thread,
            Goto, CallFlush, linkVars, flagVars
<1>1. ASSUME NEW t \in {"control", "worker", "api"}, FlushStep(t)
      PROVE  /\ ws' = ws
             /\ \/ pc["control"] \in Flushing /\ ret["control"] = "close"
                \/ pc["control"] = "close" /\ cleanup_started
  BY <1>0, <1>1 DEF FlushStep, Flush, Peek, SendSucceeds, SendFails, FlushFailed,
                    FlushReturns
<1>2. CASE ControlStep
  BY <1>0, <1>2 DEF ControlStep, StartSession, StartConnects, StartConnectFails,
       StartSpawns, StartSpawnFails, StopLocks, StopCloses, StopFrees
<1>3. CASE RequestClose \/ StopBegins \/ NetworkBreaks
  BY <1>0, <1>3 DEF RequestClose, StopBegins, NetworkBreaks
<1>4. CASE WorkerStep \/ DialStep
  BY <1>0, <1>4 DEF WorkerStep, WorkerLoop, PollIdle, PollText, PollFails, TextLocks,
       TextHandled, TailFlushes, TailSkips, ReconnectBegins, BackoffEnds, ReconnectCloses,
       DialChecked, RehandshakeLocks, Rehandshakes, Reconnected, DialStep, DialSucceeds,
       DialFails
<1>5. CASE ApiEnters \/ ApiStep
  BY <1>0, <1>5 DEF ApiEnters, ApiStep, ApiChecks, ApiClearOrMark, ApiPauseOrStatus
<1>6. CASE MediaReadEnters \/ MediaWriteEnters \/ MediaStep
  BY <1>0, <1>6 DEF MediaReadEnters, MediaWriteEnters, MediaEnters, MediaStep, MediaRead,
       MediaPlays, MediaSilence, MediaReturns
<1>7. CASE UNCHANGED vars
  BY <1>7 DEF vars, bridgeVars
<1> QED BY <1>1, <1>2, <1>3, <1>4, <1>5, <1>6, <1>7 DEF Next

LEMMA StopUnderwayKept ==
  ASSUME BridgeInv, [Next]_vars
  PROVE  StopUnderway'
<1>0. TechTypeOK /\ SessionInv /\ Threads /\ Links /\ StopUnderway
  BY DEF BridgeInv, BridgeTypeOK
<1> DEFINE onItsWay == StopQueued /\ ws_ready /\ pc["control"] \in Flushing \ {"failed"}
           stopping == \/ pc["control"] \in Flushing /\ ret["control"] = "close"
                       \/ pc["control"] = "close" /\ cleanup_started
<1>1. ws # 0 /\ stopping => StopSettled \/ onItsWay
  BY <1>0 DEF StopUnderway, StopReachesPeer, StopSettled
<1>2. ASSUME StopSession
      PROVE  ws' # 0 => StopSettled' \/ onItsWay'
  <2>1. /\ MayStop /\ ws' = ws /\ pc'["control"] = "flush"
        /\ ws # 0 => ws_ready'
    BY <1>0, <1>2 DEF StopSession, ReadyForStop, CallFlush, Threads, Phases, MayStop,
                      TechTypeOK, Thread
  <2>2. failures' > 0 \/ StopQueued'
    BY <1>0, <1>2, <2>1, StopEntersQueue DEF StopSession
  <2> QED BY <2>1, <2>2 DEF StopSettled, Flushing
<1>3. ASSUME ~StopSession, stopping', ws' # 0
      PROVE  StopSettled' \/ onItsWay'
  <2>1. ws' = ws /\ stopping
    BY <1>3, StopperComesFrom
  <2>2. CASE StopSettled
    BY <1>3, <2>1, <2>2, SettledStays
  <2>3. CASE onItsWay /\ ~StopSettled
    <3>1. pc["control"] \in Flushing /\ ret["control"] = "close" /\ pc["control"] # "failed"
      BY <2>1, <2>3 DEF Flushing
    <3>2. CASE FlushStep("control")
      BY <1>3, <2>1, <2>3, <3>1, <3>2, StopperStep
    <3>3. CASE UNCHANGED <<sessionVars, ws, ws_ready, ret>> /\ pc'["control"] = pc["control"]
      <4>1. StopQueued'
        BY <2>3, <3>3 DEF sessionVars, queueVars, playoutVars, StopQueued, Completed
      <4> QED BY <2>3, <3>3, <4>1
    <3> QED BY <3>1, <3>2, <3>3, StopperAlone
  <2> QED BY <1>1, <1>3, <2>1, <2>2, <2>3
<1>4. ws' # 0 /\ stopping' => StopSettled' \/ onItsWay'
  BY <1>2, <1>3
<1>5. pc'["control"] = "close" => ~onItsWay'
  BY DEF Flushing
<1> QED BY <1>4, <1>5 DEF StopUnderway, StopReachesPeer, StopSettled

-----------------------------------------------------------------------------
(* After the stop's flush *)

\* No two threads are inside flush_outbound, although the first flush runs
\* without the mutex.
OneFlusher ==
  \A t, u \in Thread : pc[t] \in Flushing /\ pc[u] \in Flushing => t = u

LEMMA FlusherAlone ==
  ASSUME BridgeInv
  PROVE  OneFlusher
BY DEF BridgeInv, Threads, Places, Phases, Starting, Exclusive, Flushing, Thread, OneFlusher

\* A flush ends with no completed mark left; an empty queue stays empty then.
LEMMA PeekDrains ==
  ASSUME SessionInv, PeekOutbound
  PROVE  /\ Completed' = {}
         /\ outbound = <<>> /\ Completed = {} => outbound' = <<>>
<1>1. PICK o \in EnqueueOutcomes(Harvest, TRUE) : HarvestMarks(o) /\ outbound' = o.queue
  BY DEF PeekOutbound
<1>2. /\ Harvest \in Seq(Message) /\ Completed' = {}
      /\ Completed = {} => Harvest = <<>>
  BY <1>1, HarvestShort
<1>3. ASSUME outbound = <<>>, Completed = {}
      PROVE  outbound' = <<>>
  <2>1. Harvest = <<>> /\ Len(<<>>) = 0 /\ <<>> \o <<>> = <<>>
    BY <1>2, <1>3, FreshStream
  <2>2. Newest(<<>>) = <<>>
    BY <2>1, SessionConstants DEF Newest
  <2>3. ~(o.pushed < Len(Harvest))
    <3>1. EnqueueOutcomes(<<>>, TRUE)
            = {[queue |-> Newest(outbound \o <<>>), pushed |-> Len(<<>>)]}
      BY <2>1 DEF EnqueueOutcomes
    <3>2. o \in EnqueueOutcomes(<<>>, TRUE)
      BY <1>1, <2>1
    <3>3. o = [queue |-> Newest(outbound \o <<>>), pushed |-> Len(<<>>)]
      BY <3>1, <3>2, Zenon
    <3>4. o.pushed = Len(<<>>)
      BY ONLY <3>3
    <3>5. Len(Harvest) = Len(<<>>)
      BY <2>1
    <3> QED BY ONLY <2>1, <3>4, <3>5
  <2>4. o.queue = Newest(outbound \o Harvest)
    BY <1>1, <1>2, <2>3, OutcomeOrFailure
  <2> QED BY <1>1, <1>3, <2>1, <2>2, <2>4
<1> QED BY <1>2, <1>3

LEMMA DrainedKept ==
  ASSUME BridgeInv, [Next]_vars
  PROVE  Drained'
<1>0. TechTypeOK /\ SessionInv /\ Threads /\ OneFlusher /\ Drained
  BY FlusherAlone DEF BridgeInv, BridgeTypeOK
<1> USE DEF TechTypeOK, Threads, Places, Phases, Starting, Ending, Flushing, Thread, Goto,
            CallFlush, linkVars, Drained
<1> DEFINE nothingLeft == outbound = <<>> /\ Completed = {}
           nowhere == (ws = 0 \/ ~ws_ready) /\ pc["api"] # "peek"
<1>1. UNCHANGED sessionVars => (nothingLeft <=> nothingLeft') /\ state' = state
  BY DEF sessionVars, queueVars, playoutVars, Completed
<1>2. ASSUME NEW t \in {"control", "worker", "api"}, FlushStep(t)
      PROVE  Drained'
  <2>1. state' = state
    BY <1>2, StateKept
  <2>2. pc[t] \in Flushing /\ \A u \in Thread \ {t} : pc[u] \notin Flushing
    BY <1>0, <1>2, SenderLives DEF OneFlusher
  <2>3. CASE Flush(t)
    BY <1>0, <1>1, <2>1, <2>2, <2>3 DEF Flush, FlushReturns
  <2>4. CASE Peek(t)
    <3>1. Completed' = {} /\ (nothingLeft => outbound' = <<>>)
      BY <1>0, <2>4, PeekDrains DEF Peek
    <3> QED BY <1>0, <2>1, <2>2, <2>4, <3>1 DEF Peek, FlushReturns
  <2>5. CASE SendSucceeds(t) \/ SendFails(t)
    BY <1>0, <2>1, <2>2, <2>5 DEF SendSucceeds, SendFails
  <2>6. CASE FlushFailed(t)
    BY <1>0, <1>1, <2>1, <2>2, <2>6 DEF FlushFailed, FlushReturns
  <2> QED BY <1>2, <2>3, <2>4, <2>5, <2>6 DEF FlushStep
<1>3. CASE ControlStep
  <2>1. CASE StartSession \/ StartConnects \/ StartConnectFails \/ StartSpawnFails
    BY <1>0, <2>1 DEF StartSession, StartConnects, StartConnectFails, StartSpawnFails
  <2>2. CASE StartSpawns \/ StopLocks \/ StopFrees
    BY <1>0, <2>2 DEF StartSpawns, StopLocks, StopFrees
  <2>3. CASE StopSession
    <3>1. state' # "RUNNING"
      BY <1>0, <2>3 DEF StopSession, MayStop, SessionStop
    <3> QED BY <1>0, <2>3, <3>1 DEF StopSession
  <2>4. CASE StopCloses
    BY <1>0, <1>1, <2>4 DEF StopCloses
  <2> QED BY <1>3, <2>1, <2>2, <2>3, <2>4 DEF ControlStep
<1>4. CASE RequestClose \/ StopBegins \/ NetworkBreaks
  BY <1>0, <1>1, <1>4 DEF RequestClose, StopBegins, NetworkBreaks
<1>5. CASE WorkerStep \/ DialStep
  BY <1>0, <1>5 DEF WorkerStep, WorkerLoop, PollIdle, PollText, PollFails, TextLocks,
       TextHandled, TailFlushes, TailSkips, ReconnectBegins, BackoffEnds, ReconnectCloses,
       DialChecked, RehandshakeLocks, Rehandshakes, Reconnected, DialStep, DialSucceeds,
       DialFails
<1>6. CASE ApiEnters \/ ApiChecks
  BY <1>0, <1>1, <1>6 DEF ApiEnters, ApiChecks
<1>7. CASE ApiClearOrMark
  <2>1. state # "RUNNING" => UNCHANGED sessionVars
    BY <1>7 DEF ApiClearOrMark, PeerClear, PeerMark
  <2>2. state' = state
    BY <1>7, StateKept DEF ApiStep
  <2> QED BY <1>0, <1>1, <1>7, <2>1, <2>2 DEF ApiClearOrMark
<1>8. CASE ApiPauseOrStatus
  <2>1. (nothingLeft <=> nothingLeft') /\ state' = state
    BY <1>1, <1>8 DEF ApiPauseOrStatus, SetPaused, queueVars, playoutVars, Completed
  <2> QED BY <1>0, <1>8, <2>1 DEF ApiPauseOrStatus
<1>9. CASE MediaReadEnters \/ MediaWriteEnters \/ MediaStep
  BY <1>0, <1>9 DEF MediaReadEnters, MediaWriteEnters, MediaEnters, MediaStep, MediaRead,
       MediaPlays, MediaSilence, MediaReturns
<1>10. CASE UNCHANGED vars
  BY <1>0, <1>1, <1>10 DEF vars, bridgeVars
<1> QED BY <1>2, <1>3, <1>4, <1>5, <1>6, <1>7, <1>8, <1>9, <1>10 DEF Next, ApiStep

-----------------------------------------------------------------------------
(* The bridge *)

LEMMA BridgeInitSound ==
  ASSUME BridgeInit
  PROVE  BridgeInv
<1>1. SessionInv
  BY InitSound DEF BridgeInit
<1>2. TechTypeOK
  <2>1. pc \in [Thread -> Labels]
    BY DEF BridgeInit, Thread, Labels
  <2>2. ret \in [Thread -> Labels] /\ using \in [Thread -> Conns \cup {0}]
    BY DEF BridgeInit, Labels
  <2>3. delivered \in [Conns -> Seq(Message)]
    BY FreshStream DEF BridgeInit
  <2>4. reconnect_attempts \in 0 .. ReconnectMax
    BY BridgeConstants DEF BridgeInit
  <2> QED BY <2>1, <2>2, <2>3, <2>4 DEF BridgeInit, TechTypeOK
<1>3. Threads
  BY DEF BridgeInit, Init, Threads, Places, Phases, Starting, Ending, Exclusive, Ready,
         Stopping, Flushing, Thread
<1>4. Links
  BY DEF BridgeInit, Links, LastIsOpen
<1>5. Delivered
  BY DEF BridgeInit, Delivered, DeliveredInOrder
<1>6. StopUnderway
  BY DEF BridgeInit, StopUnderway, StopReachesPeer, Flushing
<1>7. Drained
  BY DEF BridgeInit, Drained
<1> QED BY <1>1, <1>2, <1>3, <1>4, <1>5, <1>6, <1>7 DEF BridgeInv, BridgeTypeOK, SessionInv

LEMMA BridgeStep ==
  ASSUME BridgeInv, [Next]_vars
  PROVE  BridgeInv'
<1>1. SessionInv'
  <2>1. CASE StopFrees
    BY <2>1, DestroyKeeps DEF StopFrees
  <2>2. CASE SessionMove
    BY <2>2, SessionMoveKeeps DEF BridgeInv
  <2> QED BY <2>1, <2>2, BridgeMovesSession
<1>2. SessionTypeOK'
  BY <1>1 DEF SessionInv
<1> QED BY <1>1, <1>2, TypesKept, ThreadsKept, LinksKept, DeliveredKept, StopUnderwayKept,
           DrainedKept
        DEF BridgeInv, BridgeTypeOK

LEMMA BridgeInvariant == Spec => []BridgeInv
<1>1. BridgeInit => BridgeInv
  BY BridgeInitSound
<1>2. BridgeInv /\ [Next]_vars => BridgeInv'
  BY BridgeStep
<1> QED BY <1>1, <1>2, PTL DEF Spec

\* The fields of rtw_tech_t keep their types, and the session stays within its
\* bounds, whatever the threads do.
THEOREM BridgeTypes == Spec => []BridgeTypeOK
<1>1. BridgeInv => BridgeTypeOK
  BY DEF BridgeInv
<1> QED BY <1>1, BridgeInvariant, PTL

\* The messages of flush_outbound reach the peer in the order of their
\* numbers, each at most once, over any number of connections.
THEOREM BridgeDelivery == Spec => []DeliveredInOrder
<1>1. BridgeInv => DeliveredInOrder
  BY DEF BridgeInv, Delivered
<1> QED BY <1>1, BridgeInvariant, PTL

\* try_reconnect and rtw_bridge_stop leak no connection: at most one is open,
\* none when the bridge is freed.
THEOREM BridgeConnections == Spec => []NoConnectionLeaked
<1>1. ASSUME BridgeInv
      PROVE  NoConnectionLeaked
  <2> DEFINE open == {c \in Conns : conn[c] \in {"up", "down"}}
  <2>1. open \subseteq {ws} /\ Links
    BY <1>1 DEF BridgeInv, Links, LastIsOpen
  <2>2. freed => open = {}
    BY <1>1, <2>1, ConnectionType DEF BridgeInv, Threads, Phases, Links
  <2>3. CASE open = {}
    BY <2>3, FS_EmptySet DEF NoConnectionLeaked
  <2>4. CASE open # {}
    <3>1. open = {ws} /\ ~freed
      BY <2>1, <2>2, <2>4
    <3>2. Cardinality({ws}) = 1
      BY FS_Singleton
    <3> QED BY <3>1, <3>2 DEF NoConnectionLeaked
  <2> QED BY <2>3, <2>4
<1> QED BY <1>1, BridgeInvariant, PTL

\* When rtw_bridge_stop has flushed on a connection that works, the peer has
\* the stop message, unless there was no memory for a message.
THEOREM BridgeStopArrives == Spec => []StopReachesPeer
<1>1. BridgeInv => StopReachesPeer
  BY DEF BridgeInv, StopUnderway
<1> QED BY <1>1, BridgeInvariant, PTL

\* A connection that ws_ready announces is there and ws_worker serves it.
THEOREM BridgeReady == Spec => []ReadyIsServed
<1>1. BridgeInv => ReadyIsServed
  BY DEF BridgeInv, Threads, Ready, ReadyIsServed
<1> QED BY <1>1, BridgeInvariant, PTL

\* At most one thread at a time runs flush_outbound, although the first flush,
\* in rtw_bridge_start, goes without the mutex.
THEOREM BridgeOneFlusher == Spec => []OneFlusher
<1>1. BridgeInv => OneFlusher
  BY FlusherAlone
<1> QED BY <1>1, BridgeInvariant, PTL

\* What flush_outbound peeked at stays the head of the queue, neither dropped
\* nor pushed out, until its send returns.
HeadStays ==
  \A t \in Thread : pc[t] = "send" /\ pc'[t] = "send" => UNCHANGED <<outbound, wire>>

\* No step of another thread touches the queue while its head is being sent.
THEOREM BridgeHeadStays == Spec => [][HeadStays]_vars
<1>1. ASSUME BridgeInv, [Next]_vars
      PROVE  HeadStays
  <2> SUFFICES ASSUME NEW t \in Thread, pc[t] = "send", pc'[t] = "send"
               PROVE  UNCHANGED <<outbound, wire>>
    BY DEF HeadStays
  <2>0. TechTypeOK /\ Threads /\ OneFlusher /\ Drained
    BY <1>1, FlusherAlone DEF BridgeInv, BridgeTypeOK
  <2> USE DEF TechTypeOK, Threads, Places, Phases, Starting, Exclusive, Flushing, Thread,
              Goto, sessionVars, queueVars
  <2>1. ASSUME NEW u \in {"control", "worker", "api"}, FlushStep(u)
        PROVE  FALSE
    <3>1. pc[u] \in Flushing
      BY <2>0, <2>1, SenderLives
    <3>2. u = t
      BY <2>0, <3>1 DEF OneFlusher
    <3> QED BY <2>0, <2>1, <3>2 DEF FlushStep, Flush, Peek, SendSucceeds, SendFails,
                                    FlushFailed
  <2>2. CASE ControlStep
    <3>1. CASE StopFrees
      BY <2>0, <3>1 DEF StopFrees, Ending, Drained
    <3>2. CASE StartSession
      BY <2>0, <3>2 DEF StartSession
    <3>3. CASE StopSession
      BY <2>0, <3>3 DEF StopSession
    <3>4. CASE \/ StartConnects \/ StartConnectFails \/ StartSpawns \/ StartSpawnFails
               \/ StopLocks \/ StopCloses
      BY <3>4 DEF StartConnects, StartConnectFails, StartSpawns, StartSpawnFails, StopLocks,
                  StopCloses
    <3> QED BY <2>2, <3>1, <3>2, <3>3, <3>4 DEF ControlStep
  <2>3. CASE RequestClose \/ StopBegins \/ NetworkBreaks \/ DialStep
    BY <2>3 DEF RequestClose, StopBegins, NetworkBreaks, DialStep, DialSucceeds, DialFails
  <2>4. CASE WorkerStep
    BY <2>0, <2>4 DEF WorkerStep, WorkerLoop, PollIdle, PollText, PollFails, TextLocks,
         TextHandled, TailFlushes, TailSkips, ReconnectBegins, BackoffEnds, ReconnectCloses,
         DialChecked, RehandshakeLocks, Rehandshakes, Reconnected
  <2>5. CASE ApiEnters \/ ApiStep
    BY <2>0, <2>5 DEF ApiEnters, ApiStep, ApiChecks, ApiClearOrMark, ApiPauseOrStatus,
         SetPaused
  <2>6. CASE MediaReadEnters \/ MediaWriteEnters \/ MediaStep
    BY <2>0, <2>6 DEF MediaReadEnters, MediaWriteEnters, MediaEnters, MediaStep, MediaRead,
         MediaPlays, MediaSilence, ReadPlayout, NoteWriteAfterClear
  <2>7. CASE UNCHANGED vars
    BY <2>7 DEF vars
  <2> QED BY <1>1, <2>1, <2>2, <2>3, <2>4, <2>5, <2>6, <2>7 DEF Next
<1> QED BY <1>1, BridgeInvariant, PTL DEF Spec

=============================================================================
