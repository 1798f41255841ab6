-------------------------- MODULE BridgeStartProof --------------------------
(***************************************************************************)
(* Connections and bridges give back what they own, once and in time.  The  *)
(* first part is about WsConnect, however many addresses a host has and     *)
(* however often a bridge connects; the second about BridgeStart, however   *)
(* many bridges are started.  In both the invariant says what is owned at   *)
(* each step; what a bridge need not have (headers, parameters and their    *)
(* copy, a connection after a failed attempt to reconnect) is left open     *)
(* between two bounds.  What a bridge does to its connection is what        *)
(* WsConnect allows, so that what is proved of connections holds there too. *)
(*                                                                         *)
(* The other parts of a start follow: the command line, its metadata and    *)
(* the URL, for lines, objects and names of any length.                     *)
(***************************************************************************)
EXTENDS MCStart, SequenceTheorems, FiniteSetTheorems, WellFoundedInduction, TLAPS

-----------------------------------------------------------------------------
(* rtw_ws_connect_ex and rtw_ws_close *)

ConnectSteps ==
  {"none", "resolve", "socket", "connect", "client", "headers", "rx", "tls",
   "ssl", "ssl_connect", "handshake", "open"}

Tls == IF use_tls THEN {"ctx", "ssl"} ELSE {}
WithHeaders == IF with_headers THEN {"headers"} ELSE {}

\* What is held at each step.
HeldAt ==
  /\ pc \in {"none", "resolve"} => held = {}
  /\ pc = "socket" => held = {"addrs"}
  /\ pc = "connect" => held = {"addrs", "fd"}
  /\ pc = "client" => held = {"fd"}
  /\ pc = "headers" => held = {"fd", "client"} /\ with_headers
  /\ pc = "rx" => held = {"fd", "client"} \cup WithHeaders
  /\ pc = "tls" => held = {"fd", "client", "rx"} \cup WithHeaders /\ use_tls
  /\ pc = "ssl" => held = {"fd", "client", "rx", "ctx"} \cup WithHeaders /\ use_tls
  /\ pc = "ssl_connect" =>
       held = {"fd", "client", "rx", "ctx", "ssl"} \cup WithHeaders /\ use_tls
  /\ pc \in {"handshake", "open"} =>
       held = {"fd", "client", "rx"} \cup WithHeaders \cup Tls

ConnectInv ==
  /\ pc \in ConnectSteps
  /\ use_tls \in BOOLEAN /\ with_headers \in BOOLEAN
  /\ twice = {}
  /\ HeldAt

\* rtw_ws_close gives everything back, and nothing twice, from any step that
\* calls it.
LEMMA CloseGivesAll ==
  ASSUME ConnectInv, Close,
         pc \in {"tls", "ssl", "ssl_connect", "handshake", "open"}
  PROVE  held' = {} /\ twice' = {}
  BY DEF ConnectInv, HeldAt, Close, Give, Owned, Resources, Tls, WithHeaders

\* The same for the three ways out before there is a client to close.
LEMMA EarlyExitGivesAll ==
  ASSUME ConnectInv
  PROVE  /\ pc = "client" /\ Give({"fd"}) => held' = {} /\ twice' = {}
         /\ pc = "headers" /\ Give({"fd", "client"}) => held' = {} /\ twice' = {}
         /\ pc = "rx" /\ RxFails => held' = {} /\ twice' = {}
  BY DEF ConnectInv, HeldAt, RxFails, Give, Owned, Resources, Tls, WithHeaders

\* Every step keeps the invariant.
LEMMA ConnectInvStep == ConnectInv /\ [ConnectNext]_connectVars => ConnectInv'
<1> SUFFICES ASSUME ConnectInv, [ConnectNext]_connectVars PROVE ConnectInv'
  OBVIOUS
<1> USE DEF ConnectSteps, Tls, WithHeaders
<1>1. CASE Begins
  BY <1>1 DEF Begins, Call, ConnectInv, HeldAt
<1>2. CASE Resolves
  BY <1>2 DEF Resolves, Take, ConnectInv, HeldAt, asked
<1>3. CASE Socket
  BY <1>3 DEF Socket, Take, ConnectInv, HeldAt, asked
<1>4. CASE Connects
  BY <1>4 DEF Connects, NextAddress, Give, ConnectInv, HeldAt, asked
<1>5. CASE NoAddress
  BY <1>5 DEF NoAddress, Give, ConnectInv, HeldAt, asked
<1>6. CASE AllocClient
  <2>1. CASE pc' = "none" /\ Give({"fd"})
    BY <1>6, <2>1, EarlyExitGivesAll DEF AllocClient, ConnectInv, HeldAt, asked
  <2>2. CASE pc' = (IF with_headers THEN "headers" ELSE "rx") /\ Take("client")
    BY <1>6, <2>2 DEF AllocClient, Take, ConnectInv, HeldAt, asked
  <2> QED BY <1>6, <2>1, <2>2 DEF AllocClient
<1>7. CASE AllocHeaders
  <2>1. CASE pc' = "none" /\ Give({"fd", "client"})
    BY <1>7, <2>1, EarlyExitGivesAll DEF AllocHeaders, ConnectInv, HeldAt, asked
  <2>2. CASE pc' = "rx" /\ Take("headers")
    BY <1>7, <2>2 DEF AllocHeaders, Take, ConnectInv, HeldAt, asked
  <2> QED BY <1>7, <2>1, <2>2 DEF AllocHeaders
<1>8. CASE AllocRx
  <2>1. CASE pc' = "none" /\ RxFails
    BY <1>8, <2>1, EarlyExitGivesAll DEF AllocRx, ConnectInv, HeldAt, asked
  <2>2. CASE pc' = (IF use_tls THEN "tls" ELSE "handshake") /\ Take("rx")
    BY <1>8, <2>2 DEF AllocRx, Take, ConnectInv, HeldAt, asked
  <2> QED BY <1>8, <2>1, <2>2 DEF AllocRx
<1>9. CASE SetsUpTls
  <2>1. CASE pc' = "none" /\ Close
    BY <1>9, <2>1, CloseGivesAll DEF SetsUpTls, ConnectInv, HeldAt, asked
  <2>2. CASE pc = "tls" /\ pc' = "ssl" /\ Take("ctx")
    BY <1>9, <2>2 DEF SetsUpTls, Take, ConnectInv, HeldAt, asked
  <2>3. CASE pc = "ssl" /\ pc' = "ssl_connect" /\ Take("ssl")
    BY <1>9, <2>3 DEF SetsUpTls, Take, ConnectInv, HeldAt, asked
  <2>4. CASE pc = "ssl_connect" /\ pc' = "handshake" /\ UNCHANGED <<held, twice>>
    BY <1>9, <2>4 DEF SetsUpTls, ConnectInv, HeldAt, asked
  <2> QED BY <1>9, <2>1, <2>2, <2>3, <2>4 DEF SetsUpTls
<1>10. CASE Handshakes
  <2>1. CASE pc' = "none" /\ Close
    BY <1>10, <2>1, CloseGivesAll DEF Handshakes, ConnectInv, HeldAt, asked
  <2>2. CASE pc' = "open" /\ UNCHANGED <<held, twice>>
    BY <1>10, <2>2 DEF Handshakes, ConnectInv, HeldAt, asked
  <2> QED BY <1>10, <2>1, <2>2 DEF Handshakes
<1>11. CASE Closes
  BY <1>11, CloseGivesAll DEF Closes, CloseCall, ConnectInv, HeldAt, asked
<1>12. CASE UNCHANGED connectVars
  BY <1>12 DEF connectVars, ConnectInv, HeldAt
<1> QED
  BY <1>1, <1>2, <1>3, <1>4, <1>5, <1>6, <1>7, <1>8, <1>9, <1>10, <1>11, <1>12
     DEF ConnectNext

\* What rtw_ws_connect_ex holds is known at every step.
THEOREM ConnectInvariance == ConnectSpec => []ConnectInv
<1>1. ConnectInit => ConnectInv
  BY DEF ConnectInit, ConnectInv, HeldAt, ConnectSteps
<1> QED BY <1>1, ConnectInvStep, PTL DEF ConnectSpec

\* rtw_ws_connect_ex and rtw_ws_close leave nothing behind, whichever step
\* fails and however often a bridge connects.
THEOREM ConnectLeaksNothing == ConnectSpec => []NothingLeaked
<1>1. ConnectInv => NothingLeaked
  BY DEF ConnectInv, HeldAt, NothingLeaked, Owned, Resources, Tls, WithHeaders
<1> QED BY <1>1, ConnectInvariance, PTL

\* They never free or close anything that is not held.
THEOREM ConnectGivesBackOnce == ConnectSpec => []GivenBackOnce
<1>1. ConnectInv => GivenBackOnce
  BY DEF ConnectInv, GivenBackOnce
<1> QED BY <1>1, ConnectInvariance, PTL

-----------------------------------------------------------------------------
(* rtw_bridge_start and rtw_bridge_stop *)

Optional == {"headers", "params"}
Base == {"tech", "mutex"}
WithSession == Base \cup {"queue", "playout"}

\* All of A is owned, and besides at most B.
Between(A, B) == A \subseteq owned /\ owned \subseteq A \cup B

BridgeSteps ==
  {"none", "mutex", "meta", "session", "playout", "session_failed",
   "session_start", "messages", "connect", "dialing", "spawn", "run", "join",
   "close", "destroy", "free"}

OwnedAt ==
  /\ step = "none" => owned = {}
  /\ step = "mutex" => owned = {"tech"}
  /\ step = "meta" => owned = Base
  /\ step \in {"session", "session_failed", "free"} => Between(Base, Optional)
  /\ step = "playout" => Between(Base \cup {"queue"}, Optional)
  /\ step = "session_start" => Between(WithSession, Optional)
  /\ step \in {"messages", "connect", "dialing", "destroy"} =>
       Between(WithSession, Optional \cup {"custom"})
  /\ step = "spawn" => Between(WithSession \cup {"ws"}, Optional \cup {"custom"})
  /\ step \in {"run", "join"} =>
       Between(WithSession \cup {"worker"}, Optional \cup {"custom", "ws"})
  /\ step = "close" => Between(WithSession, Optional \cup {"custom", "ws"})

\* Where the connection is, at each step of the two threads.
WsAt ==
  /\ step \notin {"dialing", "spawn", "run", "join", "close"} => pc = "none"
  /\ step = "spawn" => pc = "open"
  /\ worker = "loop" => pc = "open" /\ "ws" \in owned
  /\ worker = "redial" => pc = "none" /\ "ws" \notin owned
  /\ worker = "dialing" => "ws" \notin owned
  /\ step = "close" \/ worker = "done" =>
       pc = IF "ws" \in owned THEN "open" ELSE "none"

WorkerAt ==
  IF step \in {"run", "join"} THEN worker \in {"loop", "redial", "dialing", "done"}
  ELSE worker = "none"

BridgeInv ==
  step \in BridgeSteps /\ surplus = {} /\ WorkerAt /\ OwnedAt /\ WsAt

-----------------------------------------------------------------------------

\* Every step keeps the invariant.
LEMMA BridgeInvStep == BridgeInv /\ [Next]_vars => BridgeInv'
<1> SUFFICES ASSUME BridgeInv, [Next]_vars PROVE BridgeInv'
  OBVIOUS
<1> USE DEF BridgeInv, OwnedAt, WsAt, WorkerAt, Between, BridgeSteps, Optional,
            Base, WithSession, connectVars
<1>1. CASE Allocates
  BY <1>1 DEF Allocates, Acquire
<1>2. CASE InitsMutex
  BY <1>2 DEF InitsMutex, Acquire, Release
<1>3. CASE SplitsMetadata
  BY <1>3 DEF SplitsMetadata, Acquire, Release
<1>4. CASE InitsSession
  BY <1>4 DEF InitsSession, Acquire
<1>5. CASE InitsPlayout
  BY <1>5 DEF InitsPlayout, Acquire, Release
<1>6. CASE GivesUpSession
  BY <1>6 DEF GivesUpSession, SessionFailed, Release, Meta
<1>7. CASE CopiesParams
  BY <1>7 DEF CopiesParams, Abandons, Acquire, Release, Meta, SessionParts
<1>8. CASE QueuesStart
  BY <1>8 DEF QueuesStart, Abandons, Release, Meta, SessionParts
<1>9. CASE Dials
  BY <1>9 DEF Dials, Calls, Call
<1>10. CASE ConnectStep
  <2>1. UNCHANGED bridgeVars /\ (step = "dialing" \/ worker = "dialing")
    BY <1>10 DEF ConnectStep
  <2> QED BY <2>1 DEF bridgeVars
<1>11. CASE DialReturns
  BY <1>11 DEF DialReturns, Abandons, Acquire, Release, Meta, SessionParts
<1>12. CASE Spawns
  BY <1>12 DEF Spawns, Acquire
<1>13. CASE SpawnFails
  BY <1>13 DEF SpawnFails, CloseCall, Release, Meta, SessionParts
<1>14. CASE DropsConnection
  BY <1>14 DEF DropsConnection, Replaces, CloseCall, Release
<1>15. CASE Redials
  BY <1>15 DEF Redials, Calls, Call
<1>16. CASE RedialReturns
  BY <1>16 DEF RedialReturns, CloseCall, Acquire
<1>17. CASE WorkerEnds
  BY <1>17 DEF WorkerEnds
<1>18. CASE StopBegins
  BY <1>18 DEF StopBegins
<1>19. CASE Joins
  BY <1>19 DEF Joins, Release
<1>20. CASE ClosesLast
  BY <1>20 DEF ClosesLast, LastClosed, CloseCall, Release
<1>21. CASE DestroysSession
  BY <1>21 DEF DestroysSession, Release, SessionParts
<1>22. CASE Frees
  BY <1>22 DEF Frees, Release, Meta
<1>23. CASE UNCHANGED vars
  BY <1>23 DEF vars, bridgeVars
<1> QED
  BY <1>1, <1>2, <1>3, <1>4, <1>5, <1>6, <1>7, <1>8, <1>9, <1>10, <1>11, <1>12,
     <1>13, <1>14, <1>15, <1>16, <1>17, <1>18, <1>19, <1>20, <1>21, <1>22, <1>23
     DEF Next

\* What a bridge owns is known at every step of its start, its worker and its
\* stop.
THEOREM StartInvariance == Spec => []BridgeInv
<1>1. Init => BridgeInv
  BY DEF Init, ConnectInit, BridgeInv, OwnedAt, WsAt, WorkerAt, BridgeSteps
<1> QED BY <1>1, BridgeInvStep, PTL DEF Spec

\* A step of the bridge is a step of its connection, or leaves it alone: where
\* rtw_ws_connect_ex is called there is no connection, and where rtw_ws_close is
\* called there is one.
LEMMA BridgeStepConnects == BridgeInv /\ [Next]_vars => [ConnectNext]_connectVars
<1> SUFFICES ASSUME BridgeInv, [Next]_vars PROVE [ConnectNext]_connectVars
  OBVIOUS
<1>1. CASE Dials
  <2>1. pc = "none"
    BY <1>1 DEF Dials, BridgeInv, WsAt
  <2> QED BY <1>1, <2>1 DEF Dials, Calls, Begins, ConnectNext
<1>2. CASE SpawnFails
  <2>1. pc = "open"
    BY <1>2 DEF SpawnFails, BridgeInv, WsAt
  <2> QED BY <1>2, <2>1 DEF SpawnFails, Closes, ConnectNext
<1>3. CASE DropsConnection
  <2>1. pc = "open"
    BY <1>3 DEF DropsConnection, BridgeInv, WsAt
  <2> QED BY <1>3, <2>1 DEF DropsConnection, Replaces, Closes, ConnectNext
<1>4. CASE Redials
  <2>1. pc = "none"
    BY <1>4 DEF Redials, BridgeInv, WsAt
  <2> QED BY <1>4, <2>1 DEF Redials, Calls, Begins, ConnectNext
<1>5. CASE RedialReturns
  BY <1>5 DEF RedialReturns, Closes, ConnectNext
<1>6. CASE ClosesLast
  <2>1. CASE "ws" \in owned
    <3>1. pc = "open"
      BY <1>6, <2>1 DEF ClosesLast, BridgeInv, WsAt
    <3> QED BY <1>6, <2>1, <3>1 DEF ClosesLast, LastClosed, Closes, ConnectNext
  <2>2. CASE "ws" \notin owned
    BY <1>6, <2>2 DEF ClosesLast, LastClosed
  <2> QED BY <2>1, <2>2
<1>7. CASE ConnectStep
  BY <1>7 DEF ConnectStep, ConnectNext
<1>8. CASE \/ Allocates \/ InitsMutex \/ SplitsMetadata \/ InitsSession
           \/ InitsPlayout \/ GivesUpSession \/ CopiesParams \/ QueuesStart
           \/ DialReturns \/ Spawns \/ WorkerEnds \/ StopBegins \/ Joins
           \/ DestroysSession \/ Frees \/ UNCHANGED vars
  BY <1>8 DEF vars, Allocates, InitsMutex, SplitsMetadata, InitsSession,
     InitsPlayout, GivesUpSession, CopiesParams, QueuesStart, DialReturns, Spawns,
     WorkerEnds, StopBegins, Joins, DestroysSession, Frees
<1> QED
  BY <1>1, <1>2, <1>3, <1>4, <1>5, <1>6, <1>7, <1>8 DEF Next

\* The start, the worker and the stop call rtw_ws_connect_ex only where there is
\* no connection, and rtw_ws_close only, and once, on one that there is:
\* BridgeStart implements WsConnect.
THEOREM BridgeConnects == Spec => ConnectSpec
<1>1. Init => ConnectInit
  BY DEF Init
<1> QED BY <1>1, StartInvariance, BridgeStepConnects, PTL DEF Spec, ConnectSpec

\* rtw_bridge_start and rtw_bridge_stop leave nothing behind, whichever step of
\* the start or of a connect fails and however often bridges are started.
THEOREM NothingIsLeaked == Spec => []BridgeLeaksNothing
<1>1. BridgeInv /\ NothingLeaked => BridgeLeaksNothing
  BY DEF BridgeInv, OwnedAt, WsAt, NothingLeaked, BridgeLeaksNothing
<1> QED BY <1>1, StartInvariance, BridgeConnects, ConnectLeaksNothing, PTL

\* They free, close and join nothing that is not there.
THEOREM NothingIsFreedTwice == Spec => []FreedOnce
<1>1. BridgeInv /\ GivenBackOnce => FreedOnce
  BY DEF BridgeInv, FreedOnce
<1> QED BY <1>1, StartInvariance, BridgeConnects, ConnectGivesBackOnce, PTL

\* The worker never outlives what it uses.
THEOREM WorkersHaveBridges == Spec => []WorkerHasBridge
<1>1. BridgeInv => WorkerHasBridge
  BY DEF BridgeInv, OwnedAt, Between, BridgeSteps, Optional, Base, WithSession,
     WorkerHasBridge
<1> QED BY <1>1, StartInvariance, PTL

\* tech->ws is the connection that is open, or NULL.
THEOREM ConnectionsAreOwned == Spec => []ConnectionIsOwned
<1>1. BridgeInv => ConnectionIsOwned
  BY DEF BridgeInv, OwnedAt, WsAt, WorkerAt, Between, BridgeSteps, Optional, Base,
     WithSession, ConnectionIsOwned
<1> QED BY <1>1, StartInvariance, PTL

-----------------------------------------------------------------------------
(* uuid_realtime_ws_function: the lock and the copy of the line *)

\* Where the lock and the copy are held.
CommandHolds ==
  /\ commandPc \in {"idle", "called", "separate", "locate", "run", "unlock", "done",
                    "returned"}
  /\ locked = IF commandPc \in {"run", "unlock"} THEN 1 ELSE 0
  /\ mycmd = IF commandPc \in {"separate", "locate", "run", "unlock", "done"}
               THEN TRUE ELSE FALSE

\* What is known of the line once it is separated, and of a start that was made.
CommandReads ==
  /\ line \in Lines \cup {Command!NoLine}
  /\ commandPc \in {"locate", "run"} =>
       argv = Command!Separated(line) /\ words = Command!Left(line)
  /\ commandPc = "run" => line.brace # 1
  /\ commandPc \in {"idle", "called", "separate", "locate", "run"} =>
       started = Command!NotStarted
  /\ started # Command!NotStarted =>
       /\ argv = Command!Separated(line)
       /\ started.metadata = Command!Left(line)
       /\ line.brace # 1

CommandInv == CommandHolds /\ CommandReads

LEMMA CommandHoldsStep ==
  ASSUME CommandHolds, Command!Next
  PROVE  CommandHolds'
<1> USE DEF CommandHolds
<1>1. CASE Command!Called BY <1>1 DEF Command!Called
<1>2. CASE Command!Refused BY <1>2 DEF Command!Refused
<1>3. CASE Command!Copies BY <1>3 DEF Command!Copies
<1>4. CASE Command!Separates BY <1>4 DEF Command!Separates
<1>5. CASE Command!Locates BY <1>5 DEF Command!Locates
<1>6. CASE Command!Others BY <1>6 DEF Command!Others
<1>7. CASE Command!StartUsage BY <1>7 DEF Command!StartUsage, Command!Leaves
<1>8. CASE Command!Starts BY <1>8 DEF Command!Starts
<1>9. CASE Command!Unlocks BY <1>9 DEF Command!Unlocks
<1>10. CASE Command!Done BY <1>10 DEF Command!Done
<1> QED
  BY <1>1, <1>2, <1>3, <1>4, <1>5, <1>6, <1>7, <1>8, <1>9, <1>10 DEF Command!Next

LEMMA CommandReadsStep ==
  ASSUME CommandHolds, CommandReads, Command!Next
  PROVE  CommandReads'
<1> USE DEF CommandHolds, CommandReads
<1>1. CASE Command!Called BY <1>1 DEF Command!Called
<1>2. CASE Command!Refused BY <1>2 DEF Command!Refused
<1>3. CASE Command!Copies BY <1>3 DEF Command!Copies
<1>4. CASE Command!Separates BY <1>4 DEF Command!Separates
<1>5. CASE Command!Locates BY <1>5 DEF Command!Locates
<1>6. CASE Command!Others BY <1>6 DEF Command!Others
<1>7. CASE Command!StartUsage BY <1>7 DEF Command!StartUsage, Command!Leaves
<1>8. CASE Command!Starts BY <1>8 DEF Command!Starts
<1>9. CASE Command!Unlocks BY <1>9 DEF Command!Unlocks
<1>10. CASE Command!Done BY <1>10 DEF Command!Done
<1> QED
  BY <1>1, <1>2, <1>3, <1>4, <1>5, <1>6, <1>7, <1>8, <1>9, <1>10 DEF Command!Next

LEMMA CommandInvariance == Command!Spec => []CommandInv
<1>1. Command!Init => CommandInv
  BY DEF Command!Init, CommandInv, CommandHolds, CommandReads
<1>2. CommandInv /\ [Command!Next]_Command!vars => CommandInv'
  <2>1. ASSUME CommandInv, UNCHANGED Command!vars PROVE CommandInv'
    BY <2>1 DEF Command!vars, CommandInv, CommandHolds, CommandReads
  <2> QED
    BY <2>1, CommandHoldsStep, CommandReadsStep DEF CommandInv
<1> QED
  BY <1>1, <1>2, PTL DEF Command!Spec

\* The words that are cut off before the '{' are fewer than those before it.
LEMMA ArgumentsBeforeBrace ==
  ASSUME NEW l \in Lines, l.brace > 1, ~l.glued
  PROVE  /\ Command!Left(l) = Command!From(l)
         /\ Len(Command!Separated(l)) < l.brace
<1>1. l.brace \in Nat /\ MaxArgs \in Nat /\ l.glued = FALSE
  BY PartsConstants DEF Command!CommandConstants
<1>2. Command!Cut(l)
  BY <1>1 DEF Command!Cut
<1>3. Command!Left(l) = Command!From(l)
  BY <1>1, <1>2 DEF Command!Left
<1>4. PICK m : m = Command!Min({l.brace - 1, MaxArgs})
  OBVIOUS
<1>5. m \in Nat /\ m < l.brace
  <2>1. l.brace - 1 \in Nat
    BY <1>1
  <2>2. \E x \in {l.brace - 1, MaxArgs} : \A y \in {l.brace - 1, MaxArgs} : x <= y
    BY <1>1, <2>1
  <2>3. m \in {l.brace - 1, MaxArgs} /\ \A y \in {l.brace - 1, MaxArgs} : m <= y
    BY <1>4, <2>2, Zenon DEF Command!Min
  <2> QED
    BY <1>1, <2>1, <2>3
<1>6. Command!Separated(l) = [i \in 1 .. m |-> Command!Word(l, i)]
  BY <1>2, <1>4 DEF Command!Separated
<1>7. Len(Command!Separated(l)) = m
  BY <1>5, <1>6, LenProperties
<1> QED
  BY <1>1, <1>3, <1>5, <1>7

\* A command gives back the lock and the copy, whichever way it ends.
THEOREM CommandKeepsNothing == Command!Spec => []NothingKept
<1>1. CommandInv => NothingKept
  BY DEF CommandInv, CommandHolds, NothingKept, Command!NothingKept
<1> QED
  BY <1>1, CommandInvariance, PTL

\* A start that was made has its metadata whole, and took none of it for an
\* argument.
LEMMA CommandMetadataIntact == Command!Spec => []Command!MetadataIntact
<1>1. CommandInv => Command!MetadataIntact
  <2> SUFFICES ASSUME CommandReads, started # Command!NotStarted, line.brace # 0,
                      ~line.glued
               PROVE  /\ started.metadata = Command!From(line)
                      /\ Len(argv) < line.brace
    BY DEF CommandInv, Command!MetadataIntact
  <2>1. line \in Lines
    BY DEF CommandReads, Command!NoLine
  <2>2. line.brace > 1
    <3>1. line.brace \in Nat
      BY <2>1, PartsConstants DEF Command!CommandConstants
    <3>2. line.brace # 1
      BY DEF CommandReads
    <3> QED
      BY <3>1, <3>2
  <2> QED
    BY <2>1, <2>2, ArgumentsBeforeBrace DEF CommandReads
<1> QED
  BY <1>1, CommandInvariance, PTL

-----------------------------------------------------------------------------
(* split_metadata: positions in their order *)

\* The least of a set of numbers.
LEMMA LeastNumber ==
  ASSUME NEW S, S \subseteq Nat, S # {}
  PROVE  \E m \in S : \A x \in S : m <= x
<1>1. PICK m \in S : \A x \in S : ~(<<x, m>> \in OpToRel(<, Nat))
  BY NatLessThanWellFounded, WFMin
<1>2. ASSUME NEW x \in S PROVE m <= x
  <2>1. ~(x < m)
    BY <1>1 DEF OpToRel
  <2> QED
    BY <2>1
<1> QED
  BY <1>2

\* Counting the positions up to i.
Rank(S, i) == Cardinality(S \cap (1 .. i))

LEMMA RankType ==
  ASSUME NEW n \in Nat, NEW S, S \subseteq 1 .. n, NEW i \in Nat
  PROVE  /\ IsFiniteSet(S) /\ IsFiniteSet(S \cap (1 .. i))
         /\ Cardinality(S) \in Nat /\ Rank(S, i) \in Nat
         /\ Rank(S, i) <= Cardinality(S)
<1>1. IsFiniteSet(S)
  <2>1. IsFiniteSet(1 .. n)
    BY FS_Interval, 1 \in Int, n \in Int, Zenon
  <2> QED
    BY <2>1, S \in SUBSET (1 .. n), FS_Subset, Zenon
<1>2. S \cap (1 .. i) \in SUBSET S
  OBVIOUS
<1> QED
  BY <1>1, <1>2, FS_Subset, FS_CardinalityType DEF Rank

\* A later position in S has a greater rank.
LEMMA RankGrows ==
  ASSUME NEW n \in Nat, NEW S, S \subseteq 1 .. n, NEW i \in Nat, NEW j \in S, i < j
  PROVE  Rank(S, i) < Rank(S, j)
<1>1. j \in Nat
  OBVIOUS
<1>2. S \cap (1 .. i) \in SUBSET (S \cap (1 .. j))
  BY <1>1
<1>3. j \in S \cap (1 .. j) /\ j \notin S \cap (1 .. i)
  BY <1>1
<1>4. IsFiniteSet(S \cap (1 .. j)) /\ Rank(S, i) \in Nat /\ Rank(S, j) \in Nat
  BY <1>1, RankType
<1>5. Rank(S, i) <= Rank(S, j) /\ Rank(S, i) # Rank(S, j)
  BY <1>2, <1>3, <1>4, FS_Subset DEF Rank
<1> QED
  BY <1>4, <1>5

\* Every rank up to the number of positions is that of a position.
LEMMA RankIsTaken ==
  ASSUME NEW n \in Nat, NEW S, S \subseteq 1 .. n, NEW k \in 1 .. Cardinality(S)
  PROVE  \E i \in S : Rank(S, i) = k
<1> DEFINE B == {i \in Nat : Rank(S, i) >= k}
<1>0. \A i \in Nat : Rank(S, i) \in Nat
  BY RankType
<1>1. n \in B
  <2>1. S \cap (1 .. n) = S
    OBVIOUS
  <2> QED
    BY <2>1, RankType DEF Rank
<1>2. PICK m \in B : \A x \in B : m <= x
  <2> HIDE DEF B
  <2>1. B \subseteq Nat
    BY DEF B
  <2> QED
    BY <1>1, <2>1, LeastNumber
<1>3. m # 0
  <2>1. S \cap (1 .. 0) = {}
    OBVIOUS
  <2>2. Rank(S, 0) = 0
    BY <2>1, FS_EmptySet DEF Rank
  <2> QED
    BY <2>2
<1>4. m - 1 \in Nat /\ m - 1 \notin B
  BY <1>2, <1>3
<1>5. Rank(S, m - 1) < k /\ Rank(S, m) >= k /\ m \in Nat
  BY <1>0, <1>4
<1>6. m \in S
  <2>1. ASSUME m \notin S PROVE S \cap (1 .. m) = S \cap (1 .. m - 1)
    BY <2>1, <1>5
  <2>2. ASSUME m \notin S PROVE Rank(S, m) = Rank(S, m - 1)
    BY <2>1, <2>2 DEF Rank
  <2> QED
    BY <2>2, <1>0, <1>4, <1>5
<1>7. S \cap (1 .. m) = (S \cap (1 .. m - 1)) \cup {m}
  BY <1>5, <1>6
<1>8. Rank(S, m) = Rank(S, m - 1) + 1
  <2>1. m \notin S \cap (1 .. m - 1)
    BY <1>5
  <2>2. IsFiniteSet(S \cap (1 .. m - 1))
    BY <1>4, RankType
  <2> QED
    BY <1>7, <2>1, <2>2, FS_AddElement DEF Rank
<1> QED
  BY <1>0, <1>4, <1>5, <1>6, <1>8

\* Ordered(S) has all the positions in S, and only them, from the first to the
\* last.
LEMMA OrderedPositions ==
  ASSUME NEW n \in Nat, NEW S, S \subseteq 1 .. n
  PROVE  /\ Cardinality(S) \in Nat
         /\ Splitting!Ordered(S) \in [1 .. Cardinality(S) -> S]
         /\ \A j, k \in 1 .. Cardinality(S) :
              j < k => Splitting!Ordered(S)[j] < Splitting!Ordered(S)[k]
         /\ \A i \in S : \E k \in 1 .. Cardinality(S) : Splitting!Ordered(S)[k] = i
<1> DEFINE o == Splitting!Ordered(S)
<1>0. ASSUME NEW i \in S
      PROVE  i \in Nat /\ Rank(S, i) \in Nat /\ Rank(S, i) <= Cardinality(S)
  <2>1. i \in Nat
    OBVIOUS
  <2> QED
    BY <2>1, RankType
<1>1. o = [k \in 1 .. Cardinality(S) |-> CHOOSE i \in S : Rank(S, i) = k]
  BY Zenon DEF Splitting!Ordered, Splitting!Cardinality, Cardinality, Rank
<1>2. ASSUME NEW k \in 1 .. Cardinality(S) PROVE o[k] \in S /\ Rank(S, o[k]) = k
  <2>1. o[k] = CHOOSE i \in S : Rank(S, i) = k
    BY <1>1, Zenon
  <2>2. \E i \in S : Rank(S, i) = k
    BY RankIsTaken
  <2> QED
    BY <2>1, <2>2, Zenon
<1> HIDE DEF o
<1>3. Cardinality(S) \in Nat
  BY RankType
<1>4. o \in [1 .. Cardinality(S) -> S]
  BY <1>1, <1>2
<1>5. ASSUME NEW i \in S, NEW j \in S, Rank(S, i) <= Rank(S, j) PROVE i <= j
  <2>1. i \in Nat /\ j \in Nat /\ Rank(S, i) \in Nat /\ Rank(S, j) \in Nat
    BY <1>0
  <2>2. CASE j < i
    <3>1. Rank(S, j) < Rank(S, i)
      BY <2>1, <2>2, RankGrows
    <3> QED
      BY <1>5, <2>1, <3>1
  <2> QED
    BY <2>1, <2>2
<1>6. ASSUME NEW j \in 1 .. Cardinality(S), NEW k \in 1 .. Cardinality(S), j < k
      PROVE  o[j] < o[k]
  <2>1. o[j] \in S /\ o[k] \in S /\ o[j] # o[k]
    BY <1>2, <1>6
  <2>2. Rank(S, o[j]) <= Rank(S, o[k])
    BY <1>2, <1>3, <1>6
  <2>3. o[j] <= o[k] /\ o[j] \in Nat /\ o[k] \in Nat
    BY <1>0, <1>5, <2>1, <2>2
  <2> QED
    BY <2>1, <2>3
<1>7. ASSUME NEW i \in S PROVE \E k \in 1 .. Cardinality(S) : o[k] = i
  <2>1. i \in Nat /\ Rank(S, i) \in Nat /\ Rank(S, i) <= Cardinality(S)
    BY <1>0
  <2>2. Rank(S, i) > 0
    <3>1. 0 < i
      OBVIOUS
    <3>2. Rank(S, 0) \in Nat
      BY RankType
    <3>3. Rank(S, 0) < Rank(S, i)
      BY <3>1, RankGrows
    <3> QED
      BY <2>1, <3>2, <3>3
  <2>3. Rank(S, i) \in 1 .. Cardinality(S)
    BY <1>3, <2>1, <2>2
  <2>4. PICK k \in 1 .. Cardinality(S) : k = Rank(S, i)
    BY <2>3
  <2>5. o[k] \in S /\ Rank(S, o[k]) = Rank(S, i)
    BY <1>2, <2>4
  <2>6. Rank(S, o[k]) <= Rank(S, i) /\ Rank(S, i) <= Rank(S, o[k])
    BY <2>1, <2>5
  <2>7. o[k] <= i /\ i <= o[k] /\ o[k] \in Nat
    BY <1>0, <1>5, <2>5, <2>6
  <2> QED
    BY <2>1, <2>7
<1> QED
  BY <1>3, <1>4, <1>6, <1>7 DEF o

-----------------------------------------------------------------------------
(* split_metadata and rtw_build_start: every member one way *)

\* The members with a key.
KeyAt(s, key) == {i \in DOMAIN s : s[i].key = key}

\* In documented metadata each of the two keys is at one place at most, where
\* split_metadata finds and removes it.
LEMMA DocumentedPositions ==
  ASSUME NEW n \in Nat, given \in [1 .. n -> Members], Splitting!AsDocumented
  PROVE  /\ Splitting!AuthItem(given) = KeyAt(given, "authorization")
         /\ Splitting!HeaderItem(given) = KeyAt(given, "ws_headers")
         /\ Splitting!Deleted(given, "authorization") = KeyAt(given, "authorization")
         /\ Splitting!Deleted(given, "ws_headers") = KeyAt(given, "ws_headers")
         /\ \A i, j \in KeyAt(given, "ws_headers") : i = j
         /\ DOMAIN given \ (KeyAt(given, "authorization") \cup KeyAt(given, "ws_headers"))
              = KeyAt(given, "custom")
<1>1. \A i \in 1 .. n : given[i].key \in {"authorization", "Authorization", "ws_headers", "custom"}
  BY PartsConstants DEF Splitting!MetadataConstants
<1>2. \A i \in 1 .. n : given[i].key # "Authorization"
  BY DEF Splitting!AsDocumented, Splitting!Keys
<1>3. \A i \in 1 .. n :
        /\ given[i].key = "authorization" => given[i].kind = "string"
        /\ given[i].key = "ws_headers" => given[i].kind = "object"
  BY DEF Splitting!AsDocumented
<1>4. \A i, j \in 1 .. n :
        given[i].key = given[j].key /\ given[i].key # "custom" => i = j
  BY DEF Splitting!AsDocumented
<1>5. DOMAIN given = 1 .. n /\ \A i \in 1 .. n : \A j \in 1 .. i - 1 : j \in 1 .. n /\ j # i
  OBVIOUS
<1>6. \A key \in {"authorization", "ws_headers"} :
        Splitting!Find(given, key) = KeyAt(given, key)
  BY <1>4, <1>5 DEF Splitting!Find, KeyAt
<1>7. /\ Splitting!AuthItem(given) = KeyAt(given, "authorization")
      /\ Splitting!HeaderItem(given) = KeyAt(given, "ws_headers")
  BY <1>3, <1>5, <1>6 DEF Splitting!AuthItem, Splitting!HeaderItem, KeyAt
<1>8. Splitting!Deleted(given, "ws_headers") = KeyAt(given, "ws_headers")
  BY <1>4, <1>5 DEF Splitting!Deleted, KeyAt
<1>9. Splitting!Deleted(given, "authorization") = KeyAt(given, "authorization")
  BY <1>2, <1>4, <1>5 DEF Splitting!Deleted, KeyAt
<1>10. \A i, j \in KeyAt(given, "ws_headers") : i = j
  BY <1>4, <1>5 DEF KeyAt
<1>11. DOMAIN given \ (KeyAt(given, "authorization") \cup KeyAt(given, "ws_headers"))
         = KeyAt(given, "custom")
  BY <1>1, <1>2, <1>5 DEF KeyAt
<1> QED
  BY <1>7, <1>8, <1>9, <1>10, <1>11

\* The first member with a key is one only, and so is what cJSON deletes.
LEMMA OnePosition ==
  ASSUME NEW n \in Nat, given \in [1 .. n -> Members], NEW key
  PROVE  /\ Splitting!Find(given, key) \subseteq 1 .. n
         /\ Splitting!Deleted(given, key) \subseteq 1 .. n
         /\ \A i, j \in Splitting!Find(given, key) : i = j
         /\ \A i, j \in Splitting!Deleted(given, key) : i = j
<1>1. DOMAIN given = 1 .. n
  OBVIOUS
<1>2. \A i, j \in 1 .. n : i \in 1 .. j - 1 \/ j \in 1 .. i - 1 \/ i = j
  OBVIOUS
<1> QED
  BY <1>1, <1>2, Zenon DEF Splitting!Find, Splitting!Deleted

\* Without(s, S) has the other members, in their order.
LEMMA WithoutPicks ==
  ASSUME NEW n \in Nat, NEW s, s \in [1 .. n -> Members], NEW S
  PROVE  Splitting!Picks(Splitting!Without(s, S), s, DOMAIN s \ S)
<1> DEFINE C == DOMAIN s \ S
           o == Splitting!Ordered(C)
<1>1. Splitting!Without(s, S) = [i \in DOMAIN o |-> s[o[i]]]
  BY DEF Splitting!Without
<1>2. C \subseteq 1 .. n
  OBVIOUS
<1> HIDE DEF C
<1>3. /\ Cardinality(C) \in Nat /\ o \in [1 .. Cardinality(C) -> C]
      /\ \A j, k \in 1 .. Cardinality(C) : j < k => o[j] < o[k]
      /\ \A i \in C : \E k \in 1 .. Cardinality(C) : o[k] = i
  BY <1>2, OrderedPositions
<1> HIDE DEF o
<1>4. DOMAIN Splitting!Without(s, S) = 1 .. Cardinality(C)
  BY <1>1, <1>3
<1>5. Splitting!Picks(Splitting!Without(s, S), s, C)
  <2>1. PICK r : r = Splitting!Without(s, S)
    OBVIOUS
  <2>2. PICK D : D = 1 .. Cardinality(C)
    OBVIOUS
  <2>3. DOMAIN r = D /\ DOMAIN o = D /\ o \in [D -> C]
    BY <1>3, <1>4, <2>1, <2>2
  <2>4. \A k \in D : r[k] = s[o[k]]
    BY <1>1, <2>1, <2>3
  <2>5. /\ \A j, k \in D : j < k => o[j] < o[k]
        /\ \A i \in C : \E k \in D : o[k] = i
    BY <1>3, <2>2, Zenon
  <2>6. Splitting!Picks(r, s, C)
    BY <2>3, <2>4, <2>5, Zenon DEF Splitting!Picks
  <2> QED
    BY <2>1, <2>6
<1> QED
  BY <1>5 DEF C

\* Of documented metadata, what stays are the members with other keys.
LEMMA RestPicksCustom ==
  ASSUME NEW n \in Nat, given \in [1 .. n -> Members], Splitting!AsDocumented
  PROVE  Splitting!Picks(Splitting!Rest(given), given,
                         {i \in DOMAIN given : given[i].key = "custom"})
<1> DEFINE G == KeyAt(given, "authorization") \cup KeyAt(given, "ws_headers")
<1>1. Splitting!Rest(given) = Splitting!Without(given, G)
  BY DocumentedPositions DEF Splitting!Rest
<1>2. DOMAIN given \ G = {i \in DOMAIN given : given[i].key = "custom"}
  BY DocumentedPositions DEF KeyAt
<1> HIDE DEF G
<1>3. Splitting!Picks(Splitting!Without(given, G), given, DOMAIN given \ G)
  BY WithoutPicks
<1> QED
  BY <1>1, <1>2, <1>3

HeaderNames == {"authorization", "ws_headers"}

\* The headers are the authorization, if it was found, and the strings of the
\* ws_headers that were.
LEMMA HeadersOfAny ==
  ASSUME NEW n \in Nat, given \in [1 .. n -> Members],
         NEW h, h = Splitting!HeadersOf(given)
  PROVE  /\ <<"authorization", 0>> \in Splitting!Range(h) <=> Splitting!AuthItem(given) # {}
         /\ \A w \in Splitting!HeaderItem(given) : \A i \in DOMAIN given[w].subs :
              given[w].subs[i] <=> <<"ws_headers", i>> \in Splitting!Range(h)
         /\ \A v \in Splitting!Range(h) :
              v[1] = "ws_headers" => Splitting!HeaderItem(given) # {}
<1> DEFINE W == Splitting!HeaderItem(given)
           A == Splitting!AuthItem(given)
           x == IF A = {} THEN <<>> ELSE << <<"authorization", 0>> >>
           sub == Splitting!SubHeaders(given[CHOOSE i \in W : TRUE])
           y == IF W = {} THEN <<>> ELSE [j \in DOMAIN sub |-> <<"ws_headers", sub[j]>>]
<1>0. W \subseteq 1 .. n /\ \A i, j \in W : i = j
  BY OnePosition DEF Splitting!HeaderItem
<1>1. h = x \o y
  BY Zenon DEF Splitting!HeadersOf
<1>2. x \in Seq(HeaderNames \X Nat)
  <2>1. <<"authorization", 0>> \in HeaderNames \X Nat
    BY DEF HeaderNames
  <2>2. <<>> \in Seq(HeaderNames \X Nat)
    OBVIOUS
  <2>3. << <<"authorization", 0>> >> \in Seq(HeaderNames \X Nat)
    BY <2>1
  <2> QED
    BY <2>2, <2>3, Zenon
<1>3. ASSUME NEW w \in W
      PROVE  /\ given[w].subs \in Seq(BOOLEAN)
             /\ sub = Splitting!Ordered({i \in DOMAIN given[w].subs : given[w].subs[i]})
  <2>1. w \in 1 .. n /\ given[w] \in Members
    BY <1>0
  <2>2. (CHOOSE i \in W : TRUE) = w
    BY <1>0
  <2> QED
    BY <2>1, <2>2, PartsConstants DEF Splitting!MetadataConstants, Splitting!SubHeaders
<1>4. ASSUME NEW w \in W
      PROVE  \E k \in Nat :
               /\ DOMAIN sub = 1 .. k
               /\ \A j \in 1 .. k : sub[j] \in Nat
               /\ \A i \in DOMAIN given[w].subs :
                    given[w].subs[i] <=> \E j \in 1 .. k : sub[j] = i
  <2> DEFINE T == {i \in DOMAIN given[w].subs : given[w].subs[i]}
  <2>1. PICK l \in Nat : l = Len(given[w].subs)
    BY <1>3
  <2>2. DOMAIN given[w].subs = 1 .. l
    BY <1>3, <2>1
  <2>3. T \subseteq 1 .. l
    BY <2>2
  <2>4. sub = Splitting!Ordered(T)
    BY <1>3
  <2>5. \A i \in DOMAIN given[w].subs : given[w].subs[i] <=> i \in T
    OBVIOUS
  <2> HIDE DEF T, sub
  <2>6. /\ Cardinality(T) \in Nat /\ sub \in [1 .. Cardinality(T) -> T]
        /\ \A i \in T : \E k \in 1 .. Cardinality(T) : sub[k] = i
    BY <2>3, <2>4, OrderedPositions
  <2>7. \A j \in 1 .. Cardinality(T) : sub[j] \in T /\ sub[j] \in Nat
    <3>1. \A i \in T : i \in Nat
      BY <2>3
    <3> QED
      BY <2>6, <3>1, Zenon
  <2>8. \A i \in DOMAIN given[w].subs :
          given[w].subs[i] <=> \E j \in 1 .. Cardinality(T) : sub[j] = i
    BY <2>5, <2>6, <2>7, Zenon
  <2>9. DOMAIN sub = 1 .. Cardinality(T)
    BY <2>6
  <2> QED
    BY <2>6, <2>7, <2>8, <2>9
<1> HIDE DEF sub
<1>5. y \in Seq(HeaderNames \X Nat) /\ \A j \in DOMAIN y : y[j][1] = "ws_headers"
  <2>1. CASE W = {}
    BY <2>1
  <2>2. CASE W # {}
    <3>1. PICK w \in W : TRUE
      BY <2>2
    <3>2. PICK k \in Nat : DOMAIN sub = 1 .. k /\ \A j \in 1 .. k : sub[j] \in Nat
      BY <1>4, <3>1
    <3>3. y = [j \in 1 .. k |-> <<"ws_headers", sub[j]>>]
      BY <2>2, <3>2
    <3> HIDE DEF y
    <3>4. \A j \in 1 .. k : <<"ws_headers", sub[j]>> \in HeaderNames \X Nat
      BY <3>2 DEF HeaderNames
    <3> QED
      BY <3>2, <3>3, <3>4, SeqDef
  <2> QED
    BY <2>1, <2>2
<1> HIDE DEF W, A, x, y
<1>6. \A v : v \in Splitting!Range(h) <=> v \in Splitting!Range(x) \/ v \in Splitting!Range(y)
  <2>1. Splitting!Range(h) = {h[i] : i \in 1 .. Len(h)}
    <3>1. h \in Seq(HeaderNames \X Nat)
      BY <1>1, <1>2, <1>5, ConcatProperties
    <3> QED
      BY <3>1 DEF Splitting!Range
  <2>2. Splitting!Range(x) = {x[i] : i \in 1 .. Len(x)}
    BY <1>2 DEF Splitting!Range
  <2>3. Splitting!Range(y) = {y[i] : i \in 1 .. Len(y)}
    BY <1>5 DEF Splitting!Range
  <2>4. \A i \in 1 .. Len(x) : h[i] = x[i] /\ i \in 1 .. Len(h)
    BY <1>1, <1>2, <1>5
  <2>5. \A i \in 1 .. Len(y) : h[Len(x) + i] = y[i] /\ Len(x) + i \in 1 .. Len(h)
    BY <1>1, <1>2, <1>5
  <2>6. \A i \in 1 .. Len(h) : i \in 1 .. Len(x) \/ \E j \in 1 .. Len(y) : h[i] = y[j]
    <3>1. ASSUME NEW i \in 1 .. Len(h), i \notin 1 .. Len(x)
          PROVE  i - Len(x) \in 1 .. Len(y) /\ h[i] = y[i - Len(x)]
      BY <1>1, <1>2, <1>5, <3>1
    <3> QED
      BY <3>1
  <2>7. ASSUME NEW v, v \in Splitting!Range(h)
        PROVE  v \in Splitting!Range(x) \/ v \in Splitting!Range(y)
    <3>1. PICK i \in 1 .. Len(h) : v = h[i]
      BY <2>1, <2>7
    <3>2. CASE i \in 1 .. Len(x)
      BY <2>2, <2>4, <3>1, <3>2
    <3>3. CASE \E j \in 1 .. Len(y) : h[i] = y[j]
      BY <2>3, <3>1, <3>3
    <3> QED
      BY <2>6, <3>2, <3>3, Zenon
  <2>8. ASSUME NEW v, v \in Splitting!Range(x) PROVE v \in Splitting!Range(h)
    <3>1. PICK i \in 1 .. Len(x) : v = x[i]
      BY <2>2, <2>8
    <3> QED
      BY <2>1, <2>4, <3>1
  <2>9. ASSUME NEW v, v \in Splitting!Range(y) PROVE v \in Splitting!Range(h)
    <3>1. PICK i \in 1 .. Len(y) : v = y[i]
      BY <2>3, <2>9
    <3> QED
      BY <2>1, <2>5, <3>1
  <2> QED
    BY <2>7, <2>8, <2>9, Zenon
<1>7. <<"authorization", 0>> \in Splitting!Range(h) <=> A # {}
  <2>1. <<"authorization", 0>> \notin Splitting!Range(y)
    BY <1>5 DEF Splitting!Range
  <2>2. <<"authorization", 0>> \in Splitting!Range(x) <=> A # {}
    BY DEF x, Splitting!Range
  <2> QED
    BY <1>6, <2>1, <2>2
<1>8. ASSUME NEW w \in W, NEW i \in DOMAIN given[w].subs
      PROVE  given[w].subs[i] <=> <<"ws_headers", i>> \in Splitting!Range(h)
  <2>1. <<"ws_headers", i>> \notin Splitting!Range(x)
    BY DEF x, Splitting!Range
  <2>2. PICK k \in Nat :
          /\ DOMAIN sub = 1 .. k
          /\ given[w].subs[i] <=> \E j \in 1 .. k : sub[j] = i
    BY <1>4
  <2>3. y = [j \in 1 .. k |-> <<"ws_headers", sub[j]>>]
    BY <2>2 DEF y
  <2>4. <<"ws_headers", i>> \in Splitting!Range(y) <=> \E j \in 1 .. k : sub[j] = i
    BY <2>3 DEF Splitting!Range
  <2> QED
    BY <1>6, <2>1, <2>2, <2>4
<1>9. ASSUME NEW v \in Splitting!Range(h), v[1] = "ws_headers" PROVE W # {}
  <2>1. v \notin Splitting!Range(x)
    BY <1>9 DEF x, Splitting!Range
  <2>2. v \in Splitting!Range(y)
    BY <1>6, <2>1
  <2>3. CASE W = {}
    <3>1. y = <<>>
      BY <2>3, Zenon DEF y
    <3>2. \A u : u \notin Splitting!Range(<<>>)
      BY DEF Splitting!Range
    <3> QED
      BY <2>2, <3>1, <3>2, Zenon
  <2> QED
    BY <2>3, Zenon
<1> QED
  BY <1>7, <1>8, <1>9, Zenon DEF W, A

LEMMA HeadersOfDocumented ==
  ASSUME NEW n \in Nat, given \in [1 .. n -> Members], Splitting!AsDocumented,
         NEW h, h = Splitting!HeadersOf(given)
  PROVE  /\ <<"authorization", 0>> \in Splitting!Range(h)
              <=> "authorization" \in Splitting!Keys(given)
         /\ \A m \in Splitting!Range(given) : m.key = "ws_headers" =>
              \A i \in DOMAIN m.subs :
                m.subs[i] <=> <<"ws_headers", i>> \in Splitting!Range(h)
<1>1. /\ Splitting!AuthItem(given) = KeyAt(given, "authorization")
      /\ Splitting!HeaderItem(given) = KeyAt(given, "ws_headers")
  BY DocumentedPositions
<1>2. KeyAt(given, "authorization") # {} <=> "authorization" \in Splitting!Keys(given)
  BY DEF KeyAt, Splitting!Keys
<1>3. \A m \in Splitting!Range(given) : m.key = "ws_headers" =>
        \E w \in KeyAt(given, "ws_headers") : m = given[w]
  BY DEF KeyAt, Splitting!Range
<1>4. /\ <<"authorization", 0>> \in Splitting!Range(h) <=> Splitting!AuthItem(given) # {}
      /\ \A w \in Splitting!HeaderItem(given) : \A i \in DOMAIN given[w].subs :
           given[w].subs[i] <=> <<"ws_headers", i>> \in Splitting!Range(h)
  BY HeadersOfAny
<1>5. ASSUME NEW m \in Splitting!Range(given), m.key = "ws_headers", NEW i \in DOMAIN m.subs
      PROVE  m.subs[i] <=> <<"ws_headers", i>> \in Splitting!Range(h)
  <2>1. PICK w \in Splitting!HeaderItem(given) : m = given[w]
    BY <1>1, <1>3, <1>5, Zenon
  <2> QED
    BY <1>4, <1>5, <2>1, Zenon
<1>6. <<"authorization", 0>> \in Splitting!Range(h)
        <=> "authorization" \in Splitting!Keys(given)
  BY <1>1, <1>2, <1>4, Zenon
<1> QED
  BY <1>5, <1>6, Zenon

\* What split_metadata removes.
Removed ==
  (IF Splitting!AuthItem(given) = {} THEN {} ELSE Splitting!Deleted(given, "authorization"))
    \cup (IF Splitting!HeaderItem(given) = {} THEN {} ELSE Splitting!Deleted(given, "ws_headers"))

\* A key that looks like the authorization was found: the first of them goes.
LEMMA AuthorizationIsDeleted ==
  ASSUME NEW n \in Nat, given \in [1 .. n -> Members], Splitting!AuthItem(given) # {}
  PROVE  Splitting!Deleted(given, "authorization") # {}
<1> DEFINE B == {i \in 1 .. n : given[i].key \in {"authorization", "Authorization"}}
<1>1. DOMAIN given = 1 .. n
  OBVIOUS
<1>2. PICK i \in B : TRUE
  BY <1>1 DEF Splitting!AuthItem, Splitting!Find
<1>3. PICK m \in B : \A x \in B : m <= x
  <2>1. B \subseteq Nat
    OBVIOUS
  <2> HIDE DEF B
  <2> QED
    BY <1>2, <2>1, LeastNumber
<1>4. \A j \in 1 .. m - 1 : j \notin B /\ j \in 1 .. n
  BY <1>3
<1>5. \A j \in 1 .. m - 1 : given[j].key \notin {"authorization", "Authorization"}
  BY <1>4
<1>6. m \in Splitting!Deleted(given, "authorization")
  BY <1>1, <1>3, <1>5 DEF Splitting!Deleted
<1> QED
  BY <1>6

\* What is removed became headers, whatever the members are.
LEMMA RemovedBecameHeaders ==
  ASSUME NEW n \in Nat, given \in [1 .. n -> Members],
         headers = Splitting!HeadersOf(given)
  PROVE  Removed \in SUBSET DOMAIN given /\ Splitting!BecameHeaders(Removed)
<1> DEFINE DA == Splitting!Deleted(given, "authorization")
           DW == Splitting!Deleted(given, "ws_headers")
           A == Splitting!AuthItem(given)
           W == Splitting!HeaderItem(given)
<1>1. DOMAIN given = 1 .. n
  OBVIOUS
<1>2. /\ DA \subseteq 1 .. n /\ \A i, j \in DA : i = j
      /\ DW \subseteq 1 .. n /\ \A i, j \in DW : i = j
  BY OnePosition
<1>3. \A i \in DA : given[i].key \in {"authorization", "Authorization"}
  BY DEF Splitting!Deleted
<1>4. \A i \in DW : given[i].key = "ws_headers"
  BY DEF Splitting!Deleted
<1>5. W \subseteq DW
  BY DEF Splitting!HeaderItem, Splitting!Find, Splitting!Deleted
<1>6. A # {} => DA # {}
  BY AuthorizationIsDeleted
<1>7. /\ <<"authorization", 0>> \in Splitting!Range(headers) <=> A # {}
      /\ \A w \in W : \A i \in DOMAIN given[w].subs :
           given[w].subs[i] <=> <<"ws_headers", i>> \in Splitting!Range(headers)
      /\ \A v \in Splitting!Range(headers) : v[1] = "ws_headers" => W # {}
  BY HeadersOfAny
<1>8. \A i : i \in Removed <=> ((i \in DA /\ A # {}) \/ (i \in DW /\ W # {}))
  <2>1. Removed = (IF A = {} THEN {} ELSE DA) \cup (IF W = {} THEN {} ELSE DW)
    BY Zenon DEF Removed
  <2>2. PICK a, w : a = (IF A = {} THEN {} ELSE DA) /\ w = (IF W = {} THEN {} ELSE DW)
    OBVIOUS
  <2> HIDE DEF DA, DW, A, W
  <2>3. \A i : i \in a <=> (i \in DA /\ A # {})
    BY <2>2
  <2>4. \A i : i \in w <=> (i \in DW /\ W # {})
    BY <2>2
  <2>5. Removed = a \cup w
    BY <2>1, <2>2, Zenon
  <2> QED
    BY <2>3, <2>4, <2>5
<1> HIDE DEF DA, DW, A, W
<1>9. Removed \in SUBSET DOMAIN given
  BY <1>1, <1>2, <1>8
<1>10. \A i, j \in Removed : (given[i].key = "ws_headers" <=> given[j].key = "ws_headers") => i = j
  <2>1. \A i \in DA : given[i].key # "ws_headers"
    BY <1>3
  <2> QED
    BY <1>2, <1>4, <1>8, <2>1, Zenon
<1>11. \A i \in Removed : given[i].key # "custom"
  BY <1>3, <1>4, <1>8
<1>12. A # {} <=> \E i \in Removed : given[i].key # "ws_headers"
  <2>1. \A i \in DA : given[i].key # "ws_headers"
    BY <1>3
  <2>2. ASSUME A # {} PROVE \E i \in Removed : given[i].key # "ws_headers"
    <3>1. PICK i \in DA : TRUE
      BY <1>6, <2>2
    <3>2. i \in Removed /\ given[i].key # "ws_headers"
      BY <1>8, <2>1, <2>2, <3>1
    <3> QED
      BY <3>2, Zenon
  <2>3. ASSUME NEW i \in Removed, given[i].key # "ws_headers" PROVE A # {}
    BY <1>4, <1>8, <2>3, Zenon
  <2> QED
    BY <2>2, <2>3, Zenon
<1>13. W # {} => \E i \in Removed : given[i].key = "ws_headers"
  BY <1>4, <1>5, <1>8
<1>14. \A i \in Removed : given[i].key = "ws_headers" => i \in W
  <2>1. \A i \in DA : given[i].key # "ws_headers"
    BY <1>3
  <2> QED
    BY <1>2, <1>5, <1>8, <2>1
<1> QED
  BY <1>7, <1>9, <1>10, <1>11, <1>12, <1>13, <1>14, Zenon DEF Splitting!BecameHeaders

\* What was copied, if all of it was, is split and sent on; if not, nothing is.
SplittingInv ==
  /\ stage \in {"none", "given", "copied", "split", "sent"}
  /\ given \in UNION {[1 .. n -> Members] : n \in 0 .. MaxMembers}
  /\ stage \in {"none", "given"} => headers = <<>> /\ custom = <<>>
  /\ stage = "copied" => headers = <<>> /\ custom = <<>>
  /\ stage \in {"copied", "split", "sent"} => Splitting!Fitted \/ metadata.json = FALSE
  /\ stage \in {"split", "sent"} /\ Splitting!Fitted =>
       /\ headers = Splitting!HeadersOf(given)
       /\ params = [json |-> TRUE, members |-> Splitting!Rest(given)]
  /\ stage \in {"split", "sent"} /\ ~Splitting!Fitted => headers = <<>> /\ params.json = FALSE
  /\ stage = "sent" /\ Splitting!Fitted => custom = Splitting!Rest(given)
  /\ stage = "sent" /\ ~Splitting!Fitted => custom = <<>>

LEMMA SplittingInvariance == Splitting!Spec => []SplittingInv
<1>1. Splitting!Init => SplittingInv
  <2>1. <<>> \in [1 .. 0 -> Members] /\ 0 \in 0 .. MaxMembers
    BY PartsConstants DEF Splitting!MetadataConstants
  <2> QED
    BY <2>1 DEF Splitting!Init, SplittingInv
<1>2. SplittingInv /\ [Splitting!Next]_Splitting!vars => SplittingInv'
  <2> SUFFICES ASSUME SplittingInv, [Splitting!Next]_Splitting!vars
               PROVE  SplittingInv'
    OBVIOUS
  <2> USE DEF SplittingInv
  <2>1. CASE Splitting!Given
    BY <2>1 DEF Splitting!Given
  <2>2. CASE Splitting!Copied
    <3>1. metadata' = [json |-> TRUE, members |-> given'] \/ metadata' = Splitting!Opaque
      BY <2>2 DEF Splitting!Copied
    <3>2. Splitting!Fitted' \/ metadata'.json = FALSE
      BY <3>1 DEF Splitting!Fitted, Splitting!Opaque
    <3> QED
      BY <2>2, <3>2 DEF Splitting!Copied
  <2>3. CASE Splitting!Splits
    <3>1. Splitting!Fitted' <=> Splitting!Fitted
      BY <2>3 DEF Splitting!Splits, Splitting!Fitted
    <3>2. ASSUME Splitting!Fitted'
          PROVE  /\ headers' = Splitting!HeadersOf(given')
                 /\ params' = [json |-> TRUE, members |-> Splitting!Rest(given')]
      <4>1. metadata.json = TRUE /\ metadata.members = given
        BY <3>1, <3>2 DEF Splitting!Fitted
      <4> QED
        BY <2>3, <4>1 DEF Splitting!Splits
    <3>3. ASSUME ~Splitting!Fitted' PROVE headers' = <<>> /\ params'.json = FALSE
      <4>1. metadata.json = FALSE
        BY <2>3, <3>1, <3>3 DEF Splitting!Splits
      <4> QED
        BY <2>3, <4>1 DEF Splitting!Splits, Splitting!Opaque
    <3>4. Splitting!Fitted' \/ metadata'.json = FALSE
      BY <2>3, <3>1 DEF Splitting!Splits
    <3> QED
      BY <2>3, <3>2, <3>3, <3>4 DEF Splitting!Splits
  <2>4. CASE Splitting!BuildsStart
    BY <2>4 DEF Splitting!BuildsStart, Splitting!Fitted
  <2>5. CASE UNCHANGED Splitting!vars
    BY <2>5 DEF Splitting!vars, Splitting!Fitted
  <2> QED
    BY <2>1, <2>2, <2>3, <2>4, <2>5 DEF Splitting!Next
<1> QED
  BY <1>1, <1>2, PTL DEF Splitting!Spec

LEMMA MembersOneWay == Splitting!Spec => []Splitting!EachMemberOneWay
<1>1. SplittingInv => Splitting!NoMemberIsLost
  <2> SUFFICES ASSUME SplittingInv, stage = "sent"
               PROVE  IF Splitting!Fitted
                        THEN \E S \in SUBSET DOMAIN given :
                               /\ Splitting!BecameHeaders(S)
                               /\ Splitting!Picks(custom, given, DOMAIN given \ S)
                        ELSE headers = <<>> /\ custom = <<>>
    BY Zenon DEF Splitting!NoMemberIsLost
  <2>1. PICK n \in 0 .. MaxMembers : given \in [1 .. n -> Members]
    BY DEF SplittingInv
  <2>2. n \in Nat
    BY PartsConstants DEF Splitting!MetadataConstants
  <2>3. CASE Splitting!Fitted
    <3>1. custom = Splitting!Rest(given) /\ headers = Splitting!HeadersOf(given)
      BY <2>3 DEF SplittingInv
    <3>2. Splitting!Rest(given) = Splitting!Without(given, Removed)
      BY Zenon DEF Splitting!Rest, Removed
    <3>3. Splitting!Picks(custom, given, DOMAIN given \ Removed)
      BY <2>1, <2>2, <3>1, <3>2, WithoutPicks
    <3>4. Removed \in SUBSET DOMAIN given /\ Splitting!BecameHeaders(Removed)
      BY <2>1, <2>2, <3>1, RemovedBecameHeaders
    <3> QED
      BY <2>3, <3>3, <3>4, Zenon
  <2>4. CASE ~Splitting!Fitted
    BY <2>4 DEF SplittingInv
  <2> QED
    BY <2>3, <2>4
<1>2. SplittingInv => Splitting!DocumentedWay
  <2> SUFFICES ASSUME SplittingInv, stage = "sent", Splitting!AsDocumented,
                      Splitting!Fitted
               PROVE  /\ Splitting!Picks(custom, given,
                           {i \in DOMAIN given : given[i].key = "custom"})
                      /\ <<"authorization", 0>> \in Splitting!Range(headers)
                           <=> "authorization" \in Splitting!Keys(given)
                      /\ \A m \in Splitting!Range(given) : m.key = "ws_headers" =>
                           \A i \in DOMAIN m.subs :
                             m.subs[i] <=> <<"ws_headers", i>> \in Splitting!Range(headers)
    BY Zenon DEF Splitting!DocumentedWay
  <2>1. PICK n \in 0 .. MaxMembers : given \in [1 .. n -> Members]
    BY DEF SplittingInv
  <2>2. n \in Nat
    BY PartsConstants DEF Splitting!MetadataConstants
  <2>3. custom = Splitting!Rest(given) /\ headers = Splitting!HeadersOf(given)
    BY DEF SplittingInv
  <2>4. Splitting!Picks(custom, given, {i \in DOMAIN given : given[i].key = "custom"})
    BY <2>1, <2>2, <2>3, RestPicksCustom
  <2> QED
    BY <2>1, <2>2, <2>3, <2>4, HeadersOfDocumented, Zenon
<1>3. Splitting!NoMemberIsLost /\ Splitting!DocumentedWay => Splitting!EachMemberOneWay
  BY Zenon DEF Splitting!EachMemberOneWay
<1> QED
  BY <1>1, <1>2, <1>3, SplittingInvariance, PTL

\* The metadata of a start command reaches the bridge whole (ApiCommand).  Of any
\* members, repeated, in another case or of another kind, those that are not among
\* the custom parameters of the start message became headers, one at most of each of
\* the two keys, and documented members go the documented way; metadata that
\* rtw_bridge_start cut arrives neither way, and no part of it.
THEOREM MetadataReachesThePeer == Command!Spec /\ Splitting!Spec => []MetadataArrives
<1>1. Command!MetadataIntact /\ Splitting!EachMemberOneWay => MetadataArrives
  BY DEF MetadataArrives
<1> QED
  BY <1>1, CommandMetadataIntact, MembersOneWay, PTL

-----------------------------------------------------------------------------
(* parse_url and the Host header *)

Characters == Chars \cup {"[", "]", ":"}
Text == Seq(Characters)

\* s is u and then v.
IsJoin(s, u, v) ==
  /\ s \in Text /\ Len(s) = Len(u) + Len(v)
  /\ \A i \in 1 .. Len(u) : s[i] = u[i]
  /\ \A i \in 1 .. Len(v) : s[Len(u) + i] = v[i]
  /\ SubSeq(s, 1, Len(u)) = u
  /\ SubSeq(s, Len(u) + 1, Len(u) + Len(v)) = v

\* Two texts one after the other, and how to get them back.
LEMMA Joined ==
  ASSUME NEW u \in Text, NEW v \in Text
  PROVE  IsJoin(u \o v, u, v)
<1> USE DEF Text
<1> DEFINE s == u \o v
<1>1. Len(u) \in Nat /\ Len(v) \in Nat
  OBVIOUS
<1>2. s \in Seq(Characters) /\ Len(s) = Len(u) + Len(v)
  BY ConcatProperties
<1>3. \A i \in 1 .. Len(u) : s[i] = u[i]
  OBVIOUS
<1>4. \A i \in 1 .. Len(v) : s[Len(u) + i] = v[i]
  OBVIOUS
<1> HIDE DEF s
<1>5. SubSeq(s, 1, Len(u)) = u
  BY <1>1, <1>2, <1>3
<1>6. SubSeq(s, Len(u) + 1, Len(u) + Len(v)) = v
  <2>1. SubSeq(s, Len(u) + 1, Len(u) + Len(v))
          = [i \in 1 .. Len(v) |-> s[i + (Len(u) + 1) - 1]]
    BY <1>1, <1>2
  <2>2. \A i \in 1 .. Len(v) : s[i + (Len(u) + 1) - 1] = v[i]
    <3>1. \A i \in 1 .. Len(v) : i + (Len(u) + 1) - 1 = Len(u) + i
      BY <1>1
    <3> QED
      BY <1>4, <3>1
  <2>3. v = [i \in 1 .. Len(v) |-> v[i]]
    OBVIOUS
  <2> QED
    BY <2>1, <2>2, <2>3, Zenon
<1> QED
  BY <1>1, <1>2, <1>3, <1>4, <1>5, <1>6 DEF s, IsJoin

LEMMA OneCharacter ==
  ASSUME NEW c \in Characters
  PROVE  <<c>> \in Text /\ Len(<<c>>) = 1 /\ <<c>>[1] = c
  BY DEF Text

\* What Authority writes after the host.
PortText(p) == IF p = <<>> THEN <<>> ELSE <<":">> \o p

\* A host without a colon is read up to the last one, or to the end.
LEMMA NameIsRead ==
  ASSUME NEW h \in Text, NEW p \in Text,
         \A i \in DOMAIN h : h[i] \notin {"[", "]", ":"},
         \A i \in DOMAIN p : p[i] # ":",
         NEW s, s = h \o PortText(p)
  PROVE  Url!HostOf(s) = h /\ Url!Rest(s) = PortText(p) /\ ~Url!Bracketed(s)
<1>0. PICK n \in Nat : n = Len(h)
  BY DEF Text
<1>1. PICK k \in Nat : k = Len(p)
  BY DEF Text
<1>2. CASE p = <<>>
  <2>1. s = h
    BY <1>2 DEF PortText, Text
  <2>2. Url!Positions(s, ":") = {} /\ ~Url!Bracketed(s)
    BY <2>1 DEF Url!Positions, Url!Bracketed, Text
  <2>3. Url!HostEnd(s) = n + 1
    BY <1>0, <2>1, <2>2 DEF Url!HostEnd
  <2>4. Url!HostOf(s) = SubSeq(h, 1, n) /\ Url!Rest(s) = SubSeq(h, n + 1, n)
    BY <1>0, <2>1, <2>2, <2>3 DEF Url!HostOf, Url!Rest
  <2>5. SubSeq(h, 1, n) = h /\ SubSeq(h, n + 1, n) = <<>>
    BY <1>0 DEF Text
  <2> QED
    BY <1>2, <2>2, <2>4, <2>5 DEF PortText
<1>3. CASE p # <<>>
  <2>0. PICK t : t = <<":">> \o p
    OBVIOUS
  <2>1. s = h \o t
    BY <1>3, <2>0 DEF PortText
  <2>10. /\ t \in Text /\ Len(t) = 1 + k /\ t[1] = ":"
         /\ \A i \in 1 .. k : t[1 + i] = p[i]
    <3>1. ":" \in Characters
      BY DEF Characters
    <3>2. <<":">> \in Text /\ Len(<<":">>) = 1 /\ <<":">>[1] = ":"
      BY <3>1, OneCharacter
    <3>3. p \in Text
      BY DEF Text
    <3>5. IsJoin(t, <<":">>, p)
      BY <2>0, <3>2, <3>3, Joined, Zenon
    <3>4. /\ t \in Text /\ Len(t) = 1 + k
          /\ \A i \in 1 .. 1 : t[i] = <<":">>[i]
          /\ \A i \in 1 .. k : t[1 + i] = p[i]
      BY <1>1, <3>2, <3>5, Zenon DEF IsJoin
    <3> QED
      BY <3>2, <3>4
  <2>11. h \in Text
    BY DEF Text
  <2>12. /\ Len(s) = n + (1 + k) /\ s \in Text
         /\ \A i \in 1 .. n : s[i] = h[i]
         /\ \A i \in 1 .. 1 + k : s[n + i] = t[i]
         /\ SubSeq(s, 1, n) = h
         /\ SubSeq(s, n + 1, n + (1 + k)) = t
    <3>1. IsJoin(s, h, t)
      BY <2>1, <2>10, <2>11, Joined, Zenon
    <3> QED
      BY <1>0, <2>10, <3>1, Zenon DEF IsJoin
  <2>2. /\ s \in Text /\ Len(s) = n + 1 + k
        /\ \A i \in 1 .. n : s[i] = h[i]
        /\ s[n + 1] = ":"
        /\ \A i \in 1 .. k : s[n + 1 + i] = p[i]
    <3>3. s[n + 1] = ":"
      <4>1. 1 \in 1 .. 1 + k
        OBVIOUS
      <4> QED
        BY <2>10, <2>12, <4>1
    <3>4. ASSUME NEW i \in 1 .. k PROVE s[n + 1 + i] = p[i]
      <4>1. 1 + i \in 1 .. 1 + k /\ n + (1 + i) = n + 1 + i
        OBVIOUS
      <4> QED
        BY <2>10, <2>12, <4>1
    <3>5. n + (1 + k) = n + 1 + k
      OBVIOUS
    <3> QED
      BY <2>12, <3>3, <3>4, <3>5
  <2>3. ~Url!Bracketed(s)
    <3>1. s[1] # "["
      <4>1. CASE n = 0
        BY <2>2, <4>1
      <4>2. CASE n # 0
        <5>1. 1 \in 1 .. n /\ 1 \in DOMAIN h
          BY <1>0, <4>2 DEF Text
        <5>2. s[1] = h[1]
          BY <2>2, <5>1
        <5> QED
          BY <5>1, <5>2
      <4> QED
        BY <4>1, <4>2
    <3> QED
      BY <3>1 DEF Url!Bracketed
  <2>4. n + 1 \in Url!Positions(s, ":")
    BY <2>2 DEF Url!Positions
  <2>5. \A i \in Url!Positions(s, ":") : i \in Nat /\ i <= n + 1
    <3>1. ASSUME NEW i \in 1 .. n + 1 + k, i > n + 1 PROVE s[i] # ":"
      <4>1. i - n - 1 \in 1 .. k /\ i = n + 1 + (i - n - 1)
        BY <3>1
      <4>2. s[i] = p[i - n - 1]
        BY <2>2, <4>1
      <4>3. i - n - 1 \in DOMAIN p
        BY <1>1, <4>1 DEF Text
      <4> QED
        BY <4>2, <4>3
    <3> QED
      BY <2>2, <3>1 DEF Url!Positions
  <2>6. Url!HostEnd(s) = n + 1
    <3>1. Url!Max(Url!Positions(s, ":")) = n + 1
      BY <2>4, <2>5 DEF Url!Max
    <3> QED
      BY <2>3, <2>4, <3>1 DEF Url!HostEnd
  <2>7. Url!HostOf(s) = SubSeq(s, 1, n) /\ Url!Rest(s) = SubSeq(s, n + 1, n + 1 + k)
    BY <2>2, <2>3, <2>6 DEF Url!HostOf, Url!Rest
  <2>8. SubSeq(s, 1, n) = h
    BY <2>12
  <2>9. SubSeq(s, n + 1, n + 1 + k) = t
    BY <2>12, n + (1 + k) = n + 1 + k
  <2> QED
    BY <1>3, <2>0, <2>3, <2>7, <2>8, <2>9 DEF PortText
<1> QED
  BY <1>2, <1>3

\* An address in brackets is read up to the first closing one.
LEMMA AddressIsRead ==
  ASSUME NEW h \in Text, NEW t \in Text,
         \A i \in DOMAIN h : h[i] \notin {"[", "]"},
         NEW s, s = (<<"[">> \o h \o <<"]">>) \o t
  PROVE  /\ Url!HostOf(s) = h /\ Url!Rest(s) = t
         /\ Url!Bracketed(s) /\ Url!Positions(s, "]") # {}
<1>0. PICK n \in Nat : n = Len(h)
  BY DEF Text
<1>1. PICK k \in Nat : k = Len(t)
  BY DEF Text
<1>2. PICK b : b = <<"[">> \o h \o <<"]">>
  OBVIOUS
<1>3. /\ b \in Text /\ Len(b) = n + 2 /\ b[1] = "[" /\ b[n + 2] = "]"
      /\ \A i \in 2 .. n + 1 : b[i] = h[i - 1]
  <2>1. PICK c : c = <<"[">> \o h
    OBVIOUS
  <2>2. "[" \in Characters /\ "]" \in Characters
    BY DEF Characters
  <2>3. /\ <<"[">> \in Text /\ Len(<<"[">>) = 1 /\ <<"[">>[1] = "["
        /\ <<"]">> \in Text /\ Len(<<"]">>) = 1 /\ <<"]">>[1] = "]"
    BY <2>2, OneCharacter
  <2>4. h \in Text
    BY DEF Text
  <2>5. /\ c \in Text /\ Len(c) = 1 + n
        /\ \A i \in 1 .. 1 : c[i] = <<"[">>[i]
        /\ \A i \in 1 .. n : c[1 + i] = h[i]
    <3>1. IsJoin(c, <<"[">>, h)
      BY <2>1, <2>3, <2>4, Joined, Zenon
    <3> QED
      BY <1>0, <2>3, <3>1, Zenon DEF IsJoin
  <2>6. b = c \o <<"]">>
    BY <1>2, <2>1
  <2>7. /\ b \in Text /\ Len(b) = 1 + n + 1
        /\ \A i \in 1 .. 1 + n : b[i] = c[i]
        /\ \A i \in 1 .. 1 : b[1 + n + i] = <<"]">>[i]
    <3>1. IsJoin(b, c, <<"]">>)
      BY <2>3, <2>5, <2>6, Joined, Zenon
    <3> QED
      BY <2>3, <2>5, <3>1, Zenon DEF IsJoin
  <2>8. c[1] = "[" /\ b[1] = "["
    BY <2>3, <2>5, <2>7, 1 \in 1 .. 1, 1 \in 1 .. 1 + n
  <2>9. b[n + 2] = "]" /\ Len(b) = n + 2
    BY <2>3, <2>7, 1 \in 1 .. 1, 1 + n + 1 = n + 2
  <2>10. ASSUME NEW i \in 2 .. n + 1 PROVE b[i] = h[i - 1]
    <3>1. i - 1 \in 1 .. n /\ i \in 1 .. 1 + n /\ 1 + (i - 1) = i
      OBVIOUS
    <3> QED
      BY <2>5, <2>7, <3>1
  <2> QED
    BY <2>7, <2>8, <2>9, <2>10
<1>4. /\ s = b \o t
      /\ s \in Text /\ Len(s) = n + 2 + k
      /\ \A i \in 1 .. n + 2 : s[i] = b[i]
      /\ SubSeq(s, n + 2 + 1, n + 2 + k) = t
  <2>1. t \in Text /\ s = b \o t
    BY <1>2 DEF Text
  <2> QED
    <3>1. IsJoin(s, b, t)
      BY <1>3, <2>1, Joined, Zenon
    <3> QED
      BY <1>1, <1>3, <2>1, <3>1, Zenon DEF IsJoin
<1>5. Url!Bracketed(s)
  BY <1>3, <1>4 DEF Url!Bracketed
<1>6. n + 2 \in Url!Positions(s, "]")
  BY <1>3, <1>4 DEF Url!Positions
<1>7. \A i \in Url!Positions(s, "]") : i \in Nat /\ n + 2 <= i
  <2>1. ASSUME NEW i \in 2 .. n + 1 PROVE s[i] # "]"
    <3>1. i - 1 \in DOMAIN h
      BY <1>0 DEF Text
    <3>2. s[i] = h[i - 1]
      BY <1>3, <1>4
    <3> QED
      BY <3>1, <3>2
  <2>2. s[1] # "]"
    BY <1>3, <1>4
  <2>3. ASSUME NEW i \in 1 .. n + 2 + k, i < n + 2 PROVE s[i] # "]"
    BY <2>1, <2>2, <2>3
  <2> QED
    BY <1>4, <2>3 DEF Url!Positions
<1>8. Url!HostEnd(s) = n + 2
  <2>1. Url!Min(Url!Positions(s, "]")) = n + 2
    BY <1>6, <1>7 DEF Url!Min
  <2> QED
    BY <1>5, <2>1 DEF Url!HostEnd
<1>9. /\ Url!HostOf(s) = SubSeq(s, 2, n + 1)
      /\ Url!Rest(s) = SubSeq(s, n + 2 + 1, n + 2 + k)
  <2>1. Url!HostEnd(s) - 1 = n + 1 /\ Url!HostEnd(s) + 1 = n + 2 + 1
    BY <1>8
  <2>2. Url!HostOf(s) = SubSeq(s, 2, Url!HostEnd(s) - 1)
    BY <1>5, Zenon DEF Url!HostOf
  <2>3. Url!Rest(s) = SubSeq(s, Url!HostEnd(s) + 1, Len(s))
    BY <1>5, Zenon DEF Url!Rest
  <2> QED
    BY <1>4, <2>1, <2>2, <2>3, Zenon
<1>10. SubSeq(s, 2, n + 1) = h
  <2>1. \A i \in 1 .. n : s[i + 1] = h[i]
    BY <1>3, <1>4
  <2> QED
    BY <1>0, <1>4, <2>1 DEF Text
<1> QED
  BY <1>4, <1>5, <1>6, <1>9, <1>10

\* A host as it is written in a URL and in the Host header.
HostText(h) == IF Url!IsV6(h) THEN <<"[">> \o h \o <<"]">> ELSE h

LEMMA HostAndPortAreText ==
  /\ \A h \in Hosts : h \in Text /\ \A i \in DOMAIN h : h[i] \notin {"[", "]"}
  /\ \A p \in Ports \cup {<<>>} : p \in Text /\ \A i \in DOMAIN p : p[i] # ":"
<1>1. /\ Hosts \subseteq Seq(Chars) /\ Ports \subseteq Seq(Chars)
      /\ Chars \cap {"[", "]"} = {}
      /\ \A p \in Ports : \A i \in DOMAIN p : p[i] # ":"
  BY PartsConstants DEF Url!UrlConstants
<1>2. ASSUME NEW q \in Seq(Chars) PROVE q \in Text /\ \A i \in DOMAIN q : q[i] \in Chars
  <2>1. \A i \in 1 .. Len(q) : q[i] \in Chars /\ q[i] \in Characters
    BY DEF Characters
  <2> QED
    BY <2>1 DEF Text
<1>3. <<>> \in Text /\ \A i \in DOMAIN <<>> : <<>>[i] # ":"
  BY DEF Text
<1>4. ASSUME NEW h \in Hosts
      PROVE  h \in Text /\ \A i \in DOMAIN h : h[i] \notin {"[", "]"}
  BY <1>1, <1>2
<1>5. ASSUME NEW p \in Ports PROVE p \in Text /\ \A i \in DOMAIN p : p[i] # ":"
  BY <1>1, <1>2
<1> QED
  BY <1>3, <1>4, <1>5

\* parse_url finds the host and the port that were meant, in both notations.
LEMMA AuthorityIsRead ==
  ASSUME NEW h \in Hosts, NEW p \in Ports \cup {<<>>},
         NEW s, s = HostText(h) \o PortText(p)
  PROVE  Url!HostOf(s) = h /\ Url!Rest(s) = PortText(p)
<1>1. /\ h \in Text /\ \A i \in DOMAIN h : h[i] \notin {"[", "]"}
      /\ p \in Text /\ \A i \in DOMAIN p : p[i] # ":"
  BY HostAndPortAreText
<1>2. PortText(p) \in Text
  <2>1. <<":">> \in Text
    BY OneCharacter DEF Characters
  <2>2. <<>> \in Text
    BY DEF Text
  <2>3. <<":">> \o p \in Text
    BY <1>1, <2>1, Joined DEF IsJoin
  <2> QED
    BY <2>2, <2>3, Zenon DEF PortText
<1>3. CASE Url!IsV6(h)
  <2>1. s = (<<"[">> \o h \o <<"]">>) \o PortText(p)
    BY <1>3 DEF HostText
  <2> QED
    BY <1>1, <1>2, <2>1, AddressIsRead
<1>4. CASE ~Url!IsV6(h)
  <2>1. s = h \o PortText(p)
    BY <1>4 DEF HostText
  <2>2. \A i \in DOMAIN h : h[i] \notin {"[", "]", ":"}
    BY <1>1, <1>4 DEF Url!IsV6
  <2> QED
    BY <1>1, <2>1, <2>2, NameIsRead
<1> QED
  BY <1>3, <1>4

\* What is written after the host is a ':' and the port, or nothing.
LEMMA PortIsRead ==
  ASSUME NEW p \in Ports \cup {<<>>}
  PROVE  /\ PortText(p) = <<>> <=> p = <<>>
         /\ p # <<>> => Tail(PortText(p)) = p
<1>1. CASE p = <<>>
  BY <1>1 DEF PortText
<1>2. CASE p # <<>>
  <2>1. p \in Seq(Characters)
    BY HostAndPortAreText DEF Text
  <2>2. ":" \in Characters
    BY DEF Characters
  <2>3. PortText(p) = <<":">> \o p
    BY <1>2 DEF PortText
  <2>4. Tail(<<":">> \o p) = p /\ <<":">> \o p # <<>>
    BY <2>1, <2>2
  <2> QED
    BY <1>2, <2>3, <2>4
<1> QED
  BY <1>1, <1>2

\* The path that Parses writes is the one that is meant, as far as it fits.
LEMMA PathIsKept ==
  ASSUME meant.path \in Nat,
         path' = IF meant.path = 0 THEN 1 ELSE Url!Min({meant.path, PathCap - 1}),
         meant' = meant
  PROVE  Url!PathAskedFor(meant)'
<1>1. PathCap \in Nat /\ PathCap - 1 \in Nat /\ PathCap > 1
  BY PartsConstants DEF Url!UrlConstants
<1>2. PICK c \in Nat : c = PathCap - 1
  BY <1>1
<1>3. PICK n \in Nat : n = meant.path
  OBVIOUS
<1>4. \E x \in {n, c} : \A y \in {n, c} : x <= y
  OBVIOUS
<1>5. Url!Min({n, c}) \in {n, c} /\ \A y \in {n, c} : Url!Min({n, c}) <= y
  BY <1>4, Zenon DEF Url!Min
<1>6. PICK m \in Nat : m = Url!Min({n, c}) /\ m <= n /\ m <= c /\ (m = n \/ m = c)
  BY <1>5
<1>7. path' = IF n = 0 THEN 1 ELSE m
  BY <1>2, <1>3, <1>6
<1>8. PICK p : p = path'
  OBVIOUS
<1>9. p = IF n = 0 THEN 1 ELSE m
  BY <1>7, <1>8
<1>10. /\ n = 0 => p = 1
       /\ n \in 1 .. PathCap - 1 => p = n
       /\ n >= PathCap => p = PathCap - 1
  BY <1>1, <1>2, <1>6, <1>9
<1> QED
  BY <1>3, <1>8, <1>10 DEF Url!PathAskedFor

\* The URL that was given, and what parse_url made of it.
UrlInv ==
  /\ urlStage \in {"none", "given", "valid", "parsed", "asked", "refused"}
  /\ urlStage # "none" =>
       meant \in [tls : BOOLEAN, host : Hosts, port : Ports, path : PathLens]
  /\ Url!UrlUnderstood

LEMMA UrlInvStep ==
  ASSUME UrlInv, [Url!Next]_Url!vars
  PROVE  UrlInv'
<1>1. CASE Url!Given
  BY <1>1 DEF UrlInv, Url!Given, Url!UrlUnderstood
<1>2. CASE Url!Validates
  BY <1>2 DEF UrlInv, Url!Validates, Url!UrlUnderstood
<1>3. CASE Url!Parses
  <2>1. /\ urlStage = "valid" /\ meant' = meant /\ host_hdr' = host_hdr
        /\ urlStage' \in {"parsed", "refused"}
    BY <1>3, Zenon DEF Url!Parses
  <2>2. /\ meant.host \in Hosts /\ meant.port \in Ports /\ meant.path \in Nat
        /\ meant \in [tls : BOOLEAN, host : Hosts, port : Ports, path : PathLens]
    BY <2>1, PartsConstants DEF UrlInv, Url!UrlConstants
  <2>3. PICK s : s = Url!Authority(meant)
    OBVIOUS
  <2>4. s = HostText(meant.host) \o PortText(meant.port)
    BY <2>3, Zenon DEF Url!Authority, HostText, PortText
  <2>5. Url!HostOf(s) = meant.host /\ Url!Rest(s) = PortText(meant.port)
    <3>1. meant.port \in Ports \cup {<<>>}
      BY <2>2
    <3>2. PICK h \in Hosts : h = meant.host
      BY <2>2
    <3>3. PICK p \in Ports \cup {<<>>} : p = meant.port
      BY <3>1
    <3>4. s = HostText(h) \o PortText(p)
      BY <2>4, <3>2, <3>3
    <3>5. Url!HostOf(s) = h /\ Url!Rest(s) = PortText(p)
      BY ONLY <3>4, AuthorityIsRead
    <3> QED
      BY <3>2, <3>3, <3>5
  <2>6. ASSUME urlStage' = "parsed"
        PROVE  /\ host' = meant.host /\ port' = Url!MeantPort(meant)
               /\ urlTls' = meant.tls
               /\ Url!PathAskedFor(meant)'
    <3>1. /\ host' = Url!HostOf(s)
          /\ port' = IF Url!Rest(s) = <<>> THEN Url!Default(meant.tls)
                       ELSE Url!Number(Tail(Url!Rest(s)))
          /\ path' = IF meant.path = 0 THEN 1 ELSE Url!Min({meant.path, PathCap - 1})
          /\ urlTls' = meant.tls
      BY <1>3, <2>3, <2>6, Zenon DEF Url!Parses
    <3>2. /\ PortText(meant.port) = <<>> <=> meant.port = <<>>
          /\ meant.port # <<>> => Tail(PortText(meant.port)) = meant.port
      BY <2>2, PortIsRead
    <3>3. port' = Url!MeantPort(meant)
      BY <2>5, <3>1, <3>2, Zenon DEF Url!MeantPort
    <3>4. Url!PathAskedFor(meant)'
      BY <2>1, <2>2, <3>1, PathIsKept
    <3> QED
      BY <2>5, <3>1, <3>3, <3>4
  <2> QED
    BY <2>1, <2>2, <2>6 DEF UrlInv, Url!UrlUnderstood
<1>4. CASE Url!Requests
  <2>1. /\ urlStage = "parsed" /\ urlStage' = "asked" /\ meant' = meant
        /\ host' = host /\ port' = port /\ path' = path /\ urlTls' = urlTls
        /\ host_hdr' =
             [host |-> HostText(host),
              port |-> IF ~Url!IsV6(host) /\ port = Url!Default(urlTls)
                         THEN <<>> ELSE <<port>>]
    BY <1>4 DEF Url!Requests, HostText
  <2>2. /\ host = meant.host /\ port = Url!MeantPort(meant) /\ urlTls = meant.tls
        /\ Url!PathAskedFor(meant)
        /\ meant \in [tls : BOOLEAN, host : Hosts, port : Ports, path : PathLens]
    BY <2>1 DEF UrlInv, Url!UrlUnderstood
  <2>3. Url!HostOf(HostText(meant.host)) = meant.host
    <3>1. meant.host \in Hosts
      BY <2>2
    <3>2. HostText(meant.host) \in Text
      <4>1. meant.host \in Text /\ <<"[">> \in Text /\ <<"]">> \in Text
        BY <3>1, HostAndPortAreText, OneCharacter DEF Characters
      <4>2. <<"[">> \o meant.host \in Text
        BY <4>1, Joined DEF IsJoin
      <4>3. <<"[">> \o meant.host \o <<"]">> \in Text
        BY <4>1, <4>2, Joined DEF IsJoin
      <4> QED
        BY <4>1, <4>3, Zenon DEF HostText
    <3>3. HostText(meant.host) = HostText(meant.host) \o PortText(<<>>)
      BY <3>2 DEF PortText, Text
    <3> QED
      BY <3>1, <3>3, AuthorityIsRead
  <2>4. host_hdr'.host = HostText(meant.host)
    BY <2>1, <2>2
  <2>5. Url!MeantPort(meant) = IF host_hdr'.port = <<>> THEN Url!Default(meant.tls)
                               ELSE host_hdr'.port[1]
    <3>1. <<port>> # <<>> /\ <<port>>[1] = port
      OBVIOUS
    <3>2. host_hdr'.port = IF ~Url!IsV6(host) /\ port = Url!Default(urlTls)
                             THEN <<>> ELSE <<port>>
      BY <2>1
    <3> QED
      BY <2>2, <3>1, <3>2, Zenon
  <2> QED
    <3>1. Url!PathAskedFor(meant)'
      BY <2>1, <2>2 DEF Url!PathAskedFor
    <3> QED
      BY <2>1, <2>2, <2>3, <2>4, <2>5, <3>1 DEF UrlInv, Url!UrlUnderstood
<1>5. CASE UNCHANGED Url!vars
  BY <1>5 DEF UrlInv, Url!vars, Url!UrlUnderstood, Url!PathAskedFor
<1> QED
  BY <1>1, <1>2, <1>3, <1>4, <1>5 DEF Url!Next

\* Whatever scheme, notation and port the URL of a start command has: if parse_url
\* accepts it, it leads to the host and port that its writer meant, and the Host
\* header says the same.  The path is the one that is meant if it fits its buffer, and
\* its beginning if not.
THEOREM UrlIsUnderstood == Url!Spec => []UrlUnderstood
<1>1. Url!Init => UrlInv
  BY DEF Url!Init, UrlInv, Url!UrlUnderstood
<1>2. UrlInv => UrlUnderstood
  BY DEF UrlInv, UrlUnderstood
<1> QED
  BY <1>1, <1>2, UrlInvStep, PTL DEF Url!Spec

-----------------------------------------------------------------------------
(* The parts side by side *)

\* The parts of MCStart take turns; each behaves as it does alone, so that what
\* is proved of each holds there.
THEOREM PartsOfAStart ==
  StartSpec => Spec /\ Command!Spec /\ Splitting!Spec /\ Url!Spec
<1>1. StartInit => Init /\ Command!Init /\ Splitting!Init /\ Url!Init
  BY DEF StartInit
<1>2. [StartNext]_startVars =>
        /\ [Next]_vars /\ [Command!Next]_Command!vars
        /\ [Splitting!Next]_Splitting!vars /\ [Url!Next]_Url!vars
  BY DEF StartNext, startVars, commandVars, metadataVars, urlVars, Command!vars,
     Splitting!vars, Url!vars
<1> QED
  BY <1>1, <1>2, PTL DEF StartSpec, Spec, Command!Spec, Splitting!Spec, Url!Spec
=============================================================================
