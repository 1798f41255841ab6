---------------------------- MODULE ModLifecycle ----------------------------
(***************************************************************************)
(* The life of the bridges of one call (src/mod/mod_realtime_ws.c): the    *)
(* commands of uuid_realtime_ws, the media bug that carries a bridge, the  *)
(* channel's private data by which later commands find it, and the hangup. *)
(*                                                                         *)
(*   command threads run start_capture, do_stop, or a command that only    *)
(*   uses a bridge (pause, resume, clear, send_mark, status);              *)
(*   the session's own thread runs the media callbacks and, when the call  *)
(*   ends, the removal of all media bugs.                                  *)
(*                                                                         *)
(* A bug has one tech as its user data, so one name stands for both: bug[x] *)
(* is FreeSWITCH's side of it, tech[x] the memory of the bridge.  The bug's *)
(* own memory belongs to the session and outlives its removal.             *)
(***************************************************************************)
CONSTANTS
  Cmd,       \* the threads that run commands
  Session,   \* the session's thread
  Tech,      \* the bridges that can be created
  None       \* a null pointer

ASSUME LifecycleConstants ==
  /\ Session \notin Cmd
  /\ None \notin Tech

Thread == Cmd \cup {Session}

VARIABLES
  call,             \* "up", "hangup", "closed" (bugs removed) or "ended"
  priv,             \* the channel's private data: a bug, or None
  bug,              \* "none", "attached" or "removed"
  tech,             \* "none", "live" or "freed"
  close_requested, cleanup_started,
  pc,               \* where a thread is
  mine              \* its local variable bug, or tech

techVars == <<tech, close_requested, cleanup_started>>
vars == <<call, priv, bug, techVars, pc, mine>>

Init ==
  /\ call = "up"
  /\ priv = None
  /\ bug = [x \in Tech |-> "none"]
  /\ tech = [x \in Tech |-> "none"]
  /\ close_requested = [x \in Tech |-> FALSE]
  /\ cleanup_started = [x \in Tech |-> FALSE]
  /\ pc = [t \in Thread |-> "idle"]
  /\ mine = [t \in Thread |-> None]

Goto(t, l) == pc' = [pc EXCEPT ![t] = l]

\* The command is over and gives back its lock on the session.
Return(t) ==
  /\ Goto(t, "idle")
  /\ mine' = [mine EXCEPT ![t] = None]

-----------------------------------------------------------------------------
(* uuid_realtime_ws: the session is located, which fails once the call is  *)
(* hanging up, and stays locked until the command has returned.            *)

Commands == {"start", "stop", "use"}

Locate(t) ==
  /\ pc[t] = "idle"
  /\ call = "up"
  /\ \E c \in Commands : Goto(t, c)
  /\ UNCHANGED <<call, priv, bug, techVars, mine>>

(* start_capture *)

StartChecks(t) ==
  /\ pc[t] = "start"
  /\ IF priv # None
       THEN Return(t)
       ELSE Goto(t, "pre_answer") /\ UNCHANGED mine
  /\ UNCHANGED <<call, priv, bug, techVars>>

PreAnswers(t) ==
  /\ pc[t] = "pre_answer"
  /\ call = "up"
  /\ Goto(t, "bridge_start")
  /\ UNCHANGED <<call, priv, bug, techVars, mine>>

PreAnswerFails(t) ==
  /\ pc[t] = "pre_answer"
  /\ Return(t)
  /\ UNCHANGED <<call, priv, bug, techVars>>

\* rtw_bridge_start, which connects and starts the worker, or hands out
\* nothing.
BridgeStarts(t) ==
  /\ pc[t] = "bridge_start"
  /\ \E x \in Tech :
       /\ tech[x] = "none"
       /\ tech' = [tech EXCEPT ![x] = "live"]
       /\ mine' = [mine EXCEPT ![t] = x]
  /\ Goto(t, "bug_add")
  /\ UNCHANGED <<call, priv, bug, close_requested, cleanup_started>>

\* Mutant: this way out does not unlock the session.
BridgeStartFailsBug(t) ==
  /\ pc[t] = "bridge_start"
  /\ Goto(t, "locked")
  /\ UNCHANGED <<call, priv, bug, techVars, mine>>

BridgeStartFails(t) ==
  /\ pc[t] = "bridge_start"
  /\ Return(t)
  /\ UNCHANGED <<call, priv, bug, techVars>>

\* switch_core_media_bug_add, which needs a call that is up
BugAdded(t) ==
  /\ pc[t] = "bug_add"
  /\ call = "up"
  /\ bug' = [bug EXCEPT ![mine[t]] = "attached"]
  /\ Goto(t, "set_private")
  /\ UNCHANGED <<call, priv, techVars, mine>>

\* Mutant: the bridge of a failed start is forgotten.
BugAddFailsBug(t) ==
  /\ pc[t] = "bug_add"
  /\ Return(t)
  /\ UNCHANGED <<call, priv, bug, techVars>>

BugAddFails(t) ==
  /\ pc[t] = "bug_add"
  /\ Goto(t, "bridge_stop")
  /\ UNCHANGED <<call, priv, bug, techVars, mine>>

SetsPrivate(t) ==
  /\ pc[t] = "set_private"
  /\ priv' = mine[t]
  /\ Return(t)
  /\ UNCHANGED <<call, bug, techVars>>

(* do_stop *)

StopFinds(t) ==
  /\ pc[t] = "stop"
  /\ IF priv = None
       THEN Return(t)
       ELSE /\ Goto(t, "request")
            /\ mine' = [mine EXCEPT ![t] = priv]
  /\ UNCHANGED <<call, priv, bug, techVars>>

\* tech->close_requested = 1, through the pointer it just got.
RequestsClose(t) ==
  /\ pc[t] = "request"
  /\ close_requested' = [close_requested EXCEPT ![mine[t]] = TRUE]
  /\ Goto(t, "unpublish")
  /\ UNCHANGED <<call, priv, bug, tech, cleanup_started, mine>>

ClearsPrivate(t) ==
  /\ pc[t] = "unpublish"
  /\ priv' = None
  /\ Goto(t, "remove")
  /\ UNCHANGED <<call, bug, techVars, mine>>

\* Mutant: do_stop stops the bridge itself, whether it was the one to remove
\* the bug or not.
RemovesBug(t) ==
  /\ pc[t] = "remove"
  /\ bug' = [bug EXCEPT ![mine[t]] = "removed"]
  /\ Goto(t, "bridge_stop")
  /\ UNCHANGED <<call, priv, techVars, mine>>

\* switch_core_media_bug_remove calls CLOSE if the bug is still attached.
Removes(t) ==
  /\ pc[t] = "remove"
  /\ IF bug[mine[t]] = "attached"
       THEN /\ bug' = [bug EXCEPT ![mine[t]] = "removed"]
            /\ Goto(t, "close")
            /\ UNCHANGED mine
       ELSE Return(t) /\ UNCHANGED bug
  /\ UNCHANGED <<call, priv, techVars>>

-----------------------------------------------------------------------------
(* capture_callback with CLOSE, and rtw_bridge_stop, run by whoever removed *)
(* the bug (or, rtw_bridge_stop alone, by a start that could not add it).   *)

Closes(t) ==
  /\ pc[t] = "close"
  /\ priv' = None
  /\ Goto(t, "bridge_stop")
  /\ UNCHANGED <<call, bug, techVars, mine>>

StopChecks(t) ==
  /\ pc[t] = "bridge_stop"
  /\ IF cleanup_started[mine[t]]
       THEN Return(t)
       ELSE Goto(t, "cleanup") /\ UNCHANGED mine
  /\ UNCHANGED <<call, priv, bug, techVars>>

StopBegins(t) ==
  /\ pc[t] = "cleanup"
  /\ cleanup_started' = [cleanup_started EXCEPT ![mine[t]] = TRUE]
  /\ close_requested' = [close_requested EXCEPT ![mine[t]] = TRUE]
  /\ Goto(t, "free")
  /\ UNCHANGED <<call, priv, bug, tech, mine>>

\* The worker is joined, the connection closed and everything freed.
StopFrees(t) ==
  /\ pc[t] = "free"
  /\ tech' = [tech EXCEPT ![mine[t]] = "freed"]
  /\ Return(t)
  /\ UNCHANGED <<call, priv, bug, close_requested, cleanup_started>>

-----------------------------------------------------------------------------
(* pause, resume, clear, send_mark, status: the bridge is looked up and     *)
(* used; what they do inside it is RtwBridge.                               *)

UseFinds(t) ==
  /\ pc[t] = "use"
  /\ IF priv = None
       THEN Return(t)
       ELSE /\ Goto(t, "using")
            /\ mine' = [mine EXCEPT ![t] = priv]
  /\ UNCHANGED <<call, priv, bug, techVars>>

UseEnds(t) ==
  /\ pc[t] = "using"
  /\ Return(t)
  /\ UNCHANGED <<call, priv, bug, techVars>>

-----------------------------------------------------------------------------
(* The session's thread *)

\* A READ callback that finds its bridge stopping returns false, on which
\* FreeSWITCH removes the bug.
ReadPrunes ==
  /\ pc[Session] = "idle"
  /\ call = "up"
  /\ \E x \in Tech :
       /\ bug[x] = "attached"
       /\ close_requested[x] \/ cleanup_started[x]
       /\ bug' = [bug EXCEPT ![x] = "removed"]
       /\ mine' = [mine EXCEPT ![Session] = x]
  /\ Goto(Session, "close")
  /\ UNCHANGED <<call, priv, techVars>>

HangsUp ==
  /\ call = "up"
  /\ call' = "hangup"
  /\ UNCHANGED <<priv, bug, techVars, pc, mine>>

HangupRemoves ==
  /\ pc[Session] = "idle"
  /\ call = "hangup"
  /\ \E x \in Tech :
       /\ bug[x] = "attached"
       /\ bug' = [bug EXCEPT ![x] = "removed"]
       /\ mine' = [mine EXCEPT ![Session] = x]
  /\ Goto(Session, "close")
  /\ UNCHANGED <<call, priv, techVars>>

HangupDone ==
  /\ pc[Session] = "idle"
  /\ call = "hangup"
  /\ \A x \in Tech : bug[x] # "attached"
  /\ call' = "closed"
  /\ UNCHANGED <<priv, bug, techVars, pc, mine>>

\* The session is destroyed when no command has it locked.
SessionEnds ==
  /\ call = "closed"
  /\ \A t \in Thread : pc[t] = "idle"
  /\ call' = "ended"
  /\ UNCHANGED <<priv, bug, techVars, pc, mine>>

-----------------------------------------------------------------------------

CloseStep(t) == Closes(t) \/ StopChecks(t) \/ StopBegins(t) \/ StopFrees(t)

CmdStep(t) ==
  \/ StartChecks(t) \/ PreAnswers(t) \/ PreAnswerFails(t)
  \/ BridgeStarts(t) \/ BridgeStartFails(t)
  \/ BugAdded(t) \/ BugAddFails(t) \/ SetsPrivate(t)
  \/ StopFinds(t) \/ RequestsClose(t) \/ ClearsPrivate(t) \/ Removes(t)
  \/ UseFinds(t) \/ UseEnds(t)
  \/ CloseStep(t)

SessionStep == HangupRemoves \/ HangupDone \/ SessionEnds \/ CloseStep(Session)

Next ==
  \/ \E t \in Cmd : Locate(t) \/ CmdStep(t)
  \/ ReadPrunes \/ HangsUp \/ SessionStep

Spec == Init /\ [][Next]_vars

\* Threads are scheduled; rtw_bridge_start and the stop, which block on the
\* network, return (RtwBridge: StopCompletes).
FairSpec ==
  /\ Spec
  /\ \A t \in Cmd : WF_vars(CmdStep(t))
  /\ WF_vars(SessionStep)

-----------------------------------------------------------------------------
(* Properties *)

Labels ==
  {"idle", "start", "pre_answer", "bridge_start", "bug_add", "set_private",
   "stop", "request", "unpublish", "remove", "close", "bridge_stop", "cleanup",
   "free", "use", "using"}

\* The places where a thread holds a pointer to a bug or a bridge.
Holding ==
  {"bug_add", "set_private", "request", "unpublish", "remove", "close",
   "bridge_stop", "cleanup", "free", "using"}

\* The pointers are null or point to a bug of the call, not null where the code
\* follows them; flags, states and places are ones the code knows.
LifecycleTypeOK ==
  /\ call \in {"up", "hangup", "closed", "ended"}
  /\ priv \in Tech \cup {None}
  /\ bug \in [Tech -> {"none", "attached", "removed"}]
  /\ tech \in [Tech -> {"none", "live", "freed"}]
  /\ close_requested \in [Tech -> BOOLEAN]
  /\ cleanup_started \in [Tech -> BOOLEAN]
  /\ pc \in [Thread -> Labels]
  /\ mine \in [Thread -> Tech \cup {None}]
  /\ \A t \in Thread : pc[t] \in Holding => mine[t] \in Tech

Teardown == {"close", "bridge_stop", "cleanup", "free"}

\* rtw_bridge_stop is run once for a bridge, by one thread, however stops,
\* starts, pruning and the hangup overlap: no two of them ever meet at the
\* unlocked test of cleanup_started, and nobody tears down a freed bridge.
TornDownOnce ==
  \A t \in Thread :
    pc[t] \in Teardown =>
      /\ tech[mine[t]] = "live"
      /\ \A u \in Thread \ {t} : pc[u] \in Teardown => mine[u] # mine[t]

\* A bridge that FreeSWITCH may call the callback with is not freed: the bug is
\* always detached before the bridge goes.
CallbackHasBridge == \A x \in Tech : bug[x] = "attached" => tech[x] = "live"

\* When the session is gone, so are all the bridges it ever had: no overlap of
\* a start with the hangup leaves a worker and a connection behind.
NothingOutlivesCall == call = "ended" => \A x \in Tech : tech[x] # "live"

\* docs/ARCHITECTURE.md asks for a thread-safe shutdown, and start_capture
\* refuses a second bridge.  Here: when nothing is going on, an attached bridge
\* is the one a stop would find, so that there is at most one.
AttachedIsFound ==
  (\A t \in Thread : pc[t] = "idle") =>
    \A x \in Tech : bug[x] = "attached" => priv = x

\* A hangup is completed: every bug is removed, every bridge freed and the
\* session destroyed.
HangupCompletes == call = "hangup" ~> call = "ended"

\* docs/ARCHITECTURE.md: do_stop and CLOSE are safe against each other.  Here:
\* the bridge that do_stop writes close_requested to has not been freed.
StopFindsLiveBridge ==
  \A t \in Cmd : pc[t] = "request" => tech[mine[t]] # "freed"

\* docs/ARCHITECTURE.md: a hangup detaches cleanly.  Here: the channel does not
\* keep a pointer to a bridge that was freed.
PrivateIsLive == priv # None => tech[priv] # "freed"
=============================================================================
