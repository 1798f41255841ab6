-------------------------- MODULE ModLifecycleProof --------------------------
(***************************************************************************)
(* Proofs about ModLifecycle, for any number of command threads and of     *)
(* bridges.  The invariant behind them is ownership: a bridge that has not *)
(* been freed is in the hands of exactly one of                            *)
(*   - FreeSWITCH, as the user data of an attached bug,                    *)
(*   - the start that has not yet attached it,                             *)
(*   - the thread that is tearing it down,                                 *)
(* and cleanup_started is only set in the hands of the last.               *)
(***************************************************************************)
EXTENDS ModLifecycle, TLAPS

\* The places at which a thread owns the bridge it holds.
Owning == Teardown \cup {"bug_add"}

\* What a thread owns is live, not attached, and nobody else's.
OwnsAlone ==
  \A t \in Thread :
    pc[t] \in Owning =>
      /\ tech[mine[t]] = "live"
      /\ bug[mine[t]] # "attached"
      /\ \A u \in Thread \ {t} : pc[u] \in Owning => mine[u] # mine[t]

\* Every live bridge is attached or owned by a thread.
LiveIsOwned ==
  \A x \in Tech :
    tech[x] = "live" =>
      bug[x] = "attached" \/ \E t \in Thread : pc[t] \in Owning /\ mine[t] = x

\* cleanup_started is not set before the owner has come to free the bridge.
CleanupIsLast ==
  /\ \A x \in Tech : tech[x] = "none" \/ bug[x] = "attached" => ~cleanup_started[x]
  /\ \A t \in Thread : pc[t] \in Owning \ {"free"} => ~cleanup_started[mine[t]]

\* A call that is over has no bug left, and one that has ended no command.
CallIsOver ==
  /\ call \in {"closed", "ended"} => \A x \in Tech : bug[x] # "attached"
  /\ call = "ended" => \A t \in Thread : pc[t] = "idle"

IInv ==
  /\ LifecycleTypeOK /\ OwnsAlone /\ CallbackHasBridge /\ LiveIsOwned
  /\ CleanupIsLast /\ CallIsOver

-----------------------------------------------------------------------------

\* Before the first command nobody owns anything.
LEMMA InitInv == Init => IInv
BY LifecycleConstants DEF Init, IInv, LifecycleTypeOK, OwnsAlone, CallbackHasBridge,
   LiveIsOwned, CleanupIsLast, CallIsOver, Owning, Teardown, Holding, Labels

\* A step of a thread that changes neither bugs, bridges nor flags, and by which
\* the thread neither becomes nor ceases to be an owner.
LEMMA QuietStep ==
  ASSUME NEW t \in Thread, NEW l \in Labels, NEW m \in Tech \cup {None}, IInv,
         pc' = [pc EXCEPT ![t] = l], mine' = [mine EXCEPT ![t] = m],
         UNCHANGED <<call, bug, tech, cleanup_started>>,
         close_requested' \in [Tech -> BOOLEAN],
         priv' \in Tech \cup {None},
         call = "ended" => l = "idle",
         l \in Holding => m \in Tech,
         \/ pc[t] \notin Owning /\ l \notin Owning
         \/ /\ pc[t] \in Owning /\ l \in Owning /\ m = mine[t]
            /\ l # "free" => pc[t] # "free"
  PROVE  IInv'
<1>1. LifecycleTypeOK'
  BY DEF IInv, LifecycleTypeOK
<1>2. OwnsAlone'
  BY DEF IInv, LifecycleTypeOK, OwnsAlone
<1>3. CallbackHasBridge'
  BY DEF IInv, CallbackHasBridge
<1>4. LiveIsOwned'
  BY DEF IInv, LifecycleTypeOK, LiveIsOwned
<1>5. CleanupIsLast'
  BY DEF IInv, LifecycleTypeOK, CleanupIsLast
<1>6. CallIsOver'
  BY DEF IInv, LifecycleTypeOK, CallIsOver
<1>. QED
  BY <1>1, <1>2, <1>3, <1>4, <1>5, <1>6 DEF IInv

\* A thread that removes an attached bug becomes the owner of its bridge.
LEMMA RemovalStep ==
  ASSUME NEW t \in Thread, NEW x \in Tech, IInv,
         bug[x] = "attached", pc[t] \notin Owning,
         bug' = [bug EXCEPT ![x] = "removed"],
         pc' = [pc EXCEPT ![t] = "close"], mine' = [mine EXCEPT ![t] = x],
         UNCHANGED <<call, priv, techVars>>
  PROVE  IInv'
<1>. USE DEF Owning, Teardown
<1>1. LifecycleTypeOK'
  BY DEF IInv, LifecycleTypeOK, Holding, Labels, techVars
<1>2. OwnsAlone'
  BY DEF IInv, LifecycleTypeOK, OwnsAlone, CallbackHasBridge, techVars
<1>3. CallbackHasBridge'
  BY DEF IInv, LifecycleTypeOK, CallbackHasBridge, techVars
<1>4. LiveIsOwned'
  BY DEF IInv, LifecycleTypeOK, LiveIsOwned, techVars
<1>5. CleanupIsLast'
  BY DEF IInv, LifecycleTypeOK, CleanupIsLast, techVars
<1>6. CallIsOver'
  BY DEF IInv, LifecycleTypeOK, CallIsOver
<1>. QED
  BY <1>1, <1>2, <1>3, <1>4, <1>5, <1>6 DEF IInv

\* The start that creates a bridge becomes its owner.
LEMMA CreationStep ==
  ASSUME NEW t \in Thread, IInv, BridgeStarts(t)
  PROVE  IInv'
<1>. USE DEF Owning, Teardown
<1>1. PICK x \in Tech : /\ tech[x] = "none"
                       /\ tech' = [tech EXCEPT ![x] = "live"]
                       /\ mine' = [mine EXCEPT ![t] = x]
  BY DEF BridgeStarts
<1>2. /\ pc[t] = "bridge_start" /\ pc' = [pc EXCEPT ![t] = "bug_add"]
      /\ UNCHANGED <<call, priv, bug, close_requested, cleanup_started>>
  BY DEF BridgeStarts, Goto
<1>3. LifecycleTypeOK'
  BY <1>1, <1>2 DEF IInv, LifecycleTypeOK, Holding, Labels
<1>4. OwnsAlone'
  BY <1>1, <1>2 DEF IInv, LifecycleTypeOK, OwnsAlone, CallbackHasBridge
<1>5. CallbackHasBridge'
  BY <1>1, <1>2 DEF IInv, LifecycleTypeOK, CallbackHasBridge
<1>6. LiveIsOwned'
  BY <1>1, <1>2 DEF IInv, LifecycleTypeOK, LiveIsOwned
<1>7. CleanupIsLast'
  BY <1>1, <1>2 DEF IInv, LifecycleTypeOK, CleanupIsLast
<1>8. CallIsOver'
  BY <1>1, <1>2 DEF IInv, LifecycleTypeOK, CallIsOver
<1>. QED
  BY <1>3, <1>4, <1>5, <1>6, <1>7, <1>8 DEF IInv

\* The start hands its bridge over to FreeSWITCH.
LEMMA AttachStep ==
  ASSUME NEW t \in Thread, IInv, BugAdded(t)
  PROVE  IInv'
<1>. USE DEF Owning, Teardown
<1>1. /\ pc[t] = "bug_add" /\ pc' = [pc EXCEPT ![t] = "set_private"]
      /\ bug' = [bug EXCEPT ![mine[t]] = "attached"]
      /\ call = "up" /\ mine[t] \in Tech
      /\ UNCHANGED <<call, priv, tech, close_requested, cleanup_started, mine>>
  BY DEF BugAdded, Goto, techVars, IInv, LifecycleTypeOK, Holding
<1>2. LifecycleTypeOK'
  BY <1>1 DEF IInv, LifecycleTypeOK, Holding, Labels
<1>3. OwnsAlone'
  BY <1>1 DEF IInv, LifecycleTypeOK, OwnsAlone
<1>4. CallbackHasBridge'
  BY <1>1 DEF IInv, LifecycleTypeOK, OwnsAlone, CallbackHasBridge
<1>5. LiveIsOwned'
  BY <1>1 DEF IInv, LifecycleTypeOK, LiveIsOwned
<1>6. CleanupIsLast'
  BY <1>1 DEF IInv, LifecycleTypeOK, CleanupIsLast
<1>7. CallIsOver'
  BY <1>1 DEF IInv, LifecycleTypeOK, CallIsOver
<1>. QED
  BY <1>2, <1>3, <1>4, <1>5, <1>6, <1>7 DEF IInv

\* The owner sets the flags of rtw_bridge_stop ...
LEMMA CleanupStep ==
  ASSUME NEW t \in Thread, IInv, StopBegins(t)
  PROVE  IInv'
<1>. USE DEF Owning, Teardown
<1>1. /\ pc[t] = "cleanup" /\ pc' = [pc EXCEPT ![t] = "free"]
      /\ cleanup_started' = [cleanup_started EXCEPT ![mine[t]] = TRUE]
      /\ close_requested' = [close_requested EXCEPT ![mine[t]] = TRUE]
      /\ mine[t] \in Tech
      /\ UNCHANGED <<call, priv, bug, tech, mine>>
  BY DEF StopBegins, Goto, IInv, LifecycleTypeOK, Holding
<1>2. LifecycleTypeOK'
  BY <1>1 DEF IInv, LifecycleTypeOK, Holding, Labels
<1>3. OwnsAlone'
  BY <1>1 DEF IInv, LifecycleTypeOK, OwnsAlone
<1>4. CallbackHasBridge'
  BY <1>1 DEF IInv, CallbackHasBridge
<1>5. LiveIsOwned'
  BY <1>1 DEF IInv, LifecycleTypeOK, LiveIsOwned
<1>6. CleanupIsLast'
  BY <1>1 DEF IInv, LifecycleTypeOK, OwnsAlone, CleanupIsLast, Holding
<1>7. CallIsOver'
  BY <1>1 DEF IInv, LifecycleTypeOK, CallIsOver
<1>. QED
  BY <1>2, <1>3, <1>4, <1>5, <1>6, <1>7 DEF IInv

\* ... and frees the bridge.
LEMMA FreeStep ==
  ASSUME NEW t \in Thread, IInv, StopFrees(t)
  PROVE  IInv'
<1>. USE DEF Owning, Teardown
<1>1. /\ pc[t] = "free" /\ pc' = [pc EXCEPT ![t] = "idle"]
      /\ mine' = [mine EXCEPT ![t] = None]
      /\ tech' = [tech EXCEPT ![mine[t]] = "freed"]
      /\ mine[t] \in Tech
      /\ UNCHANGED <<call, priv, bug, close_requested, cleanup_started>>
  BY DEF StopFrees, Return, Goto, IInv, LifecycleTypeOK, Holding
<1>2. LifecycleTypeOK'
  BY <1>1 DEF IInv, LifecycleTypeOK, Holding, Labels
<1>3. OwnsAlone'
  BY <1>1 DEF IInv, LifecycleTypeOK, OwnsAlone, Holding
<1>4. CallbackHasBridge'
  BY <1>1 DEF IInv, LifecycleTypeOK, OwnsAlone, CallbackHasBridge
<1>5. LiveIsOwned'
  BY <1>1 DEF IInv, LifecycleTypeOK, LiveIsOwned
<1>6. CleanupIsLast'
  BY <1>1 DEF IInv, LifecycleTypeOK, CleanupIsLast
<1>7. CallIsOver'
  BY <1>1 DEF IInv, LifecycleTypeOK, CallIsOver
<1>. QED
  BY <1>2, <1>3, <1>4, <1>5, <1>6, <1>7 DEF IInv

-----------------------------------------------------------------------------
(* The steps of a thread *)

\* CLOSE and rtw_bridge_stop, in whichever thread.
LEMMA CloseSteps ==
  ASSUME NEW t \in Thread, IInv, CloseStep(t)
  PROVE  IInv'
<1>. USE DEF Owning, Teardown, Goto, Return, Holding, Labels, techVars
<1>1. CASE Closes(t)
  <2>1. /\ pc[t] = "close" /\ pc' = [pc EXCEPT ![t] = "bridge_stop"]
        /\ mine' = [mine EXCEPT ![t] = mine[t]] /\ mine[t] \in Tech /\ priv' = None
        /\ call # "ended" /\ close_requested \in [Tech -> BOOLEAN]
        /\ UNCHANGED <<call, bug, tech, close_requested, cleanup_started>>
    BY <1>1 DEF Closes, IInv, LifecycleTypeOK, CallIsOver
  <2>. QED
    BY <2>1, QuietStep
<1>2. CASE StopChecks(t)
  <2>1. /\ pc[t] = "bridge_stop" /\ pc' = [pc EXCEPT ![t] = "cleanup"]
        /\ mine' = [mine EXCEPT ![t] = mine[t]] /\ mine[t] \in Tech
        /\ call # "ended" /\ close_requested \in [Tech -> BOOLEAN]
        /\ priv \in Tech \cup {None}
        /\ UNCHANGED <<call, priv, bug, tech, close_requested, cleanup_started>>
    BY <1>2 DEF StopChecks, IInv, LifecycleTypeOK, CallIsOver, CleanupIsLast
  <2>. QED
    BY <2>1, QuietStep
<1>3. CASE StopBegins(t)
  BY <1>3, CleanupStep
<1>4. CASE StopFrees(t)
  BY <1>4, FreeStep
<1>. QED
  BY <1>1, <1>2, <1>3, <1>4 DEF CloseStep

\* What a step of do_stop, of a look-up or of a start without a bridge has to
\* show to be quiet.
Quiet(t, l) ==
  /\ pc[t] \notin Owning /\ l \notin Owning
  /\ pc' = [pc EXCEPT ![t] = l]
  /\ \E m \in Tech \cup {None} :
       mine' = [mine EXCEPT ![t] = m] /\ (l \in Holding => m \in Tech)
  /\ priv' \in Tech \cup {None}
  /\ close_requested' \in [Tech -> BOOLEAN]
  /\ UNCHANGED <<call, bug, tech, cleanup_started>>
  /\ call = "ended" => l = "idle"

\* A quiet step in the sense of Quiet keeps the invariant.
LEMMA QuietSteps ==
  ASSUME NEW t \in Thread, NEW l \in Labels, IInv, Quiet(t, l)
  PROVE  IInv'
BY QuietStep DEF Quiet

\* Every step of a command keeps the invariant.
LEMMA CmdSteps ==
  ASSUME NEW t \in Cmd, IInv, Locate(t) \/ CmdStep(t)
  PROVE  IInv'
<1>. USE DEF Owning, Teardown, Goto, Return, Holding, Labels, techVars
<1>0. t \in Thread
  BY DEF Thread
<1>1. CASE Locate(t)
  <2>1. PICK c \in Commands : pc' = [pc EXCEPT ![t] = c]
    BY <1>1 DEF Locate
  <2>2. Quiet(t, c) /\ c \in Labels
    BY <1>0, <1>1, <2>1 DEF Locate, Quiet, Commands, IInv, LifecycleTypeOK
  <2>. QED
    BY <1>0, <2>2, QuietSteps
<1>2. CASE StartChecks(t)
  <2>1. Quiet(t, "idle") \/ Quiet(t, "pre_answer")
    BY <1>0, <1>2 DEF StartChecks, Quiet, IInv, LifecycleTypeOK, CallIsOver
  <2>. QED
    BY <1>0, <2>1, QuietSteps
<1>3. CASE PreAnswers(t)
  <2>1. Quiet(t, "bridge_start")
    BY <1>0, <1>3 DEF PreAnswers, Quiet, IInv, LifecycleTypeOK, CallIsOver
  <2>. QED
    BY <1>0, <2>1, QuietSteps
<1>4. CASE PreAnswerFails(t) \/ BridgeStartFails(t) \/ UseEnds(t)
  <2>1. Quiet(t, "idle")
    BY <1>0, <1>4 DEF PreAnswerFails, BridgeStartFails, UseEnds, Quiet, IInv,
                      LifecycleTypeOK
  <2>. QED
    BY <1>0, <2>1, QuietSteps
<1>5. CASE BridgeStarts(t)
  BY <1>0, <1>5, CreationStep
<1>6. CASE BugAdded(t)
  BY <1>0, <1>6, AttachStep
<1>7. CASE BugAddFails(t)
  <2>1. /\ pc[t] = "bug_add" /\ pc' = [pc EXCEPT ![t] = "bridge_stop"]
        /\ mine' = [mine EXCEPT ![t] = mine[t]] /\ mine[t] \in Tech
        /\ call # "ended" /\ close_requested \in [Tech -> BOOLEAN]
        /\ priv \in Tech \cup {None}
        /\ UNCHANGED <<call, priv, bug, tech, close_requested, cleanup_started>>
    BY <1>0, <1>7 DEF BugAddFails, IInv, LifecycleTypeOK, CallIsOver
  <2>. QED
    BY <1>0, <2>1, QuietStep
<1>8. CASE SetsPrivate(t)
  <2>1. Quiet(t, "idle")
    BY <1>0, <1>8 DEF SetsPrivate, Quiet, IInv, LifecycleTypeOK
  <2>. QED
    BY <1>0, <2>1, QuietSteps
<1>9. CASE StopFinds(t)
  <2>1. Quiet(t, "idle") \/ Quiet(t, "request")
    BY <1>0, <1>9 DEF StopFinds, Quiet, IInv, LifecycleTypeOK, CallIsOver
  <2>. QED
    BY <1>0, <2>1, QuietSteps
<1>10. CASE RequestsClose(t)
  <2>1. Quiet(t, "unpublish")
    BY <1>0, <1>10 DEF RequestsClose, Quiet, IInv, LifecycleTypeOK, CallIsOver
  <2>. QED
    BY <1>0, <2>1, QuietSteps
<1>11. CASE ClearsPrivate(t)
  <2>1. Quiet(t, "remove")
    BY <1>0, <1>11 DEF ClearsPrivate, Quiet, IInv, LifecycleTypeOK, CallIsOver
  <2>. QED
    BY <1>0, <2>1, QuietSteps
<1>12. CASE Removes(t)
  <2>1. CASE bug[mine[t]] = "attached"
    <3>1. /\ mine[t] \in Tech /\ pc[t] \notin Owning
          /\ bug' = [bug EXCEPT ![mine[t]] = "removed"]
          /\ pc' = [pc EXCEPT ![t] = "close"]
          /\ mine' = [mine EXCEPT ![t] = mine[t]]
          /\ UNCHANGED <<call, priv, techVars>>
      BY <1>0, <1>12, <2>1 DEF Removes, IInv, LifecycleTypeOK
    <3>. QED
      BY <1>0, <2>1, <3>1, RemovalStep
  <2>2. CASE bug[mine[t]] # "attached"
    <3>1. Quiet(t, "idle")
      BY <1>0, <1>12, <2>2 DEF Removes, Quiet, IInv, LifecycleTypeOK
    <3>. QED
      BY <1>0, <3>1, QuietSteps
  <2>. QED
    BY <2>1, <2>2
<1>13. CASE UseFinds(t)
  <2>1. Quiet(t, "idle") \/ Quiet(t, "using")
    BY <1>0, <1>13 DEF UseFinds, Quiet, IInv, LifecycleTypeOK, CallIsOver
  <2>. QED
    BY <1>0, <2>1, QuietSteps
<1>14. CASE CloseStep(t)
  BY <1>0, <1>14, CloseSteps
<1>. QED
  BY <1>1, <1>2, <1>3, <1>4, <1>5, <1>6, <1>7, <1>8, <1>9, <1>10, <1>11, <1>12,
     <1>13, <1>14 DEF CmdStep

\* The pruning by a READ callback and the hangup.
LEMMA SessionSteps ==
  ASSUME IInv, ReadPrunes \/ HangsUp \/ SessionStep
  PROVE  IInv'
<1>. USE DEF Owning, Teardown, Goto
<1>0. Session \in Thread
  BY DEF Thread
<1>1. CASE ReadPrunes \/ HangupRemoves
  <2>1. PICK x \in Tech : /\ bug[x] = "attached"
                         /\ bug' = [bug EXCEPT ![x] = "removed"]
                         /\ mine' = [mine EXCEPT ![Session] = x]
    BY <1>1 DEF ReadPrunes, HangupRemoves
  <2>2. /\ pc[Session] \notin Owning /\ pc' = [pc EXCEPT ![Session] = "close"]
        /\ UNCHANGED <<call, priv, techVars>>
    BY <1>1 DEF ReadPrunes, HangupRemoves
  <2>. QED
    BY <1>0, <2>1, <2>2, RemovalStep
<1>2. CASE HangsUp \/ HangupDone \/ SessionEnds
  <2>1. /\ call' \in {"hangup", "closed", "ended"}
        /\ UNCHANGED <<priv, bug, tech, close_requested, cleanup_started, pc, mine>>
    BY <1>2 DEF HangsUp, HangupDone, SessionEnds, techVars
  <2>2. CallIsOver'
    BY <1>2, <2>1 DEF HangsUp, HangupDone, SessionEnds, IInv, CallIsOver
  <2>. QED
    BY <2>1, <2>2 DEF IInv, LifecycleTypeOK, OwnsAlone, CallbackHasBridge,
                      LiveIsOwned, CleanupIsLast
<1>3. CASE CloseStep(Session)
  BY <1>0, <1>3, CloseSteps
<1>. QED
  BY <1>1, <1>2, <1>3 DEF SessionStep

\* The invariant is inductive.
LEMMA NextInv == IInv /\ [Next]_vars => IInv'
<1>. SUFFICES ASSUME IInv, [Next]_vars PROVE IInv'
  OBVIOUS
<1>1. CASE UNCHANGED vars
  BY <1>1 DEF vars, techVars, IInv, LifecycleTypeOK, OwnsAlone, CallbackHasBridge,
              LiveIsOwned, CleanupIsLast, CallIsOver
<1>2. CASE Next
  BY <1>2, CmdSteps, SessionSteps DEF Next
<1>. QED
  BY <1>1, <1>2

\* Ownership holds throughout, for any overlap of commands, pruning and hangup.
THEOREM Invariance == Spec => []IInv
<1>. QED
  BY InitInv, NextInv, PTL DEF Spec

-----------------------------------------------------------------------------

\* For any commands and any number of bridges: no pointer that the code follows
\* is null.
THEOREM TypeCorrect == Spec => []LifecycleTypeOK
<1>1. IInv => LifecycleTypeOK
  BY DEF IInv
<1>. QED
  BY Invariance, <1>1, PTL

\* rtw_bridge_stop runs once per bridge, whatever overlaps: the test of
\* cleanup_started without a lock is never raced.
THEOREM BridgesAreTornDownOnce == Spec => []TornDownOnce
<1>1. IInv => TornDownOnce
  BY DEF IInv, OwnsAlone, TornDownOnce, Owning
<1>. QED
  BY Invariance, <1>1, PTL

\* No media callback is ever called with a freed bridge.
THEOREM CallbacksHaveBridges == Spec => []CallbackHasBridge
<1>1. IInv => CallbackHasBridge
  BY DEF IInv
<1>. QED
  BY Invariance, <1>1, PTL

\* No bridge outlives its call.
THEOREM BridgesEndWithCall == Spec => []NothingOutlivesCall
<1>1. IInv => NothingOutlivesCall
  BY DEF IInv, LiveIsOwned, CallIsOver, NothingOutlivesCall, Owning, Teardown
<1>. QED
  BY Invariance, <1>1, PTL
=============================================================================
