---------------------------- MODULE MCLifecycle ----------------------------
(***************************************************************************)
(* The module in FreeSWITCH (ModLifecycle), and the same module in its      *)
(* harness with the stub.  They share no state and are checked side by      *)
(* side: each runs while the other rests.                                  *)
(***************************************************************************)
EXTENDS ModLifecycle, Naturals

VARIABLES
  harnessPc, round, reason, rc, session, stubPriv, bridge, mutex, worker,
  playout, clear_armed, clear_events, samples, media

Stub == INSTANCE ModHarness WITH
  pc <- harnessPc, priv <- stubPriv,
  Frames <- 3, FrameLen <- 2, MediaLens <- {1, 3}, MaxMedia <- 4

harnessVars ==
  <<harnessPc, round, reason, rc, session, stubPriv, bridge, mutex, worker,
    playout, clear_armed, clear_events, samples, media>>
lifecycleVars == <<vars, harnessVars>>

ASSUME PartsConstants == Stub!HarnessConstants

LifecycleInit == Init /\ Stub!Init

LifecycleNext ==
  \/ Stub!Init /\ Next /\ UNCHANGED harnessVars
  \/ Init /\ Stub!Next /\ UNCHANGED vars

\* The fairness of both parts.  Nothing of it is enabled in a part that rests.
LifecycleSpec ==
  /\ LifecycleInit /\ [][LifecycleNext]_lifecycleVars
  /\ \A t \in Cmd : WF_vars(CmdStep(t))
  /\ WF_vars(SessionStep)
  /\ SF_harnessVars(Stub!Harness) /\ WF_harnessVars(Stub!Delivers)

-----------------------------------------------------------------------------
(* Properties *)

\* rtw_mod_harness.c: a harness that has begun ends, and leaves nothing of the
\* bridge behind.
HarnessEnds == Stub!HarnessEnds
=============================================================================
