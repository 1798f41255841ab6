----------------------------- MODULE ModHarness -----------------------------
(***************************************************************************)
(* The harness (src/mod/rtw_mod_harness.c), which runs the module against a *)
(* stub of FreeSWITCH and a peer that echoes: its own thread makes the calls *)
(* FreeSWITCH would make, the bridge's worker handles what the peer sends,   *)
(* and both meet at the bridge's mutex.  The stub (src/mod/fs_stub/switch.h) *)
(* keeps one session with one slot of private data, and removes no bug.      *)
(***************************************************************************)
EXTENDS Naturals, FiniteSetsExt

CONSTANTS
  Frames,      \* rounds of the loop (seconds * 50)
  FrameLen,    \* samples of a frame (160)
  MediaLens,   \* samples a message of the peer may have
  MaxMedia     \* bound on the messages

\* What the constants stand for.
HarnessConstants ==
  /\ Frames \in Nat /\ FrameLen \in Nat \ {0}
  /\ MediaLens \subseteq Nat \ {0} /\ MaxMedia \in Nat

VARIABLES
  pc,          \* the next line of the harness
  round,
  reason,      \* why it gave up, or "none"
  rc,          \* what it returns
  session,     \* "none", "live" or "destroyed"
  priv,        \* the private data: the bridge is there
  bridge,      \* "none", "live" or "freed"
  mutex,       \* held by the worker
  worker,      \* "off", "idle" or "text" (on_ws_text, with the mutex)
  playout,     \* samples
  clear_armed, clear_events, samples,
  media        \* messages the peer has sent

harnessVars == <<pc, round, reason, rc>>
stubVars == <<session, priv, bridge>>
workVars == <<mutex, worker, media>>
audioVars == <<playout, clear_armed, clear_events, samples>>
vars == <<harnessVars, stubVars, workVars, audioVars>>

Init ==
  /\ pc = "create" /\ round = 0 /\ reason = "none" /\ rc = 1
  /\ session = "none" /\ priv = FALSE /\ bridge = "none"
  /\ mutex = FALSE /\ worker = "off" /\ media = 0
  /\ playout = 0 /\ clear_armed = FALSE /\ clear_events = 0 /\ samples = 0

\* goto out
GiveUp(why) == pc' = "out" /\ reason' = why

-----------------------------------------------------------------------------
(* The worker *)

TakesMutex ==
  /\ worker = "idle" /\ ~mutex
  /\ worker' = "text" /\ mutex' = TRUE
  /\ UNCHANGED <<harnessVars, stubVars, media, audioVars>>

\* Mutant: a message without audio returns early, with the mutex.
DeliversBug ==
  /\ worker = "text"
  /\ worker' = "idle"
  /\ \/ UNCHANGED <<media, playout, mutex>>
     \/ /\ media < MaxMedia
        /\ media' = media + 1 /\ mutex' = FALSE
        /\ \E n \in MediaLens : playout' = playout + n
  /\ UNCHANGED <<harnessVars, stubVars, clear_armed, clear_events, samples>>

\* A message is handled and the mutex released; it may be one without audio, and
\* the worker also takes the mutex to send.
Delivers ==
  /\ worker = "text"
  /\ worker' = "idle" /\ mutex' = FALSE
  /\ \/ UNCHANGED <<media, playout>>
     \/ /\ media < MaxMedia
        /\ media' = media + 1
        /\ \E n \in MediaLens : playout' = playout + n
  /\ UNCHANGED <<harnessVars, stubVars, clear_armed, clear_events, samples>>

-----------------------------------------------------------------------------
(* The harness *)

\* rtw_stub_session_create
Creates ==
  /\ pc = "create"
  /\ \/ session' = "live" /\ pc' = "start"
     \/ pc' = "exit" /\ UNCHANGED session
  /\ UNCHANGED <<round, reason, rc, priv, bridge, workVars, audioVars>>

\* rtw_mod_start_capture, which ends in switch_channel_set_private
Starts ==
  /\ pc = "start"
  /\ \/ /\ bridge' = "live" /\ priv' = TRUE /\ worker' = "idle" /\ pc' = "loop"
        /\ UNCHANGED session
     \/ /\ pc' = "exit" /\ session' = "destroyed"
        /\ UNCHANGED <<bridge, priv, worker>>
  /\ UNCHANGED <<round, reason, rc, mutex, media, audioVars>>

\* rtw_bridge_apply_write_frame, as the harness sees it: nothing is taken if the
\* mutex is held or the playout is empty.  Only the one who gets the mutex and
\* finds nothing closes the measurement of a clear.
Taken == IF mutex THEN 0 ELSE Min({playout, FrameLen})

WritesFrame ==
  /\ playout' = playout - Taken
  /\ IF ~mutex /\ playout = 0 /\ clear_armed
       THEN clear_armed' = FALSE /\ samples' = samples + 1
       ELSE UNCHANGED <<clear_armed, samples>>
  /\ UNCHANGED clear_events

\* One round: on_read, whose audio goes to the peer, 20 ms, and a frame.  That
\* the frame was changed if and only if something was taken is what RtwAudio
\* says of it (PeerIsHeard).
Round ==
  /\ pc = "loop" /\ round < Frames
  /\ round' = round + 1
  /\ WritesFrame
  /\ UNCHANGED <<pc, reason, rc, stubVars, workVars>>

LoopEnds ==
  /\ pc = "loop" /\ round = Frames
  /\ pc' = "send_mark"
  /\ UNCHANGED <<round, reason, rc, stubVars, workVars, audioVars>>

\* rtw_bridge_send_mark waits for the mutex.
SendsMark ==
  /\ pc = "send_mark" /\ ~mutex
  /\ pc' = "clear"
  /\ UNCHANGED <<round, reason, rc, stubVars, workVars, audioVars>>

\* rtw_bridge_clear
Clears ==
  /\ pc = "clear" /\ ~mutex
  /\ playout' = 0 /\ clear_armed' = TRUE /\ clear_events' = clear_events + 1
  /\ pc' = "write"
  /\ UNCHANGED <<round, reason, rc, stubVars, workVars, samples>>

WritesAfterClear ==
  /\ pc = "write"
  /\ WritesFrame
  /\ IF Taken # 0 THEN GiveUp("expected passthrough after clear")
                  ELSE pc' = "stats" /\ UNCHANGED reason
  /\ UNCHANGED <<round, rc, stubVars, workVars>>

\* rtw_bridge_get_stats, and what the harness expects of them
Stats ==
  /\ pc = "stats" /\ ~mutex
  /\ CASE clear_events < 1 -> GiveUp("expected clear_events>=1")
       [] clear_events >= 1 /\ samples < 1 -> GiveUp("clear latency not sampled")
       [] OTHER -> pc' = "stop" /\ UNCHANGED reason
  /\ UNCHANGED <<round, rc, stubVars, workVars, audioVars>>

\* rtw_mod_stop_capture: the private data is cleared, the worker joined, the
\* bridge freed; without private data it does nothing and fails.
StopCapture ==
  /\ worker \in {"idle", "off"}
  /\ priv' = FALSE
  /\ bridge' = IF priv THEN "freed" ELSE bridge
  /\ worker' = IF priv THEN "off" ELSE worker

Stops ==
  /\ pc = "stop"
  /\ StopCapture
  /\ IF priv THEN pc' = "out" /\ rc' = 0 /\ UNCHANGED reason
             ELSE GiveUp("stop failed") /\ UNCHANGED rc
  /\ UNCHANGED <<round, session, mutex, media, audioVars>>

\* out: stops the capture unless it was stopped, and destroys the session.
Out ==
  /\ pc = "out"
  /\ IF rc # 0 THEN StopCapture ELSE UNCHANGED <<priv, bridge, worker>>
  /\ session' = "destroyed"
  /\ pc' = "exit"
  /\ UNCHANGED <<round, reason, rc, mutex, media, audioVars>>

Harness ==
  \/ Starts \/ Round \/ LoopEnds \/ SendsMark \/ Clears
  \/ WritesAfterClear \/ Stats \/ Stops \/ Out

Next == Creates \/ Harness \/ TakesMutex \/ Delivers

Spec == Init /\ [][Next]_vars

\* Both threads run, and the mutex is handed to a harness that waits for it.
FairSpec == Spec /\ SF_vars(Harness) /\ WF_vars(Delivers)

-----------------------------------------------------------------------------
(* Properties *)

\* The worker has stopped, and the bridge and the session are gone.
NothingLeft == bridge # "live" /\ session # "live" /\ worker = "off" /\ ~mutex

\* A harness that has begun ends, for it cannot wait for the worker forever; and
\* whichever way it ends, nothing is left.
HarnessEnds == pc # "create" ~> pc = "exit" /\ NothingLeft
=============================================================================
