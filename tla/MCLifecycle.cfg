SPECIFICATION LifecycleSpec
CONSTANTS
  Cmd = {c1, c2}
  Session = s
  Tech = {x1, x2, x3}
  None = None
INVARIANTS
  TornDownOnce
  NothingOutlivesCall
PROPERTIES
  HangupCompletes
  HarnessEnds
CHECK_DEADLOCK FALSE
