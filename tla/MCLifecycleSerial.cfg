SPECIFICATION LifecycleSpec
CONSTANTS
  Cmd = {c1}
  Session = s
  Tech = {x1, x2, x3}
  None = None
INVARIANTS AttachedIsFound
CHECK_DEADLOCK FALSE
