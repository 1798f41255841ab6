SPECIFICATION Spec
CONSTANTS
  QueueCap = 3
  PlayoutCap = 1
  MarkMax = 1
  HarvestMax = 1
  Frames = {1}
  Lens = {1}
  MaxSeq = 5
  MaxBytes = 0
  MaxMarks = 1
  MaxClears = 0
  MaxFailures = 0
  MaxConns = 2
  MaxFrames = 1
  ReconnectMax = 2
CHECK_DEADLOCK FALSE
INVARIANTS
  DeliveredInOrder
  NoConnectionLeaked
  StopReachesPeer
