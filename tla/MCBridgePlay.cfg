SPECIFICATION PlaybackSpec
CONSTANTS
  QueueCap = 4
  PlayoutCap = 1
  MarkMax = 2
  HarvestMax = 1
  Frames = {1}
  Lens = {1}
  MaxSeq = 4
  MaxBytes = 1
  MaxMarks = 2
  MaxClears = 0
  MaxFailures = 1
  MaxConns = 1
  MaxFrames = 0
  ReconnectMax = 2
CHECK_DEADLOCK FALSE
PROPERTIES
  MarkIsAnswered
