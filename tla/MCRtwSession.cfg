SPECIFICATION SessionSpec
CONSTANTS
  QueueCap = 2
  PlayoutCap = 2
  MarkMax = 2
  HarvestMax = 2
  Frames = {1, 2}
  Lens = {1}
  MaxSeq = 4
  MaxBytes = 2
  MaxMarks = 2
  MaxClears = 1
  MaxFailures = 1
CHECK_DEADLOCK FALSE
INVARIANTS
  StreamOrdered
  GapsExplained
  AcksInOrder
  AckAfterAudio
  OnlyAcksAfterStop
  OneSamplePerClear
