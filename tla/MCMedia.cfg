SPECIFICATION MediaSpec
CONSTANTS
  Rates = {1, 2, 3}
  FrameLen = 3
  HoldCap = 6
  AgentCap = 3
  ReadLens = {1, 3, 4}
  WriteLens = {2, 4}
  MediaLens = {1, 3}
  MaxTime = 9
  MaxMedia = 5
  Payload = {0, 91, 255}
  MaxPayload = 7
  Script <- MCScript
  ReadLen = 2
  MaxRounds = 4
  PlayoutCap = 2
  MarkMax = 3
  HarvestMax = 2
INVARIANTS
  SamplesReachTheWire
  PeerIsHeard
  SampleSurvives
  PayloadSurvives
  WholeCall
CHECK_DEADLOCK FALSE
