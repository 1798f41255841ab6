SPECIFICATION WireSpec
CONSTANTS
  RxCap = 5
  Chunk = 2
  HandshakeCap = 3
  RecordMax = 4
  Responses = {2, 4}
  Frames <- MCFrames
  MaxSent = 2
  MaxFailures = 1
  Radix = 4
  LenCode = 2
  Xor <- MCXor
  Texts <- MCTexts
  Keys <- MCKeys
  MaxSends = 3
  SidMax = 64
  NameMax = 128
  JsonMax = 256
  JsonRest = 50
  PayloadCap = 65536
  OurLen = 34
  NameLens = {0, 1, 127, 128, 300}
  PayloadLens = {0, 160, 65536, 65537}
INVARIANTS
  TextsInOrder
  NothingStranded
  PeerReadsWhatWasSent
  NamesHold
CHECK_DEADLOCK FALSE
