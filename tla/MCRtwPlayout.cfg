SPECIFICATION Spec
CONSTANTS
  Capacity = 3
  MarkMax = 2
  MaxOut = {1, 2}
  MaxBytes = 6
  MaxMarks = 3
  MaxClears = 1
  NoByte = NoByte
INVARIANTS
  RingHoldsStream
  MarksExact
PROPERTIES
  CompletionInOrder
  Refines
