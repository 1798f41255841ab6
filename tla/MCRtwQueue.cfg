SPECIFICATION Spec
CONSTANTS
  Item = {m1, m2, m3}
  NULL = NULL
  Capacity = 3
  MaxEnqueued = 7
INVARIANTS
  SlotsOwned
PROPERTY
  Refines
