CONSTANTS
  Ids = {a, b, c}
  MaxPending = 2
  MaxRequests = 3
SPECIFICATION FairSpec
INVARIANTS UnknownIsReconcile BacklogBounded
PROPERTIES InterruptEnds
CHECK_DEADLOCK FALSE
