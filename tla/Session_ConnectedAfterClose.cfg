CONSTANTS
  MaxAttempts = 1
  Null = Null
  Overlapping = TRUE
SPECIFICATION Spec
INVARIANTS
  ConnectedHasSocket
CHECK_DEADLOCK FALSE
