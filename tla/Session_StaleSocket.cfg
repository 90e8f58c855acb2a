CONSTANTS
  MaxAttempts = 2
  Null = Null
  Overlapping = FALSE
SPECIFICATION Spec
INVARIANTS
  LiveConnectionReferenced
CHECK_DEADLOCK FALSE
