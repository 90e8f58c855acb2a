\* Same bounds as ControlFlows.cfg: is the pause state settled and equal to
\* the daemon's whenever nothing is in flight?
CONSTANTS
  MaxCalls = 3
  MaxEvents = 1
  FwOffOnDisconnect = TRUE
SPECIFICATION Spec
INVARIANTS
  PauseStateAgrees
CHECK_DEADLOCK FALSE
