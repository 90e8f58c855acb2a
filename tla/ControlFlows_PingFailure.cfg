\* Same bounds as ControlFlows.cfg: does the client show the tunnel up
\* exactly when the daemon's tunnel is up, whenever nothing is in flight?
CONSTANTS
  MaxCalls = 3
  MaxEvents = 1
  FwOffOnDisconnect = TRUE
SPECIFICATION Spec
INVARIANTS
  ConnStateAgrees
CHECK_DEADLOCK FALSE
