\* Three user calls of any flow, one spontaneous daemon event, the firewall
\* switched off on disconnect (the branch of processResponse that awaits).
CONSTANTS
  MaxCalls = 3
  MaxEvents = 1
  FwOffOnDisconnect = TRUE
SPECIFICATION Spec
INVARIANTS
  ConnectCallsOrdered
  PingSingleFlight
PROPERTIES
  CallsReturn
CHECK_DEADLOCK FALSE
