CONSTANTS
  g1 = g1
  g2 = g2
  g3 = g3
  f1 = f1
  f2 = f2
  h1 = h1
  h2 = h2
  h3 = h3
  h4 = h4
  Here = Here
  Null = Null
  Gateways = {g1, g2, g3}
  Flags = {f1, f2}
  Hosts = {h1, h2, h3, h4}
  Locs = {Here}
  PingVals = {0, 1, 2}
  Lists <- MCLists
  Dist <- MCDist
  MaxUpdates = 3
  MaxEvents = 1
  VpnStates = {"DISCONNECTED", "CONNECTING", "CONNECTED"}
SPECIFICATION Spec
INVARIANTS
  FastestNotExcluded
  FastestByPing
PROPERTIES
  PingResultsApplied
CHECK_DEADLOCK FALSE
