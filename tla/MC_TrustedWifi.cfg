CONSTANTS
  s1 = s1
  s2 = s2
  Null = Null
  SSIDs = {s1, s2}
  WifiConfigs <- MCWifiConfigs
  AutoConnectOnLaunch = FALSE
  Overlap = FALSE
  MaxChanges = 3
SPECIFICATION Spec
INVARIANTS
  QuietAgrees
  RuleRecorded
CHECK_DEADLOCK FALSE
