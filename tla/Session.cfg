\* Two calls of ConnectToDaemon, a daemon of either version.
CONSTANTS
  MaxAttempts = 2
  Null = Null
  Overlapping = TRUE
SPECIFICATION Spec
PROPERTIES
  HandshakeEnds
CHECK_DEADLOCK FALSE
