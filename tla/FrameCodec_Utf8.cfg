\* Payloads with a two-byte UTF-8 character (e.g. a city name in
\* ServerListResp); chunk boundaries may fall inside it.
CONSTANTS
  Chars = {"A", "U"}
  FrameLen = 1
  MaxFrames = 1
  MaxReconnect = 0
  CloseMidFrame = FALSE
SPECIFICATION Spec
INVARIANTS
  ReassemblyInvariance
CHECK_DEADLOCK FALSE
