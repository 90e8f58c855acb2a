\* Inbound: one connection's framing, ASCII payloads, connections replaced
\* only at frame boundaries, every chunking of the stream explored.
\* Outbound: requests of up to two fields, one of them a string of up to
\* three characters over digit, minus, quote, backslash, '#bigint' and
\* any other character, the other the Hello secret.
CONSTANTS
  Chars = {"A"}
  FrameLen = 3
  MaxFrames = 3
  MaxReconnect = 1
  CloseMidFrame = FALSE
  StrChars = {"1", "-", "x", "Q", "S", "B"}
  StrLen = 3
  BigInts <- MCBigInts
  MaxFields = 2
  MaxStrFields = 1
SPECIFICATION WireSpec
INVARIANTS
  ReassemblyInvariance
  BridgeExact
CHECK_DEADLOCK FALSE
