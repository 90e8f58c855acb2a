CONSTANTS
  PlainResp = PlainResp
  ListResp = ListResp
  ErrorResp = ErrorResp
  NoIdx = NoIdx
  None = None
  Cmds <- MCCmds
  Calls <- MCCalls
  BareLists <- MCBareLists
  MaxReq = 2
  MaxWaiters = 3
  MaxNotify = 1
  MaxReconnect = 1
SPECIFICATION Spec
INVARIANTS
  SettledByOwnAnswer
PROPERTIES
  ListWaitersReleased
  RpcSpec
CHECK_DEADLOCK FALSE
