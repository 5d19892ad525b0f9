SPECIFICATION Spec
CONSTANTS
  h1 = h1
  h2 = h2
  i1 = i1
  e1 = e1
  p1 = p1
  none = none
  Handle <- MCHandle2
  Id <- MCId
  ExecutionId <- MCExecutionId
  Caller <- MCCaller
  AutoReconnect = TRUE
  None <- none
CHECK_DEADLOCK FALSE
INVARIANT DisconnectEndsStreams
