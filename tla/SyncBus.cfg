SPECIFICATION FairSpec
CONSTANTS
  h1 = h1
  i1 = i1
  p1 = p1
  p2 = p2
  none = none
  Handle <- MCHandle1
  Id <- MCId
  Caller <- TwoCallers
  None <- none
CHECK_DEADLOCK FALSE
INVARIANTS
  TypeOK
  DisconnectJoinsThreads
  OnlyFailuresLeak
PROPERTIES
  DisconnectReturns
