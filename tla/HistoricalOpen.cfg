SPECIFICATION Spec
CONSTANTS
  h1 = h1
  Request <- OneRequest
  Capacity = 2
  MaxInfos = 2
  MaxLosses = 2
  MaxCancels = 2
CHECK_DEADLOCK FALSE
INVARIANTS
  IsOpenWhileLive
