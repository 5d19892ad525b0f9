SPECIFICATION Spec
CONSTANTS
  c1 = c1
  c2 = c2
  None = None
  Callers <- TwoCallers
  Asked <- AnyCall
  FirstRequestId = 1
  LastRequestId = 2
  OrderIds = {1, 3}
  MaxShelf = 1
SYMMETRY Symmetric
CHECK_DEADLOCK FALSE
INVARIANTS
  TypeOK
  AnswersArrive
  NothingStrays
  CommissionsFollow
  FollowersAreTold
