SPECIFICATION FairSpec
CONSTANTS
  c1 = c1
  c2 = c2
  Nobody = Nobody
  Calls <- TwoCalls
  MaxRetries = 1
  MaxAttempts = 2
  MaxMessages = 1
  MaxLosses = 1
CHECK_DEADLOCK FALSE
INVARIANTS
  ConnectedMeansServed
  ResetsAreLosses
PROPERTIES
  OrderIdsAreTheBrokers
  CallsEnd
