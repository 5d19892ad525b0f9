SPECIFICATION FairSpec
CONSTANTS
  w1 = w1
  w2 = w2
  s1 = s1
  s2 = s2
  c1 = c1
  None = None
  Handshake = Handshake
  First = s1
  Write <- MCWrite
  Socket <- OneSocketMore
  Closer <- MCCloser
  MaxAttempts = 2
CHECK_DEADLOCK FALSE
INVARIANTS
  TypeOK
  ClosedForGood
  LateSendsNeedReconnect
PROPERTIES
  QueuedWritesAreRefused
  CloseEndsWrites
