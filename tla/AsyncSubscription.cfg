SPECIFICATION FairSpec
CONSTANTS
  r1 = r1
  r2 = r2
  Reader <- MCReader
  Capacity = 1
  MaxSent = 2
  MaxCalls = 1
CHECK_DEADLOCK FALSE
INVARIANTS
  SentMeansWritten
  NoRequestForgotten
PROPERTIES
  KeepsThePromise
  ReadersReachTheEnd
