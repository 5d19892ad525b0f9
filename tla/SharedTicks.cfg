SPECIFICATION FairSpec
CONSTANTS
  t1 = t1
  t2 = t2
  Thread <- MCThread
  MaxTicks = 2
  MaxBatch = 2
  MaxCalls = 2
CHECK_DEADLOCK FALSE
INVARIANTS
  TicksKept
PROPERTIES
  EndMeansAll
  LoneReaderReturns
