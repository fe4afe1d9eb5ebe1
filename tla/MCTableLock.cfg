SPECIFICATION FairSpec
CONSTANTS
  t1 = t1
  t2 = t2
  t3 = t3
  Threads <- MCThreads
  numberLists = 2
  MaxRequests = 1
  MaxAbandons = 1
INVARIANTS
  TypeOK
  CountersExact
  ListExclusion
  SleepersAreBlocked
PROPERTIES
  ScanStartsQuiet
  EveryRequestPasses
CHECK_DEADLOCK FALSE
