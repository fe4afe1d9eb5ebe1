SPECIFICATION FairSpec
CONSTANTS
  t1 = t1
  t2 = t2
  Threads <- MCThreads
  Counted <- MCCounted
  firstCounts <- ZeroCounts
  MaxRequests = 1
  MaxSpurious = 1
INVARIANTS
  TypeOK
  CountBounded
  DivisorPositive
  ExclusionUnlessRaced
PROPERTY ServedUnlessRaced
CHECK_DEADLOCK FALSE
