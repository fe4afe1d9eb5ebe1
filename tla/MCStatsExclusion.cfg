SPECIFICATION Spec
CONSTANTS
  t1 = t1
  t2 = t2
  Threads <- MCThreads
  Counted <- MCCounted
  firstCounts <- ZeroCounts
  MaxRequests = 1
  MaxSpurious = 0
SYMMETRY Symmetry
INVARIANT Exclusion
CHECK_DEADLOCK FALSE
