SPECIFICATION Spec
CONSTANTS
  MaxConns = 3
  MaxFds = 2
  MaxThreads = 3
  MaxRequests = 3
INVARIANTS
  AnswersReachAskers
CHECK_DEADLOCK FALSE
