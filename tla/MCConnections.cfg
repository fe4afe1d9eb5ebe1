SPECIFICATION FairSpec
CONSTANTS
  MaxConns = 3
  MaxFds = 2
  MaxThreads = 3
  MaxRequests = 3
INVARIANTS
  TypeOK
  OneThreadEach
PROPERTIES
  RequestAnswered
CHECK_DEADLOCK FALSE
