SPECIFICATION Spec
CONSTANTS
  c1 = c1
  c2 = c2
  w = w
  k1 = k1
  k2 = k2
  v1 = v1
  v2 = v2
  Empty = Empty
  Clients <- MCClients
  watcher <- w
  Threads <- MCThreads
  Keys <- MCKeys
  Values <- MCValues
  numberLists = 2
  hash <- MChash
  Requests <- MCRequests
  MaxRequests = 1
  MaxJoins = 2
INVARIANTS
  TypeOK
  InStep
  StoredBeforeApplied
  ExitsOnlyIfDisturbed
PROPERTIES
  ImplementsService
CHECK_DEADLOCK FALSE
