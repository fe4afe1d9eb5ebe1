SPECIFICATION Spec
CONSTANTS
  k1 = k1
  k2 = k2
  k3 = k3
  v1 = v1
  v2 = v2
  Empty = Empty
  Keys <- MCKeys
  Values <- MCValues
  numberLists = 2
  MaxWrites = 2
  MaxClashes = 1
  hash <- MChash
SYMMETRY Symmetry
INVARIANTS
  TypeOK
  WellFormed
  ScanExact
  KeysWeaklyConsistent
  WalksBreakOnlyIfDisturbed
PROPERTY ImplementsMap
CHECK_DEADLOCK FALSE
