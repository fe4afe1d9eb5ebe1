SPECIFICATION Spec
CONSTANTS
  k1 = k1
  k2 = k2
  k3 = k3
  v1 = v1
  v2 = v2
  Empty = Empty
  Keys <- MCKeys
  Values <- MCValues
  numberLists = 2
  MaxWrites = 2
  MaxClashes = 0
  hash <- MChash
INVARIANT KeysFit
CHECK_DEADLOCK FALSE
