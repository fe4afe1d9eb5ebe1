SPECIFICATION FairSpec
CONSTANTS
  s1 = s1
  s2 = s2
  s3 = s3
  Servers <- MCServers
  Gone = Gone
  Absent = Absent
  MaxStarts = 3
  MaxLosses = 1
INVARIANTS
  TypeOK
  PrimaryHoldsNode
  AddressLeadsToOwner
PROPERTIES
  BackupPromoted
CHECK_DEADLOCK FALSE
