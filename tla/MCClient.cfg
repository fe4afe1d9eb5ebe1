SPECIFICATION FairSpec
CONSTANTS
  w1 = w1
  w2 = w2
  Words <- MCWords
  Unknown = Unknown
  Blank = Blank
  Commands <- MCCommands
  Lines = 2
  MaxServers = 2
  MaxChanges = 2
INVARIANTS
  TypeOK
  EndsOnlyIfDisturbed
  SentAsTyped
PROPERTIES
  CommandFinishes
  FollowsPrimary
CHECK_DEADLOCK FALSE
