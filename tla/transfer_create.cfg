CONSTANTS
  MaxSaves = 2
  First = "create"
  Sizes = {0, 2}
  w1 = w1
  w2 = w2
  Workers = {w1, w2}
  MaxFaults = 2
  MaxForeign = 1
  MaxSessions = 4
SPECIFICATION FairSpec
INVARIANTS
  TypeOK
  CheckpointKept
  LandsOnce
  AckedBytesLanded
PROPERTIES
  Delivers
  NeverOverwrites
  Settles
CHECK_DEADLOCK FALSE
