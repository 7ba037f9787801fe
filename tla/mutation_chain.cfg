SPECIFICATION Spec
CONSTANTS
  Scripts <- Chains
  MaxForeign = 2
  MaxFaults = 2
  MaxAsks = 1
INVARIANTS
  TypeOK
  AtMostOnce
  AppliedHappened
PROPERTIES
  OnlyWhatWasSeen
  Settles
CHECK_DEADLOCK FALSE
