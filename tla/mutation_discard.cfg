SPECIFICATION Spec
CONSTANTS
  Scripts <- Removals
  MaxForeign = 1
  MaxFaults = 1
  MaxAsks = 1
INVARIANTS
  DiscardedNotTaken
CHECK_DEADLOCK FALSE
