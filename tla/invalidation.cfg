SPECIFICATION Spec
CONSTANTS
  Keys = {1, 2}
  PageLimit = 1
  MaxRevision = 3
  MaxLocal = 1
  MaxFailures = 1
INVARIANTS
  TypeOK
  NothingMissed
PROPERTIES
  EventuallyForgotten
