SPECIFICATION Spec
CONSTANTS
  Items = {"folder", "file"}
  Content <- Nested
  Claim <- ExactClaim
  Others = {}
  Quota = 2
  Pinnable = 3
  MemoryBlocks = 1
  Tasks = {t1, t2}
  Manager = manager
  MaxRequests = 2
  MaxCrashes = 1
SYMMETRY TaskSymmetry
INVARIANTS
  TypeOK
  NoOrphanProtection
PROPERTIES
  SafeStays
