SPECIFICATION FairSpec
CONSTANTS
  Items = {"file"}
  Content <- Single
  Claim <- ExactClaim
  Others = {"b3"}
  Quota = 2
  Pinnable = 2
  MemoryBlocks = 1
  Tasks = {t1, t2}
  Manager = manager
  MaxRequests = 2
  MaxCrashes = 0
PROPERTIES
  ViewSettles
