SPECIFICATION Spec
CONSTANTS
  MaxOps = 4
  Existing <- NoFiles
  Home <- FileHome
  Names = {"a"}
  Workers = {w1}
  Menu = {"mkdir","create","move","rmdir"}
  Batch = 1
SYMMETRY WorkerSymmetry
INVARIANTS
  TypeOK
  ProviderIdsOnly
