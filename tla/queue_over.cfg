SPECIFICATION Spec
CONSTANTS
  MaxOps = 4
  Existing <- OneFile
  Home <- FileHome
  Names = {"a", "b"}
  Workers = {w1, w2}
  Menu = {"create", "over"}
  Batch = 1
SYMMETRY WorkerSymmetry
INVARIANTS
  CleanupAfterUpload
