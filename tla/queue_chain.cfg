SPECIFICATION Spec
CONSTANTS
  MaxOps = 3
  Existing <- NoFiles
  Home <- FileHome
  Names = {"a", "b"}
  Workers = {w1, w2}
  Menu = {"create", "replace", "save", "move", "remove", "keep"}
  Batch = 1
SYMMETRY WorkerSymmetry
INVARIANTS
  QueueOrder
  EditsRetained
  RescueLeavesNoOrphan
  BaseFromReceipt
  AttemptFence
  Anchored
  NoStuckQueue
PROPERTIES
  RequestFrozen
