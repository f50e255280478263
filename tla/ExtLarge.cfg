SPECIFICATION Spec
CONSTANTS
  Names = {"a", "b"}
  NInodes = 2
  NBlocks = 12
  Direct = 1
  Layer = 2
  Straddle = TRUE
  MaxRun = 3
  MaxOps = 3
  MaxCrashes = 0
INVARIANTS ReadBack
CHECK_DEADLOCK FALSE
