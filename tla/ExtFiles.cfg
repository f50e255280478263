SPECIFICATION Spec
CONSTANTS
  Names = {"a", "b"}
  NInodes = 2
  NBlocks = 8
  Direct = 1
  Layer = 2
  Straddle = FALSE
  MaxRun = 2
  MaxOps = 5
  MaxCrashes = 1
INVARIANTS TypeOK BlocksOwned InodesOwned ReadBack
CHECK_DEADLOCK FALSE
