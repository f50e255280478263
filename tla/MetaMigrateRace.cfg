SPECIFICATION Spec
CONSTANTS
  Names = {"a", "b", "c"}
  MaxId = 4
  MetaZones = 3
  MetaCap = 3
  MaxExt = 2
  MaxOps = 3
  MaxCrash = 1
  Ops = {"sync", "migrate"}
  Faults = {}
  Torn = FALSE
  Overlap = FALSE
  InitFiles <- TwoFiles
INVARIANTS ExtentsDurable
CHECK_DEADLOCK FALSE
