SPECIFICATION Spec
CONSTANTS
  Names = {"a", "b", "c"}
  MaxId = 4
  MetaZones = 3
  MetaCap = 3
  MaxExt = 2
  MaxOps = 2
  MaxCrash = 1
  Ops = {"create"}
  Faults = {}
  Torn = FALSE
  Overlap = FALSE
  InitFiles <- OneFile
INVARIANTS NamespaceDurable
CHECK_DEADLOCK FALSE
