SPECIFICATION Spec
CONSTANTS
  Names = {"a", "b", "c"}
  MaxId = 2
  MetaZones = 3
  MetaCap = 4
  MaxExt = 2
  MaxOps = 4
  MaxCrash = 2
  Ops = {"sync", "delete", "rename", "link"}
  Faults = {"append"}
  Torn = FALSE
  Overlap = FALSE
  InitFiles <- TwoFiles
INVARIANTS TypeOK NamespaceDurable ExtentsDurable
PROPERTY NamespaceRefined
CHECK_DEADLOCK FALSE
