SPECIFICATION Spec
CONSTANTS
  Names = {"a", "b", "c"}
  MaxId = 4
  MetaZones = 3
  MetaCap = 4
  MaxExt = 2
  MaxOps = 2
  MaxCrash = 1
  Ops = {"create", "sync", "delete", "rename", "link", "migrate"}
  Faults = {"append", "end", "roll"}
  Torn = TRUE
  Overlap = TRUE
  InitFiles <- TwoFiles
INVARIANTS NamesMatchLinks SurvivesFaults
CHECK_DEADLOCK FALSE
