SPECIFICATION Spec
CONSTANTS
  Names = {"a", "b", "c"}
  MaxId = 2
  MetaZones = 3
  MetaCap = 4
  MaxExt = 1
  MaxOps = 1
  MaxCrash = 0
  Ops = {"rename"}
  Faults = {"append"}
  Torn = FALSE
  Overlap = FALSE
  InitFiles <- TwoFiles
INVARIANTS AcknowledgedDone
CHECK_DEADLOCK FALSE
