SPECIFICATION Spec
CONSTANTS
  Modes = {"RAID0", "RAID1", "RAIDC", "AUTO0", "AUTO1"}
  N = 2
  NZ = 6
  ZB = 2
  Meta = 1
  InPlay <- MCInPlay
  MaxAppend = 2
  MaxResets = 1
  MaxLosses = 1
  Faults = {"write", "finish", "reset"}
INVARIANTS
  TypeOK
  ReadNeverWrong
  OneLossSurvived
  ReportedWpRight
  MapInjective
CHECK_DEADLOCK FALSE
