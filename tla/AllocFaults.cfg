SPECIFICATION Spec
CONSTANTS
  f1 = f1
  f2 = f2
  GC = GC
  GCEnabled = FALSE
  Files = {f1, f2}
  Wal = {f2}
  Direct = {f1}
  Hint <- SameHints
  NZones = 2
  MaxCap = 2
  MaxOpen = 2
  MaxActive = 2
  FinishThreshold = 60
  MaxWrite = 2
  Faults = {"finish", "write", "persist"}
  InitExt <- FreshExt
  InitCapacity <- FreshCapacity
INVARIANTS TypeOK BusyExclusive OpenTokensAccounted ActiveLimit
PROPERTY ResetOnlyDead
CHECK_DEADLOCK FALSE
