SPECIFICATION Spec
CONSTANTS
  f1 = f1
  f2 = f2
  GC = GC
  GCEnabled = TRUE
  Files = {f1, f2}
  Wal = {f2}
  Direct = {f1, f2}
  Hint <- NoHints
  NZones = 2
  MaxCap = 2
  MaxOpen = 1
  MaxActive = 1
  FinishThreshold = 60
  MaxWrite = 1
  Faults = {"close", "reset", "persist", "migrate", "write"}
  InitExt <- UsedExt
  InitCapacity <- UsedCapacity
INVARIANTS BusyExclusive UsedCapacityExact LiveDataWritten
PROPERTY ResetOnlyDead
CHECK_DEADLOCK FALSE
