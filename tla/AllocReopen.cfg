SPECIFICATION Spec
CONSTANTS
  f1 = f1
  f2 = f2
  GC = GC
  GCEnabled = TRUE
  Files = {f1}
  Wal = {}
  Direct = {f1}
  Hint <- NoHints
  NZones = 2
  MaxCap = 2
  MaxOpen = 3
  MaxActive = 1
  FinishThreshold = 60
  MaxWrite = 1
  Faults = {"close", "reset", "persist", "migrate"}
  InitExt <- LoneExt
  InitCapacity <- UsedCapacity
INVARIANT UsedCapacityExact
PROPERTY ResetOnlyDead
CHECK_DEADLOCK FALSE
