SPECIFICATION Spec
CONSTANTS
  f1 = f1
  f2 = f2
  GC = GC
  GCEnabled = TRUE
  Files = {f1}
  Wal = {}
  Direct = {f1}
  Hint <- NoHints
  NZones = 2
  MaxCap = 2
  MaxOpen = 3
  MaxActive = 1
  FinishThreshold = 60
  MaxWrite = 1
  Faults = {"close"}
  InitExt <- LoneExt
  InitCapacity <- UsedCapacity
INVARIANT MigratedFileClosed
CHECK_DEADLOCK FALSE
