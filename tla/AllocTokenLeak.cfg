SPECIFICATION Spec
CONSTANTS
  f1 = f1
  f2 = f2
  GC = GC
  GCEnabled = FALSE
  Files = {f1, f2}
  Wal = {f2}
  Direct = {f1}
  Hint <- MixedHints
  NZones = 2
  MaxCap = 2
  MaxOpen = 2
  MaxActive = 2
  FinishThreshold = 0
  MaxWrite = 2
  Faults = {}
  InitExt <- FreshExt
  InitCapacity <- FreshCapacity
INVARIANT ActiveTokensReturned
