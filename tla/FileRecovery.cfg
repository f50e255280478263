SPECIFICATION Spec
CONSTANTS
  Zones = {z1, z2, z3}
  NoZone = NoZone
  z1 = z1
  z2 = z2
  z3 = z3
  B = 2
  ZoneBlocks = 2
  ZoneSize = 5
  Following <- NoneFollows
  BufBlocks = 2
  Modes = {"sparse", "buffered", "direct"}
  TornModes = {"sparse", "buffered", "direct"}
  Faults = {"write", "persist"}
  MaxUnits = 5
  MaxDirect = 8
  MaxOther = 1
  MaxCrashes = 2
  MaxFails = 1
INVARIANTS TypeOK ReadsWritten CrashSafe ExtentsWritten
SYMMETRY Symmetry
CHECK_DEADLOCK FALSE
