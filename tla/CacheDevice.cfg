SPECIFICATION Spec
CONSTANTS
  Size = 3
  Values = {0, 1}
  Blank = 0
  Capacity = 2
  Faults = {"write", "read", "reset"}
INVARIANTS TypeOK Coherent
PROPERTIES DeviceSpec
