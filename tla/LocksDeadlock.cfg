SPECIFICATION Spec
CONSTANTS
  Users = {u1}
  GC = GC
  None = None
  Files = {a}
  Faults = {}
PROPERTIES MigrationEnds
CHECK_DEADLOCK FALSE
