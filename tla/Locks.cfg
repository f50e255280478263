SPECIFICATION Spec
CONSTANTS
  Users = {u1, u2}
  GC = GC
  None = None
  Files = {a, b}
  Faults = {"persist", "close"}
INVARIANTS TypeOK WriterExclusive ActiveZoneAsserts LocksReturned
CHECK_DEADLOCK FALSE
