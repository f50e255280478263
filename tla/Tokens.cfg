CONSTANTS
  w1 = w1
  n1 = n1
  n2 = n2
  n3 = n3
  Wal <- OneWal
  NonWal <- ThreeOthers
  MaxOpen = 3
  MaxActive = 2
  NrZones = 3
  MaxLost = 1
SPECIFICATION Spec
INVARIANTS TypeOK OpenTokensOwed ActiveTokensExact ReservedForWal
PROPERTY WaitersAreServed
