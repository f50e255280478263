-------------------------- MODULE MCZoneAllocator --------------------------
(* Instances of ZoneAllocator for TLC.                                     *)
EXTENDS ZoneAllocator, TLC

CONSTANTS f1, f2

\* All files have one lifetime hint, or f1 lives longer than the others.
SameHints == [f \in Files |-> 2]
MixedHints == [f \in Files |-> IF f = f1 THEN 3 ELSE 2]
NoHints == [f \in Files |-> 0]

\* A freshly formatted device.
FreshExt == [f \in Files |-> [z \in Zones |-> 0]]
FreshCapacity == [z \in Zones |-> MaxCap]

\* A mounted file system with something to collect: zone 1 is full and holds
\* one block of f1 beside garbage, zone 2 is half full with a block of f2.
UsedExt ==
  [f \in Files |-> [z \in Zones |->
     IF (f = f1 /\ z = 1) \/ (f = f2 /\ z = 2) THEN 1 ELSE 0]]
UsedCapacity == [z \in Zones |-> IF z = 1 THEN 0 ELSE IF z = 2 THEN 1 ELSE MaxCap]

\* The same device with one file, which has a block in each of the two zones.
LoneExt == [f \in Files |-> [z \in Zones |-> IF z <= 2 THEN 1 ELSE 0]]
=============================================================================
