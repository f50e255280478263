--------------------------- MODULE MCFileRecovery ---------------------------
(* Instances of FileRecovery for TLC.                                      *)
EXTENDS FileRecovery, TLC

CONSTANTS z1, z2, z3

(* A device whose zones are followed by no other io zone, or by addresses  *)
(* that cannot be written: the zones are interchangeable, for the          *)
(* allocator may give any of them.                                         *)
NoneFollows == [z \in Zones |-> NoZone]
Symmetry == Permutations(Zones)

(* Three io zones at consecutive addresses. *)
InARow == [z \in Zones |-> IF z = z1 THEN z2 ELSE IF z = z2 THEN z3 ELSE NoZone]
=============================================================================
