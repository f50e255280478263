--------------------------- MODULE MCZoneTokens ---------------------------
(* Instances of ZoneTokens for TLC. *)
EXTENDS ZoneTokens

CONSTANTS w1, n1, n2, n3

OneWal == {w1}
ThreeOthers == {n1, n2, n3}
=============================================================================
