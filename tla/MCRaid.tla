-------------------------------- MODULE MCRaid --------------------------------
(* Instances of Raid for TLC. *)
EXTENDS Raid

(* Zones 0 and NZ have the same address in RAID-C.  Zone 0 is the meta     *)
(* zone of RAID-auto.                                                      *)
MCInPlay ==
    [RAID0 |-> {{1}}, RAID1 |-> {{0, 1}}, RAIDC |-> {{0, 6}},
     AUTO0 |-> {{0}, {1}}, AUTO1 |-> {{1}}]
=============================================================================
