----------------------------- MODULE MCMetaLog -----------------------------
(* Instances of MetaLog for TLC.                                           *)
EXTENDS MetaLog

\* "a" and "b" are files, "c" is free.
TwoFiles == [n \in Names |-> IF n = "a" THEN 1 ELSE IF n = "b" THEN 2 ELSE NoFile]
OneFile == [n \in Names |-> IF n = "a" THEN 1 ELSE NoFile]
=============================================================================
