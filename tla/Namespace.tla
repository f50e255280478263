----------------------------- MODULE Namespace -----------------------------
(***************************************************************************)
(* What the metadata log promises: a name space that changes by whole      *)
(* operations.  A rename needs a free target: AquaFS deletes an existing   *)
(* target in an operation of its own first.                                *)
(***************************************************************************)
CONSTANTS Names, Ids, NoFile
VARIABLE ns  \* ns[n]: the file that name n stands for on the device

Init == ns \in [Names -> Ids \cup {NoFile}]

Create(n) ==
  /\ ns[n] = NoFile
  /\ \E id \in Ids : /\ \A m \in Names : ns[m] # id
                     /\ ns' = [ns EXCEPT ![n] = id]

Delete(n) ==
  /\ ns[n] # NoFile
  /\ ns' = [ns EXCEPT ![n] = NoFile]

Rename(n, m) ==
  /\ ns[n] # NoFile /\ ns[m] = NoFile
  /\ ns' = [x \in Names |-> IF x = n THEN NoFile ELSE IF x = m THEN ns[n] ELSE ns[x]]

Link(n, m) ==
  /\ ns[n] # NoFile /\ ns[m] = NoFile
  /\ ns' = [ns EXCEPT ![m] = ns[n]]

Next ==
  \/ \E n \in Names : Create(n) \/ Delete(n)
  \/ \E n, m \in Names : Rename(n, m) \/ Link(n, m)

Spec == Init /\ [][Next]_ns
=============================================================================
