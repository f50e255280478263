--------------------------- MODULE MetaLogProofs ---------------------------
(***************************************************************************)
(* What a mount finds on the metadata log, for every number of names,      *)
(* zones and records and whatever fails: the theorems about MetaLog.       *)
(*                                                                         *)
(* The inductive invariant has four layers.  Types and FoundInv say what   *)
(* memory and the zones can hold at each step of a roll, and that found is *)
(* what a mount would recover.  NameInv says that the log of every zone    *)
(* that can be read stands for a name space in which names and links       *)
(* agree, that the log of the current zone stands for the name space       *)
(* before the operation under way, and that the record of that operation   *)
(* is what it has done in memory; a creation lost in a roll breaks it, so  *)
(* it is claimed while none was.  DiskInv says which zone a mount recovers *)
(* from: the current one, or the old one until the new one has its         *)
(* snapshot; it is claimed while no write was cut short and no roll given  *)
(* up.  ExtInv says that this log has the extents that count as synced; it *)
(* is claimed while no migration and no push came between.  MarkInv says   *)
(* which of these events the parameters allow.                             *)
(*                                                                         *)
(* Replay and TryZones are recursive functions: the lemmas about them go   *)
(* by induction over the records of a log and the zones of the device, in  *)
(* the form Induction, which is about a set and not about an operator.     *)
(***************************************************************************)
EXTENDS MetaLog, TLAPS, FiniteSetTheorems, NaturalsInduction,
        WellFoundedInduction, SequenceTheorems

-----------------------------------------------------------------------------
(* Types.                                                                  *)

\* The sets of the values of MetaLog: inodes, records, zones, the states of recovery
\* and the operation under way.
Data == {"d", "m"}
NoIds == {NoFile} \cup Ids
FileMaps == [Names -> NoIds]
Inodes == {x \in [links : Seq(Names), ext : Seq(Data), synced : Nat] :
             x.synced <= Len(x.ext)}
FileRecs == [id : Ids, links : Seq(Names), ext : Seq(Data)]
Supers == [type : {"super"}, seq : Nat]
Snapshots == [type : {"snapshot"}, files : SUBSET FileRecs]
Updates == [type : {"update", "replace"}, file : FileRecs]
Deletions == [type : {"deletion"}, id : Ids, name : Names]
Marked == {Invalid, [type |-> "end"]}
Records == Supers \cup Snapshots \cup Updates \cup Deletions \cup Marked
Devices == [MZones -> Seq(Records)]
Statuses == {"OK", "Corruption", "NotFound"}
States == [files : FileMaps, inode : [Ids -> Inodes], snapshot : BOOLEAN,
           status : Statuses]
Operations == [kind : OpKinds \cup {"none", "mount"}, name : Names \cup {"-"},
               to : Names \cup {"-"}, id : NoIds, phase : {1, 2},
               before : FileMaps]

-----------------------------------------------------------------------------
(* The operation under way and what it has done to the name space.         *)

\* The name whose removal is being persisted.
Removing == op.phase = 1 \/ op.kind = "delete"
Removed == IF op.kind = "rename" THEN op.to ELSE op.name

\* The operations that leave the name space alone.
Steady == {"none", "mount", "sync", "migrate"}
\* File id is in its create phase: not in files_ before its record is written.
Creating(id) == op.kind = "create" /\ op.phase = 2 /\ op.id = id

\* The types of the operation, by its kind.
OpTypes ==
  /\ op \in Operations
  /\ op.phase = 1 => op.kind \in {"create", "rename"}
  /\ op.kind \in {"create", "sync", "delete"} => op.name \in Names
  /\ op.kind \in {"rename", "link"} => op.name \in Names /\ op.to \in Names
  /\ op.kind \notin {"none", "mount"} => op.id \in Ids
  /\ op.kind = "rename" /\ op.phase = 1 => files[op.name] # NoFile

\* What the operation has done to files_ since it began.
OpInv ==
  /\ op.kind \in Steady => op.before = files
  /\ Removing => /\ op.before[Removed] = op.id
                 /\ files = [op.before EXCEPT ![Removed] = NoFile]
  /\ op.kind = "rename" => op.name # op.to
  /\ op.kind = "rename" /\ op.phase = 2 =>
       /\ op.before[op.name] = op.id /\ op.before[op.to] = NoFile
       /\ files = [op.before EXCEPT ![op.name] = NoFile, ![op.to] = op.id]
  /\ op.kind = "link" =>
       /\ op.before[op.name] = op.id /\ op.before[op.to] = NoFile
       /\ files = [op.before EXCEPT ![op.to] = op.id]
  /\ op.kind = "create" /\ op.phase = 2 =>
       /\ op.before = files /\ files[op.name] = NoFile
       /\ \A n \in Names : files[n] # op.id

\* The steps of a roll.
Rolling == {"alloc", "end", "finish", "super", "snap", "write", "reset"}

\* What the program has done at each of its steps.
StepInv ==
  /\ pc = "idle" => op.kind = "none"
  /\ pc \notin {"idle", "down"} => op.kind # "none"
  /\ pc = "persist" => op.kind # "mount"
  /\ pc # "down" => cur \in MZones
  /\ pc \in {"end", "finish", "super", "snap", "write", "reset"} =>
       old \in MZones /\ old # cur
  /\ pc \in {"end", "finish", "super"} => log[cur] = <<>>
  /\ pc \in {"snap", "write"} => log[cur] = <<[type |-> "super", seq |-> seq]>>
  /\ pc = "reset" => Len(log[cur]) = 2

\* The record about to be written.
RecTypes ==
  /\ pc = "persist" => rec \in Updates \cup Deletions
  /\ pc = "write" => rec \in Snapshots

\* The types of the device, of memory, and all of them.
DiskTypes ==
  /\ log \in Devices /\ \A z \in MZones : Len(log[z]) <= MetaCap
  /\ full \in [MZones -> BOOLEAN]
  /\ cur \in 0..MetaZones /\ old \in 0..MetaZones /\ seq \in Nat
MemTypes ==
  /\ files \in FileMaps /\ inode \in [Ids -> Inodes]
  /\ next_id \in 1..(MaxId + 1)
  /\ mig \in [id : NoIds, ext : Seq(Data)] /\ (mig.id = NoFile => mig = NoMig)
Types ==
  /\ DiskTypes /\ MemTypes /\ pc \in Steps /\ spoilt \subseteq Marks
  /\ OpTypes /\ StepInv /\ RecTypes

\* found is what a mount would recover.
FoundInv == found = Recover(log)

-----------------------------------------------------------------------------
(* Names and links.                                                        *)

\* A map of names and the links of the files agree.
Agree(fs, links) ==
  \A id \in Ids : /\ Range(links[id]) = {n \in Names : fs[n] = id}
                  /\ IsInjective(links[id])

\* The links of the files; those of a file being created do not count yet.
Links(ino) == [id \in Ids |-> ino[id].links]
MemLinks == [id \in Ids |-> IF Creating(id) THEN <<>> ELSE inode[id].links]

\* The records of a log name the ids that its replay finds.
LogIds(l) == UNION {IdsOf(r) : r \in Range(l)}

\* A log that a mount can recover from, and what it recovers.
HasSnapshot(l) == Len(l) >= 2 /\ l[2].type = "snapshot"
Replayed(l) == Replay(Empty, l)

\* What a log without a lost creation stands for.
Sound(l) ==
  HasSnapshot(l) /\ Replayed(l).status = "OK" =>
    /\ Agree(Replayed(l).files, Links(Replayed(l).inode))
    /\ \A n \in Names : Replayed(l).files[n] \in LogIds(l) \cup {NoFile}

\* The log has a superblock first, and a snapshot in second place or nowhere.
Shape(l) ==
  /\ HasSnapshot(l) => l[1].type = "super"
  /\ \A i \in 3..Len(l) : l[i].type # "snapshot"

\* The files that have a name.
Named(fs) == {fs[n] : n \in Names} \ {NoFile}

\* A snapshot has the files that have a name, with their links.
SnapshotOf(fs, links, S) ==
  /\ \A f \in S : f.id \in Named(fs) /\ f.links = links[f.id]
  /\ \A id \in Named(fs) : \E f \in S : f.id = id

\* The name space that the device has during the operation.
OnDisk == IF pc = "reset" THEN files ELSE op.before

\* The record says what the operation has done to the names in memory.
RecLinks ==
  /\ pc = "persist" /\ Removing =>
       rec = [type |-> "deletion", id |-> op.id, name |-> Removed]
  /\ pc = "persist" /\ ~Removing =>
       /\ rec.type = (IF op.kind = "migrate" THEN "replace" ELSE "update")
       /\ rec.file.id = op.id /\ rec.file.links = inode[op.id].links
       /\ op.kind = "create" => rec.file.links = <<op.name>> /\ rec.file.ext = <<>>
       /\ op.kind # "create" => \E n \in Names : op.before[n] = op.id
  /\ pc = "write" => SnapshotOf(files, Links(inode), rec.files)

\* The part of the invariant about memory.
MemCore ==
  /\ OpInv /\ RecLinks
  /\ Agree(files, MemLinks)
  /\ op.kind = "create" /\ op.phase = 2 => inode[op.id].links = <<op.name>>
  /\ \A n \in Names : files[n] < next_id
  /\ op.id < next_id /\ mig.id < next_id
  /\ pc \in Rolling => ~(op.kind = "create" /\ op.phase = 2)

\* What a log stands for, if it can be read.
Stands(l, fs) == HasSnapshot(l) /\ Replayed(l).status = "OK" => Replayed(l).files = fs
CurInv == Stands(log[cur], OnDisk)
SoundLogs == \A z \in MZones : Sound(log[z])

\* The invariant about names, as long as no creation was lost.
NameInv ==
  /\ pc # "down" => MemCore /\ CurInv
  /\ SoundLogs

\* Every log has that shape.
ShapeInv == \A z \in MZones : Shape(log[z])

-----------------------------------------------------------------------------
(* Durability of the name space.                                           *)

\* Nothing has happened that may cost names.
Unspoilt == spoilt \cap {"torn", "roll", "create"} = {}

\* A mount recovers from zone m of contents d.
Main(d, m) ==
  /\ m \in Valid(d)
  /\ \A y \in Valid(d) : d[y][1].type = "super"
  /\ HasSnapshot(d[m]) /\ Replayed(d[m]).status = "OK"
  /\ \A y \in Valid(d) : Newer(d, y, m) => Len(d[y]) = 1

\* The zone a mount recovers from.
MainZone == IF pc \in {"end", "finish", "super", "snap", "write"} THEN old ELSE cur

\* The invariant about the device, as long as Unspoilt.
DiskInv ==
  /\ Main(log, found.zone)
  /\ pc # "down" =>
       /\ found.zone = MainZone
       /\ found.st.files = OnDisk
       /\ IF pc \in {"snap", "write"} THEN seq > log[old][1].seq
          ELSE seq = log[MainZone][1].seq
  /\ pc = "down" => found.st.files \in {op.before, After}

-----------------------------------------------------------------------------
(* Durability of the extents.                                              *)

\* The roll has written the extents of the file under migration.
MigDone == pc = "reset" /\ op.kind = "migrate"

\* What the operation under way has to do with the file under migration, and what
\* is in its record.
MemExt ==
  /\ op.kind = "migrate" => mig.id = op.id
  /\ op.kind = "sync" => mig.id # op.id
  /\ op.kind = "create" /\ op.phase = 2 => mig.id # op.id /\ inode[op.id].ext = <<>>
  /\ mig.id # NoFile /\ ~MigDone => inode[mig.id].synced = 0
  /\ pc = "persist" /\ ~Removing /\ ~(op.kind \in {"rename", "link"} /\ op.id = mig.id) =>
       rec.file.ext = SubSeq(inode[op.id].ext, inode[op.id].synced + 1,
                             Len(inode[op.id].ext))
  /\ pc = "write" /\ (mig = NoMig \/ op.kind = "migrate") => rec = Snapshot
  /\ pc = "reset" =>
       \A id \in Ids : \/ \A n \in Names : files[n] # id
                       \/ id = mig.id /\ ~MigDone
                       \/ inode[id].synced = Len(inode[id].ext)

\* The log has the extents that count as synced; of the file under migration, those
\* it had before.
DiskExt ==
  \A id \in Named(found.st.files) :
    found.st.inode[id].ext =
      IF id = mig.id /\ ~MigDone THEN mig.ext
      ELSE SubSeq(inode[id].ext, 1, inode[id].synced)

\* The invariant about extents, as long as spoilt is empty.
ExtInv == MemExt /\ DiskExt

-----------------------------------------------------------------------------
(* Induction.                                                              *)

\* The order of the naturals as a relation.
Smaller == {ss \in Nat \X Nat : ss[1] < ss[2]}

(* A set of naturals that is not empty has a least element. *)
LEMMA LeastNatural ==
    ASSUME NEW T, T \subseteq Nat, T # {}
    PROVE  \E x \in T : \A y \in T : x <= y
<1>1. OpToRel(<, Nat) = Smaller
    BY Zenon DEF OpToRel, Smaller
<1>2. IsWellFoundedOn(Smaller, Nat)
    BY <1>1, NatLessThanWellFounded, Zenon
<1>3. \E x \in T : \A y \in T : ~(<<y, x>> \in Smaller)
    BY <1>2, WFMin, Zenon
<1>4. PICK x \in T : \A y \in T : ~(<<y, x>> \in Smaller)
    BY <1>3
<1>5. ASSUME NEW y \in T PROVE x <= y
  <2>1. x \in Nat /\ y \in Nat
      BY <1>4
  <2>2. ~(y < x)
      BY <1>4, <2>1 DEF Smaller
  <2> QED BY <2>1, <2>2
<1> QED BY <1>4, <1>5

(* Induction over the naturals, for the elements of a set. *)
LEMMA Induction ==
    ASSUME NEW S, 0 \in S, \A n \in Nat : n \in S => n + 1 \in S
    PROVE  \A n \in Nat : n \in S
<1> DEFINE T == Nat \ S
<1> SUFFICES ASSUME T # {} PROVE FALSE
    OBVIOUS
<1>1. PICK x \in T : \A y \in T : x <= y
    BY LeastNatural
<1>2. x \in Nat /\ x # 0 /\ x - 1 \in Nat /\ x - 1 \notin T
    BY <1>1
<1>3. x - 1 \in S /\ (x - 1) + 1 = x
    BY <1>2
<1> QED BY <1>1, <1>2, <1>3

(* The greatest element of a bounded set of naturals. *)
LEMMA Greatest ==
    ASSUME NEW n \in Nat, NEW s, s \subseteq 0 .. n, s # {}
    PROVE  Max(s) \in s /\ \A y \in s : y <= Max(s)
<1> DEFINE T == {m \in Nat : \A y \in s : y <= m}
<1>1. n \in T
    OBVIOUS
<1>2. PICK m \in T : \A k \in T : m <= k
    BY <1>1, LeastNatural
<1>3. m \in s
  <2> SUFFICES ASSUME m \notin s PROVE FALSE
      OBVIOUS
  <2>0. m \in Nat /\ \A y \in s : y <= m
      BY <1>2
  <2>1. ASSUME NEW y \in s PROVE y <= m - 1 /\ m >= 1
    <3>1. y \in Nat /\ y # m /\ y <= m
        BY <2>0
    <3> QED BY <3>1, <2>0
  <2>2. m - 1 \in Nat
    <3>1. PICK y \in s : TRUE
        OBVIOUS
    <3> QED BY <3>1, <2>1, <2>0
  <2>3. m - 1 \in T
      BY <2>1, <2>2
  <2>4. m <= m - 1
      BY <2>3, <1>2
  <2> QED BY <2>4, <2>0
<1>4. \E u \in s : \A y \in s : u >= y
    BY <1>2, <1>3
<1>5. Max(s) \in s /\ \A y \in s : Max(s) >= y
    BY <1>4 DEF Max
<1> QED BY <1>5

-----------------------------------------------------------------------------
(* Replay.                                                                 *)

\* What RecoverFrom starts with.
Begun(st) == [st EXCEPT !.snapshot = FALSE, !.status = "OK"]

(* Replay as the fixpoint of its loop. *)
ReplayStep(st, l, g, i) == IF i = 1 THEN Begun(st) ELSE Decode(g[i - 1], l[i])
ReplayFun(st, l) == CHOOSE g : g = [i \in 1..Len(l) |-> ReplayStep(st, l, g, i)]

(* Replay is defined by that fixpoint. *)
LEMMA ReplayIsFun ==
    ASSUME NEW st, NEW l
    PROVE  Replay(st, l) = ReplayFun(st, l)[Len(l)]
BY Zenon DEF Replay, ReplayFun, ReplayStep, Begun

(* The fixpoint exists: it is built one record at a time. *)
LEMMA ReplayFixpoint ==
    ASSUME NEW st, NEW l, Len(l) \in Nat
    PROVE  ReplayFun(st, l) = [i \in 1..Len(l) |-> ReplayStep(st, l, ReplayFun(st, l), i)]
<1> DEFINE D == 1..Len(l)
           Good(g, k) == \A i \in D : i <= k => g[i] = ReplayStep(st, l, g, i)
           S == {k \in Nat : \E g : g = [i \in D |-> g[i]] /\ Good(g, k)}
<1>1. 0 \in S
  <2> DEFINE g == [i \in D |-> 0]
  <2>1. Good(g, 0) /\ g = [i \in D |-> g[i]]
      OBVIOUS
  <2> QED BY <2>1
<1>2. ASSUME NEW k \in Nat, k \in S PROVE k + 1 \in S
  <2>1. PICK g : g = [i \in D |-> g[i]] /\ Good(g, k)
      BY <1>2
  <2> DEFINE h == [i \in D |-> ReplayStep(st, l, g, i)]
  <2>2. ASSUME NEW i \in D, i <= k + 1 PROVE h[i] = ReplayStep(st, l, h, i)
    <3>1. CASE i = 1
        BY <3>1 DEF ReplayStep
    <3>2. CASE i # 1
      <4>1. i - 1 \in D /\ i - 1 <= k
          BY <2>2, <3>2
      <4>2. h[i - 1] = g[i - 1]
          BY <2>1, <4>1
      <4>3. h[i] = ReplayStep(st, l, g, i)
          OBVIOUS
      <4> QED BY <3>2, <4>2, <4>3 DEF ReplayStep
    <3> QED BY <3>1, <3>2
  <2>3. Good(h, k + 1) /\ h = [i \in D |-> h[i]]
      BY <2>2
  <2>4. \E u : u = [i \in D |-> u[i]] /\ Good(u, k + 1)
    <3> HIDE DEF h, Good
    <3> QED BY <2>3, Zenon
  <2> HIDE DEF Good
  <2> QED BY <2>4
<1>3. Len(l) \in S
  <2> HIDE DEF S
  <2> QED BY <1>1, <1>2, Induction
<1>4. PICK g : g = [i \in D |-> g[i]] /\ Good(g, Len(l))
    BY <1>3
<1>5. g = [i \in 1..Len(l) |-> ReplayStep(st, l, g, i)]
    BY <1>4
<1> QED BY <1>5 DEF ReplayFun

(* The state after i records does not depend on the records behind them. *)
LEMMA ReplayPrefix ==
    ASSUME NEW st, NEW l, NEW m, Len(l) \in Nat, Len(m) \in Nat, Len(l) <= Len(m),
           \A i \in 1..Len(l) : m[i] = l[i]
    PROVE  \A i \in 1..Len(l) : ReplayFun(st, m)[i] = ReplayFun(st, l)[i]
<1> DEFINE G == ReplayFun(st, l)
           H == ReplayFun(st, m)
           S == {k \in Nat : k \in 1..Len(l) => H[k] = G[k]}
<1>1. /\ G = [i \in 1..Len(l) |-> ReplayStep(st, l, G, i)]
      /\ H = [i \in 1..Len(m) |-> ReplayStep(st, m, H, i)]
    BY ReplayFixpoint
<1> HIDE DEF G, H
<1>2. 0 \in S
    OBVIOUS
<1>3. ASSUME NEW k \in Nat, k \in S PROVE k + 1 \in S
  <2> SUFFICES ASSUME k + 1 \in 1..Len(l) PROVE H[k + 1] = G[k + 1]
      OBVIOUS
  <2>1. k + 1 \in 1..Len(m) /\ m[k + 1] = l[k + 1] /\ (k + 1) - 1 = k
      OBVIOUS
  <2>2. H[k + 1] = ReplayStep(st, m, H, k + 1) /\ G[k + 1] = ReplayStep(st, l, G, k + 1)
      BY <1>1, <2>1
  <2>3. CASE k = 0
      BY <2>2, <2>3 DEF ReplayStep
  <2>4. CASE k # 0
    <3>1. k \in 1..Len(l)
        BY <2>4
    <3>2. H[k] = G[k]
        BY <1>3, <3>1
    <3> QED BY <2>1, <2>2, <2>4, <3>2 DEF ReplayStep
  <2> QED BY <2>3, <2>4
<1>4. \A k \in Nat : k \in S
  <2> HIDE DEF S
  <2> QED BY <1>2, <1>3, Induction
<1> QED BY <1>4 DEF G, H

(* A log of one record, the superblock. *)
LEMMA ReplayOne ==
    ASSUME NEW st, NEW l, Len(l) = 1
    PROVE  Replay(st, l) = Begun(st)
<1>1. ReplayFun(st, l) = [i \in 1..Len(l) |-> ReplayStep(st, l, ReplayFun(st, l), i)]
    BY ReplayFixpoint
<1>2. ReplayFun(st, l)[1] = ReplayStep(st, l, ReplayFun(st, l), 1)
    BY <1>1
<1> QED BY <1>2, ReplayIsFun DEF ReplayStep

(* One more record is decoded in the state that the others have left. *)
LEMMA ReplayAppend ==
    ASSUME NEW T, NEW st, NEW l \in Seq(T), NEW r \in T, Len(l) >= 1
    PROVE  Replay(st, Append(l, r)) = Decode(Replay(st, l), r)
<1> DEFINE m == Append(l, r)
           k == Len(l)
<1>1. /\ k \in Nat /\ k >= 1 /\ Len(m) = k + 1 /\ m[k + 1] = r
      /\ \A i \in 1..k : m[i] = l[i]
    OBVIOUS
<1> HIDE DEF m
<1>2. ReplayFun(st, m)[k] = ReplayFun(st, l)[k]
  <2>1. \A i \in 1..Len(l) : ReplayFun(st, m)[i] = ReplayFun(st, l)[i]
      BY <1>1, ReplayPrefix
  <2> QED BY <1>1, <2>1
<1>3. ReplayFun(st, m) = [i \in 1..Len(m) |-> ReplayStep(st, m, ReplayFun(st, m), i)]
    BY <1>1, ReplayFixpoint
<1>4. ReplayFun(st, m)[k + 1] = ReplayStep(st, m, ReplayFun(st, m), k + 1)
  <2>1. k + 1 \in 1..Len(m)
      BY <1>1
  <2> QED BY <1>3, <2>1
<1>5. (k + 1) - 1 = k /\ k + 1 # 1
    BY <1>1
<1> QED BY <1>1, <1>2, <1>4, <1>5, ReplayIsFun DEF ReplayStep, m
-----------------------------------------------------------------------------
(* Sequences.                                                              *)

(* The range of a sequence. *)
LEMMA RangeSeq ==
    ASSUME NEW S, NEW s \in Seq(S)
    PROVE  Range(s) = {s[i] : i \in 1..Len(s)} /\ Range(s) \subseteq S
<1>1. DOMAIN s = 1..Len(s) /\ \A i \in 1..Len(s) : s[i] \in S
    OBVIOUS
<1> QED BY <1>1 DEF Range

(* One element more. *)
LEMMA AppendRange ==
    ASSUME NEW S, NEW s \in Seq(S), NEW e \in S
    PROVE  /\ Append(s, e) \in Seq(S)
           /\ Range(Append(s, e)) = Range(s) \cup {e}
           /\ IsInjective(s) /\ e \notin Range(s) => IsInjective(Append(s, e))
<1> DEFINE t == Append(s, e)
<1>1. /\ t \in Seq(S) /\ Len(t) = Len(s) + 1 /\ t[Len(s) + 1] = e /\ Len(s) \in Nat
      /\ \A i \in 1..Len(s) : t[i] = s[i]
    OBVIOUS
<1>2. DOMAIN t = 1..(Len(s) + 1) /\ DOMAIN s = 1..Len(s)
    BY <1>1
<1> HIDE DEF t
<1>3. Range(t) = Range(s) \cup {e}
  <2>1. ASSUME NEW i \in 1..(Len(s) + 1) PROVE t[i] \in Range(s) \cup {e}
    <3>1. CASE i = Len(s) + 1
        BY <1>1, <3>1
    <3>2. CASE i \in 1..Len(s)
        BY <1>1, <1>2, <3>2 DEF Range
    <3> QED BY <1>1, <3>1, <3>2
  <2>2. ASSUME NEW i \in 1..Len(s) PROVE s[i] \in Range(t)
    <3>1. i \in 1..(Len(s) + 1) /\ t[i] = s[i]
        BY <1>1
    <3> QED BY <1>2, <3>1 DEF Range
  <2>3. e \in Range(t)
    <3>1. Len(s) + 1 \in 1..(Len(s) + 1)
        BY <1>1
    <3> QED BY <1>1, <1>2, <3>1 DEF Range
  <2>4. Range(t) \subseteq Range(s) \cup {e}
      BY <1>2, <2>1 DEF Range
  <2>5. Range(s) \subseteq Range(t)
      BY <1>2, <2>2 DEF Range
  <2> QED BY <2>3, <2>4, <2>5
<1>4. ASSUME IsInjective(s), e \notin Range(s) PROVE IsInjective(t)
  <2> SUFFICES ASSUME NEW a \in 1..(Len(s) + 1), NEW b \in 1..(Len(s) + 1), t[a] = t[b]
               PROVE  a = b
      BY <1>2 DEF IsInjective
  <2>1. \A i \in 1..Len(s) : t[i] # e
      BY <1>1, <1>2, <1>4 DEF Range
  <2>2. CASE a = Len(s) + 1 \/ b = Len(s) + 1
      BY <1>1, <2>1, <2>2
  <2>3. CASE a \in 1..Len(s) /\ b \in 1..Len(s)
      BY <1>1, <1>2, <1>4, <2>3 DEF IsInjective
  <2> QED BY <1>1, <2>2, <2>3
<1> QED BY <1>1, <1>3, <1>4 DEF t

(* One element less: the first occurrence of a link name is erased. *)
LEMMA RemoveFirstRange ==
    ASSUME NEW S, NEW s \in Seq(S), NEW e
    PROVE  /\ RemoveFirst(s, e) \in Seq(S)
           /\ IsInjective(s) => /\ IsInjective(RemoveFirst(s, e))
                                /\ Range(RemoveFirst(s, e)) = Range(s) \ {e}
<1>0. Len(s) \in Nat /\ DOMAIN s = 1..Len(s) /\ \A i \in 1..Len(s) : s[i] \in S
    OBVIOUS
<1>1. CASE ~\E i \in 1..Len(s) : s[i] = e
  <2>1. RemoveFirst(s, e) = s
      BY <1>1 DEF RemoveFirst
  <2>2. e \notin Range(s)
      BY <1>0, <1>1 DEF Range
  <2> QED BY <2>1, <2>2
<1>2. CASE \E i \in 1..Len(s) : s[i] = e
  <2> DEFINE I == {i \in 1..Len(s) : s[i] = e}
             k == Min(I)
             t == SubSeq(s, 1, k - 1) \o SubSeq(s, k + 1, Len(s))
  <2>1. I \subseteq Nat /\ I # {}
      BY <1>0, <1>2
  <2>2. PICK lo \in I : \A y \in I : lo <= y
    <3> HIDE DEF I
    <3> QED BY <2>1, LeastNatural
  <2>3. k \in I
    <3> HIDE DEF I
    <3> QED BY <2>2 DEF Min
  <2>4. RemoveFirst(s, e) = t
      BY <1>2 DEF RemoveFirst, SelectInSeq, RemoveAt
  <2> HIDE DEF k
  <2>5. k \in 1..Len(s) /\ s[k] = e
      BY <2>3
  <2>6. /\ SubSeq(s, 1, k - 1) \in Seq(S) /\ Len(SubSeq(s, 1, k - 1)) = k - 1
        /\ SubSeq(s, k + 1, Len(s)) \in Seq(S) /\ Len(SubSeq(s, k + 1, Len(s))) = Len(s) - k
        /\ \A i \in 1..(k - 1) : SubSeq(s, 1, k - 1)[i] = s[i]
        /\ \A i \in 1..(Len(s) - k) : SubSeq(s, k + 1, Len(s))[i] = s[k + i]
    <3>1. /\ \A i \in 1..(k - 1) : s[i] \in S
          /\ \A i \in (k + 1)..Len(s) : s[i] \in S
          /\ k - 1 \in Int /\ k + 1 \in Int /\ Len(s) \in Int
        BY <1>0, <2>5
    <3>2. /\ SubSeq(s, 1, k - 1) \in Seq(S)
          /\ Len(SubSeq(s, 1, k - 1)) = IF 1 <= k - 1 THEN (k - 1) - 1 + 1 ELSE 0
          /\ \A i \in 1..((k - 1) - 1 + 1) : SubSeq(s, 1, k - 1)[i] = s[1 + i - 1]
        BY <3>1, SubSeqProperties
    <3>3. /\ SubSeq(s, k + 1, Len(s)) \in Seq(S)
          /\ Len(SubSeq(s, k + 1, Len(s))) =
               IF k + 1 <= Len(s) THEN Len(s) - (k + 1) + 1 ELSE 0
          /\ \A i \in 1..(Len(s) - (k + 1) + 1) :
               SubSeq(s, k + 1, Len(s))[i] = s[(k + 1) + i - 1]
        BY <3>1, SubSeqProperties
    <3>4. \A i \in 1..(k - 1) : i \in 1..((k - 1) - 1 + 1) /\ 1 + i - 1 = i
        BY <2>5
    <3>5. \A i \in 1..(Len(s) - k) : i \in 1..(Len(s) - (k + 1) + 1) /\ (k + 1) + i - 1 = k + i
        BY <1>0, <2>5
    <3>6. (1 <= k - 1 => (k - 1) - 1 + 1 = k - 1) /\ (~(1 <= k - 1) => k - 1 = 0)
        BY <2>5
    <3>7. /\ (k + 1 <= Len(s) => Len(s) - (k + 1) + 1 = Len(s) - k)
          /\ (~(k + 1 <= Len(s)) => Len(s) - k = 0)
      <4>1. k \in Nat /\ Len(s) \in Nat /\ k <= Len(s)
          BY <1>0, <2>5
      <4>2. \A x, y \in Nat : x <= y => /\ (x + 1 <= y => y - (x + 1) + 1 = y - x)
                                        /\ (~(x + 1 <= y) => y - x = 0)
          OBVIOUS
      <4> QED BY <4>1, <4>2
    <3> DEFINE a == SubSeq(s, 1, k - 1)
               b == SubSeq(s, k + 1, Len(s))
    <3>8. a \in Seq(S) /\ Len(a) = k - 1
        BY <3>2, <3>6
    <3>9. b \in Seq(S) /\ Len(b) = Len(s) - k
        BY <3>3, <3>7
    <3>10. \A i \in 1..(k - 1) : a[i] = s[i]
      <4> HIDE DEF a
      <4> QED BY <3>2, <3>4 DEF a
    <3>11. \A i \in 1..(Len(s) - k) : b[i] = s[k + i]
      <4>1. ASSUME NEW i \in 1..(Len(s) - k) PROVE b[i] = s[k + i]
        <5>1. b[i] = s[(k + 1) + i - 1]
            BY <3>3, <3>5
        <5> QED BY <5>1, <3>5
      <4> QED BY <4>1
    <3> QED BY <3>8, <3>9, <3>10, <3>11
  <2>7. /\ t \in Seq(S) /\ Len(t) = Len(s) - 1
        /\ \A i \in 1..(Len(s) - 1) : t[i] = IF i < k THEN s[i] ELSE s[i + 1]
    <3> DEFINE a == SubSeq(s, 1, k - 1)
               b == SubSeq(s, k + 1, Len(s))
    <3>1. /\ a \in Seq(S) /\ b \in Seq(S) /\ Len(a) = k - 1 /\ Len(b) = Len(s) - k
        BY <2>6
    <3> HIDE DEF a, b
    <3>2. /\ a \o b \in Seq(S) /\ Len(a \o b) = Len(a) + Len(b)
          /\ \A i \in 1..(Len(a) + Len(b)) :
               (a \o b)[i] = IF i <= Len(a) THEN a[i] ELSE b[i - Len(a)]
        BY <3>1, ConcatProperties
    <3>3. Len(a) + Len(b) = Len(s) - 1
        BY <1>0, <2>5, <3>1
    <3>4. ASSUME NEW i \in 1..(Len(s) - 1) PROVE (a \o b)[i] = IF i < k THEN s[i] ELSE s[i + 1]
      <4>1. (a \o b)[i] = IF i <= Len(a) THEN a[i] ELSE b[i - Len(a)]
          BY <3>2, <3>3
      <4>2. CASE i < k
        <5>1. i <= Len(a) /\ i \in 1..(k - 1)
            BY <1>0, <2>5, <3>1, <4>2
        <5> QED BY <2>6, <4>1, <4>2, <5>1 DEF a
      <4>3. CASE ~(i < k)
        <5>1. ~(i <= Len(a)) /\ i - Len(a) \in 1..(Len(s) - k) /\ k + (i - Len(a)) = i + 1
            BY <1>0, <2>5, <3>1, <4>3
        <5> QED BY <2>6, <4>1, <4>3, <5>1 DEF b
      <4> QED BY <4>2, <4>3
    <3> QED BY <3>2, <3>3, <3>4 DEF a, b
  <2> HIDE DEF t
  <2>8. DOMAIN t = 1..(Len(s) - 1)
      BY <2>7
  <2>9. ASSUME IsInjective(s) PROVE IsInjective(t) /\ Range(t) = Range(s) \ {e}
    <3>1. \A i \in 1..Len(s), j \in 1..Len(s) : s[i] = s[j] => i = j
        BY <1>0, <2>9 DEF IsInjective
    <3>2. ASSUME NEW i \in 1..(Len(s) - 1), NEW j \in 1..(Len(s) - 1), t[i] = t[j]
          PROVE  i = j
      <4> DEFINE u(x) == IF x < k THEN x ELSE x + 1
      <4>1. u(i) \in 1..Len(s) /\ u(j) \in 1..Len(s)
          BY <1>0, <2>5
      <4>2. t[i] = s[u(i)] /\ t[j] = s[u(j)]
          BY <2>7
      <4>3. u(i) = u(j)
        <5> HIDE DEF u
        <5> QED BY <3>1, <3>2, <4>1, <4>2
      <4> QED BY <4>3, <2>5, <1>0
    <3>3. ASSUME NEW i \in 1..(Len(s) - 1) PROVE t[i] \in Range(s) \ {e}
      <4> DEFINE x == IF i < k THEN i ELSE i + 1
      <4>1. x \in 1..Len(s) /\ x # k
          BY <1>0, <2>5
      <4>2. t[i] = s[x]
          BY <2>7
      <4> HIDE DEF x
      <4>3. s[x] # s[k]
          BY <3>1, <4>1, <2>5
      <4> QED BY <4>1, <4>2, <4>3, <2>5, <1>0 DEF Range
    <3>4. ASSUME NEW i \in 1..Len(s), s[i] # e PROVE s[i] \in Range(t)
      <4> DEFINE x == IF i < k THEN i ELSE i - 1
      <4>1. i # k
          BY <2>5, <3>4
      <4>2. x \in 1..(Len(s) - 1) /\ t[x] = s[i]
        <5>1. CASE i < k
          <6>1. i \in 1..(Len(s) - 1)
              BY <5>1, <2>5, <1>0
          <6> QED BY <5>1, <6>1, <2>7
        <5>2. CASE i > k
          <6>1. i - 1 \in 1..(Len(s) - 1) /\ ~(i - 1 < k) /\ (i - 1) + 1 = i /\ ~(i < k)
              BY <5>2, <2>5, <1>0
          <6> QED BY <6>1, <2>7
        <5> QED BY <4>1, <5>1, <5>2, <2>5, <1>0
      <4> QED BY <4>2, <2>8 DEF Range
    <3>5. IsInjective(t)
        BY <2>8, <3>2 DEF IsInjective
    <3>6. Range(t) \subseteq Range(s) \ {e}
        BY <2>8, <3>3 DEF Range
    <3>7. Range(s) \ {e} \subseteq Range(t)
        BY <1>0, <3>4 DEF Range
    <3> QED BY <3>5, <3>6, <3>7
  <2> QED BY <2>4, <2>7, <2>9
<1> QED BY <1>1, <1>2
-----------------------------------------------------------------------------
(* The types of what recovery decodes.                                     *)

(* The type of a record tells what it is. *)
LEMMA RecordKinds ==
    ASSUME NEW r \in Records
    PROVE  /\ r.type = "super" => r \in Supers
           /\ r.type = "snapshot" => r \in Snapshots
           /\ r.type \in {"update", "replace"} => r \in Updates
           /\ r.type = "deletion" => r \in Deletions
           /\ r.type = "invalid" <=> r = Invalid
           /\ r.type \in {"super", "snapshot", "update", "replace", "deletion",
                          "invalid", "end"}
BY DEF Records, Supers, Snapshots, Updates, Deletions, Marked, Invalid

(* The parts of an inode. *)
LEMMA InodeParts ==
    ASSUME NEW x \in Inodes
    PROVE  /\ x.links \in Seq(Names) /\ x.ext \in Seq(Data)
           /\ x.synced \in Nat /\ x.synced <= Len(x.ext)
           /\ x = [links |-> x.links, ext |-> x.ext, synced |-> x.synced]
BY DEF Inodes

(* A file whose extents are all synced, one without any, and one whose links change. *)
LEMMA InodeForms ==
    ASSUME NEW ls \in Seq(Names)
    PROVE  /\ \A e \in Seq(Data) : [links |-> ls, ext |-> e, synced |-> Len(e)] \in Inodes
           /\ NoInode \in Inodes /\ [NoInode EXCEPT !.links = ls] \in Inodes
           /\ \A x \in Inodes : [x EXCEPT !.links = ls] \in Inodes
<1>1. \A e \in Seq(Data) : Len(e) \in Nat
    OBVIOUS
<1>2. \A e \in Seq(Data) : [links |-> ls, ext |-> e, synced |-> Len(e)] \in Inodes
    BY <1>1 DEF Inodes
<1>3. NoInode \in Inodes
    BY DEF Inodes, NoInode
<1>4. \A x \in Inodes : [x EXCEPT !.links = ls] \in Inodes
    BY DEF Inodes
<1> QED BY <1>2, <1>3, <1>4

(* The state that recovery starts with. *)
LEMMA EmptyType == Empty \in States
<1>1. <<>> \in Seq(Names)
    OBVIOUS
<1>2. NoInode \in Inodes
    BY <1>1, InodeForms
<1> QED BY <1>2 DEF Empty, States, FileMaps, NoIds, Statuses

(* A snapshot decodes to a recovery state. *)
LEMMA SnapshotType ==
    ASSUME NEW st, NEW r \in Snapshots
    PROVE  DecodeSnapshotFrom(st, r) \in States
<1>1. ASSUME NEW n \in Names
      PROVE  (IF \E f \in r.files : n \in Range(f.links)
              THEN (CHOOSE f \in r.files : n \in Range(f.links)).id ELSE NoFile) \in NoIds
  <2>1. CASE \E f \in r.files : n \in Range(f.links)
    <3>1. (CHOOSE f \in r.files : n \in Range(f.links)) \in r.files
        BY <2>1
    <3> QED BY <2>1, <3>1 DEF Snapshots, FileRecs, NoIds
  <2>2. CASE ~\E f \in r.files : n \in Range(f.links)
      BY <2>2 DEF NoIds
  <2> QED BY <2>1, <2>2
<1>2. ASSUME NEW id \in Ids
      PROVE  (IF \E f \in r.files : f.id = id
              THEN LET f == CHOOSE g \in r.files : g.id = id
                   IN  [links |-> f.links, ext |-> f.ext, synced |-> Len(f.ext)]
              ELSE NoInode) \in Inodes
  <2>1. CASE \E f \in r.files : f.id = id
    <3> DEFINE f == CHOOSE g \in r.files : g.id = id
    <3>1. f \in r.files
        BY <2>1
    <3> HIDE DEF f
    <3>2. f.links \in Seq(Names) /\ f.ext \in Seq(Data)
        BY <3>1 DEF Snapshots, FileRecs
    <3>3. [links |-> f.links, ext |-> f.ext, synced |-> Len(f.ext)] \in Inodes
        BY <3>2, InodeForms
    <3> QED BY <2>1, <3>3 DEF f
  <2>2. CASE ~\E f \in r.files : f.id = id
    <3>1. NoInode \in Inodes
      <4>1. <<>> \in Seq(Names)
          OBVIOUS
      <4> QED BY <4>1, InodeForms
    <3> QED BY <2>2, <3>1
  <2> QED BY <2>1, <2>2
<1>3. DecodeSnapshotFrom(st, r).files \in FileMaps
    BY <1>1 DEF DecodeSnapshotFrom, FileMaps
<1>4. DecodeSnapshotFrom(st, r).inode \in [Ids -> Inodes]
    BY <1>2 DEF DecodeSnapshotFrom
<1>5. DecodeSnapshotFrom(st, r) = [files |-> DecodeSnapshotFrom(st, r).files,
                                   inode |-> DecodeSnapshotFrom(st, r).inode,
                                   snapshot |-> TRUE, status |-> "OK"]
    BY DEF DecodeSnapshotFrom
<1>6. \A fs \in FileMaps, ino \in [Ids -> Inodes] :
        [files |-> fs, inode |-> ino, snapshot |-> TRUE, status |-> "OK"] \in States
    BY DEF States, Statuses
<1> QED BY <1>3, <1>4, <1>5, <1>6

(* An update, on top of a recovery state, leaves one. *)
LEMMA UpdateType ==
    ASSUME NEW st \in States, NEW r \in Updates
    PROVE  DecodeFileUpdateFrom(st, r) \in States
<1> DEFINE f     == r.file
           known == \E n \in Names : st.files[n] = f.id
           names == IF known THEN Range(st.inode[f.id].links) ELSE {}
           gone  == [n \in Names |-> IF n \in names THEN NoFile ELSE st.files[n]]
           ext   == IF known /\ r.type = "update" THEN st.inode[f.id].ext \o f.ext
                    ELSE f.ext
           new   == [links |-> f.links, ext |-> ext, synced |-> Len(ext)]
           fs    == IF known THEN Insert(gone, Range(f.links), f.id)
                    ELSE Insert(gone, {f.links[1]}, f.id)
           ino   == [st.inode EXCEPT ![f.id] = new]
<1>1. f \in FileRecs /\ f.id \in Ids /\ f.links \in Seq(Names) /\ f.ext \in Seq(Data)
    BY DEF Updates, FileRecs
<1>2. st.files \in FileMaps /\ st.inode \in [Ids -> Inodes] /\ st.status \in Statuses
      /\ st.snapshot \in BOOLEAN
    BY DEF States
<1>3. DecodeFileUpdateFrom(st, r) = IF \E n \in names : st.files[n] = NoFile THEN Corrupt(st)
                                    ELSE [st EXCEPT !.files = fs, !.inode = ino]
    BY <1>2 DEF DecodeFileUpdateFrom, States
<1>4. gone \in FileMaps
    BY <1>2 DEF FileMaps, NoIds
<1>5. ext \in Seq(Data)
  <2>1. st.inode[f.id].ext \in Seq(Data)
      BY <1>1, <1>2, InodeParts
  <2>2. st.inode[f.id].ext \o f.ext \in Seq(Data)
    <3> HIDE DEF f
    <3> QED BY <1>1, <2>1, ConcatProperties
  <2> QED BY <1>1, <2>2
<1>6. new \in Inodes
  <2> HIDE DEF ext
  <2> QED BY <1>1, <1>5, InodeForms
<1>7. fs \in FileMaps
  <2>1. ASSUME NEW S PROVE Insert(gone, S, f.id) \in FileMaps
    <3> HIDE DEF gone
    <3> QED BY <1>1, <1>4 DEF Insert, FileMaps, NoIds
  <2> QED BY <2>1
<1>8. ino \in [Ids -> Inodes]
  <2> HIDE DEF new
  <2> QED BY <1>1, <1>2, <1>6
<1>9. [st EXCEPT !.files = fs, !.inode = ino] \in States
  <2> HIDE DEF fs, ino
  <2> QED BY <1>2, <1>7, <1>8 DEF States
<1>10. Corrupt(st) \in States
    BY DEF Corrupt, States, Statuses
<1> QED BY <1>3, <1>9, <1>10

(* So does a deletion. *)
LEMMA DeletionType ==
    ASSUME NEW st \in States, NEW r \in Deletions
    PROVE  DecodeFileDeletionFrom(st, r) \in States
<1>1. r.id \in Ids /\ r.name \in Names
    BY DEF Deletions
<1>2. st.files \in FileMaps /\ st.inode \in [Ids -> Inodes]
    BY DEF States
<1> DEFINE ls == RemoveFirst(st.inode[r.id].links, r.name)
           ino == [st.inode EXCEPT ![r.id].links = ls]
           fs == [st.files EXCEPT ![r.name] = NoFile]
<1>3. ls \in Seq(Names)
  <2>1. st.inode[r.id].links \in Seq(Names)
      BY <1>1, <1>2, InodeParts
  <2> QED BY <2>1, RemoveFirstRange
<1>4. ino \in [Ids -> Inodes]
  <2> HIDE DEF ls
  <2>1. [st.inode[r.id] EXCEPT !.links = ls] \in Inodes
      BY <1>1, <1>2, <1>3, InodeForms
  <2> QED BY <1>1, <1>2, <2>1
<1>5. fs \in FileMaps
    BY <1>1, <1>2 DEF FileMaps, NoIds
<1>6. [st EXCEPT !.files = fs, !.inode = ino] \in States
  <2> HIDE DEF fs, ino
  <2> QED BY <1>4, <1>5 DEF States
<1>7. Corrupt(st) \in States
    BY DEF Corrupt, States, Statuses
<1>8. DecodeFileDeletionFrom(st, r) \in {Corrupt(st), [st EXCEPT !.files = fs, !.inode = ino]}
    BY DEF DecodeFileDeletionFrom, States
<1> QED BY <1>6, <1>7, <1>8

(* So does any record. *)
LEMMA DecodeType ==
    ASSUME NEW st \in States, NEW r \in Records
    PROVE  Decode(st, r) \in States
<1>1. CASE st.status # "OK"
    BY <1>1 DEF Decode
<1>2. CASE st.status = "OK" /\ r.type = "snapshot"
    BY <1>2, SnapshotType, RecordKinds DEF Decode
<1>3. CASE st.status = "OK" /\ r.type \in {"update", "replace"}
    BY <1>3, UpdateType, RecordKinds DEF Decode
<1>4. CASE st.status = "OK" /\ r.type = "deletion"
    BY <1>4, DeletionType, RecordKinds DEF Decode
<1>5. CASE st.status = "OK" /\ r.type = "invalid"
    BY <1>5 DEF Decode, Corrupt, States, Statuses
<1>6. CASE st.status = "OK" /\ r.type \in {"super", "end"}
    BY <1>6 DEF Decode
<1> QED BY <1>1, <1>2, <1>3, <1>4, <1>5, <1>6, RecordKinds

(* Decoding neither loses the snapshot nor finds one in another record. *)
LEMMA DecodeSnapshotBit ==
    ASSUME NEW st \in States, NEW r \in Records
    PROVE  /\ r.type # "snapshot" => Decode(st, r).snapshot = st.snapshot
           /\ st.snapshot => Decode(st, r).snapshot
           /\ Decode(st, r).status = "OK" => st.status = "OK"
           /\ st.status \in {"OK", "Corruption"} => Decode(st, r).status \in {"OK", "Corruption"}
<1>1. CASE st.status # "OK"
    BY <1>1 DEF Decode
<1>2. CASE st.status = "OK" /\ r.type = "snapshot"
  <2>1. Decode(st, r).snapshot = TRUE /\ Decode(st, r).status = "OK"
      BY <1>2 DEF Decode, DecodeSnapshotFrom
  <2> QED BY <1>2, <2>1
<1>3. CASE st.status = "OK" /\ r.type \in {"update", "replace"}
  <2>1. Decode(st, r) = DecodeFileUpdateFrom(st, r)
      BY <1>3 DEF Decode
  <2>2. DecodeFileUpdateFrom(st, r).snapshot = st.snapshot
      BY DEF DecodeFileUpdateFrom, Corrupt, States
  <2>3. DecodeFileUpdateFrom(st, r).status \in {st.status, "Corruption"}
      BY DEF DecodeFileUpdateFrom, Corrupt, States
  <2> QED BY <1>3, <2>1, <2>2, <2>3
<1>4. CASE st.status = "OK" /\ r.type = "deletion"
  <2>1. Decode(st, r) = DecodeFileDeletionFrom(st, r)
      BY <1>4 DEF Decode
  <2>2. DecodeFileDeletionFrom(st, r).snapshot = st.snapshot
      BY DEF DecodeFileDeletionFrom, Corrupt, States
  <2>3. DecodeFileDeletionFrom(st, r).status \in {st.status, "Corruption"}
      BY DEF DecodeFileDeletionFrom, Corrupt, States
  <2> QED BY <1>4, <2>1, <2>2, <2>3
<1>5. CASE st.status = "OK" /\ r.type = "invalid"
  <2>1. Decode(st, r) = Corrupt(st)
      BY <1>5 DEF Decode
  <2>2. Corrupt(st).snapshot = st.snapshot /\ Corrupt(st).status = "Corruption"
      BY DEF Corrupt, States
  <2> QED BY <1>5, <2>1, <2>2
<1>6. CASE st.status = "OK" /\ r.type \in {"super", "end"}
    BY <1>6 DEF Decode
<1> QED BY <1>1, <1>2, <1>3, <1>4, <1>5, <1>6, RecordKinds

(* The state after record i, from the one before it. *)
LEMMA ReplayAt ==
    ASSUME NEW st, NEW l, Len(l) \in Nat, NEW i \in 1..Len(l)
    PROVE  ReplayFun(st, l)[i] = IF i = 1 THEN Begun(st) ELSE Decode(ReplayFun(st, l)[i - 1], l[i])
<1>1. ReplayFun(st, l) = [k \in 1..Len(l) |-> ReplayStep(st, l, ReplayFun(st, l), k)]
    BY ReplayFixpoint
<1>2. ReplayFun(st, l)[i] = ReplayStep(st, l, ReplayFun(st, l), i)
    BY <1>1
<1> QED BY <1>2 DEF ReplayStep

(* Replay yields a recovery state, which is OK or corrupt. *)
LEMMA ReplayType ==
    ASSUME NEW st \in States, NEW l \in Seq(Records), Len(l) >= 1
    PROVE  /\ \A i \in 1..Len(l) : /\ ReplayFun(st, l)[i] \in States
                                   /\ ReplayFun(st, l)[i].status \in {"OK", "Corruption"}
           /\ Replay(st, l) \in States
           /\ Replay(st, l).status \in {"OK", "Corruption"}
<1> DEFINE G == ReplayFun(st, l)
           Good(x) == x \in States /\ x.status \in {"OK", "Corruption"}
           S == {k \in Nat : k \in 1..Len(l) => Good(G[k])}
<1>0. Len(l) \in Nat /\ \A i \in 1..Len(l) : l[i] \in Records
    OBVIOUS
<1>1. \A i \in 1..Len(l) : G[i] = IF i = 1 THEN Begun(st) ELSE Decode(G[i - 1], l[i])
    BY <1>0, ReplayAt
<1> HIDE DEF G
<1>2. Good(Begun(st))
    BY DEF Begun, States, Statuses
<1>3. ASSUME NEW x, Good(x), NEW r \in Records PROVE Good(Decode(x, r))
    BY <1>3, DecodeType, DecodeSnapshotBit
<1> HIDE DEF Good
<1>4. 0 \in S
    OBVIOUS
<1>5. ASSUME NEW k \in Nat, k \in S PROVE k + 1 \in S
  <2> SUFFICES ASSUME k + 1 \in 1..Len(l) PROVE Good(G[k + 1])
      OBVIOUS
  <2>1. CASE k = 0
      BY <1>1, <1>2, <2>1
  <2>2. CASE k # 0
    <3>1. k \in 1..Len(l) /\ (k + 1) - 1 = k /\ k + 1 # 1
        BY <1>0, <2>2
    <3>2. Good(G[k]) /\ l[k + 1] \in Records
        BY <1>0, <1>5, <3>1
    <3>3. G[k + 1] = Decode(G[k], l[k + 1])
        BY <1>1, <3>1
    <3> QED BY <1>3, <3>2, <3>3
  <2> QED BY <2>1, <2>2
<1>6. \A k \in Nat : k \in S
  <2> HIDE DEF S
  <2> QED BY <1>4, <1>5, Induction
<1>7. \A i \in 1..Len(l) : Good(G[i])
    BY <1>6
<1>8. Replay(st, l) = G[Len(l)]
    BY ReplayIsFun DEF G
<1> QED BY <1>0, <1>7, <1>8 DEF G, Good

(* A log of which the second record is a snapshot is replayed from there; what was  *)
(* decoded of other logs before leaves no trace.                                    *)
LEMMA ReplaySnapshot ==
    ASSUME NEW st \in States, NEW l \in Seq(Records), HasSnapshot(l)
    PROVE  Replay(st, l) = Replayed(l) /\ Replay(st, l).snapshot
<1> DEFINE G == ReplayFun(st, l)
           H == ReplayFun(Empty, l)
           S == {k \in Nat : k \in 2..Len(l) => G[k] = H[k] /\ G[k].snapshot}
<1>0. Len(l) \in Nat /\ Len(l) >= 2 /\ \A i \in 1..Len(l) : l[i] \in Records
    BY DEF HasSnapshot
<1>1. \A i \in 1..Len(l) : G[i] = IF i = 1 THEN Begun(st) ELSE Decode(G[i - 1], l[i])
    BY <1>0, ReplayAt
<1>2. \A i \in 1..Len(l) : H[i] = IF i = 1 THEN Begun(Empty) ELSE Decode(H[i - 1], l[i])
    BY <1>0, ReplayAt
<1>3. \A i \in 1..Len(l) : G[i] \in States
    BY <1>0, ReplayType
<1> HIDE DEF G, H
<1>4. Begun(st).status = "OK" /\ Begun(Empty).status = "OK"
    BY DEF Begun, States, Empty
<1>5. G[2] = H[2] /\ G[2].snapshot
  <2>1. G[2] = Decode(Begun(st), l[2]) /\ H[2] = Decode(Begun(Empty), l[2])
    <3>1. 2 \in 1..Len(l) /\ 1 \in 1..Len(l) /\ 2 - 1 = 1 /\ 2 # 1
        BY <1>0
    <3> QED BY <1>1, <1>2, <3>1
  <2>2. l[2].type = "snapshot"
      BY DEF HasSnapshot
  <2>3. G[2] = DecodeSnapshotFrom(Begun(st), l[2]) /\ H[2] = DecodeSnapshotFrom(Begun(Empty), l[2])
      BY <1>4, <2>1, <2>2 DEF Decode
  <2> QED BY <2>3 DEF DecodeSnapshotFrom
<1>6. 0 \in S
    OBVIOUS
<1>7. ASSUME NEW k \in Nat, k \in S PROVE k + 1 \in S
  <2> SUFFICES ASSUME k + 1 \in 2..Len(l) PROVE G[k + 1] = H[k + 1] /\ G[k + 1].snapshot
      OBVIOUS
  <2>1. CASE k = 1
      BY <1>5, <2>1
  <2>2. CASE k # 1
    <3>1. k \in 2..Len(l) /\ (k + 1) - 1 = k /\ k + 1 # 1 /\ k + 1 \in 1..Len(l) /\ k \in 1..Len(l)
        BY <1>0, <2>2
    <3>2. G[k] = H[k] /\ G[k].snapshot
        BY <1>7, <3>1
    <3>3. G[k + 1] = Decode(G[k], l[k + 1]) /\ H[k + 1] = Decode(H[k], l[k + 1])
        BY <1>1, <1>2, <3>1
    <3>4. Decode(G[k], l[k + 1]).snapshot
        BY <1>0, <1>3, <3>1, <3>2, DecodeSnapshotBit
    <3> QED BY <3>2, <3>3, <3>4
  <2> QED BY <2>1, <2>2
<1>8. \A k \in Nat : k \in S
  <2> HIDE DEF S
  <2> QED BY <1>6, <1>7, Induction
<1>9. G[Len(l)] = H[Len(l)] /\ G[Len(l)].snapshot
    BY <1>0, <1>8
<1>10. Replay(st, l) = G[Len(l)] /\ Replayed(l) = H[Len(l)]
    BY ReplayIsFun DEF G, H, Replayed
<1> QED BY <1>9, <1>10

(* Without a snapshot in second place there is none. *)
LEMMA ReplayNoSnapshot ==
    ASSUME NEW st \in States, NEW l \in Seq(Records), Len(l) >= 1, Shape(l), ~HasSnapshot(l)
    PROVE  Replay(st, l).snapshot = FALSE
<1> DEFINE G == ReplayFun(st, l)
           No(x) == x.snapshot = FALSE
           S == {k \in Nat : k \in 1..Len(l) => No(G[k])}
<1>0. Len(l) \in Nat /\ \A i \in 1..Len(l) : l[i] \in Records
    OBVIOUS
<1>1. \A i \in 1..Len(l) : G[i] = IF i = 1 THEN Begun(st) ELSE Decode(G[i - 1], l[i])
    BY <1>0, ReplayAt
<1>2. \A i \in 1..Len(l) : G[i] \in States
    BY <1>0, ReplayType
<1> HIDE DEF G
<1>3. \A i \in 2..Len(l) : l[i].type # "snapshot"
  <2>1. ASSUME NEW i \in 2..Len(l) PROVE l[i].type # "snapshot"
    <3>1. CASE i = 2
        BY <1>0, <3>1 DEF HasSnapshot
    <3>2. CASE i # 2
      <4>1. i \in 3..Len(l)
          BY <1>0, <3>2
      <4> QED BY <4>1 DEF Shape
    <3> QED BY <3>1, <3>2
  <2> QED BY <2>1
<1>4. 0 \in S
    OBVIOUS
<1>5. ASSUME NEW k \in Nat, k \in S PROVE k + 1 \in S
  <2> SUFFICES ASSUME k + 1 \in 1..Len(l) PROVE No(G[k + 1])
    <3> HIDE DEF No
    <3> QED OBVIOUS
  <2>1. CASE k = 0
    <3>1. G[1] = Begun(st) /\ k + 1 = 1
        BY <1>0, <1>1, <2>1
    <3>2. Begun(st).snapshot = FALSE
        BY DEF Begun, States
    <3> QED BY <3>1, <3>2
  <2>2. CASE k # 0
    <3>1. k \in 1..Len(l) /\ (k + 1) - 1 = k /\ k + 1 # 1 /\ k + 1 \in 2..Len(l)
        BY <1>0, <2>2
    <3>2. G[k].snapshot = FALSE /\ G[k] \in States /\ l[k + 1] \in Records
        BY <1>0, <1>2, <1>5, <3>1
    <3>3. G[k + 1] = Decode(G[k], l[k + 1])
        BY <1>1, <3>1
    <3>4. l[k + 1].type # "snapshot"
        BY <1>3, <3>1
    <3> QED BY <3>2, <3>3, <3>4, DecodeSnapshotBit
  <2> QED BY <2>1, <2>2
<1>6. \A k \in Nat : k \in S
  <2> HIDE DEF S
  <2> QED BY <1>4, <1>5, Induction
<1>7. G[Len(l)].snapshot = FALSE
    BY <1>0, <1>6
<1> QED BY <1>7, ReplayIsFun DEF G
-----------------------------------------------------------------------------
(* The order in which mount tries the zones.                               *)

\* Every zone in use starts with a superblock; the zones that are tried before z.
AllSuper(d) == \A y \in Valid(d) : d[y][1].type = "super"
Ahead(d, z) == {y \in Valid(d) : Newer(d, y, z)}
Rank(d, z) == Cardinality(Ahead(d, z))

(* A zone in use is one of the device and is not empty. *)
LEMMA ValidZone ==
    ASSUME NEW d \in Devices, NEW z \in Valid(d)
    PROVE  /\ z \in MZones /\ z \in Nat /\ z # 0 /\ d[z] \in Seq(Records) /\ Len(d[z]) >= 1
           /\ d[z][1] \in Records /\ d[z][1] # Invalid
<1>1. z \in MZones /\ d[z] # <<>> /\ d[z][1] # Invalid
    BY DEF Valid
<1>2. d[z] \in Seq(Records)
    BY <1>1 DEF Devices
<1>3. Len(d[z]) >= 1 /\ 1 \in 1..Len(d[z])
    BY <1>1, <1>2
<1>4. d[z][1] \in Records
    BY <1>2, <1>3
<1>5. z \in Nat /\ z # 0
    BY <1>1, MetaLogAssumption DEF MZones
<1> QED BY <1>1, <1>2, <1>3, <1>4, <1>5

(* The zones in use can be counted. *)
LEMMA ValidFinite ==
    ASSUME NEW d
    PROVE  IsFiniteSet(Valid(d)) /\ Cardinality(Valid(d)) \in Nat
<1>1. IsFiniteSet(MZones)
  <2>1. 1 \in Int /\ MetaZones \in Int
      BY MetaLogAssumption
  <2> QED BY <2>1, FS_Interval DEF MZones
<1>2. Valid(d) \in SUBSET MZones
    BY DEF Valid
<1>3. IsFiniteSet(Valid(d))
    BY <1>1, <1>2, FS_Subset
<1> QED BY <1>3, FS_CardinalityType

(* The superblock sequence numbers, and among equal ones the zone numbers, order *)
(* the zones in use.                                                             *)
LEMMA NewerOrder ==
    ASSUME NEW d \in Devices, AllSuper(d)
    PROVE  /\ \A y \in Valid(d) : d[y][1] \in Supers /\ d[y][1].seq \in Nat
           /\ \A y \in Valid(d) : ~Newer(d, y, y)
           /\ \A y, z \in Valid(d) : y # z => Newer(d, y, z) \/ Newer(d, z, y)
           /\ \A x, y, z \in Valid(d) : Newer(d, x, y) /\ Newer(d, y, z) => Newer(d, x, z)
<1>1. \A y \in Valid(d) : d[y][1] \in Supers /\ d[y][1].seq \in Nat /\ y \in Nat
  <2>1. ASSUME NEW y \in Valid(d) PROVE d[y][1] \in Supers /\ d[y][1].seq \in Nat /\ y \in Nat
    <3>1. d[y][1] \in Records /\ y \in Nat
        BY ValidZone
    <3>2. d[y][1] \in Supers
        BY <3>1, RecordKinds DEF AllSuper
    <3> QED BY <3>1, <3>2 DEF Supers
  <2> QED BY <2>1
<1>2. \A y \in Valid(d) : ~Newer(d, y, y)
    BY <1>1 DEF Newer
<1>3. ASSUME NEW y \in Valid(d), NEW z \in Valid(d), y # z PROVE Newer(d, y, z) \/ Newer(d, z, y)
    BY <1>1, <1>3 DEF Newer
<1>4. ASSUME NEW x \in Valid(d), NEW y \in Valid(d), NEW z \in Valid(d),
             Newer(d, x, y), Newer(d, y, z)
      PROVE  Newer(d, x, z)
    BY <1>1, <1>4 DEF Newer
<1> QED BY <1>1, <1>2, <1>3, <1>4

(* The number of newer zones ranks the zones in use. *)
LEMMA RankOrder ==
    ASSUME NEW d \in Devices, AllSuper(d), NEW y \in Valid(d), NEW z \in Valid(d),
           Newer(d, y, z)
    PROVE  Rank(d, y) < Rank(d, z)
<1> DEFINE A == Ahead(d, y)
           B == Ahead(d, z)
<1>1. A \subseteq Valid(d) /\ B \subseteq Valid(d)
    BY DEF Ahead
<1>2. IsFiniteSet(B) /\ IsFiniteSet(A)
  <2>1. IsFiniteSet(Valid(d))
      BY ValidFinite
  <2> QED BY <1>1, <2>1, FS_Subset
<1>3. A \subseteq B
    BY NewerOrder DEF Ahead
<1>4. y \in B /\ y \notin A
    BY NewerOrder DEF Ahead
<1> HIDE DEF A, B
<1>5. Cardinality(A) <= Cardinality(B) /\ (Cardinality(B) = Cardinality(A) => B = A)
    BY <1>2, <1>3, FS_Subset
<1>6. Cardinality(A) \in Nat /\ Cardinality(B) \in Nat
    BY <1>2, FS_CardinalityType
<1>7. Cardinality(A) # Cardinality(B)
    BY <1>4, <1>5
<1> QED BY <1>5, <1>6, <1>7 DEF Rank, A, B

(* Every place has a zone, and every zone a place. *)
LEMMA RankOnto ==
    ASSUME NEW d \in Devices, AllSuper(d)
    PROVE  /\ \A z \in Valid(d) : Rank(d, z) \in 0..(Cardinality(Valid(d)) - 1)
           /\ \A i \in 0..(Cardinality(Valid(d)) - 1) : \E z \in Valid(d) : Rank(d, z) = i
<1> DEFINE V == Valid(d)
           n == Cardinality(V)
           f == [z \in V |-> Rank(d, z)]
           T == 0..(n - 1)
<1>1. IsFiniteSet(V) /\ n \in Nat
    BY ValidFinite
<1>2. ASSUME NEW z \in V PROVE Rank(d, z) \in T
  <2>1. Ahead(d, z) \in SUBSET (V \ {z})
      BY NewerOrder DEF Ahead
  <2>2. IsFiniteSet(V \ {z}) /\ Cardinality(V \ {z}) = n - 1
      BY <1>1, FS_RemoveElement
  <2>3. IsFiniteSet(Ahead(d, z)) /\ Cardinality(Ahead(d, z)) <= n - 1
      BY <2>1, <2>2, FS_Subset
  <2>4. Cardinality(Ahead(d, z)) \in Nat
      BY <2>3, FS_CardinalityType
  <2> QED BY <1>1, <2>3, <2>4 DEF Rank
<1>3. ASSUME NEW y \in V, NEW z \in V, Rank(d, y) = Rank(d, z) PROVE y = z
  <2> SUFFICES ASSUME y # z PROVE FALSE
      OBVIOUS
  <2>1. Newer(d, y, z) \/ Newer(d, z, y)
      BY NewerOrder
  <2>2. Rank(d, y) < Rank(d, z) \/ Rank(d, z) < Rank(d, y)
      BY <2>1, RankOrder
  <2>3. Rank(d, y) \in Nat /\ Rank(d, z) \in Nat
      BY <1>1, <1>2
  <2> QED BY <1>3, <2>2, <2>3
<1>4. f \in Injection(V, T)
  <2>1. f \in [V -> T]
      BY <1>2
  <2>2. \A a, b \in V : f[a] = f[b] => a = b
      BY <1>3
  <2>3. IsInjective(f)
      BY <2>1, <2>2 DEF IsInjective
  <2> QED BY <2>1, <2>3 DEF Injection
<1>5. IsFiniteSet(T) /\ Cardinality(T) = n
  <2>1. 0 \in Int /\ n - 1 \in Int
      BY <1>1
  <2>2. IsFiniteSet(T) /\ Cardinality(T) = IF 0 > n - 1 THEN 0 ELSE (n - 1) - 0 + 1
      BY <2>1, FS_Interval
  <2> QED BY <1>1, <2>2
<1>6. f \in Surjection(V, T)
  <2> HIDE DEF f, T, V
  <2> QED BY <1>4, <1>5, FS_Injection
<1>7. \A i \in T : \E z \in V : f[z] = i
    BY <1>6 DEF Surjection
<1> QED BY <1>2, <1>7

(* Mount tries each zone in use, the newer ones before the older. *)
LEMMA SeqMapOrder ==
    ASSUME NEW d \in Devices, AllSuper(d)
    PROVE  /\ SeqMap(d) \in Seq(Valid(d))
           /\ \A m \in Valid(d) :
                \E k \in 1..Len(SeqMap(d)) :
                  /\ SeqMap(d)[k] = m
                  /\ \A j \in 1..(k - 1) : Newer(d, SeqMap(d)[j], m)
<1> DEFINE V == Valid(d)
           n == Cardinality(V)
           o == SeqMap(d)
<1>1. n \in Nat
    BY ValidFinite
<1>2. o = [i \in 1..n |-> CHOOSE z \in V : Rank(d, z) = i - 1]
    BY DEF SeqMap, Rank, Ahead
<1> HIDE DEF o
<1>3. \A i \in 1..n : o[i] \in V /\ Rank(d, o[i]) = i - 1
  <2>1. ASSUME NEW i \in 1..n PROVE o[i] \in V /\ Rank(d, o[i]) = i - 1
    <3>1. i - 1 \in 0..(n - 1)
        BY <1>1
    <3>2. \E z \in V : Rank(d, z) = i - 1
        BY <3>1, RankOnto
    <3>3. o[i] = CHOOSE z \in V : Rank(d, z) = i - 1
        BY <1>2
    <3> HIDE DEF V
    <3> QED BY <3>2, <3>3
  <2> QED BY <2>1
<1>4. o \in [1..n -> V]
    BY <1>2, <1>3
<1>5. o \in Seq(V) /\ Len(o) = n
    BY <1>1, <1>4
<1>6. ASSUME NEW m \in V
      PROVE  \E k \in 1..n : o[k] = m /\ \A j \in 1..(k - 1) : Newer(d, o[j], m)
  <2> DEFINE k == Rank(d, m) + 1
  <2>1. Rank(d, m) \in 0..(n - 1)
      BY RankOnto
  <2>2. k \in 1..n /\ k - 1 = Rank(d, m)
      BY <1>1, <2>1
  <2> HIDE DEF k
  <2>3. o[k] \in V /\ Rank(d, o[k]) = Rank(d, m)
      BY <1>3, <2>2
  <2>4. o[k] = m
    <3> SUFFICES ASSUME o[k] # m PROVE FALSE
        OBVIOUS
    <3>1. Newer(d, o[k], m) \/ Newer(d, m, o[k])
        BY <2>3, NewerOrder
    <3>2. Rank(d, o[k]) < Rank(d, m) \/ Rank(d, m) < Rank(d, o[k])
        BY <2>3, <3>1, RankOrder
    <3> QED BY <1>1, <2>1, <2>3, <3>2
  <2>5. ASSUME NEW j \in 1..(k - 1) PROVE Newer(d, o[j], m)
    <3> SUFFICES ASSUME ~Newer(d, o[j], m) PROVE FALSE
        OBVIOUS
    <3>1. j \in 1..n /\ j - 1 < Rank(d, m)
        BY <1>1, <2>1, <2>2
    <3>2. o[j] \in V /\ Rank(d, o[j]) = j - 1
        BY <1>3, <3>1
    <3>3. o[j] # m
        BY <2>1, <3>1, <3>2
    <3>4. Newer(d, m, o[j])
        BY <3>2, <3>3, NewerOrder
    <3>5. Rank(d, m) < Rank(d, o[j])
        BY <3>2, <3>4, RankOrder
    <3> QED BY <2>1, <3>1, <3>2, <3>5
  <2> QED BY <2>2, <2>4, <2>5
<1> QED BY <1>5, <1>6 DEF o
-----------------------------------------------------------------------------
(* What mount recovers.                                                    *)

\* TryZones as the fixpoint of its loop.
NoneTried == [zone |-> 0, st |-> Empty]
TryStep(d, o, g, i) == IF i = 0 THEN NoneTried ELSE TryZone(g[i - 1], d, o[i])
TryFun(d, o) == CHOOSE g : g = [i \in 0..Len(o) |-> TryStep(d, o, g, i)]

(* TryZones is defined by that fixpoint. *)
LEMMA TryIsFun ==
    ASSUME NEW d, NEW o
    PROVE  TryZones(d, o) = TryFun(d, o)[Len(o)]
BY Zenon DEF TryZones, TryFun, TryStep, NoneTried

(* The fixpoint exists: it is built one zone at a time. *)
LEMMA TryAt ==
    ASSUME NEW d, NEW o, Len(o) \in Nat
    PROVE  \A i \in 0..Len(o) : TryFun(d, o)[i] = TryStep(d, o, TryFun(d, o), i)
<1> DEFINE D == 0..Len(o)
           Good(g, k) == \A i \in D : i <= k => g[i] = TryStep(d, o, g, i)
           S == {k \in Nat : \E g : g = [i \in D |-> g[i]] /\ Good(g, k)}
<1>1. 0 \in S
  <2> DEFINE g == [i \in D |-> NoneTried]
  <2>1. Good(g, 0)
    <3>1. \A i \in D : i <= 0 => i = 0
        OBVIOUS
    <3>2. g[0] = NoneTried
        OBVIOUS
    <3> QED BY <3>1, <3>2 DEF TryStep
  <2>2. g = [i \in D |-> g[i]]
      OBVIOUS
  <2>3. \E u : u = [i \in D |-> u[i]] /\ Good(u, 0)
    <3> HIDE DEF g, Good
    <3> QED BY <2>1, <2>2, Zenon
  <2> HIDE DEF Good
  <2> QED BY <2>3
<1>2. ASSUME NEW k \in Nat, k \in S PROVE k + 1 \in S
  <2>1. PICK g : g = [i \in D |-> g[i]] /\ Good(g, k)
      BY <1>2
  <2> DEFINE h == [i \in D |-> TryStep(d, o, g, i)]
  <2>2. ASSUME NEW i \in D, i <= k + 1 PROVE h[i] = TryStep(d, o, h, i)
    <3>1. CASE i = 0
        BY <3>1 DEF TryStep
    <3>2. CASE i # 0
      <4>1. i - 1 \in D /\ i - 1 <= k
          BY <2>2, <3>2
      <4>2. h[i - 1] = g[i - 1]
          BY <2>1, <4>1
      <4>3. h[i] = TryStep(d, o, g, i)
          OBVIOUS
      <4> QED BY <3>2, <4>2, <4>3 DEF TryStep
    <3> QED BY <3>1, <3>2
  <2>3. Good(h, k + 1) /\ h = [i \in D |-> h[i]]
      BY <2>2
  <2>4. \E u : u = [i \in D |-> u[i]] /\ Good(u, k + 1)
    <3> HIDE DEF h, Good
    <3> QED BY <2>3, Zenon
  <2> HIDE DEF Good
  <2> QED BY <2>4
<1>3. Len(o) \in S
  <2> HIDE DEF S
  <2> QED BY <1>1, <1>2, Induction
<1>4. PICK g : g = [i \in D |-> g[i]] /\ Good(g, Len(o))
    BY <1>3
<1>5. g = [i \in 0..Len(o) |-> TryStep(d, o, g, i)]
    BY <1>4
<1>6. TryFun(d, o) = [i \in 0..Len(o) |-> TryStep(d, o, TryFun(d, o), i)]
    BY <1>5 DEF TryFun
<1> QED BY <1>6

(* RecoverFrom yields a recovery state; it is OK only with a snapshot. *)
LEMMA RecoverFromType ==
    ASSUME NEW st \in States, NEW l \in Seq(Records), Len(l) >= 1
    PROVE  /\ RecoverFrom(st, l) \in States
           /\ RecoverFrom(st, l).status = "OK" =>
                RecoverFrom(st, l) = Replay(st, l) /\ Replay(st, l).snapshot # FALSE
<1> DEFINE s == Replay(st, l)
<1>1. s \in States /\ s.status \in {"OK", "Corruption"}
    BY ReplayType
<1>2. RecoverFrom(st, l) = IF s.status = "OK" /\ ~s.snapshot
                           THEN [s EXCEPT !.status = "NotFound"] ELSE s
    BY DEF RecoverFrom
<1> HIDE DEF s
<1>3. s.snapshot \in BOOLEAN
    BY <1>1 DEF States
<1>4. CASE s.status = "OK" /\ ~s.snapshot
  <2>1. RecoverFrom(st, l) = [s EXCEPT !.status = "NotFound"]
      BY <1>2, <1>4
  <2>2. [s EXCEPT !.status = "NotFound"] \in States /\ [s EXCEPT !.status = "NotFound"].status = "NotFound"
      BY <1>1 DEF States, Statuses
  <2> QED BY <2>1, <2>2
<1>5. CASE ~(s.status = "OK" /\ ~s.snapshot)
  <2>1. RecoverFrom(st, l) = s
      BY <1>2, <1>5
  <2>2. s.status = "OK" => s.snapshot # FALSE
      BY <1>5, <1>3
  <2> QED BY <1>1, <2>1, <2>2 DEF s
<1> QED BY <1>4, <1>5

\* What mount has recovered so far: nothing, or a log with a snapshot.
TriedInv(d, t) ==
  /\ t.st \in States
  /\ t.zone # 0 => /\ t.zone \in Valid(d)
                   /\ t.st.status = "OK"
                   /\ Shape(d[t.zone]) => HasSnapshot(d[t.zone]) /\ t.st = Replayed(d[t.zone])

(* Trying one zone more keeps what is known of the zones tried. *)
LEMMA TryZoneInv ==
    ASSUME NEW d \in Devices, NEW t, TriedInv(d, t), NEW z \in Valid(d)
    PROVE  TriedInv(d, TryZone(t, d, z))
<1> DEFINE s == RecoverFrom(t.st, d[z])
<1>1. d[z] \in Seq(Records) /\ Len(d[z]) >= 1
    BY ValidZone
<1>2. t.st \in States
    BY DEF TriedInv
<1>3. /\ s \in States
      /\ s.status = "OK" => s = Replay(t.st, d[z]) /\ Replay(t.st, d[z]).snapshot # FALSE
    BY <1>1, <1>2, RecoverFromType
<1>4. TryZone(t, d, z) = IF t.zone # 0 \/ t.st.status = "Corruption" THEN t
                         ELSE [zone |-> IF s.status = "OK" THEN z ELSE 0, st |-> s]
    BY DEF TryZone
<1> HIDE DEF s
<1>5. CASE t.zone # 0 \/ t.st.status = "Corruption"
    BY <1>4, <1>5
<1>6. CASE ~(t.zone # 0 \/ t.st.status = "Corruption")
  <2> DEFINE u == [zone |-> IF s.status = "OK" THEN z ELSE 0, st |-> s]
  <2>1. TryZone(t, d, z) = u
      BY <1>4, <1>6
  <2>2. ASSUME s.status = "OK", Shape(d[z]) PROVE HasSnapshot(d[z]) /\ s = Replayed(d[z])
    <3>1. HasSnapshot(d[z])
        BY <1>1, <1>2, <1>3, <2>2, ReplayNoSnapshot
    <3> QED BY <1>1, <1>2, <1>3, <2>2, <3>1, ReplaySnapshot
  <2>3. u.st = s /\ (u.zone # 0 => s.status = "OK" /\ u.zone = z)
      OBVIOUS
  <2> HIDE DEF u
  <2>4. TriedInv(d, u)
      BY <1>3, <2>2, <2>3 DEF TriedInv
  <2> QED BY <2>1, <2>4
<1> QED BY <1>5, <1>6

(* What mount recovers is a recovery state; the zone it settles on holds a log that *)
(* starts with a superblock and a snapshot, and the state is the replay of it.      *)
LEMMA RecoverType ==
    ASSUME NEW d \in Devices
    PROVE  /\ Recover(d).st \in States
           /\ Recover(d).zone # 0 => AllSuper(d)
           /\ TriedInv(d, Recover(d))
<1>1. CASE ~AllSuper(d)
  <2>1. Recover(d) = [zone |-> 0, st |-> Corrupt(Empty)]
      BY <1>1 DEF Recover, AllSuper
  <2>2. Corrupt(Empty) \in States
      BY EmptyType DEF Corrupt, States, Statuses
  <2> QED BY <2>1, <2>2 DEF TriedInv
<1>2. CASE AllSuper(d)
  <2> DEFINE o == SeqMap(d)
             G == TryFun(d, o)
             S == {k \in Nat : k \in 0..Len(o) => TriedInv(d, G[k])}
  <2>1. Recover(d) = G[Len(o)]
    <3>1. Recover(d) = TryZones(d, o)
        BY <1>2 DEF Recover, AllSuper
    <3> QED BY <3>1, TryIsFun
  <2>2. o \in Seq(Valid(d)) /\ Len(o) \in Nat /\ \A i \in 1..Len(o) : o[i] \in Valid(d)
    <3>1. o \in Seq(Valid(d))
        BY <1>2, SeqMapOrder
    <3> HIDE DEF o
    <3> QED BY <3>1
  <2>3. \A i \in 0..Len(o) : G[i] = TryStep(d, o, G, i)
      BY <2>2, TryAt
  <2> HIDE DEF o, G
  <2>4. 0 \in S
    <3>1. G[0] = NoneTried
        BY <2>2, <2>3 DEF TryStep
    <3>2. TriedInv(d, NoneTried)
        BY EmptyType DEF TriedInv, NoneTried
    <3> QED BY <3>1, <3>2
  <2>5. ASSUME NEW k \in Nat, k \in S PROVE k + 1 \in S
    <3> SUFFICES ASSUME k + 1 \in 0..Len(o) PROVE TriedInv(d, G[k + 1])
        OBVIOUS
    <3>1. k \in 0..Len(o) /\ (k + 1) - 1 = k /\ k + 1 # 0 /\ k + 1 \in 1..Len(o)
        BY <2>2
    <3>2. G[k + 1] = TryZone(G[k], d, o[k + 1])
        BY <2>3, <3>1 DEF TryStep
    <3>3. TriedInv(d, G[k]) /\ o[k + 1] \in Valid(d)
        BY <2>2, <2>5, <3>1
    <3> QED BY <3>2, <3>3, TryZoneInv
  <2>6. \A k \in Nat : k \in S
    <3> HIDE DEF S
    <3> QED BY <2>4, <2>5, Induction
  <2>7. TriedInv(d, G[Len(o)])
      BY <2>2, <2>6
  <2> QED BY <1>2, <2>1, <2>7 DEF TriedInv
<1> QED BY <1>1, <1>2

(* Mount recovers from the newest log that has a snapshot, when the newer zones are *)
(* lone superblocks: those of rolls that a crash has cut short.                     *)
LEMMA RecoverMain ==
    ASSUME NEW d \in Devices, NEW m, Main(d, m)
    PROVE  Recover(d) = [zone |-> m, st |-> Replayed(d[m])]
<1> DEFINE o == SeqMap(d)
           G == TryFun(d, o)
<1>0. /\ m \in Valid(d) /\ AllSuper(d) /\ HasSnapshot(d[m]) /\ Replayed(d[m]).status = "OK"
      /\ \A y \in Valid(d) : Newer(d, y, m) => Len(d[y]) = 1
    BY DEF Main, AllSuper
<1>1. Recover(d) = G[Len(o)]
  <2>1. Recover(d) = TryZones(d, o)
      BY <1>0 DEF Recover, AllSuper
  <2> QED BY <2>1, TryIsFun
<1>2. o \in Seq(Valid(d)) /\ Len(o) \in Nat /\ \A i \in 1..Len(o) : o[i] \in Valid(d)
  <2>1. o \in Seq(Valid(d))
      BY <1>0, SeqMapOrder
  <2> HIDE DEF o
  <2> QED BY <2>1
<1>3. PICK k \in 1..Len(o) : o[k] = m /\ \A j \in 1..(k - 1) : Newer(d, o[j], m)
    BY <1>0, SeqMapOrder
<1>4. \A i \in 0..Len(o) : G[i] = TryStep(d, o, G, i)
    BY <1>2, TryAt
<1> HIDE DEF o, G
<1> DEFINE Open(t) == t.zone = 0 /\ t.st \in States /\ t.st.status # "Corruption"
           R == [zone |-> m, st |-> Replayed(d[m])]
           S == {i \in Nat : i \in 0..(k - 1) => Open(G[i])}
           U == {i \in Nat : i \in k..Len(o) => G[i] = R}
<1>5. 0 \in S
  <2>1. G[0] = NoneTried
      BY <1>2, <1>4 DEF TryStep
  <2>2. Open(NoneTried)
      BY EmptyType DEF NoneTried, Empty
  <2> QED BY <2>1, <2>2
<1>6. ASSUME NEW i \in Nat, i \in S PROVE i + 1 \in S
  <2> SUFFICES ASSUME i + 1 \in 0..(k - 1) PROVE Open(G[i + 1])
    <3> HIDE DEF Open
    <3> QED OBVIOUS
  <2>1. /\ i \in 0..(k - 1) /\ i + 1 \in 1..(k - 1) /\ (i + 1) - 1 = i /\ i + 1 # 0
        /\ i + 1 \in 0..Len(o) /\ i + 1 \in 1..Len(o)
      BY <1>2, <1>3
  <2>2. Open(G[i])
      BY <1>6, <2>1
  <2> DEFINE y == o[i + 1]
             s == RecoverFrom(G[i].st, d[y])
  <2>3. y \in Valid(d) /\ Len(d[y]) = 1
      BY <1>0, <1>2, <1>3, <2>1
  <2>4. G[i + 1] = TryZone(G[i], d, y)
      BY <1>4, <2>1 DEF TryStep
  <2>5. Replay(G[i].st, d[y]) = Begun(G[i].st)
      BY <2>3, ReplayOne
  <2>6. Begun(G[i].st) \in States /\ Begun(G[i].st).status = "OK" /\ Begun(G[i].st).snapshot = FALSE
      BY <2>2 DEF Begun, States, Statuses
  <2>7. s = [Begun(G[i].st) EXCEPT !.status = "NotFound"]
      BY <2>5, <2>6 DEF RecoverFrom
  <2>8. s \in States /\ s.status = "NotFound"
      BY <2>6, <2>7 DEF States, Statuses
  <2> HIDE DEF s, y
  <2>9. TryZone(G[i], d, y) = [zone |-> 0, st |-> s]
      BY <2>2, <2>8 DEF TryZone, s
  <2> QED BY <2>4, <2>8, <2>9
<1>7. \A i \in Nat : i \in S
  <2> HIDE DEF S
  <2> QED BY <1>5, <1>6, Induction
<1>8. G[k] = R
  <2>1. k \in 0..Len(o) /\ k # 0 /\ k - 1 \in 0..(k - 1) /\ k - 1 \in Nat
      BY <1>2
  <2>2. Open(G[k - 1])
      BY <1>7, <2>1
  <2>3. G[k] = TryZone(G[k - 1], d, m)
      BY <1>3, <1>4, <2>1 DEF TryStep
  <2>4. d[m] \in Seq(Records) /\ Len(d[m]) >= 1
      BY <1>0, ValidZone
  <2>5. /\ Replay(G[k - 1].st, d[m]) = Replayed(d[m]) /\ Replay(G[k - 1].st, d[m]).snapshot
      BY <1>0, <2>2, <2>4, ReplaySnapshot
  <2>6. RecoverFrom(G[k - 1].st, d[m]) = Replayed(d[m])
      BY <2>5 DEF RecoverFrom
  <2> QED BY <1>0, <2>2, <2>3, <2>6 DEF TryZone
<1>9. 0 \in U
    BY <1>3
<1>10. ASSUME NEW i \in Nat, i \in U PROVE i + 1 \in U
  <2> SUFFICES ASSUME i + 1 \in k..Len(o) PROVE G[i + 1] = R
    <3> HIDE DEF R
    <3> QED OBVIOUS
  <2>1. CASE i + 1 = k
      BY <1>8, <2>1
  <2>2. CASE i + 1 # k
    <3>1. i \in k..Len(o) /\ (i + 1) - 1 = i /\ i + 1 # 0 /\ i + 1 \in 0..Len(o)
        BY <1>2, <2>2
    <3>2. G[i] = R
        BY <1>10, <3>1
    <3>3. G[i + 1] = TryZone(G[i], d, o[i + 1])
        BY <1>4, <3>1 DEF TryStep
    <3>4. m # 0
        BY <1>0, ValidZone
    <3> QED BY <3>2, <3>3, <3>4 DEF TryZone
  <2> QED BY <2>1, <2>2
<1>11. \A i \in Nat : i \in U
  <2> HIDE DEF U
  <2> QED BY <1>9, <1>10, Induction
<1>12. G[Len(o)] = R
    BY <1>2, <1>11
<1> QED BY <1>1, <1>12
-----------------------------------------------------------------------------
(* Steps that several actions share.                                       *)

\* Device contents with a record more in zone z, and with zone z reset.
Appended(d, z, r) == [d EXCEPT ![z] = Append(@, r)]
Erased(d, z) == [d EXCEPT ![z] = <<>>]

(* A record more in one zone. *)
LEMMA LogAppend ==
    ASSUME NEW d \in Devices, NEW z \in MZones, NEW r \in Records
    PROVE  /\ Appended(d, z, r) \in Devices /\ Appended(d, z, r)[z] = Append(d[z], r)
           /\ Len(Appended(d, z, r)[z]) = Len(d[z]) + 1
           /\ \A y \in MZones : y # z => Appended(d, z, r)[y] = d[y]
<1>1. d[z] \in Seq(Records)
    BY DEF Devices
<1>2. Append(d[z], r) \in Seq(Records) /\ Len(Append(d[z], r)) = Len(d[z]) + 1
    BY <1>1
<1>3. /\ Appended(d, z, r)[z] = Append(d[z], r)
      /\ \A y \in MZones : y # z => Appended(d, z, r)[y] = d[y]
    BY DEF Devices, Appended
<1>4. Appended(d, z, r) \in Devices
    BY <1>2 DEF Devices, Appended
<1> QED BY <1>2, <1>3, <1>4

(* A zone that is reset. *)
LEMMA LogReset ==
    ASSUME NEW d \in Devices, NEW z \in MZones
    PROVE  /\ Erased(d, z) \in Devices /\ Erased(d, z)[z] = <<>> /\ Len(Erased(d, z)[z]) = 0
           /\ \A y \in MZones : y # z => Erased(d, z)[y] = d[y]
BY DEF Devices, Erased

(* The steps on the device, in these terms. *)
LEMMA WriteIs ==
    ASSUME NEW z, NEW r, Write(z, r)
    PROVE  log' = Appended(log, z, r) /\ found' = Recover(Appended(log, z, r))
BY DEF Write, Contents, Appended

(* The links of one file change. *)
LEMMA LinksChange ==
    ASSUME NEW ino \in [Ids -> Inodes], NEW id \in Ids, NEW ls \in Seq(Names)
    PROVE  LET e == [ino EXCEPT ![id].links = ls]
           IN  /\ e \in [Ids -> Inodes] /\ e[id].links = ls
               /\ e[id].ext = ino[id].ext /\ e[id].synced = ino[id].synced
               /\ \A j \in Ids : j # id => e[j] = ino[j]
<1> DEFINE e == [ino EXCEPT ![id].links = ls]
<1>1. ino[id] \in Inodes
    OBVIOUS
<1>2. [ino[id] EXCEPT !.links = ls] \in Inodes
    BY <1>1, InodeForms
<1>3. e[id] = [ino[id] EXCEPT !.links = ls]
    OBVIOUS
<1>4. e[id].links = ls /\ e[id].ext = ino[id].ext /\ e[id].synced = ino[id].synced
    BY <1>1, <1>3 DEF Inodes
<1>5. \A j \in Ids : j # id => e[j] = ino[j]
    OBVIOUS
<1>6. e \in [Ids -> Inodes]
    BY <1>2
<1> QED BY <1>4, <1>5, <1>6

(* The file loses a name. *)
LEMMA DropLinkType ==
    ASSUME NEW ino \in [Ids -> Inodes], NEW id \in Ids, NEW n
    PROVE  LET e == DropLink(ino, id, n)
           IN  /\ e \in [Ids -> Inodes] /\ e[id].links = RemoveFirst(ino[id].links, n)
               /\ e[id].ext = ino[id].ext /\ e[id].synced = ino[id].synced
               /\ \A j \in Ids : j # id => e[j] = ino[j]
<1> DEFINE ls == RemoveFirst(ino[id].links, n)
<1>1. ino[id].links \in Seq(Names)
    BY InodeParts
<1>2. ls \in Seq(Names)
    BY <1>1, RemoveFirstRange
<1>3. DropLink(ino, id, n) = [ino EXCEPT ![id].links = ls]
    BY DEF DropLink
<1> HIDE DEF ls
<1> QED BY <1>2, <1>3, LinksChange DEF ls

(* The file gains a name. *)
LEMMA AddLinkType ==
    ASSUME NEW ino \in [Ids -> Inodes], NEW id \in Ids, NEW n \in Names
    PROVE  LET e == AddLink(ino, id, n)
           IN  /\ e \in [Ids -> Inodes] /\ e[id].links = Append(ino[id].links, n)
               /\ e[id].ext = ino[id].ext /\ e[id].synced = ino[id].synced
               /\ \A j \in Ids : j # id => e[j] = ino[j]
<1> DEFINE ls == Append(ino[id].links, n)
<1>1. ino[id].links \in Seq(Names)
    BY InodeParts
<1>2. ls \in Seq(Names)
    BY <1>1
<1>3. AddLink(ino, id, n) = [ino EXCEPT ![id].links = ls]
    BY DEF AddLink
<1> HIDE DEF ls
<1> DEFINE e == [ino EXCEPT ![id].links = ls]
<1>9. /\ e \in [Ids -> Inodes] /\ e[id].links = ls
      /\ e[id].ext = ino[id].ext /\ e[id].synced = ino[id].synced
      /\ \A j \in Ids : j # id => e[j] = ino[j]
    BY <1>2, LinksChange
<1> HIDE DEF e
<1> QED BY <1>3, <1>9 DEF ls, e

(* The file has one name for another. *)
LEMMA RenameLinkType ==
    ASSUME NEW ino \in [Ids -> Inodes], NEW id \in Ids, NEW n, NEW m \in Names
    PROVE  LET e == RenameLink(ino, id, n, m)
           IN  /\ e \in [Ids -> Inodes]
               /\ e[id].links = Append(RemoveFirst(ino[id].links, n), m)
               /\ e[id].ext = ino[id].ext /\ e[id].synced = ino[id].synced
               /\ \A j \in Ids : j # id => e[j] = ino[j]
<1> DEFINE ls == Append(RemoveFirst(ino[id].links, n), m)
<1>1. ino[id].links \in Seq(Names)
    BY InodeParts
<1>2. RemoveFirst(ino[id].links, n) \in Seq(Names)
    BY <1>1, RemoveFirstRange
<1>3. ls \in Seq(Names)
    BY <1>2
<1>4. RenameLink(ino, id, n, m) = [ino EXCEPT ![id].links = ls]
    BY DEF RenameLink
<1> HIDE DEF ls
<1> DEFINE e == [ino EXCEPT ![id].links = ls]
<1>9. /\ e \in [Ids -> Inodes] /\ e[id].links = ls
      /\ e[id].ext = ino[id].ext /\ e[id].synced = ino[id].synced
      /\ \A j \in Ids : j # id => e[j] = ino[j]
    BY <1>3, LinksChange
<1> HIDE DEF e
<1> QED BY <1>4, <1>9 DEF ls, e

(* MetadataSynced leaves links and extents alone. *)
LEMMA SyncedType ==
    ASSUME NEW ino \in [Ids -> Inodes], NEW id \in Ids
    PROVE  LET e == MetadataSynced(ino, id)
           IN  /\ e \in [Ids -> Inodes] /\ e[id].links = ino[id].links
               /\ e[id].ext = ino[id].ext /\ e[id].synced = Len(ino[id].ext)
               /\ \A j \in Ids : j # id => e[j] = ino[j]
<1> DEFINE e == MetadataSynced(ino, id)
<1>1. ino[id] \in Inodes /\ ino[id].ext \in Seq(Data) /\ ino[id].links \in Seq(Names)
    BY InodeParts
<1>2. Len(ino[id].ext) \in Nat
    BY <1>1
<1>3. e[id] = [ino[id] EXCEPT !.synced = Len(ino[id].ext)]
    BY DEF MetadataSynced
<1>4. e[id] = [links |-> ino[id].links, ext |-> ino[id].ext, synced |-> Len(ino[id].ext)]
    BY <1>1, <1>3 DEF Inodes
<1>5. e[id] \in Inodes
    BY <1>1, <1>4, InodeForms
<1>6. \A j \in Ids : j # id => e[j] = ino[j]
    BY DEF MetadataSynced
<1>7. e \in [Ids -> Inodes]
    BY <1>5 DEF MetadataSynced
<1> QED BY <1>4, <1>6, <1>7

(* A new file with its first name. *)
LEMMA NewFileType ==
    ASSUME NEW ino \in [Ids -> Inodes], NEW id \in Ids, NEW n \in Names
    PROVE  LET e == [ino EXCEPT ![id] = [NoInode EXCEPT !.links = <<n>>]]
           IN  /\ e \in [Ids -> Inodes] /\ e[id].links = <<n>>
               /\ e[id].ext = <<>> /\ e[id].synced = 0
               /\ \A j \in Ids : j # id => e[j] = ino[j]
<1>1. <<n>> \in Seq(Names)
    OBVIOUS
<1>2. [NoInode EXCEPT !.links = <<n>>] \in Inodes
    BY <1>1, InodeForms
<1>3. [NoInode EXCEPT !.links = <<n>>] = [links |-> <<n>>, ext |-> <<>>, synced |-> 0]
    BY DEF NoInode
<1> HIDE DEF NoInode
<1> QED BY <1>2, <1>3

\* The operation while none is under way.
Resting(fs) == [kind |-> "none", name |-> "-", to |-> "-", id |-> NoFile,
                phase |-> 2, before |-> fs]

(* What follows a record on the device: the second phase of an operation, or its end. *)
LEMMA PersistedSteps ==
    ASSUME OpTypes, op.kind # "none", NEW ino, Persisted(ino)
    PROVE  \/ /\ op.kind = "create" /\ op.phase = 1 /\ pc' = "persist" /\ mig' = mig
              /\ MainCreate(op.name, files, ino)
           \/ /\ op.kind = "rename" /\ op.phase = 1 /\ pc' = "persist" /\ mig' = mig
              /\ MainRename(op.name, op.to, files, ino)
           \/ /\ op.phase = 2 /\ pc' = "idle" /\ op' = Resting(files') /\ rec' = NoRec
              /\ next_id' = next_id /\ files' = After
              /\ mig' = (IF op.kind = "migrate" THEN NoMig ELSE mig)
              /\ inode' = (IF op.kind \in {"delete", "mount"} THEN ino
                           ELSE MetadataSynced(ino, op.id))
<1>1. op \in Operations /\ (op.phase = 1 => op.kind \in {"create", "rename"})
    BY DEF OpTypes
<1>2. op.phase \in {1, 2} /\ op.kind \in OpKinds \cup {"mount"}
    BY <1>1 DEF Operations
<1>3. CASE op.phase = 1 /\ op.kind = "create"
    BY <1>3 DEF Persisted
<1>4. CASE op.phase = 1 /\ op.kind = "rename"
    BY <1>4 DEF Persisted
<1>5. Return => pc' = "idle" /\ op' = Resting(files') /\ rec' = NoRec
    BY DEF Return, NoOp, Resting
<1>6. CASE op.phase = 2 /\ op.kind = "create"
    BY <1>5, <1>6 DEF Persisted, After
<1>7. CASE op.phase = 2 /\ op.kind \in {"sync", "rename", "link"}
    BY <1>5, <1>7 DEF Persisted, After
<1>8. CASE op.phase = 2 /\ op.kind = "migrate"
    BY <1>5, <1>8 DEF Persisted, After
<1>9. CASE op.phase = 2 /\ op.kind \in {"delete", "mount"}
    BY <1>5, <1>9 DEF Persisted, After
<1> QED BY <1>1, <1>2, <1>3, <1>4, <1>6, <1>7, <1>8, <1>9 DEF OpKinds

(* What an operation that is not persisted takes back. *)
LEMMA UndoneSteps ==
    ASSUME OpTypes, op.kind # "none", Undone
    PROVE  \/ /\ op.kind = "mount" /\ pc' = "down"
              /\ UNCHANGED <<files, inode, next_id, mig, op, rec>>
           \/ /\ op.kind # "mount" /\ pc' = "idle" /\ op' = Resting(files') /\ rec' = NoRec
              /\ next_id' = next_id
              /\ mig' = (IF op.kind = "migrate" THEN NoMig ELSE mig)
              /\ \/ /\ Removing
                    /\ files' = [files EXCEPT ![Removed] = op.id]
                    /\ inode' = AddLink(inode, op.id, Removed)
                 \/ /\ op.kind = "rename" /\ op.phase = 2
                    /\ files' = [files EXCEPT ![op.to] = NoFile, ![op.name] = op.id]
                    /\ inode' = RenameLink(inode, op.id, op.to, op.name)
                 \/ /\ op.kind = "link" /\ op.phase = 2
                    /\ files' = [files EXCEPT ![op.to] = NoFile]
                    /\ inode' = DropLink(inode, op.id, op.to)
                 \/ /\ op.kind = "create" /\ op.phase = 2
                    /\ files' = files /\ inode' = [inode EXCEPT ![op.id] = NoInode]
                 \/ /\ op.kind \in {"sync", "migrate"} /\ op.phase = 2
                    /\ files' = files /\ inode' = inode
<1>1. op \in Operations /\ (op.phase = 1 => op.kind \in {"create", "rename"})
    BY DEF OpTypes
<1>2. op.phase \in {1, 2} /\ op.kind \in OpKinds \cup {"mount"}
    BY <1>1 DEF Operations
<1>3. Return => pc' = "idle" /\ op' = Resting(files') /\ rec' = NoRec
    BY DEF Return, NoOp, Resting
<1>4. CASE Removing
    BY <1>1, <1>3, <1>4 DEF Undone, Removing, Removed, RestoreName
<1>5. CASE op.phase = 2 /\ op.kind = "rename"
    BY <1>3, <1>5 DEF Undone
<1>6. CASE op.phase = 2 /\ op.kind = "link"
    BY <1>3, <1>6 DEF Undone
<1>7. CASE op.phase = 2 /\ op.kind = "create"
    BY <1>3, <1>7 DEF Undone
<1>8. CASE op.phase = 2 /\ op.kind = "sync"
    BY <1>3, <1>8 DEF Undone, memVars
<1>9. CASE op.phase = 2 /\ op.kind = "migrate"
    BY <1>3, <1>9 DEF Undone, memVars
<1>10. CASE op.phase = 2 /\ op.kind = "mount"
    BY <1>10 DEF Undone, memVars
<1> QED BY <1>1, <1>2, <1>4, <1>5, <1>6, <1>7, <1>8, <1>9, <1>10 DEF OpKinds, Removing
-----------------------------------------------------------------------------
(* Types are preserved.                                                    *)

(* The file records that operations write. *)
LEMMA FileRecType ==
    ASSUME NEW x \in Inodes, NEW id \in Ids, NEW ls \in Seq(Names)
    PROVE  /\ SubSeq(x.ext, x.synced + 1, Len(x.ext)) \in Seq(Data)
           /\ SubSeq(x.ext, 0 + 1, Len(x.ext)) \in Seq(Data)
           /\ [id |-> id, links |-> ls,
               ext |-> SubSeq(x.ext, x.synced + 1, Len(x.ext))] \in FileRecs
           /\ [id |-> id, links |-> ls,
               ext |-> SubSeq(x.ext, 0 + 1, Len(x.ext))] \in FileRecs
<1>1. /\ x.ext \in Seq(Data) /\ x.synced \in Nat /\ x.synced <= Len(x.ext)
      /\ Len(x.ext) \in Nat /\ \A i \in 1..Len(x.ext) : x.ext[i] \in Data
  <2>1. x.ext \in Seq(Data) /\ x.synced \in Nat /\ x.synced <= Len(x.ext)
      BY InodeParts
  <2> QED BY <2>1
<1>2. ASSUME NEW k \in Nat, k <= Len(x.ext)
      PROVE  SubSeq(x.ext, k + 1, Len(x.ext)) \in Seq(Data)
  <2>1. k + 1 \in Int /\ Len(x.ext) \in Int
      BY <1>1
  <2>2. \A i \in (k + 1)..Len(x.ext) : x.ext[i] \in Data
    <3>1. \A i \in (k + 1)..Len(x.ext) : i \in 1..Len(x.ext)
        BY <1>1
    <3> QED BY <1>1, <3>1
  <2> QED BY <2>1, <2>2, SubSeqProperties
<1>3. SubSeq(x.ext, x.synced + 1, Len(x.ext)) \in Seq(Data)
    BY <1>1, <1>2
<1>4. SubSeq(x.ext, 0 + 1, Len(x.ext)) \in Seq(Data)
  <2>1. 0 \in Nat /\ 0 <= Len(x.ext)
      BY <1>1
  <2> QED BY <1>2, <2>1
<1> QED BY <1>3, <1>4 DEF FileRecs

(* The operation when none is under way. *)
LEMMA RestingType ==
    ASSUME NEW fs \in FileMaps
    PROVE  Resting(fs) \in Operations
BY DEF Resting, Operations, NoIds

(* The create phase of OpenWritableFile. *)
LEMMA MainCreateTypes ==
    ASSUME files \in FileMaps, NEW ino \in [Ids -> Inodes], NEW n \in Names,
           next_id \in 1..(MaxId + 1), MainCreate(n, files, ino)
    PROVE  /\ files' \in FileMaps /\ inode' \in [Ids -> Inodes]
           /\ next_id' \in 1..(MaxId + 1) /\ OpTypes' /\ rec' \in Updates
           /\ op'.kind = "create"
<1>1. next_id \in Ids /\ next_id' = next_id + 1 /\ files' = files
    BY DEF MainCreate
<1>2. next_id' \in 1..(MaxId + 1)
    BY <1>1, MetaLogAssumption DEF Ids
<1>3. inode' \in [Ids -> Inodes]
    BY <1>1, NewFileType DEF MainCreate
<1>4. op' = [kind |-> "create", name |-> n, to |-> n, id |-> next_id, phase |-> 2,
             before |-> files]
    BY DEF MainCreate
<1>5. OpTypes'
    BY <1>1, <1>4 DEF OpTypes, Operations, OpKinds, NoIds
<1>6. rec' \in Updates
  <2>1. <<n>> \in Seq(Names) /\ <<>> \in Seq(Data)
      OBVIOUS
  <2>2. [id |-> next_id, links |-> <<n>>, ext |-> <<>>] \in FileRecs
      BY <1>1, <2>1 DEF FileRecs
  <2> QED BY <2>2 DEF MainCreate, Updates
<1> QED BY <1>1, <1>2, <1>3, <1>4, <1>5, <1>6

(* The rename phase of RenameFile. *)
LEMMA MainRenameTypes ==
    ASSUME files \in FileMaps, NEW ino \in [Ids -> Inodes], NEW n \in Names, NEW m \in Names,
           next_id \in 1..(MaxId + 1), files[n] # NoFile, MainRename(n, m, files, ino)
    PROVE  /\ files' \in FileMaps /\ inode' \in [Ids -> Inodes]
           /\ next_id' \in 1..(MaxId + 1) /\ OpTypes' /\ rec' \in Updates
           /\ op'.kind = "rename"
<1> DEFINE id == files[n]
           new == RenameLink(ino, id, n, m)
<1>1. id \in Ids
    BY DEF FileMaps, NoIds
<1>2. /\ files' = [files EXCEPT ![n] = NoFile, ![m] = id] /\ inode' = new
      /\ op' = [kind |-> "rename", name |-> n, to |-> m, id |-> id, phase |-> 2,
                before |-> files]
      /\ next_id' = next_id
      /\ rec' = [type |-> "update",
                 file |-> [id |-> id, links |-> new[id].links,
                           ext |-> SubSeq(ino[id].ext, ino[id].synced + 1, Len(ino[id].ext))]]
    BY DEF MainRename
<1>3. new \in [Ids -> Inodes]
    BY <1>1, RenameLinkType
<1> HIDE DEF id, new
<1>4. new[id].links \in Seq(Names) /\ ino[id] \in Inodes
    BY <1>1, <1>3, InodeParts
<1>5. rec' \in Updates
  <2>1. rec'.file \in FileRecs
      BY <1>1, <1>2, <1>4, FileRecType
  <2> QED BY <1>2, <2>1 DEF Updates
<1>6. files' \in FileMaps
    BY <1>1, <1>2 DEF FileMaps, NoIds
<1>7. OpTypes'
    BY <1>1, <1>2 DEF OpTypes, Operations, OpKinds, NoIds
<1> QED BY <1>2, <1>3, <1>5, <1>6, <1>7

(* A record is on the device: the operation ends or starts its second phase. *)
LEMMA PersistedTypes ==
    ASSUME Types, op.kind # "none", NEW ino \in [Ids -> Inodes], Persisted(ino)
    PROVE  /\ MemTypes' /\ OpTypes'
           /\ \/ pc' = "idle" /\ op'.kind = "none"
              \/ pc' = "persist" /\ op'.kind \notin {"none", "mount"} /\ rec' \in Updates
<1>1. MemTypes /\ OpTypes
    BY DEF Types
<1>2. /\ files \in FileMaps /\ next_id \in 1..(MaxId + 1) /\ op \in Operations
      /\ mig \in [id : NoIds, ext : Seq(Data)] /\ (mig.id = NoFile => mig = NoMig)
    BY <1>1 DEF MemTypes, OpTypes
<1>3. CASE /\ op.kind = "create" /\ op.phase = 1 /\ pc' = "persist" /\ mig' = mig
           /\ MainCreate(op.name, files, ino)
  <2>1. op.name \in Names
      BY <1>1, <1>3 DEF OpTypes
  <2>2. /\ files' \in FileMaps /\ inode' \in [Ids -> Inodes]
        /\ next_id' \in 1..(MaxId + 1) /\ OpTypes' /\ rec' \in Updates /\ op'.kind = "create"
      BY <1>2, <1>3, <2>1, MainCreateTypes
  <2> QED BY <1>2, <1>3, <2>2 DEF MemTypes
<1>4. CASE /\ op.kind = "rename" /\ op.phase = 1 /\ pc' = "persist" /\ mig' = mig
           /\ MainRename(op.name, op.to, files, ino)
  <2>1. op.name \in Names /\ op.to \in Names /\ files[op.name] # NoFile
      BY <1>1, <1>4 DEF OpTypes
  <2>2. /\ files' \in FileMaps /\ inode' \in [Ids -> Inodes]
        /\ next_id' \in 1..(MaxId + 1) /\ OpTypes' /\ rec' \in Updates /\ op'.kind = "rename"
      BY <1>2, <1>4, <2>1, MainRenameTypes
  <2> QED BY <1>2, <1>4, <2>2 DEF MemTypes
<1>5. CASE /\ op.phase = 2 /\ pc' = "idle" /\ op' = Resting(files') /\ rec' = NoRec
           /\ next_id' = next_id /\ files' = After
           /\ mig' = (IF op.kind = "migrate" THEN NoMig ELSE mig)
           /\ inode' = (IF op.kind \in {"delete", "mount"} THEN ino
                        ELSE MetadataSynced(ino, op.id))
  <2>1. After \in FileMaps
      BY <1>1, <1>2 DEF After, OpTypes, FileMaps, NoIds
  <2>2. inode' \in [Ids -> Inodes]
    <3>1. CASE op.kind \in {"delete", "mount"}
        BY <1>5, <3>1
    <3>2. CASE op.kind \notin {"delete", "mount"}
      <4>1. op.id \in Ids
          BY <1>1, <3>2 DEF OpTypes
      <4> QED BY <1>5, <3>2, <4>1, SyncedType
    <3> QED BY <3>1, <3>2
  <2>3. mig' \in [id : NoIds, ext : Seq(Data)] /\ (mig'.id = NoFile => mig' = NoMig)
      BY <1>2, <1>5 DEF NoMig, NoIds
  <2>4. op' \in Operations /\ op'.kind = "none" /\ op'.phase = 2
    <3>1. op' \in Operations
        BY <1>5, <2>1, RestingType
    <3> QED BY <1>5, <3>1 DEF Resting
  <2>5. OpTypes'
      BY <2>4 DEF OpTypes
  <2> QED BY <1>2, <1>5, <2>1, <2>2, <2>3, <2>4, <2>5 DEF MemTypes
<1> QED BY <1>1, <1>3, <1>4, <1>5, PersistedSteps

(* A record is not on the device: the operation takes its change back, or the *)
(* file system stops.                                                         *)
LEMMA UndoneTypes ==
    ASSUME Types, op.kind # "none", Undone
    PROVE  /\ MemTypes' /\ OpTypes'
           /\ \/ pc' = "down"
              \/ pc' = "idle" /\ op'.kind = "none"
<1>1. MemTypes /\ OpTypes
    BY DEF Types
<1>2. /\ files \in FileMaps /\ next_id \in 1..(MaxId + 1) /\ op \in Operations
      /\ mig \in [id : NoIds, ext : Seq(Data)] /\ (mig.id = NoFile => mig = NoMig)
      /\ inode \in [Ids -> Inodes]
    BY <1>1 DEF MemTypes, OpTypes
<1>3. CASE /\ op.kind = "mount" /\ pc' = "down"
           /\ UNCHANGED <<files, inode, next_id, mig, op, rec>>
  <2>1. MemTypes'
      BY <1>1, <1>3 DEF MemTypes
  <2>2. OpTypes'
      BY <1>1, <1>3 DEF OpTypes
  <2>3. pc' = "down"
      BY <1>3
  <2> QED BY <2>1, <2>2, <2>3
<1>4. ASSUME op.kind # "mount", pc' = "idle", op' = Resting(files'), rec' = NoRec,
             next_id' = next_id, mig' = (IF op.kind = "migrate" THEN NoMig ELSE mig),
             files' \in FileMaps, inode' \in [Ids -> Inodes]
      PROVE  MemTypes' /\ OpTypes' /\ pc' = "idle" /\ op'.kind = "none"
  <2>1. mig' \in [id : NoIds, ext : Seq(Data)] /\ (mig'.id = NoFile => mig' = NoMig)
      BY <1>2, <1>4 DEF NoMig, NoIds
  <2>2. op' \in Operations /\ op'.kind = "none" /\ op'.phase = 2
    <3>1. op' \in Operations
        BY <1>4, RestingType
    <3> QED BY <1>4, <3>1 DEF Resting
  <2>3. OpTypes'
      BY <2>2 DEF OpTypes
  <2> QED BY <1>2, <1>4, <2>1, <2>2, <2>3 DEF MemTypes
<1>5. CASE op.kind # "mount"
  <2>1. op.id \in Ids
      BY <1>1, <1>5 DEF OpTypes
  <2>2. CASE /\ Removing
             /\ files' = [files EXCEPT ![Removed] = op.id]
             /\ inode' = AddLink(inode, op.id, Removed)
    <3>1. Removed \in Names
        BY <1>1, <2>2 DEF OpTypes, Removing, Removed
    <3>2. files' \in FileMaps
        BY <1>2, <2>1, <2>2, <3>1 DEF FileMaps, NoIds
    <3>3. inode' \in [Ids -> Inodes]
        BY <1>2, <2>1, <2>2, <3>1, AddLinkType
    <3> QED BY <1>1, <1>4, <1>5, <3>2, <3>3, UndoneSteps
  <2>3. CASE /\ op.kind = "rename" /\ op.phase = 2
             /\ files' = [files EXCEPT ![op.to] = NoFile, ![op.name] = op.id]
             /\ inode' = RenameLink(inode, op.id, op.to, op.name)
    <3>1. op.name \in Names /\ op.to \in Names
        BY <1>1, <2>3 DEF OpTypes
    <3>2. files' \in FileMaps
        BY <1>2, <2>1, <2>3, <3>1 DEF FileMaps, NoIds
    <3>3. inode' \in [Ids -> Inodes]
        BY <1>2, <2>1, <2>3, <3>1, RenameLinkType
    <3> QED BY <1>1, <1>4, <1>5, <3>2, <3>3, UndoneSteps
  <2>4. CASE /\ op.kind = "link" /\ op.phase = 2
             /\ files' = [files EXCEPT ![op.to] = NoFile]
             /\ inode' = DropLink(inode, op.id, op.to)
    <3>1. op.name \in Names /\ op.to \in Names
        BY <1>1, <2>4 DEF OpTypes
    <3>2. files' \in FileMaps
        BY <1>2, <2>1, <2>4, <3>1 DEF FileMaps, NoIds
    <3>3. inode' \in [Ids -> Inodes]
        BY <1>2, <2>1, <2>4, <3>1, DropLinkType
    <3> QED BY <1>1, <1>4, <1>5, <3>2, <3>3, UndoneSteps
  <2>5. CASE /\ op.kind = "create" /\ op.phase = 2
             /\ files' = files /\ inode' = [inode EXCEPT ![op.id] = NoInode]
    <3>1. NoInode \in Inodes
      <4>1. <<>> \in Seq(Names)
          OBVIOUS
      <4> QED BY <4>1, InodeForms
    <3>2. inode' \in [Ids -> Inodes]
        BY <1>2, <2>1, <2>5, <3>1
    <3> QED BY <1>1, <1>2, <1>4, <1>5, <2>5, <3>2, UndoneSteps
  <2>6. CASE /\ op.kind \in {"sync", "migrate"} /\ op.phase = 2
             /\ files' = files /\ inode' = inode
    <3>1. files' \in FileMaps /\ inode' \in [Ids -> Inodes]
        BY <1>2, <2>6
    <3> QED BY <1>1, <1>4, <1>5, <3>1, UndoneSteps
  <2> QED BY <1>1, <1>5, <2>2, <2>3, <2>4, <2>5, <2>6, UndoneSteps
<1> QED BY <1>1, <1>3, <1>5, UndoneSteps

(* The start of an operation. *)
LEMMA StartTypes ==
    ASSUME Types, NEW k, Start(k), MemTypes', OpTypes',
           op'.kind \notin {"none", "mount"}, rec' \in Updates \cup Deletions
    PROVE  Types'
<1>1. /\ pc = "idle" /\ pc' = "persist" /\ UNCHANGED <<log, full, cur, old, seq, found, mig, spoilt>>
    BY DEF Start, diskVars
<1>2. DiskTypes' /\ spoilt' \subseteq Marks /\ pc' \in Steps
    BY <1>1 DEF Types, DiskTypes, Steps
<1>3. StepInv'
    BY <1>1 DEF Types, StepInv
<1>4. RecTypes'
    BY <1>1 DEF RecTypes
<1> QED BY <1>2, <1>3, <1>4 DEF Types

(* The deletion that a delete, a create or a rename starts with. *)
LEMMA StartDeletionTypes ==
    ASSUME Types, NEW n \in Names, files[n] # NoFile,
           NEW k \in {"create", "delete", "rename"}, NEW x \in Names,
           NEW ph \in {1, 2}, ph = 1 => k \in {"create", "rename"},
           k = "rename" => files[x] # NoFile /\ x # n,
           NEW y \in Names,
           StartDeletion(n, Operation(k, x, y, NoFile, ph)), next_id' = next_id, mig' = mig
    PROVE  MemTypes' /\ OpTypes' /\ op'.kind = k /\ rec' \in Deletions
<1> DEFINE o == Operation(k, x, y, NoFile, ph)
<1>1. /\ files \in FileMaps /\ inode \in [Ids -> Inodes] /\ MemTypes
    BY DEF Types, MemTypes
<1>2. files[n] \in Ids
    BY <1>1 DEF FileMaps, NoIds
<1>3. /\ files' = [files EXCEPT ![n] = NoFile] /\ inode' = DropLink(inode, files[n], n)
      /\ rec' = [type |-> "deletion", id |-> files[n], name |-> n]
      /\ op' = [o EXCEPT !.id = files[n], !.before = files]
    BY DEF StartDeletion, Unlinked, FileDeletion
<1>4. op' = [kind |-> k, name |-> x, to |-> y, id |-> files[n], phase |-> ph, before |-> files]
    BY <1>3 DEF Operation
<1>5. files' \in FileMaps
    BY <1>1, <1>3 DEF FileMaps, NoIds
<1>6. inode' \in [Ids -> Inodes]
    BY <1>1, <1>2, <1>3, DropLinkType
<1>7. MemTypes'
    BY <1>1, <1>5, <1>6 DEF MemTypes
<1>8. op' \in Operations
    BY <1>1, <1>2, <1>4 DEF Operations, OpKinds, NoIds
<1>9. k = "rename" => files'[x] # NoFile
    BY <1>1, <1>3 DEF FileMaps
<1>10. OpTypes'
    BY <1>2, <1>4, <1>8, <1>9 DEF OpTypes
<1>11. rec' \in Deletions
    BY <1>2, <1>3 DEF Deletions
<1> QED BY <1>4, <1>7, <1>10, <1>11

(* OpenWritableFile preserves the types. *)
LEMMA OpenTypes ==
    ASSUME Types, NEW n \in Names, OpenWritableFile(n)
    PROVE  Types'
<1>1. /\ files \in FileMaps /\ inode \in [Ids -> Inodes] /\ next_id \in 1..(MaxId + 1) /\ MemTypes
    BY DEF Types, MemTypes
<1>2. Start("create") /\ mig' = mig
    BY DEF OpenWritableFile, Start
<1>3. CASE files[n] = NoFile
  <2>1. MainCreate(n, files, inode)
      BY <1>3 DEF OpenWritableFile
  <2>2. /\ files' \in FileMaps /\ inode' \in [Ids -> Inodes]
        /\ next_id' \in 1..(MaxId + 1) /\ OpTypes' /\ rec' \in Updates /\ op'.kind = "create"
      BY <1>1, <2>1, MainCreateTypes
  <2>3. MemTypes'
      BY <1>1, <1>2, <2>2 DEF MemTypes
  <2> QED BY <1>2, <2>2, <2>3, StartTypes
<1>4. CASE files[n] # NoFile
  <2>1. StartDeletion(n, Operation("create", n, n, NoFile, 1)) /\ next_id' = next_id
      BY <1>4 DEF OpenWritableFile
  <2>2. MemTypes' /\ OpTypes' /\ op'.kind = "create" /\ rec' \in Deletions
      BY <1>2, <1>4, <2>1, StartDeletionTypes
  <2> QED BY <1>2, <2>2, StartTypes
<1> QED BY <1>3, <1>4

(* DeleteFile preserves the types. *)
LEMMA DeleteTypes ==
    ASSUME Types, NEW n \in Names, DeleteFile(n)
    PROVE  Types'
<1>1. /\ Start("delete") /\ mig' = mig /\ files[n] # NoFile /\ next_id' = next_id
      /\ StartDeletion(n, Operation("delete", n, n, NoFile, 2))
    BY DEF DeleteFile, Start
<1>2. MemTypes' /\ OpTypes' /\ op'.kind = "delete" /\ rec' \in Deletions
    BY <1>1, StartDeletionTypes
<1> QED BY <1>1, <1>2, StartTypes

(* RenameFile preserves the types. *)
LEMMA RenameTypes ==
    ASSUME Types, NEW n \in Names, NEW m \in Names, RenameFile(n, m)
    PROVE  Types'
<1>1. /\ files \in FileMaps /\ inode \in [Ids -> Inodes] /\ next_id \in 1..(MaxId + 1) /\ MemTypes
    BY DEF Types, MemTypes
<1>2. Start("rename") /\ mig' = mig /\ files[n] # NoFile
    BY DEF RenameFile, Start
<1>3. CASE files[m] = NoFile
  <2>1. MainRename(n, m, files, inode)
      BY <1>3 DEF RenameFile
  <2>2. /\ files' \in FileMaps /\ inode' \in [Ids -> Inodes]
        /\ next_id' \in 1..(MaxId + 1) /\ OpTypes' /\ rec' \in Updates /\ op'.kind = "rename"
      BY <1>1, <1>2, <2>1, MainRenameTypes
  <2>3. MemTypes'
      BY <1>1, <1>2, <2>2 DEF MemTypes
  <2> QED BY <1>2, <2>2, <2>3, StartTypes
<1>4. CASE files[m] # NoFile /\ n # m
  <2>1. StartDeletion(m, Operation("rename", n, m, NoFile, 1)) /\ next_id' = next_id
      BY <1>4 DEF RenameFile
  <2>2. MemTypes' /\ OpTypes' /\ op'.kind = "rename" /\ rec' \in Deletions
      BY <1>2, <1>4, <2>1, StartDeletionTypes
  <2> QED BY <1>2, <2>2, StartTypes
<1>5. CASE files[m] # NoFile /\ n = m
  <2>1. StartDeletion(m, Operation("delete", n, m, NoFile, 2)) /\ next_id' = next_id
      BY <1>5 DEF RenameFile
  <2>2. MemTypes' /\ OpTypes' /\ op'.kind = "delete" /\ rec' \in Deletions
      BY <1>2, <1>5, <2>1, StartDeletionTypes
  <2> QED BY <1>2, <2>2, StartTypes
<1> QED BY <1>3, <1>4, <1>5

(* LinkFile preserves the types. *)
LEMMA LinkTypes ==
    ASSUME Types, NEW n \in Names, NEW m \in Names, LinkFile(n, m)
    PROVE  Types'
<1> DEFINE id == files[n]
<1>1. /\ files \in FileMaps /\ inode \in [Ids -> Inodes] /\ next_id \in 1..(MaxId + 1) /\ MemTypes
    BY DEF Types, MemTypes
<1>2. /\ Start("link") /\ mig' = mig /\ id # NoFile /\ next_id' = next_id
      /\ files' = [files EXCEPT ![m] = id] /\ inode' = AddLink(inode, id, m)
      /\ op' = [kind |-> "link", name |-> n, to |-> m, id |-> id, phase |-> 2,
                before |-> files]
      /\ rec' = [type |-> "update",
                 file |-> [FileUpdate(id).file EXCEPT !.links = Append(@, m)]]
    BY DEF LinkFile, Start, Operation
<1>3. id \in Ids
    BY <1>1, <1>2 DEF FileMaps, NoIds
<1> HIDE DEF id
<1>4. files' \in FileMaps
    BY <1>1, <1>2, <1>3 DEF FileMaps, NoIds
<1>5. inode' \in [Ids -> Inodes]
    BY <1>1, <1>2, <1>3, AddLinkType
<1>6. MemTypes'
    BY <1>1, <1>2, <1>4, <1>5 DEF MemTypes
<1>7. OpTypes'
    BY <1>1, <1>2, <1>3 DEF OpTypes, Operations, OpKinds, NoIds
<1>8. rec' \in Updates
  <2>1. inode[id] \in Inodes /\ inode[id].links \in Seq(Names)
      BY <1>1, <1>3, InodeParts
  <2>2. Append(inode[id].links, m) \in Seq(Names)
      BY <2>1
  <2>3. FileUpdate(id).file = [id |-> id, links |-> inode[id].links,
          ext |-> SubSeq(inode[id].ext, inode[id].synced + 1, Len(inode[id].ext))]
      BY DEF FileUpdate, Encoded
  <2>4. rec'.file = [id |-> id, links |-> Append(inode[id].links, m),
          ext |-> SubSeq(inode[id].ext, inode[id].synced + 1, Len(inode[id].ext))]
    <3>1. ASSUME NEW a, NEW b, NEW c, NEW r, r = [id |-> a, links |-> b, ext |-> c]
          PROVE  [r EXCEPT !.links = Append(@, m)] = [id |-> a, links |-> Append(b, m), ext |-> c]
        BY <3>1
    <3>2. rec'.file = [FileUpdate(id).file EXCEPT !.links = Append(@, m)]
        BY <1>2
    <3> DEFINE r == FileUpdate(id).file
               c == SubSeq(inode[id].ext, inode[id].synced + 1, Len(inode[id].ext))
               b == inode[id].links
    <3>3. r = [id |-> id, links |-> b, ext |-> c]
        BY <2>3
    <3> HIDE DEF r, c, b
    <3>4. [r EXCEPT !.links = Append(@, m)] = [id |-> id, links |-> Append(b, m), ext |-> c]
        BY <3>1, <3>3
    <3> QED BY <3>2, <3>4 DEF r, c, b
  <2>5. [id |-> id, links |-> Append(inode[id].links, m),
          ext |-> SubSeq(inode[id].ext, inode[id].synced + 1, Len(inode[id].ext))] \in FileRecs
      BY <1>3, <2>1, <2>2, FileRecType
  <2>6. rec'.file \in FileRecs
      BY <2>4, <2>5
  <2> QED BY <1>2, <2>6 DEF Updates
<1> QED BY <1>2, <1>6, <1>7, <1>8, StartTypes

(* SyncFileMetadata preserves the types. *)
LEMMA SyncTypes ==
    ASSUME Types, NEW n \in Names, SyncFileMetadata(n)
    PROVE  Types'
<1> DEFINE id == files[n]
<1>1. /\ files \in FileMaps /\ inode \in [Ids -> Inodes] /\ MemTypes
    BY DEF Types, MemTypes
<1>2. /\ Start("sync") /\ id # NoFile /\ UNCHANGED <<files, inode, next_id, mig>>
      /\ op' = [kind |-> "sync", name |-> n, to |-> n, id |-> id, phase |-> 2, before |-> files]
      /\ rec' = FileUpdate(id)
    BY DEF SyncFileMetadata, Start, Operation, memVars
<1>3. id \in Ids
    BY <1>1, <1>2 DEF FileMaps, NoIds
<1> HIDE DEF id
<1>4. MemTypes'
    BY <1>1, <1>2 DEF MemTypes
<1>5. OpTypes'
    BY <1>1, <1>2, <1>3 DEF OpTypes, Operations, OpKinds, NoIds
<1>6. rec' \in Updates
  <2>1. inode[id] \in Inodes /\ inode[id].links \in Seq(Names)
      BY <1>1, <1>3, InodeParts
  <2>2. FileUpdate(id).file \in FileRecs
      BY <1>3, <2>1, FileRecType DEF FileUpdate, Encoded
  <2> QED BY <1>2, <2>2 DEF Updates, FileUpdate
<1> QED BY <1>2, <1>4, <1>5, <1>6, StartTypes

(* PushExtent preserves the types. *)
LEMMA PushTypes ==
    ASSUME Types, NEW id \in Ids, PushExtent(id)
    PROVE  Types'
<1>1. /\ files \in FileMaps /\ inode \in [Ids -> Inodes] /\ MemTypes
    BY DEF Types, MemTypes
<1>2. /\ UNCHANGED <<log, full, cur, old, seq, files, next_id, pc, op, rec, mig>>
      /\ inode' = [inode EXCEPT ![id].ext = Append(@, "d")]
      /\ spoilt' \subseteq spoilt \cup {"overlap"}
    BY DEF PushExtent, diskVars, Mark
<1>3. inode' \in [Ids -> Inodes]
  <2>1. inode[id] \in Inodes /\ inode[id].ext \in Seq(Data) /\ inode[id].synced \in Nat
        /\ inode[id].synced <= Len(inode[id].ext) /\ inode[id].links \in Seq(Names)
      BY <1>1, InodeParts
  <2>2. Append(inode[id].ext, "d") \in Seq(Data) /\ inode[id].synced <= Len(Append(inode[id].ext, "d"))
      BY <2>1 DEF Data
  <2>3. [inode[id] EXCEPT !.ext = Append(inode[id].ext, "d")] \in Inodes
    <3> DEFINE e == Append(inode[id].ext, "d")
    <3>1. e \in Seq(Data) /\ inode[id].synced <= Len(e)
        BY <2>2
    <3> HIDE DEF e
    <3>2. [inode[id] EXCEPT !.ext = e] \in Inodes
        BY <2>1, <3>1 DEF Inodes
    <3> QED BY <3>2 DEF e
  <2> QED BY <1>1, <1>2, <2>3
<1>4. MemTypes'
    BY <1>1, <1>2, <1>3 DEF MemTypes
<1>5. DiskTypes' /\ pc' \in Steps /\ spoilt' \subseteq Marks
    BY <1>2 DEF Types, DiskTypes, Marks
<1>6. OpTypes'
    BY <1>2 DEF Types, OpTypes
<1>7. StepInv' /\ RecTypes'
    BY <1>2 DEF Types, StepInv, RecTypes
<1> QED BY <1>4, <1>5, <1>6, <1>7 DEF Types

(* ReplaceExtentList preserves the types. *)
LEMMA ReplaceTypes ==
    ASSUME Types, NEW id \in Ids, ReplaceExtentList(id)
    PROVE  Types'
<1> DEFINE e == [i \in DOMAIN inode[id].ext |-> "m"]
<1>1. /\ files \in FileMaps /\ inode \in [Ids -> Inodes] /\ MemTypes
    BY DEF Types, MemTypes
<1>2. /\ UNCHANGED <<log, full, cur, old, seq, files, next_id, pc, op, rec, spoilt>>
      /\ inode' = [inode EXCEPT ![id] = [links |-> inode[id].links, ext |-> e, synced |-> 0]]
      /\ mig' = [id |-> id, ext |-> inode[id].ext]
    BY DEF ReplaceExtentList, diskVars
<1>3. inode[id] \in Inodes /\ inode[id].ext \in Seq(Data) /\ inode[id].links \in Seq(Names)
    BY <1>1, InodeParts
<1>4. e \in Seq(Data) /\ Len(e) \in Nat
  <2>1. Len(inode[id].ext) \in Nat /\ DOMAIN inode[id].ext = 1..Len(inode[id].ext)
      BY <1>3
  <2>2. e \in [1..Len(inode[id].ext) -> Data]
      BY <2>1 DEF Data
  <2> HIDE DEF e
  <2> QED BY <2>1, <2>2
<1> HIDE DEF e
<1>5. inode' \in [Ids -> Inodes]
  <2>1. [links |-> inode[id].links, ext |-> e, synced |-> 0] \in Inodes
      BY <1>3, <1>4 DEF Inodes
  <2> QED BY <1>1, <1>2, <2>1
<1>6. MemTypes'
  <2>1. mig' \in [id : NoIds, ext : Seq(Data)] /\ mig'.id # NoFile
      BY <1>2, <1>3, MetaLogAssumption DEF NoIds, Ids, NoFile
  <2> QED BY <1>1, <1>2, <1>5, <2>1 DEF MemTypes
<1>7. DiskTypes' /\ pc' \in Steps /\ spoilt' \subseteq Marks
    BY <1>2 DEF Types, DiskTypes
<1>8. OpTypes'
    BY <1>2 DEF Types, OpTypes
<1>9. StepInv' /\ RecTypes'
    BY <1>2 DEF Types, StepInv, RecTypes
<1> QED BY <1>6, <1>7, <1>8, <1>9 DEF Types

(* SyncFileExtents preserves the types. *)
LEMMA MigrateTypes ==
    ASSUME Types, SyncFileExtents
    PROVE  Types'
<1>1. /\ files \in FileMaps /\ inode \in [Ids -> Inodes] /\ MemTypes /\ mig.id \in Ids
    BY DEF Types, MemTypes, NoIds, SyncFileExtents
<1>2. /\ pc = "idle" /\ UNCHANGED <<log, full, cur, old, seq, files, inode, next_id, spoilt>>
    BY DEF SyncFileExtents, diskVars, memVars
<1>3. DiskTypes' /\ spoilt' \subseteq Marks
    BY <1>2 DEF Types, DiskTypes
<1>4. CASE inode[mig.id].links = <<>>
  <2>1. mig' = NoMig /\ UNCHANGED <<pc, op, rec>>
      BY <1>4 DEF SyncFileExtents
  <2>2. MemTypes'
      BY <1>1, <1>2, <2>1 DEF MemTypes, NoMig, NoIds
  <2>3. OpTypes'
      BY <1>2, <2>1 DEF Types, OpTypes
  <2>4. StepInv' /\ RecTypes' /\ pc' \in Steps
      BY <1>2, <2>1 DEF Types, StepInv, RecTypes
  <2> QED BY <1>3, <2>2, <2>3, <2>4 DEF Types
<1>5. CASE inode[mig.id].links # <<>>
  <2>1. /\ pc' = "persist" /\ mig' = mig /\ rec' = FileReplace(mig.id)
        /\ op' = [kind |-> "migrate", name |-> "-", to |-> "-", id |-> mig.id, phase |-> 2,
                  before |-> files]
      BY <1>5 DEF SyncFileExtents, Operation
  <2>2. MemTypes'
      BY <1>1, <1>2, <2>1 DEF MemTypes
  <2>3. OpTypes'
      BY <1>1, <1>2, <2>1 DEF OpTypes, Operations, OpKinds, NoIds
  <2>4. rec' \in Updates
    <3>1. inode[mig.id] \in Inodes /\ inode[mig.id].links \in Seq(Names)
        BY <1>1, InodeParts
    <3>2. FileReplace(mig.id).file \in FileRecs
        BY <1>1, <3>1, FileRecType DEF FileReplace, Encoded
    <3> QED BY <2>1, <3>2 DEF Updates, FileReplace
  <2>5. StepInv'
      BY <1>2, <2>1 DEF Types, StepInv
  <2>6. RecTypes' /\ pc' \in Steps
      BY <2>1, <2>4 DEF RecTypes, Steps
  <2> QED BY <1>3, <2>2, <2>3, <2>5, <2>6 DEF Types
<1> QED BY <1>4, <1>5

(* PersistRecord preserves the types. *)
LEMMA PersistTypes ==
    ASSUME Types, PersistRecord
    PROVE  Types'
<1>1. /\ pc = "persist" /\ Capacity(cur) > 0 /\ UNCHANGED <<full, cur, old, seq>>
      /\ cur \in MZones /\ op.kind \notin {"none", "mount"} /\ rec \in Updates \cup Deletions
    BY DEF PersistRecord, Types, StepInv, RecTypes
<1>2. /\ log \in Devices /\ \A z \in MZones : Len(log[z]) <= MetaCap
      /\ full \in [MZones -> BOOLEAN] /\ inode \in [Ids -> Inodes]
      /\ cur \in 0..MetaZones /\ old \in 0..MetaZones /\ seq \in Nat
    BY DEF Types, DiskTypes, MemTypes
<1>3. Len(log[cur]) < MetaCap
  <2>1. log[cur] \in Seq(Records)
      BY <1>1, <1>2 DEF Devices
  <2>2. Len(log[cur]) \in Nat
      BY <2>1
  <2> QED BY <1>1, <2>2, MetaLogAssumption DEF Capacity
<1>4. ASSUME NEW r \in Records, log' = Appended(log, cur, r)
      PROVE  DiskTypes'
  <2>1. log' \in Devices /\ Len(log'[cur]) = Len(log[cur]) + 1
        /\ \A y \in MZones : y # cur => log'[y] = log[y]
      BY <1>1, <1>2, <1>4, LogAppend
  <2>2. log[cur] \in Seq(Records)
      BY <1>1, <1>2 DEF Devices
  <2>3. Len(log[cur]) \in Nat
      BY <2>2
  <2>4. \A z \in MZones : Len(log'[z]) <= MetaCap
      BY <1>2, <1>3, <2>1, <2>3, MetaLogAssumption
  <2> QED BY <1>1, <1>2, <2>1, <2>4 DEF DiskTypes
<1>5. CASE Write(cur, rec) /\ Persisted(inode) /\ MarkOvertaken
  <2>1. rec \in Records /\ log' = Appended(log, cur, rec)
      BY <1>1, <1>5, WriteIs DEF Records
  <2>2. DiskTypes'
      BY <1>4, <2>1
  <2>3. /\ MemTypes' /\ OpTypes'
        /\ \/ pc' = "idle" /\ op'.kind = "none"
           \/ pc' = "persist" /\ op'.kind \notin {"none", "mount"} /\ rec' \in Updates
      BY <1>1, <1>2, <1>5, PersistedTypes
  <2>4. StepInv' /\ RecTypes' /\ pc' \in Steps
      BY <1>1, <2>3 DEF StepInv, RecTypes, Steps
  <2>5. spoilt' \subseteq Marks
      BY <1>5 DEF Types, MarkOvertaken, Mark, Marks
  <2> QED BY <2>2, <2>3, <2>4, <2>5 DEF Types
<1>6. CASE WriteFails(cur) /\ Undone
  <2>1. DiskTypes' /\ spoilt' \subseteq Marks
    <3>1. CASE Untouched /\ Mark(op.kind = "migrate", "migrate")
        BY <1>1, <1>2, <3>1 DEF Untouched, Mark, Marks, DiskTypes, Types
    <3>2. CASE Torn /\ Write(cur, Invalid) /\ Mark(TRUE, "torn")
      <4>1. Invalid \in Records /\ log' = Appended(log, cur, Invalid)
          BY <3>2, WriteIs DEF Records, Marked
      <4>2. DiskTypes'
          BY <1>4, <4>1
      <4> QED BY <3>2, <4>2 DEF Mark, Marks, Types
    <3> QED BY <1>6, <3>1, <3>2 DEF WriteFails
  <2>2. /\ MemTypes' /\ OpTypes'
        /\ \/ pc' = "down"
           \/ pc' = "idle" /\ op'.kind = "none"
      BY <1>1, <1>6, UndoneTypes
  <2>3. StepInv' /\ RecTypes' /\ pc' \in Steps
      BY <1>1, <2>2 DEF StepInv, RecTypes, Steps
  <2> QED BY <2>1, <2>2, <2>3 DEF Types
<1> QED BY <1>5, <1>6 DEF PersistRecord

(* NoSpace preserves the types. *)
LEMMA NoSpaceTypes ==
    ASSUME Types, NoSpace
    PROVE  Types'
<1>1. /\ pc = "persist" /\ pc' = "alloc"
      /\ UNCHANGED <<log, full, cur, old, seq, files, inode, next_id, op, rec, mig>>
      /\ spoilt' \subseteq spoilt \cup {"create"}
    BY DEF NoSpace, diskVars, memVars, Mark
<1>2. DiskTypes' /\ MemTypes' /\ pc' \in Steps /\ spoilt' \subseteq Marks
    BY <1>1 DEF Types, DiskTypes, MemTypes, Steps, Marks
<1>3. OpTypes'
    BY <1>1 DEF Types, OpTypes
<1>4. StepInv' /\ RecTypes'
    BY <1>1 DEF Types, StepInv, RecTypes
<1> QED BY <1>2, <1>3, <1>4 DEF Types

(* AllocateMetaZone preserves the types. *)
LEMMA AllocTypes ==
    ASSUME Types, AllocateMetaZone
    PROVE  Types'
<1>1. /\ pc = "alloc" /\ seq' = seq /\ cur \in MZones /\ op.kind # "none"
    BY DEF AllocateMetaZone, Types, StepInv
<1>2. /\ log \in Devices /\ \A z \in MZones : Len(log[z]) <= MetaCap
      /\ full \in [MZones -> BOOLEAN] /\ inode \in [Ids -> Inodes]
      /\ cur \in 0..MetaZones /\ old \in 0..MetaZones /\ seq \in Nat
    BY DEF Types, DiskTypes, MemTypes
<1>3. ASSUME NEW z \in MZones \ {cur}, Contents([log EXCEPT ![z] = <<>>]),
             full' = [full EXCEPT ![z] = FALSE], cur' = z, old' = cur, pc' = "end",
             UNCHANGED <<memVars, op, rec, mig, spoilt>>
      PROVE  Types'
  <2>1. /\ log' \in Devices /\ log'[z] = <<>> /\ Len(log'[z]) = 0
        /\ \A y \in MZones : y # z => log'[y] = log[y]
    <3>1. log' = Erased(log, z)
        BY <1>3 DEF Contents, Erased
    <3> QED BY <1>2, <3>1, LogReset
  <2>2. \A y \in MZones : Len(log'[y]) <= MetaCap
      BY <1>2, <2>1, MetaLogAssumption
  <2>3. full' \in [MZones -> BOOLEAN]
      BY <1>2, <1>3
  <2>4. cur' \in 0..MetaZones /\ old' \in 0..MetaZones /\ cur' \in MZones
      BY <1>1, <1>2, <1>3, MetaLogAssumption DEF MZones
  <2>5. DiskTypes'
      BY <1>1, <1>2, <2>1, <2>2, <2>3, <2>4 DEF DiskTypes
  <2>6. MemTypes' /\ OpTypes' /\ spoilt' \subseteq Marks /\ pc' \in Steps
      BY <1>3 DEF Types, MemTypes, OpTypes, memVars, Steps
  <2>7. StepInv'
      BY <1>1, <1>3, <2>1, <2>4 DEF StepInv
  <2>8. RecTypes'
      BY <1>3 DEF RecTypes
  <2> QED BY <2>5, <2>6, <2>7, <2>8 DEF Types
<1>4. ASSUME Undone, Mark(TRUE, "roll"), UNCHANGED <<log, found, full, cur, old>>
      PROVE  Types'
  <2>1. DiskTypes' /\ spoilt' \subseteq Marks
      BY <1>1, <1>4 DEF Types, DiskTypes, Mark, Marks
  <2>2. /\ MemTypes' /\ OpTypes'
        /\ \/ pc' = "down"
           \/ pc' = "idle" /\ op'.kind = "none"
      BY <1>1, <1>4, UndoneTypes
  <2>3. StepInv' /\ RecTypes' /\ pc' \in Steps
      BY <1>1, <1>4, <2>2 DEF StepInv, RecTypes, Steps
  <2> QED BY <2>1, <2>2, <2>3 DEF Types
<1> QED BY <1>3, <1>4 DEF AllocateMetaZone

(* Room in the old zone means that it was not finished and not all its records are there. *)
LEMMA RoomInOld ==
    ASSUME DiskTypes, NEW z \in MZones, Capacity(z) > 0, NEW r \in Records,
           Write(z, r), UNCHANGED <<cur, old, seq>>, full' \in [MZones -> BOOLEAN]
    PROVE  DiskTypes'
<1>1. log \in Devices /\ log[z] \in Seq(Records) /\ \A y \in MZones : Len(log[y]) <= MetaCap
    BY DEF DiskTypes, Devices
<1>2. Len(log[z]) \in Nat
    BY <1>1
<1>3. Len(log[z]) < MetaCap
    BY <1>2, MetaLogAssumption DEF Capacity
<1>4. log' \in Devices /\ Len(log'[z]) = Len(log[z]) + 1
      /\ \A y \in MZones : y # z => log'[y] = log[y]
    BY <1>1, LogAppend, WriteIs
<1>5. \A y \in MZones : Len(log'[y]) <= MetaCap
    BY <1>1, <1>2, <1>3, <1>4, MetaLogAssumption
<1> QED BY <1>4, <1>5 DEF DiskTypes

(* WriteEndRecord preserves the types. *)
LEMMA EndTypes ==
    ASSUME Types, WriteEndRecord
    PROVE  Types'
<1>1. /\ pc = "end" /\ pc' = "finish" /\ old \in MZones /\ cur \in MZones /\ old # cur
      /\ UNCHANGED <<full, cur, old, seq, files, inode, next_id, op, rec, mig, spoilt>>
    BY DEF WriteEndRecord, memVars, Types, StepInv
<1>2. MemTypes' /\ OpTypes' /\ spoilt' \subseteq Marks /\ pc' \in Steps
    BY <1>1 DEF Types, MemTypes, OpTypes, Steps
<1>3. DiskTypes /\ log \in Devices /\ full \in [MZones -> BOOLEAN]
    BY DEF Types, DiskTypes
<1>4. CASE Capacity(old) > 0 /\ Write(old, [type |-> "end"])
  <2>1. [type |-> "end"] \in Records
      BY DEF Records, Marked
  <2>2. DiskTypes'
      BY <1>1, <1>3, <1>4, <2>1, RoomInOld
  <2>3. log'[cur] = log[cur]
      BY <1>1, <1>3, <1>4, <2>1, LogAppend, WriteIs
  <2>4. StepInv' /\ RecTypes'
      BY <1>1, <2>3 DEF Types, StepInv, RecTypes
  <2> QED BY <1>2, <2>2, <2>4 DEF Types
<1>5. CASE Untouched
  <2>1. DiskTypes'
      BY <1>1, <1>5 DEF Types, DiskTypes, Untouched
  <2>2. StepInv' /\ RecTypes'
      BY <1>1, <1>5 DEF Types, StepInv, RecTypes, Untouched
  <2> QED BY <1>2, <2>1, <2>2 DEF Types
<1> QED BY <1>4, <1>5 DEF WriteEndRecord

(* FinishOldZone preserves the types. *)
LEMMA FinishTypes ==
    ASSUME Types, FinishOldZone
    PROVE  Types'
<1>1. /\ pc = "finish" /\ pc' = "super" /\ old \in MZones /\ cur \in MZones /\ old # cur
      /\ UNCHANGED <<cur, old, seq, files, inode, next_id, op, rec, mig>>
    BY DEF FinishOldZone, memVars, Types, StepInv
<1>2. MemTypes' /\ OpTypes' /\ pc' \in Steps
    BY <1>1 DEF Types, MemTypes, OpTypes, Steps
<1>3. DiskTypes /\ log \in Devices /\ full \in [MZones -> BOOLEAN]
    BY DEF Types, DiskTypes
<1>4. full' \in [MZones -> BOOLEAN]
    BY <1>1, <1>3 DEF FinishOldZone
<1>5. CASE Capacity(old) > 0 /\ Write(old, Invalid) /\ Mark(TRUE, "torn")
  <2>1. Invalid \in Records
      BY DEF Records, Marked
  <2>2. DiskTypes'
      BY <1>1, <1>3, <1>4, <1>5, <2>1, RoomInOld
  <2>3. log'[cur] = log[cur]
      BY <1>1, <1>3, <1>5, <2>1, LogAppend, WriteIs
  <2>4. StepInv' /\ RecTypes'
      BY <1>1, <2>3 DEF Types, StepInv, RecTypes
  <2>5. spoilt' \subseteq Marks
      BY <1>5 DEF Types, Mark, Marks
  <2> QED BY <1>2, <2>2, <2>4, <2>5 DEF Types
<1>6. CASE Untouched /\ UNCHANGED spoilt
  <2>1. DiskTypes' /\ spoilt' \subseteq Marks
      BY <1>1, <1>3, <1>4, <1>6 DEF Types, DiskTypes, Untouched
  <2>2. StepInv' /\ RecTypes'
      BY <1>1, <1>6 DEF Types, StepInv, RecTypes, Untouched
  <2> QED BY <1>2, <2>1, <2>2 DEF Types
<1> QED BY <1>5, <1>6 DEF FinishOldZone

(* The first two records of a fresh zone fit. *)
LEMMA FreshRoom ==
    ASSUME DiskTypes, NEW z \in MZones, Len(log[z]) < 2, NEW r \in Records,
           Write(z, r), UNCHANGED <<full, cur>>, old' \in 0..MetaZones, seq' \in Nat
    PROVE  DiskTypes' /\ log'[z] = Append(log[z], r) /\ Len(log'[z]) = Len(log[z]) + 1
<1>1. log \in Devices /\ log[z] \in Seq(Records) /\ \A y \in MZones : Len(log[y]) <= MetaCap
    BY DEF DiskTypes, Devices
<1>2. Len(log[z]) \in Nat
    BY <1>1
<1>3. log' \in Devices /\ Len(log'[z]) = Len(log[z]) + 1 /\ log'[z] = Append(log[z], r)
      /\ \A y \in MZones : y # z => log'[y] = log[y]
    BY <1>1, LogAppend, WriteIs
<1>4. \A y \in MZones : Len(log'[y]) <= MetaCap
    BY <1>1, <1>2, <1>3, MetaLogAssumption
<1> QED BY <1>3, <1>4 DEF DiskTypes

(* WriteSuperblock preserves the types. *)
LEMMA SuperTypes ==
    ASSUME Types, WriteSuperblock
    PROVE  Types'
<1> DEFINE r == [type |-> "super", seq |-> seq + 1]
<1>1. /\ pc = "super" /\ old \in MZones /\ cur \in MZones /\ old # cur /\ log[cur] = <<>>
      /\ seq' = seq + 1 /\ UNCHANGED <<full, cur>> /\ op.kind # "none"
    BY DEF WriteSuperblock, Types, StepInv
<1>2. DiskTypes /\ seq \in Nat /\ old \in 0..MetaZones
    BY DEF Types, DiskTypes
<1>3. r \in Records /\ seq' \in Nat
    BY <1>1, <1>2 DEF Records, Supers
<1>4. CASE /\ Write(cur, [type |-> "super", seq |-> seq']) /\ pc' = "snap"
           /\ UNCHANGED <<old, memVars, op, rec, mig, spoilt>>
  <2>1. DiskTypes' /\ log'[cur] = Append(log[cur], r)
      BY <1>1, <1>2, <1>3, <1>4, FreshRoom
  <2>2. log'[cur'] = <<[type |-> "super", seq |-> seq']>>
      BY <1>1, <2>1
  <2>3. MemTypes' /\ OpTypes' /\ pc' \in Steps /\ spoilt' \subseteq Marks
      BY <1>4 DEF Types, MemTypes, OpTypes, Steps, memVars
  <2>4. StepInv' /\ RecTypes'
      BY <1>1, <1>4, <2>2 DEF StepInv, RecTypes
  <2> QED BY <2>1, <2>3, <2>4 DEF Types
<1>5. CASE Untouched /\ Undone /\ old' = 0 /\ Mark(TRUE, "roll")
  <2>1. old' \in 0..MetaZones
      BY <1>5, MetaLogAssumption
  <2>2. DiskTypes' /\ spoilt' \subseteq Marks
      BY <1>1, <1>3, <1>5, <2>1 DEF Types, DiskTypes, Untouched, Mark, Marks
  <2>3. /\ MemTypes' /\ OpTypes'
        /\ \/ pc' = "down"
           \/ pc' = "idle" /\ op'.kind = "none"
      BY <1>1, <1>5, UndoneTypes
  <2>4. StepInv' /\ RecTypes' /\ pc' \in Steps
      BY <1>1, <2>3 DEF StepInv, RecTypes, Steps
  <2> QED BY <2>2, <2>3, <2>4 DEF Types
<1> QED BY <1>4, <1>5 DEF WriteSuperblock

(* EncodeSnapshotTo preserves the types. *)
LEMMA SnapTypes ==
    ASSUME Types, EncodeSnapshotTo
    PROVE  Types'
<1>1. /\ pc = "snap" /\ pc' = "write" /\ rec' = Snapshot
      /\ UNCHANGED <<log, full, cur, old, seq, files, inode, next_id, op, mig, spoilt>>
    BY DEF EncodeSnapshotTo, diskVars, memVars
<1>2. DiskTypes' /\ MemTypes' /\ OpTypes' /\ pc' \in Steps /\ spoilt' \subseteq Marks
    BY <1>1 DEF Types, DiskTypes, MemTypes, OpTypes, Steps
<1>3. rec' \in Snapshots
  <2>1. files \in FileMaps /\ inode \in [Ids -> Inodes]
      BY DEF Types, MemTypes
  <2>2. ASSUME NEW n \in Names, files[n] # NoFile PROVE Encoded(files[n], 0) \in FileRecs
    <3>1. files[n] \in Ids
        BY <2>1, <2>2 DEF FileMaps, NoIds
    <3>2. inode[files[n]] \in Inodes /\ inode[files[n]].links \in Seq(Names)
        BY <2>1, <3>1, InodeParts
    <3> QED BY <3>1, <3>2, FileRecType DEF Encoded
  <2>3. {Encoded(files[n], 0) : n \in {m \in Names : files[m] # NoFile}} \subseteq FileRecs
      BY <2>2
  <2> QED BY <1>1, <2>3 DEF Snapshots, Snapshot
<1>4. StepInv' /\ RecTypes'
    BY <1>1, <1>3 DEF Types, StepInv, RecTypes
<1> QED BY <1>2, <1>4 DEF Types

(* SyncedAll leaves links and extents alone. *)
LEMMA SyncedAllType ==
    ASSUME inode \in [Ids -> Inodes]
    PROVE  /\ SyncedAll \in [Ids -> Inodes]
           /\ \A id \in Ids : /\ SyncedAll[id].links = inode[id].links
                              /\ SyncedAll[id].ext = inode[id].ext
                              /\ SyncedAll[id].synced =
                                   IF \E n \in Names : files[n] = id THEN Len(inode[id].ext)
                                   ELSE inode[id].synced
<1>1. ASSUME NEW x \in Inodes
      PROVE  LET y == [x EXCEPT !.synced = Len(x.ext)]
             IN  y \in Inodes /\ y.links = x.links /\ y.ext = x.ext /\ y.synced = Len(x.ext)
  <2> DEFINE y == [x EXCEPT !.synced = Len(x.ext)]
  <2>1. x.links \in Seq(Names) /\ x.ext \in Seq(Data)
      BY InodeParts
  <2>2. y = [links |-> x.links, ext |-> x.ext, synced |-> Len(x.ext)]
      BY DEF Inodes
  <2>3. y \in Inodes
      BY <2>1, <2>2, InodeForms
  <2> QED BY <2>2, <2>3
<1>2. ASSUME NEW id \in Ids
      PROVE  /\ SyncedAll[id] \in Inodes
             /\ SyncedAll[id].links = inode[id].links
             /\ SyncedAll[id].ext = inode[id].ext
             /\ SyncedAll[id].synced =
                  IF \E n \in Names : files[n] = id THEN Len(inode[id].ext)
                  ELSE inode[id].synced
  <2>1. inode[id] \in Inodes
      OBVIOUS
  <2>2. CASE \E n \in Names : files[n] = id
    <3>1. SyncedAll[id] = [inode[id] EXCEPT !.synced = Len(inode[id].ext)]
        BY <2>2 DEF SyncedAll
    <3> QED BY <1>1, <2>1, <2>2, <3>1
  <2>3. CASE ~\E n \in Names : files[n] = id
    <3>1. SyncedAll[id] = inode[id]
        BY <2>3 DEF SyncedAll
    <3> QED BY <2>1, <2>3, <3>1
  <2> QED BY <2>2, <2>3
<1>3. SyncedAll \in [Ids -> Inodes]
    BY <1>2 DEF SyncedAll
<1> QED BY <1>2, <1>3

(* WriteSnapshotLocked preserves the types. *)
LEMMA WriteTypes ==
    ASSUME Types, WriteSnapshotLocked
    PROVE  Types'
<1>0. /\ pc = "write" /\ old \in MZones /\ cur \in MZones /\ old # cur
      /\ log[cur] = <<[type |-> "super", seq |-> seq]>>
      /\ seq' = seq /\ UNCHANGED <<full, cur>> /\ op.kind # "none" /\ rec \in Snapshots
    BY DEF WriteSnapshotLocked, Types, StepInv, RecTypes
<1>1. /\ pc = "write" /\ old \in MZones /\ cur \in MZones /\ old # cur
      /\ Len(log[cur]) = 1 /\ Len(log[cur]) < 2 /\ 1 + 1 = 2
      /\ seq' = seq /\ UNCHANGED <<full, cur>> /\ op.kind # "none" /\ rec \in Snapshots
    BY <1>0
<1>2. DiskTypes /\ seq' \in Nat /\ old \in 0..MetaZones /\ inode \in [Ids -> Inodes]
    BY <1>1 DEF Types, DiskTypes, MemTypes
<1>3. rec \in Records /\ Invalid \in Records
    BY <1>1 DEF Records, Marked
<1>4. CASE /\ Write(cur, rec) /\ inode' = SyncedAll /\ pc' = "reset"
           /\ Mark(mig # NoMig /\ op.kind # "migrate", "migrate")
           /\ UNCHANGED <<old, files, next_id, op, rec, mig>>
  <2>1. DiskTypes' /\ Len(log'[cur]) = 2
      BY <1>1, <1>2, <1>3, <1>4, FreshRoom
  <2>2. inode' \in [Ids -> Inodes]
      BY <1>2, <1>4, SyncedAllType
  <2>3. MemTypes'
      BY <1>4, <2>2 DEF Types, MemTypes
  <2>4. OpTypes' /\ pc' \in Steps /\ spoilt' \subseteq Marks
      BY <1>4 DEF Types, OpTypes, Steps, Mark, Marks
  <2>5. StepInv' /\ RecTypes'
      BY <1>1, <1>4, <2>1 DEF StepInv, RecTypes
  <2> QED BY <2>1, <2>3, <2>4, <2>5 DEF Types
<1>5. CASE /\ Undone /\ old' = 0 /\ Mark(TRUE, "roll")
           /\ Untouched \/ (Torn /\ Write(cur, Invalid))
  <2>1. old' \in 0..MetaZones
      BY <1>5, MetaLogAssumption
  <2>2. DiskTypes'
    <3>1. CASE Untouched
        BY <1>1, <1>2, <2>1, <3>1 DEF DiskTypes, Untouched
    <3>2. CASE Write(cur, Invalid)
        BY <1>1, <1>2, <1>3, <2>1, <3>2, FreshRoom
    <3> QED BY <1>5, <3>1, <3>2
  <2>3. /\ MemTypes' /\ OpTypes'
        /\ \/ pc' = "down"
           \/ pc' = "idle" /\ op'.kind = "none"
      BY <1>1, <1>5, UndoneTypes
  <2>4. StepInv' /\ RecTypes' /\ pc' \in Steps
      BY <1>1, <2>3 DEF StepInv, RecTypes, Steps
  <2>5. spoilt' \subseteq Marks
      BY <1>5 DEF Types, Mark, Marks
  <2> QED BY <2>2, <2>3, <2>4, <2>5 DEF Types
<1> QED BY <1>4, <1>5 DEF WriteSnapshotLocked

(* ResetOldZone preserves the types. *)
LEMMA ResetTypes ==
    ASSUME Types, ResetOldZone
    PROVE  Types'
<1>1. /\ pc = "reset" /\ old \in MZones /\ cur \in MZones /\ old # cur /\ op.kind # "none"
      /\ old' = 0 /\ UNCHANGED <<cur, seq>> /\ Persisted(inode) /\ MarkOvertaken
    BY DEF ResetOldZone, Types, StepInv
<1>2. /\ log \in Devices /\ \A z \in MZones : Len(log[z]) <= MetaCap
      /\ full \in [MZones -> BOOLEAN] /\ inode \in [Ids -> Inodes]
      /\ cur \in 0..MetaZones /\ old \in 0..MetaZones /\ seq \in Nat
    BY DEF Types, DiskTypes, MemTypes
<1>3. old' \in 0..MetaZones
    BY <1>1, MetaLogAssumption
<1>4. log' \in Devices /\ (\A z \in MZones : Len(log'[z]) <= MetaCap) /\ full' \in [MZones -> BOOLEAN]
  <2>1. CASE Contents([log EXCEPT ![old] = <<>>]) /\ full' = [full EXCEPT ![old] = FALSE]
    <3>1. /\ log' \in Devices /\ Len(log'[old]) = 0
          /\ \A y \in MZones : y # old => log'[y] = log[y]
      <4>1. log' = Erased(log, old)
          BY <2>1 DEF Contents, Erased
      <4> QED BY <1>1, <1>2, <4>1, LogReset
    <3>2. \A y \in MZones : Len(log'[y]) <= MetaCap
        BY <1>2, <3>1, MetaLogAssumption
    <3> QED BY <1>2, <2>1, <3>1, <3>2
  <2>2. CASE Untouched /\ UNCHANGED full
      BY <1>2, <2>2 DEF Untouched
  <2> QED BY <2>1, <2>2 DEF ResetOldZone
<1>5. DiskTypes'
    BY <1>1, <1>2, <1>3, <1>4 DEF DiskTypes
<1>6. /\ MemTypes' /\ OpTypes'
      /\ \/ pc' = "idle" /\ op'.kind = "none"
         \/ pc' = "persist" /\ op'.kind \notin {"none", "mount"} /\ rec' \in Updates
    BY <1>1, <1>2, PersistedTypes
<1>7. StepInv' /\ RecTypes' /\ pc' \in Steps
    BY <1>1, <1>6 DEF StepInv, RecTypes, Steps
<1>8. spoilt' \subseteq Marks
    BY <1>1 DEF Types, MarkOvertaken, Mark, Marks
<1> QED BY <1>5, <1>6, <1>7, <1>8 DEF Types

(* Crash preserves the types. *)
LEMMA CrashTypes ==
    ASSUME Types, Crash
    PROVE  Types'
<1>1. /\ pc # "down" /\ pc' = "down" /\ cur \in MZones
      /\ UNCHANGED <<full, cur, old, seq, files, inode, next_id, op, rec, mig>>
    BY DEF Crash, memVars, Types, StepInv
<1>2. MemTypes' /\ OpTypes' /\ pc' \in Steps
    BY <1>1 DEF Types, MemTypes, OpTypes, Steps
<1>3. StepInv' /\ RecTypes'
    BY <1>1 DEF StepInv, RecTypes
<1>4. DiskTypes /\ full' \in [MZones -> BOOLEAN]
    BY <1>1 DEF Types, DiskTypes
<1>5. CASE Untouched /\ UNCHANGED spoilt
  <2>1. DiskTypes' /\ spoilt' \subseteq Marks
      BY <1>1, <1>5 DEF Types, DiskTypes, Untouched
  <2> QED BY <1>2, <1>3, <2>1 DEF Types
<1>6. CASE Mark(TRUE, "torn") /\ Capacity(cur) > 0 /\ Write(cur, Invalid)
  <2>1. Invalid \in Records
      BY DEF Records, Marked
  <2>2. DiskTypes'
      BY <1>1, <1>4, <1>6, <2>1, RoomInOld
  <2>3. spoilt' \subseteq Marks
      BY <1>6 DEF Types, Mark, Marks
  <2> QED BY <1>2, <1>3, <2>2, <2>3 DEF Types
<1> QED BY <1>5, <1>6 DEF Crash

(* The ids that mount has decoded are ids. *)
LEMMA DecodedIdsType ==
    ASSUME log \in Devices, NEW z
    PROVE  DecodedIds(z) \subseteq Ids
<1>1. ASSUME NEW r \in Records PROVE IdsOf(r) \subseteq Ids
  <2>1. CASE r.type = "snapshot"
    <3>1. r \in Snapshots
        BY <2>1, RecordKinds
    <3>2. \A f \in r.files : f.id \in Ids
        BY <3>1 DEF Snapshots, FileRecs
    <3> QED BY <2>1, <3>2 DEF IdsOf
  <2>2. CASE r.type \in {"update", "replace"}
    <3>1. r \in Updates
        BY <2>2, RecordKinds
    <3>2. r.file.id \in Ids
        BY <3>1 DEF Updates, FileRecs
    <3> QED BY <2>2, <3>2 DEF IdsOf
  <2>3. CASE r.type \notin {"snapshot", "update", "replace"}
      BY <2>3 DEF IdsOf
  <2> QED BY <2>1, <2>2, <2>3
<1>2. \A y \in Valid(log) : Range(log[y]) \subseteq Records
    BY ValidZone, RangeSeq
<1> QED BY <1>1, <1>2 DEF DecodedIds

(* Mount continues with ids above those that it has decoded. *)
LEMMA MountIds ==
    ASSUME log \in Devices, NEW z
    PROVE  LET new == 1 + Max({0} \cup DecodedIds(z))
           IN  new \in 1..(MaxId + 1) /\ \A id \in DecodedIds(z) : id < new
<1> DEFINE s == {0} \cup DecodedIds(z)
<1>1. MaxId \in Nat /\ s \subseteq 0..MaxId /\ s # {} /\ DecodedIds(z) \subseteq Ids
    BY DecodedIdsType, MetaLogAssumption DEF Ids
<1>2. Max(s) \in s /\ \A y \in s : y <= Max(s)
  <2> HIDE DEF s
  <2> QED BY <1>1, Greatest
<1>3. Max(s) \in 0..MaxId
    BY <1>1, <1>2
<1>4. \A id \in DecodedIds(z) : id <= Max(s) /\ id \in Nat
  <2>1. \A id \in DecodedIds(z) : id \in s /\ id \in 0..MaxId
      BY <1>1
  <2> HIDE DEF s
  <2> QED BY <1>2, <2>1
<1> HIDE DEF s
<1>5. 1 + Max(s) \in 1..(MaxId + 1)
    BY <1>1, <1>3
<1>6. \A id \in DecodedIds(z) : id < 1 + Max(s)
    BY <1>3, <1>4
<1> QED BY <1>5, <1>6 DEF s

(* Mount preserves the types. *)
LEMMA MountTypes ==
    ASSUME Types, FoundInv, Mount
    PROVE  Types'
<1>1. log \in Devices /\ found = Recover(log) /\ full \in [MZones -> BOOLEAN]
      /\ \A z \in MZones : Len(log[z]) <= MetaCap
    BY DEF Types, DiskTypes, FoundInv
<1>2. found.st \in States /\ AllSuper(log) /\ found.zone \in Valid(log)
    BY <1>1, RecoverType DEF Mount, TriedInv
<1>3. /\ files' = found.st.files /\ inode' = found.st.inode
      /\ next_id' = 1 + Max({0} \cup DecodedIds(found.zone))
      /\ op' = [NoOp EXCEPT !.kind = "mount", !.before = found.st.files]
      /\ cur' = found.zone /\ seq' = log[found.zone][1].seq /\ old' = 0
      /\ mig' = NoMig /\ rec' = NoRec /\ pc' = "alloc"
      /\ UNCHANGED <<log, found, full, spoilt>>
    BY DEF Mount
<1>4. found.zone \in MZones /\ log[found.zone][1].seq \in Nat
    BY <1>1, <1>2, ValidZone, NewerOrder
<1>5. DiskTypes'
  <2>1. cur' \in 0..MetaZones /\ old' \in 0..MetaZones
      BY <1>3, <1>4, MetaLogAssumption DEF MZones
  <2> QED BY <1>1, <1>3, <1>4, <2>1 DEF DiskTypes
<1>6. files' \in FileMaps /\ inode' \in [Ids -> Inodes]
    BY <1>2, <1>3 DEF States
<1>7. MemTypes'
  <2>1. next_id' \in 1..(MaxId + 1)
      BY <1>1, <1>3, MountIds
  <2> QED BY <1>3, <1>6, <2>1 DEF MemTypes, NoMig, NoIds
<1>8. op' = [kind |-> "mount", name |-> "-", to |-> "-", id |-> NoFile, phase |-> 2,
             before |-> files']
    BY <1>3 DEF NoOp
<1>9. OpTypes'
    BY <1>6, <1>8 DEF OpTypes, Operations, NoIds
<1>10. StepInv' /\ RecTypes' /\ pc' \in Steps /\ spoilt' \subseteq Marks
    BY <1>3, <1>4, <1>8 DEF StepInv, RecTypes, Steps, Types
<1> QED BY <1>5, <1>7, <1>9, <1>10 DEF Types
-----------------------------------------------------------------------------
(* The first snapshot.                                                     *)

(* A finite set as a sequence has each of its elements once. *)
LEMMA SetAsSeq ==
    ASSUME NEW S, IsFiniteSet(S)
    PROVE  SetToSeq(S) \in Seq(S) /\ Range(SetToSeq(S)) = S /\ IsInjective(SetToSeq(S))
<1> DEFINE n == Cardinality(S)
           f == SetToSeq(S)
<1>1. n \in Nat /\ ExistsBijection(1..n, S)
    BY FS_CardinalityType
<1>2. \E g \in [1..n -> S] : IsInjective(g)
    BY <1>1 DEF ExistsBijection, Bijection, Injection
<1>3. f \in [1..n -> S] /\ IsInjective(f)
  <2>1. f = CHOOSE g \in [1..n -> S] : IsInjective(g)
      BY DEF SetToSeq
  <2> HIDE DEF f, n
  <2> QED BY <1>2, <2>1
<1> HIDE DEF f
<1>4. f \in Injection(1..n, S)
    BY <1>3 DEF Injection
<1>5. Cardinality(1..n) = n
  <2>1. 1 \in Int /\ n \in Int
      BY <1>1
  <2>2. Cardinality(1..n) = IF 1 > n THEN 0 ELSE n - 1 + 1
      BY <2>1, FS_Interval
  <2> QED BY <1>1, <2>2
<1>6. f \in Surjection(1..n, S)
    BY <1>4, <1>5, FS_Injection
<1>7. Range(f) = S
  <2>1. DOMAIN f = 1..n /\ \A x \in S : \E i \in 1..n : f[i] = x
      BY <1>3, <1>6 DEF Surjection
  <2> QED BY <1>3, <2>1 DEF Range
<1>8. f \in Seq(S)
    BY <1>1, <1>3
<1> QED BY <1>3, <1>7, <1>8 DEF f

(* The links of a file of the first snapshot: its names, each once. *)
LEMMA InitLinksType ==
    ASSUME NEW id
    PROVE  /\ InitLinks(id) \in Seq(Names) /\ IsInjective(InitLinks(id))
           /\ Range(InitLinks(id)) = {n \in Names : InitFiles[n] = id}
<1> DEFINE S == {n \in Names : InitFiles[n] = id}
<1>1. S \in SUBSET Names
    OBVIOUS
<1>2. IsFiniteSet(S)
    BY <1>1, FS_Subset, MetaLogAssumption
<1> HIDE DEF S
<1>3. SetToSeq(S) \in Seq(S) /\ Range(SetToSeq(S)) = S /\ IsInjective(SetToSeq(S))
    BY <1>2, SetAsSeq
<1>4. SetToSeq(S) \in Seq(Names)
  <2> DEFINE f == SetToSeq(S)
  <2>1. Len(f) \in Nat /\ f \in [1..Len(f) -> S]
      BY <1>3, LenProperties
  <2> HIDE DEF f
  <2>2. f \in [1..Len(f) -> Names]
      BY <1>1, <2>1
  <2>3. f \in Seq(Names)
      BY <2>1, <2>2
  <2> QED BY <2>3 DEF f
<1>5. InitLinks(id) = SetToSeq(S)
    BY DEF InitLinks, S
<1> QED BY <1>3, <1>4, <1>5 DEF S

\* The snapshot that MkFS left.
InitSnapshot == [type |-> "snapshot",
                 files |-> {[id |-> id, links |-> InitLinks(id), ext |-> <<"d">>]
                              : id \in InitIds}]

(* The log that MkFS left. *)
LEMMA InitDisk ==
    ASSUME Init
    PROVE  /\ InitIds \subseteq Ids /\ InitFiles \in FileMaps
           /\ InitSnapshot \in Snapshots /\ [type |-> "super", seq |-> 1] \in Supers
           /\ log \in Devices /\ 1 \in MZones
           /\ log[1] = << [type |-> "super", seq |-> 1], InitSnapshot >>
           /\ \A z \in MZones : z # 1 => log[z] = <<>>
<1>1. InitFiles \in [Names -> {NoFile} \cup Ids]
    BY MetaLogAssumption
<1>2. InitIds \subseteq Ids /\ InitFiles \in FileMaps
    BY <1>1 DEF InitIds, FileMaps, NoIds
<1>3. <<"d">> \in Seq(Data)
    BY DEF Data
<1>4. ASSUME NEW id \in InitIds
      PROVE  [id |-> id, links |-> InitLinks(id), ext |-> <<"d">>] \in FileRecs
  <2>1. id \in Ids /\ InitLinks(id) \in Seq(Names)
      BY <1>2, InitLinksType
  <2> QED BY <1>3, <2>1 DEF FileRecs
<1>5. InitSnapshot \in Snapshots
    BY <1>4 DEF InitSnapshot, Snapshots
<1>6. [type |-> "super", seq |-> 1] \in Supers
    BY DEF Supers
<1>7. 1 \in MZones
    BY MetaLogAssumption DEF MZones
<1>8. log = [z \in MZones |-> IF z = 1 THEN << [type |-> "super", seq |-> 1], InitSnapshot >>
                              ELSE <<>>]
    BY DEF Init, InitSnapshot
<1> HIDE DEF InitSnapshot
<1>9. << [type |-> "super", seq |-> 1], InitSnapshot >> \in Seq(Records)
  <2>1. [type |-> "super", seq |-> 1] \in Records /\ InitSnapshot \in Records
      BY <1>5, <1>6 DEF Records
  <2> DEFINE a == [type |-> "super", seq |-> 1]
  <2> HIDE DEF a
  <2>2. <<a, InitSnapshot>> \in Seq(Records)
      BY <2>1 DEF a
  <2> QED BY <2>2 DEF a
<1>10. log \in Devices
  <2> DEFINE l == << [type |-> "super", seq |-> 1], InitSnapshot >>
  <2>1. l \in Seq(Records) /\ <<>> \in Seq(Records)
      BY <1>9
  <2> HIDE DEF l
  <2> QED BY <1>8, <2>1 DEF Devices, l
<1> QED BY <1>2, <1>5, <1>6, <1>7, <1>8, <1>10

(* The initial state has the types. *)
LEMMA InitTypes ==
    ASSUME Init
    PROVE  Types /\ FoundInv
<1>1. /\ InitIds \subseteq Ids /\ InitFiles \in FileMaps /\ log \in Devices
      /\ log[1] = << [type |-> "super", seq |-> 1], InitSnapshot >>
      /\ \A z \in MZones : z # 1 => log[z] = <<>>
    BY InitDisk
<1>2. \A z \in MZones : Len(log[z]) <= MetaCap
  <2>1. \A a, b : Len(<<a, b>>) = 2
      OBVIOUS
  <2>2. Len(log[1]) = 2
      BY <1>1, <2>1
  <2>3. \A z \in MZones : z # 1 => Len(log[z]) = 0
      BY <1>1
  <2> QED BY <2>2, <2>3, MetaLogAssumption
<1>3. /\ full = [z \in MZones |-> FALSE] /\ cur = 0 /\ old = 0 /\ seq = 0
      /\ files = InitFiles /\ next_id = 1 /\ pc = "down" /\ op = NoOp /\ rec = NoRec
      /\ mig = NoMig /\ spoilt = {} /\ found = Recover(log)
    BY DEF Init
<1>4. DiskTypes
    BY <1>1, <1>2, <1>3, MetaLogAssumption DEF DiskTypes
<1>5. inode \in [Ids -> Inodes]
  <2>1. <<"d">> \in Seq(Data) /\ Len(<<"d">>) = 1 /\ <<>> \in Seq(Names)
      BY DEF Data
  <2>2. \A id \in Ids : [links |-> InitLinks(id), ext |-> <<"d">>, synced |-> 1] \in Inodes
      BY <2>1, InitLinksType, InodeForms
  <2>3. NoInode \in Inodes
      BY <2>1, InodeForms
  <2> QED BY <2>2, <2>3 DEF Init
<1>6. MemTypes
    BY <1>1, <1>3, <1>5, MetaLogAssumption DEF MemTypes, NoMig, NoIds
<1>7. op = Resting(files) /\ op.kind = "none" /\ op.phase = 2
    BY <1>3 DEF NoOp, Resting
<1>8. OpTypes
  <2>1. op \in Operations
      BY <1>1, <1>3, <1>7, RestingType
  <2> QED BY <1>7, <2>1 DEF OpTypes
<1>9. StepInv /\ RecTypes /\ pc \in Steps /\ spoilt \subseteq Marks
    BY <1>3 DEF StepInv, RecTypes, Steps
<1>10. FoundInv
    BY <1>3 DEF FoundInv
<1> QED BY <1>4, <1>6, <1>8, <1>9, <1>10 DEF Types

(* Each action leaves found what a mount would recover. *)
LEMMA FoundStep ==
    ASSUME FoundInv, Next
    PROVE  FoundInv'
<1>1. ASSUME NEW n \in Names, OpenWritableFile(n) \/ SyncFileMetadata(n) \/ DeleteFile(n)
      PROVE  FoundInv'
    BY <1>1 DEF FoundInv, OpenWritableFile, SyncFileMetadata, DeleteFile, Start, diskVars
<1>2. ASSUME NEW n \in Names, NEW m \in Names, RenameFile(n, m) \/ LinkFile(n, m)
      PROVE  FoundInv'
    BY <1>2 DEF FoundInv, RenameFile, LinkFile, Start, diskVars
<1>3. ASSUME NEW id \in Ids, PushExtent(id) \/ ReplaceExtentList(id) PROVE FoundInv'
    BY <1>3 DEF FoundInv, PushExtent, ReplaceExtentList, diskVars
<1>4. CASE SyncFileExtents \/ NoSpace \/ EncodeSnapshotTo \/ Mount
    BY <1>4 DEF FoundInv, SyncFileExtents, NoSpace, EncodeSnapshotTo, Mount, diskVars
<1>5. ASSUME NEW d, Contents(d) PROVE FoundInv'
    BY <1>5 DEF FoundInv, Contents
<1>6. Untouched => FoundInv'
    BY DEF FoundInv, Untouched
<1>7. ASSUME NEW z, NEW r, Write(z, r) PROVE FoundInv'
    BY <1>5, <1>7 DEF Write
<1>8. CASE PersistRecord
    BY <1>6, <1>7, <1>8 DEF PersistRecord, WriteFails
<1>9. CASE AllocateMetaZone
    BY <1>5, <1>9 DEF AllocateMetaZone, FoundInv
<1>10. CASE WriteEndRecord
    BY <1>6, <1>7, <1>10 DEF WriteEndRecord
<1>11. CASE FinishOldZone
    BY <1>6, <1>7, <1>11 DEF FinishOldZone
<1>12. CASE WriteSuperblock
    BY <1>6, <1>7, <1>12 DEF WriteSuperblock
<1>13. CASE WriteSnapshotLocked
    BY <1>6, <1>7, <1>13 DEF WriteSnapshotLocked
<1>14. CASE ResetOldZone
    BY <1>5, <1>6, <1>14 DEF ResetOldZone
<1>15. CASE Crash
    BY <1>6, <1>7, <1>15 DEF Crash
<1> QED BY <1>1, <1>2, <1>3, <1>4, <1>8, <1>9, <1>10, <1>11, <1>12, <1>13, <1>14, <1>15 DEF Next

(* Every step preserves the types. *)
LEMMA TypesStep ==
    ASSUME Types, FoundInv, Next
    PROVE  Types'
<1>1. ASSUME NEW n \in Names, OpenWritableFile(n) \/ SyncFileMetadata(n) \/ DeleteFile(n)
      PROVE  Types'
    BY <1>1, OpenTypes, SyncTypes, DeleteTypes
<1>2. ASSUME NEW n \in Names, NEW m \in Names, RenameFile(n, m) \/ LinkFile(n, m)
      PROVE  Types'
    BY <1>2, RenameTypes, LinkTypes
<1>3. ASSUME NEW id \in Ids, PushExtent(id) \/ ReplaceExtentList(id) PROVE Types'
    BY <1>3, PushTypes, ReplaceTypes
<1>4. CASE SyncFileExtents
    BY <1>4, MigrateTypes
<1>5. CASE PersistRecord \/ NoSpace
    BY <1>5, PersistTypes, NoSpaceTypes
<1>6. CASE AllocateMetaZone \/ WriteEndRecord \/ FinishOldZone
    BY <1>6, AllocTypes, EndTypes, FinishTypes
<1>7. CASE WriteSuperblock \/ EncodeSnapshotTo \/ WriteSnapshotLocked \/ ResetOldZone
    BY <1>7, SuperTypes, SnapTypes, WriteTypes, ResetTypes
<1>8. CASE Crash \/ Mount
    BY <1>8, CrashTypes, MountTypes
<1> QED BY <1>1, <1>2, <1>3, <1>4, <1>5, <1>6, <1>7, <1>8 DEF Next

(* The inductive part about types: whatever the operations, the failures of writes   *)
(* and the crashes, memory and the metadata zones hold what their types say, a fresh *)
(* zone has the records that the step of the roll has written, and found is what a   *)
(* mount would recover (RollMetaZoneLocked, Mount).                                  *)
THEOREM MetaLogTypesInv == Spec => [](Types /\ FoundInv)
<1>1. Init => Types /\ FoundInv
    BY InitTypes
<1>2. Types /\ FoundInv /\ [Next]_vars => (Types /\ FoundInv)'
  <2> SUFFICES ASSUME Types, FoundInv, [Next]_vars PROVE (Types /\ FoundInv)'
      OBVIOUS
  <2>1. CASE Next
      BY <2>1, TypesStep, FoundStep
  <2>2. CASE UNCHANGED vars
    <3>1. DiskTypes' /\ MemTypes' /\ pc' \in Steps /\ spoilt' \subseteq Marks
        BY <2>2 DEF vars, Types, DiskTypes, MemTypes
    <3>2. OpTypes' /\ StepInv' /\ RecTypes' /\ FoundInv'
        BY <2>2 DEF vars, Types, OpTypes, StepInv, RecTypes, FoundInv
    <3> QED BY <3>1, <3>2 DEF Types
  <2> QED BY <2>1, <2>2
<1> QED BY <1>1, <1>2, PTL DEF Spec

(* The log's type invariant holds for every number of names, zones and records: no  *)
(* zone is overfilled and nr_synced_extents_ never passes the extents of a file     *)
(* (AquaMetaLog::AddRecord, ZoneFile::MetadataSynced).                              *)
THEOREM MetaLogTypes == Spec => []TypeOK
<1>1. Types => TypeOK
  <2> SUFFICES ASSUME Types PROVE TypeOK
      OBVIOUS
  <2>1. \A z \in MZones : Len(log[z]) <= MetaCap
      BY DEF Types, DiskTypes
  <2>2. full \in [MZones -> BOOLEAN] /\ cur \in 0..MetaZones /\ old \in 0..MetaZones /\ seq \in Nat
      BY DEF Types, DiskTypes
  <2>3. files \in [Names -> {NoFile} \cup Ids] /\ next_id \in 1..(MaxId + 1)
        /\ mig.id \in {NoFile} \cup Ids /\ inode \in [Ids -> Inodes]
      BY DEF Types, MemTypes, FileMaps, NoIds
  <2>4. ASSUME NEW id \in Ids
        PROVE  /\ Range(inode[id].links) \subseteq Names
               /\ Range(inode[id].ext) \subseteq {"d", "m"}
               /\ inode[id].synced \in 0..Len(inode[id].ext)
    <3>1. /\ inode[id].links \in Seq(Names) /\ inode[id].ext \in Seq(Data)
          /\ inode[id].synced \in Nat /\ inode[id].synced <= Len(inode[id].ext)
        BY <2>3, InodeParts
    <3>2. Range(inode[id].links) \subseteq Names /\ Range(inode[id].ext) \subseteq Data
        BY <3>1, RangeSeq
    <3>3. Len(inode[id].ext) \in Nat
        BY <3>1
    <3> QED BY <3>1, <3>2, <3>3 DEF Data
  <2>5. pc \in Steps /\ spoilt \subseteq Marks
      BY DEF Types
  <2> QED BY <2>1, <2>2, <2>3, <2>4, <2>5 DEF TypeOK
<1> QED BY <1>1, MetaLogTypesInv, PTL
-----------------------------------------------------------------------------
(* What records do to a name space whose names and links agree.            *)

\* The links of every file.
LinkMaps == [Ids -> Seq(Names)]

(* A name is taken from a file. *)
LEMMA AgreeDrop ==
    ASSUME NEW fs \in FileMaps, NEW L \in LinkMaps, Agree(fs, L), NEW id \in Ids,
           NEW n \in Names, fs[n] = id,
           NEW M \in LinkMaps, M[id] = RemoveFirst(L[id], n),
           \A j \in Ids : j # id => M[j] = L[j],
           NEW gs, \A m \in Names : gs[m] = IF m = n THEN NoFile ELSE fs[m]
    PROVE  Agree(gs, M)
<1>1. \A m \in Names : gs[m] = IF m = n THEN NoFile ELSE fs[m]
    OBVIOUS
<1>2. NoFile \notin Ids
    BY DEF NoFile, Ids
<1>3. L[id] \in Seq(Names)
    BY DEF LinkMaps
<1>4. Range(L[id]) = {m \in Names : fs[m] = id} /\ IsInjective(L[id])
    BY DEF Agree
<1>5. Range(M[id]) = {m \in Names : gs[m] = id} /\ IsInjective(M[id])
  <2>1. IsInjective(M[id]) /\ Range(M[id]) = Range(L[id]) \ {n}
      BY <1>3, <1>4, RemoveFirstRange
  <2> QED BY <1>1, <1>2, <1>4, <2>1
<1>6. ASSUME NEW j \in Ids, j # id
      PROVE  Range(M[j]) = {m \in Names : gs[m] = j} /\ IsInjective(M[j])
  <2>1. Range(M[j]) = {m \in Names : fs[m] = j} /\ IsInjective(M[j])
      BY <1>6 DEF Agree
  <2> QED BY <1>1, <1>2, <1>6, <2>1
<1> QED BY <1>5, <1>6 DEF Agree

(* A free name is given to a file. *)
LEMMA AgreeAdd ==
    ASSUME NEW fs \in FileMaps, NEW L \in LinkMaps, Agree(fs, L), NEW id \in Ids,
           NEW n \in Names, fs[n] = NoFile,
           NEW M \in LinkMaps, M[id] = Append(L[id], n),
           \A j \in Ids : j # id => M[j] = L[j],
           NEW gs, \A m \in Names : gs[m] = IF m = n THEN id ELSE fs[m]
    PROVE  Agree(gs, M)
<1>1. \A m \in Names : gs[m] = IF m = n THEN id ELSE fs[m]
    OBVIOUS
<1>2. NoFile \notin Ids
    BY DEF NoFile, Ids
<1>3. L[id] \in Seq(Names)
    BY DEF LinkMaps
<1>4. Range(L[id]) = {m \in Names : fs[m] = id} /\ IsInjective(L[id])
    BY DEF Agree
<1>5. Range(M[id]) = {m \in Names : gs[m] = id} /\ IsInjective(M[id])
  <2>1. n \notin Range(L[id])
      BY <1>2, <1>4
  <2>2. IsInjective(M[id]) /\ Range(M[id]) = Range(L[id]) \cup {n}
      BY <1>3, <1>4, <2>1, AppendRange
  <2> QED BY <1>1, <1>4, <2>2
<1>6. ASSUME NEW j \in Ids, j # id
      PROVE  Range(M[j]) = {m \in Names : gs[m] = j} /\ IsInjective(M[j])
  <2>1. Range(M[j]) = {m \in Names : fs[m] = j} /\ IsInjective(M[j])
      BY <1>6 DEF Agree
  <2>2. fs[n] # j
      BY <1>2
  <2> QED BY <1>1, <1>6, <2>1, <2>2
<1> QED BY <1>5, <1>6 DEF Agree

(* A file changes one of its names for a free one. *)
LEMMA AgreeRename ==
    ASSUME NEW fs \in FileMaps, NEW L \in LinkMaps, Agree(fs, L), NEW id \in Ids,
           NEW n \in Names, NEW m \in Names, n # m, fs[n] = id, fs[m] = NoFile,
           NEW M \in LinkMaps, M[id] = Append(RemoveFirst(L[id], n), m),
           \A j \in Ids : j # id => M[j] = L[j],
           NEW hs, \A x \in Names : hs[x] = IF x = m THEN id
                                            ELSE IF x = n THEN NoFile ELSE fs[x]
    PROVE  Agree(hs, M)
<1> DEFINE gs == [fs EXCEPT ![n] = NoFile]
           K == [L EXCEPT ![id] = RemoveFirst(L[id], n)]
<1>1. L[id] \in Seq(Names)
    BY DEF LinkMaps
<1>2. RemoveFirst(L[id], n) \in Seq(Names)
    BY <1>1, RemoveFirstRange
<1>3. K \in LinkMaps /\ K[id] = RemoveFirst(L[id], n) /\ \A j \in Ids : j # id => K[j] = L[j]
    BY <1>2 DEF LinkMaps
<1>4. gs \in FileMaps /\ \A x \in Names : gs[x] = IF x = n THEN NoFile ELSE fs[x]
    BY DEF FileMaps, NoIds
<1> HIDE DEF K, gs
<1>5. Agree(gs, K)
    BY <1>3, <1>4, AgreeDrop
<1>6. M[id] = Append(K[id], m) /\ \A j \in Ids : j # id => M[j] = K[j]
    BY <1>3
<1>7. gs[m] = NoFile /\ \A x \in Names : hs[x] = IF x = m THEN id ELSE gs[x]
    BY <1>4
<1> QED BY <1>3, <1>4, <1>5, <1>6, <1>7, AgreeAdd

(* Parts of a recovery state. *)
LEMMA StateParts ==
    ASSUME NEW st \in States
    PROVE  /\ st.files \in FileMaps /\ st.inode \in [Ids -> Inodes] /\ Links(st.inode) \in LinkMaps
           /\ \A id \in Ids : Links(st.inode)[id] = st.inode[id].links
<1>1. st.files \in FileMaps /\ st.inode \in [Ids -> Inodes]
    BY DEF States
<1>2. \A id \in Ids : st.inode[id].links \in Seq(Names)
    BY <1>1, InodeParts
<1> QED BY <1>1, <1>2 DEF Links, LinkMaps

(* A deletion. *)
LEMMA DeletionEffect ==
    ASSUME NEW st \in States, st.status = "OK", Agree(st.files, Links(st.inode)),
           NEW id \in Ids, NEW n \in Names, st.files[n] = id
    PROVE  LET d == Decode(st, [type |-> "deletion", id |-> id, name |-> n])
           IN  /\ d.status = "OK" /\ d.files = [st.files EXCEPT ![n] = NoFile]
               /\ Agree(d.files, Links(d.inode))
               /\ \A j \in Ids : d.inode[j].ext = st.inode[j].ext
<1> DEFINE r == [type |-> "deletion", id |-> id, name |-> n]
           d == Decode(st, r)
           e == DropLink(st.inode, id, n)
<1>1. st.files \in FileMaps /\ st.inode \in [Ids -> Inodes] /\ Links(st.inode) \in LinkMaps
      /\ \A j \in Ids : Links(st.inode)[j] = st.inode[j].links
    BY StateParts
<1>2. n \in Range(st.inode[id].links)
    BY <1>1 DEF Agree
<1>3. d = DecodeFileDeletionFrom(st, r)
    BY DEF Decode
<1>4. DecodeFileDeletionFrom(st, r) =
        [st EXCEPT !.files[n] = NoFile, !.inode[id].links = RemoveFirst(@, n)]
    BY <1>2 DEF DecodeFileDeletionFrom
<1>5. d.status = "OK" /\ d.files = [st.files EXCEPT ![n] = NoFile]
    BY <1>3, <1>4 DEF States
<1>6. d.inode = e
  <2>1. d.inode = [st.inode EXCEPT ![id].links = RemoveFirst(@, n)]
      BY <1>3, <1>4 DEF States
  <2> QED BY <2>1 DEF DropLink
<1>7. /\ e \in [Ids -> Inodes] /\ e[id].links = RemoveFirst(st.inode[id].links, n)
      /\ e[id].ext = st.inode[id].ext
      /\ \A j \in Ids : j # id => e[j] = st.inode[j]
    BY <1>1, DropLinkType
<1> HIDE DEF e, d, r
<1>8. Links(e) \in LinkMaps /\ \A j \in Ids : Links(e)[j] = e[j].links
  <2>1. \A j \in Ids : e[j].links \in Seq(Names)
      BY <1>7, InodeParts
  <2> QED BY <2>1 DEF Links, LinkMaps
<1>9. Agree([st.files EXCEPT ![n] = NoFile], Links(e))
  <2>1. Links(e)[id] = RemoveFirst(Links(st.inode)[id], n)
        /\ \A j \in Ids : j # id => Links(e)[j] = Links(st.inode)[j]
      BY <1>1, <1>7, <1>8
  <2> DEFINE gs == [st.files EXCEPT ![n] = NoFile]
  <2>2. \A m \in Names : gs[m] = IF m = n THEN NoFile ELSE st.files[m]
      BY <1>1 DEF FileMaps
  <2> HIDE DEF gs
  <2>3. Agree(gs, Links(e))
      BY <1>1, <1>8, <2>1, <2>2, AgreeDrop
  <2> QED BY <2>3 DEF gs
<1>10. \A j \in Ids : d.inode[j].ext = st.inode[j].ext
    BY <1>6, <1>7
<1> QED BY <1>5, <1>6, <1>9, <1>10 DEF d, r

(* An update of a file that has a name: its names become those of the record. *)
LEMMA UpdateEffect ==
    ASSUME NEW st \in States, st.status = "OK", Agree(st.files, Links(st.inode)),
           NEW r \in Updates, NEW id, id = r.file.id,
           \E n \in Names : st.files[n] = id,
           NEW fs \in FileMaps,
           \A n \in Names : \/ fs[n] = st.files[n]
                            \/ fs[n] \in {NoFile, id} /\ st.files[n] \in {NoFile, id},
           Range(r.file.links) = {n \in Names : fs[n] = id}, IsInjective(r.file.links)
    PROVE  LET d == Decode(st, r)
           IN  /\ d.status = "OK" /\ d.files = fs
               /\ Agree(d.files, Links(d.inode))
               /\ d.inode[id].ext = IF r.type = "update" THEN st.inode[id].ext \o r.file.ext
                                    ELSE r.file.ext
               /\ \A j \in Ids : j # id => d.inode[j] = st.inode[j]
<1> DEFINE f     == r.file
           names == Range(st.inode[id].links)
           gone  == [n \in Names |-> IF n \in names THEN NoFile ELSE st.files[n]]
           ext   == IF r.type = "update" THEN st.inode[id].ext \o f.ext ELSE f.ext
           new   == [links |-> f.links, ext |-> ext, synced |-> Len(ext)]
           d     == Decode(st, r)
<1>1. st.files \in FileMaps /\ st.inode \in [Ids -> Inodes] /\ Links(st.inode) \in LinkMaps
      /\ \A j \in Ids : Links(st.inode)[j] = st.inode[j].links
    BY StateParts
<1>2. id \in Ids /\ f.links \in Seq(Names) /\ r.type \in {"update", "replace"} /\ NoFile \notin Ids
    BY DEF Updates, FileRecs, NoFile, Ids
<1>3. names = {n \in Names : st.files[n] = id}
    BY <1>1, <1>2 DEF Agree
<1>4. ~\E n \in names : st.files[n] = NoFile
    BY <1>2, <1>3
<1>5. d = DecodeFileUpdateFrom(st, r)
    BY <1>2 DEF Decode
<1>6. DecodeFileUpdateFrom(st, r) =
        [st EXCEPT !.files = Insert(gone, Range(f.links), id), !.inode[id] = new]
    BY <1>4 DEF DecodeFileUpdateFrom
<1> HIDE DEF new
<1>7. d.status = "OK" /\ d.files = Insert(gone, Range(f.links), id)
    BY <1>5, <1>6 DEF States
<1>8. d.inode = [st.inode EXCEPT ![id] = new]
    BY <1>5, <1>6 DEF States
<1> HIDE DEF d
<1>9. Insert(gone, Range(f.links), id) = fs
  <2>1. ASSUME NEW n \in Names
        PROVE  (IF n \in Range(f.links) /\ gone[n] = NoFile THEN id ELSE gone[n]) = fs[n]
    <3>1. gone[n] = IF st.files[n] = id THEN NoFile ELSE st.files[n]
        BY <1>3
    <3>2. n \in Range(f.links) <=> fs[n] = id
        OBVIOUS
    <3>3. \/ fs[n] = st.files[n]
          \/ fs[n] \in {NoFile, id} /\ st.files[n] \in {NoFile, id}
        OBVIOUS
    <3>4. id # NoFile
        BY <1>2
    <3> HIDE DEF gone, f
    <3> QED BY <3>1, <3>2, <3>3, <3>4
  <2>2. Insert(gone, Range(f.links), id) =
          [n \in Names |-> IF n \in Range(f.links) /\ gone[n] = NoFile THEN id ELSE gone[n]]
      BY DEF Insert
  <2>3. fs = [n \in Names |-> fs[n]]
      BY DEF FileMaps
  <2> HIDE DEF gone, f
  <2> QED BY <2>1, <2>2, <2>3
<1>10. /\ d.inode[id] = new /\ \A j \in Ids : j # id => d.inode[j] = st.inode[j]
    BY <1>1, <1>2, <1>8
<1>11. new.links = f.links /\ new.ext = ext
    BY DEF new
<1>12. Agree(fs, Links(d.inode))
  <2>1. ASSUME NEW j \in Ids
        PROVE  Range(Links(d.inode)[j]) = {n \in Names : fs[n] = j} /\ IsInjective(Links(d.inode)[j])
    <3>1. Links(d.inode)[j] = d.inode[j].links
        BY DEF Links
    <3>2. CASE j = id
        BY <1>10, <1>11, <3>1, <3>2
    <3>3. CASE j # id
      <4>1. Links(d.inode)[j] = st.inode[j].links
          BY <1>10, <3>1, <3>3
      <4>2. Range(st.inode[j].links) = {n \in Names : st.files[n] = j} /\ IsInjective(st.inode[j].links)
          BY <1>1 DEF Agree
      <4>3. \A n \in Names : fs[n] = j <=> st.files[n] = j
        <5>1. j # NoFile
            BY <1>2
        <5> QED BY <3>3, <5>1
      <4> QED BY <4>1, <4>2, <4>3
    <3> QED BY <3>2, <3>3
  <2> QED BY <2>1 DEF Agree
<1> QED BY <1>7, <1>9, <1>10, <1>11, <1>12 DEF d

(* The creation of a file. *)
LEMMA CreateEffect ==
    ASSUME NEW st \in States, st.status = "OK", Agree(st.files, Links(st.inode)),
           NEW r \in Updates, NEW id, id = r.file.id,
           \A m \in Names : st.files[m] # id,
           NEW n \in Names, st.files[n] = NoFile, r.file.links = <<n>>
    PROVE  LET d == Decode(st, r)
           IN  /\ d.status = "OK" /\ d.files = [st.files EXCEPT ![n] = id]
               /\ Agree(d.files, Links(d.inode))
               /\ d.inode[id].ext = r.file.ext
               /\ \A j \in Ids : j # id => d.inode[j] = st.inode[j]
<1> DEFINE f     == r.file
           new   == [links |-> f.links, ext |-> f.ext, synced |-> Len(f.ext)]
           fs    == [st.files EXCEPT ![n] = id]
           d     == Decode(st, r)
<1>1. st.files \in FileMaps /\ st.inode \in [Ids -> Inodes] /\ Links(st.inode) \in LinkMaps
      /\ \A j \in Ids : Links(st.inode)[j] = st.inode[j].links
    BY StateParts
<1>2. id \in Ids /\ r.type \in {"update", "replace"} /\ NoFile \notin Ids
    BY DEF Updates, FileRecs, NoFile, Ids
<1>3. d = DecodeFileUpdateFrom(st, r)
    BY <1>2 DEF Decode
<1> DEFINE gone == [m \in Names |-> IF m \in {} THEN NoFile ELSE st.files[m]]
<1>4. gone = st.files
    BY <1>1 DEF FileMaps
<1>5. DecodeFileUpdateFrom(st, r) =
        [st EXCEPT !.files = Insert(gone, {f.links[1]}, id), !.inode[id] = new]
    BY DEF DecodeFileUpdateFrom
<1> HIDE DEF new, gone
<1>6. d.status = "OK" /\ d.files = Insert(gone, {f.links[1]}, id)
    BY <1>3, <1>5 DEF States
<1>7. d.inode = [st.inode EXCEPT ![id] = new]
    BY <1>3, <1>5 DEF States
<1> HIDE DEF d
<1>8. Insert(gone, {f.links[1]}, id) = fs
  <2>1. f.links[1] = n
      OBVIOUS
  <2>2. Insert(gone, {n}, id) = fs
      BY <1>1, <1>4 DEF Insert, FileMaps
  <2> QED BY <2>1, <2>2
<1>9. /\ d.inode[id] = new /\ \A j \in Ids : j # id => d.inode[j] = st.inode[j]
    BY <1>1, <1>2, <1>7
<1>10. new.links = <<n>> /\ new.ext = f.ext
    BY DEF new
<1>11. Agree(fs, Links(d.inode))
  <2>0. \A m \in Names : fs[m] = IF m = n THEN id ELSE st.files[m]
      BY <1>1 DEF FileMaps
  <2> HIDE DEF fs
  <2>1. ASSUME NEW j \in Ids
        PROVE  Range(Links(d.inode)[j]) = {m \in Names : fs[m] = j} /\ IsInjective(Links(d.inode)[j])
    <3>1. Links(d.inode)[j] = d.inode[j].links
        BY DEF Links
    <3>2. CASE j = id
      <4>1. Range(<<n>>) = {n} /\ IsInjective(<<n>>)
          BY DEF Range, IsInjective
      <4>2. {m \in Names : fs[m] = id} = {n}
          BY <2>0
      <4> QED BY <1>9, <1>10, <3>1, <3>2, <4>1, <4>2
    <3>3. CASE j # id
      <4>1. Links(d.inode)[j] = st.inode[j].links
          BY <1>9, <3>1, <3>3
      <4>2. Range(st.inode[j].links) = {m \in Names : st.files[m] = j} /\ IsInjective(st.inode[j].links)
          BY <1>1 DEF Agree
      <4>3. \A m \in Names : fs[m] = j <=> st.files[m] = j
        <5>1. j # NoFile
            BY <1>2
        <5> QED BY <2>0, <3>3, <5>1
      <4> QED BY <4>1, <4>2, <4>3
    <3> QED BY <3>2, <3>3
  <2> QED BY <2>1 DEF Agree
<1> QED BY <1>6, <1>8, <1>9, <1>10, <1>11 DEF d

(* A snapshot of the files that have a name. *)
LEMMA SnapshotEffect ==
    ASSUME NEW st \in States, st.status = "OK", NEW r \in Snapshots,
           NEW fs \in FileMaps, NEW L \in LinkMaps, Agree(fs, L), SnapshotOf(fs, L, r.files)
    PROVE  LET d == Decode(st, r)
           IN  /\ d.status = "OK" /\ d.files = fs
               /\ Agree(d.files, Links(d.inode))
               /\ \A n \in Names : fs[n] \in IdsOf(r) \cup {NoFile}
               /\ \A id \in Named(fs) : \E f \in r.files : f.id = id /\ d.inode[id].ext = f.ext
<1> DEFINE d == Decode(st, r)
<1>1. d = DecodeSnapshotFrom(st, r) /\ r.type = "snapshot"
    BY DEF Decode, Snapshots
<1>2. /\ d.status = "OK"
      /\ d.files = [n \in Names |->
           IF \E f \in r.files : n \in Range(f.links)
           THEN (CHOOSE f \in r.files : n \in Range(f.links)).id ELSE NoFile]
      /\ d.inode = [id \in Ids |->
           IF \E f \in r.files : f.id = id
           THEN LET f == CHOOSE g \in r.files : g.id = id
                IN  [links |-> f.links, ext |-> f.ext, synced |-> Len(f.ext)]
           ELSE NoInode]
    BY <1>1 DEF DecodeSnapshotFrom
<1> HIDE DEF d
<1>3. /\ \A f \in r.files : f.id \in Named(fs) /\ f.links = L[f.id] /\ f.id \in Ids
      /\ \A id \in Named(fs) : \E f \in r.files : f.id = id
    BY DEF SnapshotOf, Snapshots, FileRecs
<1>4. \A id \in Ids : Range(L[id]) = {n \in Names : fs[n] = id} /\ IsInjective(L[id])
    BY DEF Agree
<1>5. NoFile \notin Ids /\ \A n \in Names : fs[n] # NoFile => fs[n] \in Ids /\ fs[n] \in Named(fs)
    BY DEF NoFile, Ids, FileMaps, NoIds, Named
<1>6. ASSUME NEW n \in Names
      PROVE  (IF \E f \in r.files : n \in Range(f.links)
              THEN (CHOOSE f \in r.files : n \in Range(f.links)).id ELSE NoFile) = fs[n]
  <2>1. \A f \in r.files : n \in Range(f.links) => f.id = fs[n]
      BY <1>3, <1>4
  <2>2. CASE \E f \in r.files : n \in Range(f.links)
    <3> DEFINE g == CHOOSE f \in r.files : n \in Range(f.links)
    <3>1. g \in r.files /\ n \in Range(g.links)
        BY <2>2
    <3> HIDE DEF g
    <3>2. g.id = fs[n]
        BY <2>1, <3>1
    <3> QED BY <2>2, <3>2 DEF g
  <2>3. CASE ~\E f \in r.files : n \in Range(f.links)
    <3>1. fs[n] = NoFile
      <4> SUFFICES ASSUME fs[n] # NoFile PROVE FALSE
          OBVIOUS
      <4>1. PICK f \in r.files : f.id = fs[n]
          BY <1>3, <1>5
      <4>2. n \in Range(f.links)
          BY <1>3, <1>4, <4>1
      <4> QED BY <2>3, <4>2
    <3> QED BY <2>3, <3>1
  <2> QED BY <2>2, <2>3
<1>7. d.files = fs
  <2>1. fs = [n \in Names |-> fs[n]]
      BY DEF FileMaps
  <2> QED BY <1>2, <1>6, <2>1
<1>8. ASSUME NEW id \in Ids
      PROVE  /\ Range(d.inode[id].links) = {n \in Names : fs[n] = id}
             /\ IsInjective(d.inode[id].links)
             /\ id \in Named(fs) => \E f \in r.files : f.id = id /\ d.inode[id].ext = f.ext
  <2>1. CASE \E f \in r.files : f.id = id
    <3> DEFINE g == CHOOSE f \in r.files : f.id = id
    <3>1. g \in r.files /\ g.id = id
        BY <2>1
    <3>2. d.inode[id] = [links |-> g.links, ext |-> g.ext, synced |-> Len(g.ext)]
        BY <1>2, <2>1
    <3> HIDE DEF g
    <3>3. d.inode[id].links = g.links /\ d.inode[id].ext = g.ext
        BY <3>2
    <3>4. d.inode[id].links = L[id]
        BY <1>3, <3>1, <3>3
    <3>5. Range(d.inode[id].links) = {n \in Names : fs[n] = id} /\ IsInjective(d.inode[id].links)
        BY <1>4, <3>4
    <3> QED BY <3>1, <3>3, <3>5
  <2>2. CASE ~\E f \in r.files : f.id = id
    <3>1. d.inode[id] = NoInode
        BY <1>2, <2>2
    <3>2. id \notin Named(fs)
        BY <1>3, <2>2
    <3>3. {n \in Names : fs[n] = id} = {}
        BY <1>5, <3>2
    <3>4. d.inode[id].links = <<>>
        BY <3>1 DEF NoInode
    <3>5. Range(<<>>) = {} /\ IsInjective(<<>>)
        BY DEF Range, IsInjective
    <3> QED BY <3>2, <3>3, <3>4, <3>5
  <2> QED BY <2>1, <2>2
<1>9. Agree(fs, Links(d.inode))
    BY <1>8 DEF Agree, Links
<1>10. ASSUME NEW n \in Names PROVE fs[n] \in IdsOf(r) \cup {NoFile}
  <2>1. CASE fs[n] = NoFile
      BY <2>1
  <2>2. CASE fs[n] # NoFile
    <3>1. PICK f \in r.files : f.id = fs[n]
        BY <1>3, <1>5, <2>2
    <3> QED BY <1>1, <3>1 DEF IdsOf
  <2> QED BY <2>1, <2>2
<1>11. \A id \in Named(fs) : id \in Ids
    BY <1>5 DEF Named
<1>12. \A id \in Named(fs) : \E f \in r.files : f.id = id /\ d.inode[id].ext = f.ext
    BY <1>8, <1>11
<1> QED BY <1>2, <1>7, <1>9, <1>10, <1>12 DEF d
-----------------------------------------------------------------------------
(* Logs that grow.                                                         *)

(* A record behind the others. *)
LEMMA AppendLog ==
    ASSUME NEW l \in Seq(Records), NEW r \in Records
    PROVE  /\ Append(l, r) \in Seq(Records) /\ Len(Append(l, r)) = Len(l) + 1
           /\ \A i \in 1..Len(l) : Append(l, r)[i] = l[i]
           /\ Append(l, r)[Len(l) + 1] = r
           /\ LogIds(Append(l, r)) = LogIds(l) \cup IdsOf(r)
<1>1. /\ Append(l, r) \in Seq(Records) /\ Len(Append(l, r)) = Len(l) + 1
      /\ \A i \in 1..Len(l) : Append(l, r)[i] = l[i]
      /\ Append(l, r)[Len(l) + 1] = r
    OBVIOUS
<1>2. Range(Append(l, r)) = Range(l) \cup {r}
    BY AppendRange
<1>3. LogIds(Append(l, r)) = LogIds(l) \cup IdsOf(r)
    BY <1>2 DEF LogIds
<1> QED BY <1>1, <1>3

(* Only the record behind a superblock may be a snapshot. *)
LEMMA ShapeAppend ==
    ASSUME NEW l \in Seq(Records), NEW r \in Records, Shape(l),
           r.type = "snapshot" => Len(l) = 1 /\ l[1].type = "super"
    PROVE  Shape(Append(l, r))
<1> DEFINE k == Append(l, r)
<1>1. /\ Len(k) = Len(l) + 1 /\ \A i \in 1..Len(l) : k[i] = l[i]
      /\ k[Len(l) + 1] = r /\ Len(l) \in Nat
    BY AppendLog
<1> HIDE DEF k
<1>2. HasSnapshot(k) => k[1].type = "super"
  <2> SUFFICES ASSUME HasSnapshot(k) PROVE k[1].type = "super"
      OBVIOUS
  <2>1. CASE Len(l) >= 2
    <3>1. k[1] = l[1] /\ k[2] = l[2]
        BY <1>1, <2>1
    <3> QED BY <2>1, <3>1 DEF Shape, HasSnapshot
  <2>2. CASE Len(l) = 1
    <3>1. k[1] = l[1] /\ k[2] = r
        BY <1>1, <2>2
    <3> QED BY <3>1 DEF HasSnapshot
  <2>3. CASE Len(l) = 0
      BY <1>1, <2>3 DEF HasSnapshot
  <2>4. Len(l) = 0 \/ Len(l) = 1 \/ Len(l) >= 2
    <3>1. \A x \in Nat : x = 0 \/ x = 1 \/ x >= 2
        OBVIOUS
    <3> QED BY <1>1, <3>1
  <2> QED BY <2>1, <2>2, <2>3, <2>4
<1>3. ASSUME NEW i \in 3..Len(k) PROVE k[i].type # "snapshot"
  <2>1. CASE i <= Len(l)
    <3>1. i \in 3..Len(l) /\ k[i] = l[i]
        BY <1>1, <2>1
    <3> QED BY <3>1 DEF Shape
  <2>2. CASE i > Len(l)
    <3>1. k[i] = r /\ Len(l) # 1
        BY <1>1, <2>2
    <3> QED BY <3>1
  <2> QED BY <1>1, <2>1, <2>2
<1>4. Shape(k)
    BY <1>2, <1>3 DEF Shape
<1> QED BY <1>4 DEF k

(* An erased zone has no snapshot. *)
LEMMA EmptyLog == Shape(<<>>) /\ Sound(<<>>) /\ ~HasSnapshot(<<>>) /\ Shape(<<>>)
<1>1. Len(<<>>) = 0
    OBVIOUS
<1>2. ~HasSnapshot(<<>>)
    BY <1>1 DEF HasSnapshot
<1>3. Shape(<<>>)
  <2>1. \A i \in 3..0 : FALSE
      OBVIOUS
  <2> QED BY <1>1, <1>2, <2>1 DEF Shape
<1> QED BY <1>2, <1>3 DEF Sound

(* A log grows by what the record does. *)
LEMMA ReplayGrows ==
    ASSUME NEW l \in Seq(Records), NEW r \in Records, Len(l) >= 1
    PROVE  Replayed(Append(l, r)) = Decode(Replayed(l), r)
BY ReplayAppend DEF Replayed

(* A log with a snapshot grows by what the record does. *)
LEMMA SnapshotStays ==
    ASSUME NEW l \in Seq(Records), NEW r \in Records, HasSnapshot(l)
    PROVE  /\ HasSnapshot(Append(l, r)) /\ Replayed(Append(l, r)) = Decode(Replayed(l), r)
           /\ Replayed(l) \in States /\ Append(l, r)[1] = l[1]
<1>1. Len(l) >= 2 /\ Len(l) \in Nat
    BY DEF HasSnapshot
<1>2. Append(l, r)[2] = l[2] /\ Append(l, r)[1] = l[1] /\ Len(Append(l, r)) >= 2
    BY <1>1, AppendLog
<1>3. Replay(Empty, Append(l, r)) = Decode(Replay(Empty, l), r)
    BY <1>1, ReplayAppend
<1>4. Replayed(l) \in States
    BY <1>1, ReplayType, EmptyType DEF Replayed
<1> QED BY <1>2, <1>3, <1>4 DEF HasSnapshot, Replayed

(* A log without a snapshot gets one only from a snapshot behind its superblock. *)
LEMMA SnapshotLacks ==
    ASSUME NEW l \in Seq(Records), NEW r \in Records, ~HasSnapshot(l),
           ~(r.type = "snapshot" /\ Len(l) = 1)
    PROVE  ~HasSnapshot(Append(l, r))
<1> DEFINE k == Append(l, r)
<1>1. /\ Len(k) = Len(l) + 1 /\ \A i \in 1..Len(l) : k[i] = l[i]
      /\ k[Len(l) + 1] = r /\ Len(l) \in Nat
    BY AppendLog
<1> HIDE DEF k
<1>2. CASE Len(l) >= 2
    BY <1>1, <1>2 DEF HasSnapshot
<1>3. CASE Len(l) = 1
    BY <1>1, <1>3 DEF HasSnapshot
<1>4. CASE Len(l) = 0
    BY <1>1, <1>4 DEF HasSnapshot
<1>5. Len(l) = 0 \/ Len(l) = 1 \/ Len(l) >= 2
  <2>1. \A x \in Nat : x = 0 \/ x = 1 \/ x >= 2
      OBVIOUS
  <2> QED BY <1>1, <2>1
<1> QED BY <1>2, <1>3, <1>4, <1>5

(* The first snapshot of a log. *)
LEMMA SnapshotFirst ==
    ASSUME NEW l \in Seq(Records), NEW r \in Snapshots, Len(l) = 1
    PROVE  /\ HasSnapshot(Append(l, r)) /\ Replayed(Append(l, r)) = Decode(Begun(Empty), r)
           /\ Begun(Empty) \in States /\ Begun(Empty).status = "OK"
<1>1. r \in Records /\ r.type = "snapshot"
    BY DEF Records, Snapshots
<1>2. Append(l, r)[2] = r /\ Len(Append(l, r)) = 2
  <2>1. Append(l, r)[Len(l) + 1] = r /\ Len(Append(l, r)) = Len(l) + 1
      BY <1>1, AppendLog
  <2>2. Len(l) + 1 = 2
      OBVIOUS
  <2> QED BY <2>1, <2>2
<1>3. Replayed(Append(l, r)) = Decode(Replayed(l), r)
  <2>1. Len(l) >= 1
      OBVIOUS
  <2> QED BY <1>1, <2>1, ReplayGrows
<1>4. Replayed(l) = Begun(Empty)
    BY ReplayOne DEF Replayed
<1>5. Begun(Empty) \in States /\ Begun(Empty).status = "OK"
    BY EmptyType DEF Begun, States, Statuses
<1> QED BY <1>1, <1>2, <1>3, <1>4, <1>5 DEF HasSnapshot

(* A mark changes nothing of what a log stands for, unless it makes it unreadable. *)
LEMMA MarkEffect ==
    ASSUME NEW l \in Seq(Records), NEW r \in Records, r.type \in {"super", "end", "invalid"}
    PROVE  /\ HasSnapshot(Append(l, r)) <=> HasSnapshot(l)
           /\ HasSnapshot(l) /\ Replayed(Append(l, r)).status = "OK" =>
                /\ Replayed(l).status = "OK" /\ r.type # "invalid"
                /\ Replayed(Append(l, r)) = Replayed(l)
           /\ HasSnapshot(l) /\ r.type # "invalid" => Replayed(Append(l, r)) = Replayed(l)
           /\ Sound(l) => Sound(Append(l, r))
<1> DEFINE k == Append(l, r)
<1>1. HasSnapshot(k) <=> HasSnapshot(l)
    BY SnapshotStays, SnapshotLacks
<1>2. ASSUME HasSnapshot(l)
      PROVE  Replayed(k) = Decode(Replayed(l), r) /\ Replayed(l) \in States
    BY <1>2, SnapshotStays
<1>3. ASSUME HasSnapshot(l), r.type # "invalid"
      PROVE  Replayed(k) = Replayed(l)
  <2>1. Decode(Replayed(l), r) = Replayed(l)
      BY <1>3 DEF Decode
  <2> QED BY <1>2, <1>3, <2>1
<1>4. ASSUME HasSnapshot(l), r.type = "invalid"
      PROVE  Replayed(k).status # "OK"
  <2> DEFINE st == Replayed(l)
  <2>1. st \in States
      BY <1>2, <1>4
  <2> HIDE DEF st
  <2>2. Decode(st, r) = IF st.status # "OK" THEN st ELSE Corrupt(st)
      BY <1>4 DEF Decode
  <2>3. Corrupt(st).status = "Corruption"
      BY <2>1 DEF Corrupt, States
  <2>4. Decode(st, r).status # "OK"
      BY <2>2, <2>3
  <2> QED BY <1>2, <1>4, <2>4 DEF st
<1>5. LogIds(l) \subseteq LogIds(k)
    BY AppendLog
<1> HIDE DEF k
<1>6. ASSUME HasSnapshot(l), Replayed(k).status = "OK"
      PROVE  Replayed(l).status = "OK" /\ r.type # "invalid" /\ Replayed(k) = Replayed(l)
    BY <1>3, <1>4, <1>6
<1>7. Sound(l) => Sound(k)
    BY <1>1, <1>5, <1>6 DEF Sound
<1> QED BY <1>1, <1>3, <1>6, <1>7 DEF k

(* The ids of the files that have a name are ids. *)
LEMMA OpParts ==
    ASSUME Types
    PROVE  /\ op.before \in FileMaps /\ files \in FileMaps /\ inode \in [Ids -> Inodes]
           /\ NoFile \notin Ids /\ next_id \in Nat /\ op.id \in NoIds /\ mig.id \in NoIds
           /\ op.phase \in {1, 2} /\ op.kind \in OpKinds \cup {"none", "mount"}
           /\ op.kind \notin {"none", "mount"} => op.id \in Ids
           /\ Removing => Removed \in Names /\ op.kind \in {"create", "rename", "delete"}
           /\ \A id \in NoIds : id \in Nat
           /\ Links(inode) \in LinkMaps /\ \A id \in Ids : Links(inode)[id] = inode[id].links
           /\ \A id \in Ids : inode[id].links \in Seq(Names)
<1>1. op \in Operations
    BY DEF Types, OpTypes
<1>2. /\ op.before \in FileMaps /\ op.id \in NoIds /\ op.phase \in {1, 2}
      /\ op.kind \in OpKinds \cup {"none", "mount"}
    BY <1>1 DEF Operations
<1>3. /\ files \in FileMaps /\ inode \in [Ids -> Inodes] /\ next_id \in 1..(MaxId + 1)
      /\ mig \in [id : NoIds, ext : Seq(Data)]
    BY DEF Types, MemTypes
<1>4. NoFile \notin Ids /\ \A id \in NoIds : id \in Nat
    BY DEF NoFile, Ids, NoIds
<1>5. next_id \in Nat
    BY <1>3, MetaLogAssumption
<1>6. mig.id \in NoIds
    BY <1>3
<1>7. op.kind \notin {"none", "mount"} => op.id \in Ids
    BY DEF Types, OpTypes
<1>8. Removing => Removed \in Names /\ op.kind \in {"create", "rename", "delete"}
    BY DEF Types, OpTypes, Removing, Removed
<1>9. \A id \in Ids : inode[id].links \in Seq(Names)
    BY <1>3, InodeParts
<1>10. Links(inode) \in LinkMaps /\ \A id \in Ids : Links(inode)[id] = inode[id].links
    BY <1>9 DEF Links, LinkMaps
<1> QED BY <1>2, <1>3, <1>4, <1>5, <1>6, <1>7, <1>8, <1>9, <1>10

(* The record of the operation under way turns the name space from before it into the *)
(* one after it.                                                                      *)
LEMMA RecEffect ==
    ASSUME Types, MemCore, pc = "persist",
           NEW st \in States, st.status = "OK", Agree(st.files, Links(st.inode)),
           st.files = op.before
    PROVE  /\ Decode(st, rec).status = "OK" /\ Decode(st, rec).files = After
           /\ Agree(After, Links(Decode(st, rec).inode))
           /\ \A n \in Names : After[n] \in {st.files[n], NoFile} \cup IdsOf(rec)
           /\ IF Removing THEN \A id \in Ids : Decode(st, rec).inode[id].ext = st.inode[id].ext
              ELSE /\ \A id \in Ids : id # op.id =>
                        Decode(st, rec).inode[id].ext = st.inode[id].ext
                   /\ Decode(st, rec).inode[op.id].ext =
                        IF op.kind = "create" \/ op.kind = "migrate" THEN rec.file.ext
                        ELSE st.inode[op.id].ext \o rec.file.ext
<1> DEFINE d == Decode(st, rec)
<1>1. /\ op.before \in FileMaps /\ files \in FileMaps /\ inode \in [Ids -> Inodes]
      /\ NoFile \notin Ids /\ op.phase \in {1, 2}
      /\ op.kind \in OpKinds \cup {"none", "mount"}
      /\ op.kind \notin {"none", "mount"} => op.id \in Ids
      /\ Removing => Removed \in Names /\ op.kind \in {"create", "rename", "delete"}
    BY OpParts
<1>2. op.kind \notin {"none", "mount"} /\ op.id \in Ids
    BY <1>1 DEF Types, StepInv
<1>3. OpInv /\ RecLinks /\ Agree(files, MemLinks)
    BY DEF MemCore
<1>4. CASE Removing
  <2>1. /\ op.before[Removed] = op.id /\ files = [op.before EXCEPT ![Removed] = NoFile]
        /\ Removed \in Names
      BY <1>1, <1>3, <1>4 DEF OpInv
  <2>2. rec = [type |-> "deletion", id |-> op.id, name |-> Removed]
      BY <1>3, <1>4 DEF RecLinks
  <2>3. After = files
      BY <1>1, <1>4 DEF After, Removing
  <2>4. /\ d.status = "OK" /\ d.files = [st.files EXCEPT ![Removed] = NoFile]
        /\ Agree(d.files, Links(d.inode)) /\ \A j \in Ids : d.inode[j].ext = st.inode[j].ext
    <3> HIDE DEF d
    <3>1. ASSUME NEW i, i = op.id, NEW n, n = Removed
          PROVE  rec = [type |-> "deletion", id |-> i, name |-> n]
                 /\ i \in Ids /\ n \in Names /\ st.files[n] = i
        BY <1>2, <2>1, <2>2, <3>1
    <3> QED BY <3>1, DeletionEffect DEF d
  <2>5. \A n \in Names : files[n] \in {st.files[n], NoFile}
      BY <1>1, <2>1 DEF FileMaps
  <2> QED BY <1>4, <2>1, <2>3, <2>4, <2>5
<1>5. CASE ~Removing
  <2>1. op.phase = 2 /\ op.kind \in {"create", "sync", "rename", "link", "migrate"}
      BY <1>1, <1>2, <1>5 DEF Removing, OpKinds
  <2>2. /\ rec.type = (IF op.kind = "migrate" THEN "replace" ELSE "update")
        /\ rec.file.id = op.id /\ rec.file.links = inode[op.id].links
        /\ op.kind = "create" => rec.file.links = <<op.name>> /\ rec.file.ext = <<>>
        /\ op.kind # "create" => \E n \in Names : op.before[n] = op.id
      BY <1>3, <1>5 DEF RecLinks
  <2>3. rec \in Updates
    <3>1. rec \in Updates \cup Deletions
        BY DEF Types, RecTypes
    <3> QED BY <2>2, <3>1 DEF Deletions
  <2>4. IdsOf(rec) = {op.id}
      BY <2>2 DEF IdsOf
  <2>5. CASE op.kind = "create"
    <3>1. /\ op.before = files /\ files[op.name] = NoFile /\ op.name \in Names
          /\ \A n \in Names : files[n] # op.id
        BY <1>3, <2>1, <2>5 DEF OpInv, Types, OpTypes
    <3>2. After = [files EXCEPT ![op.name] = op.id]
        BY <2>1, <2>5 DEF After
    <3>3. /\ d.status = "OK" /\ d.files = [st.files EXCEPT ![op.name] = op.id]
          /\ Agree(d.files, Links(d.inode)) /\ d.inode[op.id].ext = rec.file.ext
          /\ \A j \in Ids : j # op.id => d.inode[j] = st.inode[j]
      <4>1. rec.file.links = <<op.name>> /\ op.id = rec.file.id
          BY <2>2, <2>5
      <4> QED BY <2>3, <3>1, <4>1, CreateEffect
    <3>4. \A n \in Names : After[n] \in {st.files[n], op.id}
        BY <1>1, <3>1, <3>2 DEF FileMaps
    <3> QED BY <1>5, <2>4, <2>5, <3>1, <3>2, <3>3, <3>4
  <2>6. CASE op.kind # "create"
    <3>1. After = files
        BY <2>6 DEF After
    <3>2. MemLinks[op.id] = inode[op.id].links
        BY <1>2, <2>6 DEF MemLinks, Creating
    <3>3. /\ Range(rec.file.links) = {n \in Names : files[n] = op.id}
          /\ IsInjective(rec.file.links)
        BY <1>2, <1>3, <2>2, <3>2 DEF Agree
    <3>4. ASSUME NEW n \in Names
          PROVE  \/ files[n] = st.files[n]
                 \/ files[n] \in {NoFile, op.id} /\ st.files[n] \in {NoFile, op.id}
      <4>1. CASE op.kind \in Steady
          BY <1>3, <4>1 DEF OpInv
      <4>2. CASE op.kind = "rename"
        <5>1. /\ op.before[op.name] = op.id /\ op.before[op.to] = NoFile
              /\ files = [op.before EXCEPT ![op.name] = NoFile, ![op.to] = op.id]
            BY <1>3, <2>1, <4>2 DEF OpInv
        <5> QED BY <1>1, <5>1 DEF FileMaps
      <4>3. CASE op.kind = "link"
        <5>1. /\ op.before[op.name] = op.id /\ op.before[op.to] = NoFile
              /\ files = [op.before EXCEPT ![op.to] = op.id]
            BY <1>3, <4>3 DEF OpInv
        <5> QED BY <1>1, <5>1 DEF FileMaps
      <4> QED BY <2>1, <2>6, <4>1, <4>2, <4>3 DEF Steady
    <3>5. \E n \in Names : st.files[n] = op.id
        BY <2>2, <2>6
    <3>6. /\ d.status = "OK" /\ d.files = files
          /\ Agree(d.files, Links(d.inode))
          /\ d.inode[op.id].ext = IF rec.type = "update" THEN st.inode[op.id].ext \o rec.file.ext
                                  ELSE rec.file.ext
          /\ \A j \in Ids : j # op.id => d.inode[j] = st.inode[j]
        BY <1>1, <2>2, <2>3, <3>3, <3>4, <3>5, UpdateEffect
    <3>7. \A n \in Names : files[n] \in {st.files[n], NoFile, op.id}
        BY <3>4
    <3> QED BY <1>5, <2>2, <2>4, <2>6, <3>1, <3>6, <3>7
  <2> QED BY <2>5, <2>6
<1> QED BY <1>4, <1>5
-----------------------------------------------------------------------------
(* The name space in memory.                                               *)

\* Names and links agree, and no file has the next id.
Settled ==
  /\ Agree(files, Links(inode))
  /\ \A n \in Names : files[n] < next_id
  /\ mig.id < next_id

(* Unless a file is being created the links in memory are those of its names. *)
LEMMA CoreSettled ==
    ASSUME Types, MemCore, ~(op.kind = "create" /\ op.phase = 2)
    PROVE  Settled
<1>1. MemLinks = Links(inode)
    BY DEF MemLinks, Links, Creating
<1> QED BY <1>1 DEF MemCore, Settled

(* A file is about to be created. *)
LEMMA MainCreateCore ==
    ASSUME Types, Settled, NEW n \in Names, files[n] = NoFile, MainCreate(n, files, inode),
           pc' = "persist", mig' = mig
    PROVE  MemCore' /\ op'.before = files /\ files' = files
<1>1. /\ next_id \in Ids /\ next_id' = next_id + 1 /\ files' = files
      /\ inode' = [inode EXCEPT ![next_id] = [NoInode EXCEPT !.links = <<n>>]]
      /\ op' = [kind |-> "create", name |-> n, to |-> n, id |-> next_id, phase |-> 2,
                before |-> files]
      /\ rec' = [type |-> "update",
                 file |-> [id |-> next_id, links |-> <<n>>, ext |-> <<>>]]
    BY DEF MainCreate
<1>2. /\ files \in FileMaps /\ inode \in [Ids -> Inodes] /\ next_id \in Nat
      /\ NoFile \notin Ids /\ mig.id \in Nat /\ \A m \in Names : files[m] \in Nat
    BY OpParts DEF FileMaps
<1>3. /\ inode'[next_id].links = <<n>>
      /\ \A j \in Ids : j # next_id => inode'[j] = inode[j]
    BY <1>1, <1>2, NewFileType
<1>4. \A m \in Names : files[m] # next_id /\ files[m] < next_id
    BY <1>2 DEF Settled
<1>5. OpInv'
    BY <1>1, <1>4 DEF OpInv, Removing, Steady
<1>6. RecLinks'
    BY <1>1, <1>3 DEF RecLinks, Removing
<1>7. Agree(files', MemLinks')
  <2>1. ASSUME NEW j \in Ids
        PROVE  Range(MemLinks'[j]) = {m \in Names : files'[m] = j} /\ IsInjective(MemLinks'[j])
    <3>1. CASE j = next_id
      <4>1. MemLinks'[j] = <<>>
          BY <1>1, <3>1 DEF MemLinks, Creating
      <4>2. Range(<<>>) = {} /\ IsInjective(<<>>)
          BY DEF Range, IsInjective
      <4> QED BY <1>1, <1>4, <3>1, <4>1, <4>2
    <3>2. CASE j # next_id
      <4>1. MemLinks'[j] = inode'[j].links
          BY <1>1, <3>2 DEF MemLinks, Creating
      <4>2. MemLinks'[j] = Links(inode)[j]
          BY <1>3, <3>2, <4>1 DEF Links
      <4> QED BY <1>1, <4>2 DEF Settled, Agree
    <3> QED BY <3>1, <3>2
  <2> QED BY <2>1 DEF Agree
<1>8. mig'.id < next_id' /\ op'.id < next_id' /\ \A m \in Names : files'[m] < next_id'
  <2>1. mig.id < next_id
      BY DEF Settled
  <2> QED BY <1>1, <1>2, <1>4, <2>1
<1>9. pc' \notin Rolling /\ inode'[op'.id].links = <<op'.name>>
    BY <1>1, <1>3 DEF Rolling
<1> QED BY <1>1, <1>5, <1>6, <1>7, <1>8, <1>9 DEF MemCore

(* A file changes its name. *)
LEMMA MainRenameCore ==
    ASSUME Types, Settled, NEW n \in Names, NEW m \in Names, n # m, files[n] # NoFile,
           files[m] = NoFile, MainRename(n, m, files, inode),
           pc' = "persist", mig' = mig
    PROVE  MemCore' /\ op'.before = files
<1> DEFINE id == files[n]
           new == RenameLink(inode, id, n, m)
<1>1. /\ next_id' = next_id /\ files' = [files EXCEPT ![n] = NoFile, ![m] = id] /\ inode' = new
      /\ op' = [kind |-> "rename", name |-> n, to |-> m, id |-> id, phase |-> 2,
                before |-> files]
      /\ rec'.type = "update" /\ rec'.file.id = id /\ rec'.file.links = new[id].links
    BY DEF MainRename
<1>2. /\ files \in FileMaps /\ inode \in [Ids -> Inodes] /\ next_id \in Nat
      /\ NoFile \notin Ids /\ mig.id \in Nat /\ \A x \in Names : files[x] \in Nat
    BY OpParts DEF FileMaps
<1>3. id \in Ids
    BY <1>2 DEF FileMaps, NoIds
<1>4. /\ new \in [Ids -> Inodes] /\ new[id].links = Append(RemoveFirst(inode[id].links, n), m)
      /\ \A j \in Ids : j # id => new[j] = inode[j]
    BY <1>2, <1>3, RenameLinkType
<1> HIDE DEF new
<1>5. \A x \in Names : files'[x] = IF x = m THEN id ELSE IF x = n THEN NoFile ELSE files[x]
    BY <1>1, <1>2 DEF FileMaps
<1>6. OpInv'
    BY <1>1 DEF OpInv, Removing, Steady
<1>7. RecLinks'
  <2>1. ~Removing' /\ op'.kind = "rename" /\ op'.id = id
      BY <1>1 DEF Removing
  <2>2. \E x \in Names : op'.before[x] = op'.id
      BY <1>1
  <2> QED BY <1>1, <2>1, <2>2 DEF RecLinks
<1>8. Agree(files', MemLinks')
  <2>1. MemLinks' = Links(new)
      BY <1>1 DEF MemLinks, Creating, Links
  <2>2. /\ Links(inode) \in LinkMaps /\ Links(new) \in LinkMaps
        /\ \A j \in Ids : Links(inode)[j] = inode[j].links /\ Links(new)[j] = new[j].links
    <3>1. \A j \in Ids : inode[j].links \in Seq(Names) /\ new[j].links \in Seq(Names)
        BY <1>2, <1>4, InodeParts
    <3> QED BY <3>1 DEF Links, LinkMaps
  <2>3. /\ Links(new)[id] = Append(RemoveFirst(Links(inode)[id], n), m)
        /\ \A j \in Ids : j # id => Links(new)[j] = Links(inode)[j]
      BY <1>3, <1>4, <2>2
  <2>4. Agree(files, Links(inode))
      BY DEF Settled
  <2>5. Agree(files', Links(new))
      BY <1>2, <1>3, <1>5, <2>2, <2>3, <2>4, AgreeRename
  <2> QED BY <2>1, <2>5
<1>9. mig'.id < next_id' /\ op'.id < next_id' /\ \A x \in Names : files'[x] < next_id'
  <2>1. mig.id < next_id /\ \A x \in Names : files[x] < next_id
      BY DEF Settled
  <2>2. NoFile < next_id
      BY <1>2, <2>1 DEF NoFile
  <2> QED BY <1>1, <1>2, <1>5, <2>1, <2>2
<1>10. pc' \notin Rolling /\ op'.kind # "create"
    BY <1>1 DEF Rolling
<1> QED BY <1>1, <1>6, <1>7, <1>8, <1>9, <1>10 DEF MemCore

(* A name is removed. *)
LEMMA StartDeletionCore ==
    ASSUME Types, Settled, NEW n \in Names, files[n] # NoFile,
           NEW k \in {"create", "delete", "rename"}, NEW ph \in {1, 2},
           ph = 1 \/ k = "delete", NEW x \in Names, NEW y \in Names,
           k = "rename" => y = n /\ x # n, k # "rename" => x = n,
           StartDeletion(n, Operation(k, x, y, NoFile, ph)), next_id' = next_id, mig' = mig,
           pc' = "persist"
    PROVE  MemCore' /\ op'.before = files
<1> DEFINE o == Operation(k, x, y, NoFile, ph)
           id == files[n]
           new == DropLink(inode, id, n)
<1>1. /\ files' = [files EXCEPT ![n] = NoFile] /\ inode' = new
      /\ rec' = [type |-> "deletion", id |-> id, name |-> n]
      /\ op' = [o EXCEPT !.id = id, !.before = files]
    BY DEF StartDeletion, Unlinked, FileDeletion
<1>2. op' = [kind |-> k, name |-> x, to |-> y, id |-> id, phase |-> ph, before |-> files]
    BY <1>1 DEF Operation
<1>3. /\ files \in FileMaps /\ inode \in [Ids -> Inodes] /\ next_id \in Nat
      /\ NoFile \notin Ids /\ mig.id \in Nat /\ \A m \in Names : files[m] \in Nat
    BY OpParts DEF FileMaps
<1>4. id \in Ids
    BY <1>3 DEF FileMaps, NoIds
<1>5. /\ new \in [Ids -> Inodes] /\ new[id].links = RemoveFirst(inode[id].links, n)
      /\ \A j \in Ids : j # id => new[j] = inode[j]
    BY <1>3, <1>4, DropLinkType
<1> HIDE DEF new, o, id
<1>6. \A m \in Names : files'[m] = IF m = n THEN NoFile ELSE files[m]
    BY <1>1, <1>3 DEF FileMaps
<1>7. Removing' /\ Removed' = n
    BY <1>2 DEF Removing, Removed
<1>8. OpInv'
  <2>1. op'.kind = k /\ op'.phase = ph /\ op'.before = files /\ op'.id = id /\ op'.name = x
        /\ op'.to = y
      BY <1>2
  <2>2. op'.before[Removed'] = op'.id /\ files' = [op'.before EXCEPT ![Removed'] = NoFile]
      BY <1>1, <1>7, <2>1 DEF id
  <2>3. k = "rename" => x # y
      OBVIOUS
  <2> QED BY <2>1, <2>2, <2>3 DEF OpInv, Steady
<1>9. RecLinks'
    BY <1>1, <1>2, <1>7 DEF RecLinks
<1>10. Agree(files', MemLinks')
  <2>1. MemLinks' = Links(new)
    <3>1. ~(op'.kind = "create" /\ op'.phase = 2)
        BY <1>2
    <3> QED BY <1>1, <3>1 DEF MemLinks, Creating, Links
  <2>2. /\ Links(inode) \in LinkMaps /\ Links(new) \in LinkMaps
        /\ \A j \in Ids : Links(inode)[j] = inode[j].links /\ Links(new)[j] = new[j].links
    <3>1. \A j \in Ids : inode[j].links \in Seq(Names) /\ new[j].links \in Seq(Names)
        BY <1>3, <1>5, InodeParts
    <3> QED BY <3>1 DEF Links, LinkMaps
  <2>3. /\ Links(new)[id] = RemoveFirst(Links(inode)[id], n)
        /\ \A j \in Ids : j # id => Links(new)[j] = Links(inode)[j]
      BY <1>4, <1>5, <2>2
  <2>4. Agree(files, Links(inode)) /\ files[n] = id
      BY DEF Settled, id
  <2>5. Agree(files', Links(new))
      BY <1>3, <1>4, <1>6, <2>2, <2>3, <2>4, AgreeDrop
  <2> QED BY <2>1, <2>5
<1>11. mig'.id < next_id' /\ op'.id < next_id' /\ \A m \in Names : files'[m] < next_id'
  <2>1. mig.id < next_id /\ \A m \in Names : files[m] < next_id
      BY DEF Settled
  <2>2. NoFile < next_id
      BY <1>3, <2>1 DEF NoFile
  <2>3. op'.id < next_id
      BY <1>2, <2>1 DEF id
  <2> QED BY <1>6, <2>1, <2>2, <2>3
<1>12. pc' \notin Rolling /\ ~(op'.kind = "create" /\ op'.phase = 2)
    BY <1>2 DEF Rolling
<1> QED BY <1>2, <1>8, <1>9, <1>10, <1>11, <1>12 DEF MemCore

(* What no operation is under way has a resting name space. *)
LEMMA RestingCore ==
    ASSUME Settled', op' = Resting(files'), pc' = "idle", next_id' \in Nat, NoFile < next_id'
    PROVE  MemCore' /\ op'.before = files'
<1>1. op'.kind = "none" /\ op'.phase = 2 /\ op'.id = NoFile /\ op'.before = files'
    BY DEF Resting
<1>2. OpInv' /\ RecLinks'
    BY <1>1 DEF OpInv, RecLinks, Removing, Steady
<1>3. MemLinks' = Links(inode')
    BY <1>1 DEF MemLinks, Creating, Links
<1>4. pc' \notin Rolling
    BY DEF Rolling
<1> QED BY <1>1, <1>2, <1>3, <1>4 DEF MemCore, Settled

(* Nothing happens to the names, the links and the operation. *)
LEMMA SameCore ==
    ASSUME MemCore, UNCHANGED <<files, next_id, op>>,
           \A id \in Ids : inode'[id].links = inode[id].links,
           op.kind = "create" /\ op.phase = 2 => op.id \in Ids,
           mig'.id < next_id, RecLinks',
           pc' \in Rolling => ~(op.kind = "create" /\ op.phase = 2)
    PROVE  MemCore'
<1>1. OpInv'
    BY DEF MemCore, OpInv, Removing, Removed
<1>2. MemLinks' = MemLinks
    BY DEF MemLinks, Creating
<1>3. op'.kind = "create" /\ op'.phase = 2 => inode'[op'.id].links = <<op'.name>>
    BY DEF MemCore
<1> QED BY <1>1, <1>2, <1>3 DEF MemCore

(* A link is added. *)
LEMMA LinkCore ==
    ASSUME Types, Settled, NEW n \in Names, NEW m \in Names, LinkFile(n, m)
    PROVE  MemCore' /\ op'.before = files
<1> DEFINE id == files[n]
           new == AddLink(inode, id, m)
<1>1. /\ pc' = "persist" /\ mig' = mig /\ id # NoFile /\ files[m] = NoFile /\ next_id' = next_id
      /\ files' = [files EXCEPT ![m] = id] /\ inode' = new
      /\ op' = [kind |-> "link", name |-> n, to |-> m, id |-> id, phase |-> 2,
                before |-> files]
      /\ rec' = [type |-> "update",
                 file |-> [FileUpdate(id).file EXCEPT !.links = Append(@, m)]]
    BY DEF LinkFile, Start, Operation
<1>2. /\ files \in FileMaps /\ inode \in [Ids -> Inodes] /\ next_id \in Nat
      /\ NoFile \notin Ids /\ mig.id \in Nat /\ \A x \in Names : files[x] \in Nat
    BY OpParts DEF FileMaps
<1>3. id \in Ids
    BY <1>1, <1>2 DEF FileMaps, NoIds
<1>4. /\ new \in [Ids -> Inodes] /\ new[id].links = Append(inode[id].links, m)
      /\ \A j \in Ids : j # id => new[j] = inode[j]
    BY <1>2, <1>3, AddLinkType
<1> HIDE DEF new, id
<1>5. \A x \in Names : files'[x] = IF x = m THEN id ELSE files[x]
    BY <1>1, <1>2 DEF FileMaps
<1>6. files[n] = id
    BY DEF id
<1>7. OpInv'
    BY <1>1, <1>6 DEF OpInv, Removing, Steady
<1>8. RecLinks'
  <2>1. ~Removing' /\ op'.kind = "link" /\ op'.id = id /\ op'.before[n] = id
      BY <1>1, <1>6 DEF Removing
  <2>2. rec'.file.id = id /\ rec'.file.links = Append(inode[id].links, m)
      BY <1>1 DEF FileUpdate, Encoded
  <2> QED BY <1>1, <1>4, <2>1, <2>2 DEF RecLinks
<1>9. Agree(files', MemLinks')
  <2>1. MemLinks' = Links(new)
      BY <1>1 DEF MemLinks, Creating, Links
  <2>2. /\ Links(inode) \in LinkMaps /\ Links(new) \in LinkMaps
        /\ \A j \in Ids : Links(inode)[j] = inode[j].links /\ Links(new)[j] = new[j].links
    <3>1. \A j \in Ids : inode[j].links \in Seq(Names) /\ new[j].links \in Seq(Names)
        BY <1>2, <1>4, InodeParts
    <3> QED BY <3>1 DEF Links, LinkMaps
  <2>3. /\ Links(new)[id] = Append(Links(inode)[id], m)
        /\ \A j \in Ids : j # id => Links(new)[j] = Links(inode)[j]
      BY <1>3, <1>4, <2>2
  <2>4. Agree(files, Links(inode))
      BY DEF Settled
  <2>5. Agree(files', Links(new))
    <3>1. files[m] = NoFile
        BY <1>1
    <3> QED BY <1>2, <1>3, <1>5, <2>2, <2>3, <2>4, <3>1, AgreeAdd
  <2> QED BY <2>1, <2>5
<1>10. mig'.id < next_id' /\ op'.id < next_id' /\ \A x \in Names : files'[x] < next_id'
  <2>1. mig.id < next_id /\ \A x \in Names : files[x] < next_id
      BY DEF Settled
  <2> QED BY <1>1, <1>5, <1>6, <2>1
<1>11. pc' \notin Rolling /\ op'.kind # "create"
    BY <1>1 DEF Rolling
<1> QED BY <1>1, <1>7, <1>8, <1>9, <1>10, <1>11 DEF MemCore

(* The sync of a file, by its writer or by a migration, changes no name. *)
LEMMA SyncCore ==
    ASSUME Types, Settled, NEW k \in {"sync", "migrate"}, NEW x, NEW id \in Ids,
           \E n \in Names : files[n] = id,
           op' = Operation(k, x, x, id, 2), pc' = "persist",
           rec' = IF k = "sync" THEN FileUpdate(id) ELSE FileReplace(id),
           UNCHANGED <<files, inode, next_id, mig>>
    PROVE  MemCore' /\ op'.before = files
<1>1. op' = [kind |-> k, name |-> x, to |-> x, id |-> id, phase |-> 2, before |-> files]
    BY DEF Operation
<1>2. ~Removing' /\ op'.kind = k /\ op'.id = id /\ op'.phase = 2 /\ op'.before = files
    BY <1>1 DEF Removing
<1>3. OpInv'
    BY <1>2 DEF OpInv, Steady
<1>4. RecLinks'
  <2>1. /\ rec'.type = (IF k = "migrate" THEN "replace" ELSE "update")
        /\ rec'.file.id = id /\ rec'.file.links = inode[id].links
      BY DEF FileUpdate, FileReplace, Encoded
  <2> QED BY <1>2, <2>1 DEF RecLinks
<1>5. Agree(files', MemLinks')
  <2>1. MemLinks' = Links(inode)
      BY <1>2 DEF MemLinks, Creating, Links
  <2> QED BY <2>1 DEF Settled
<1>6. mig'.id < next_id' /\ op'.id < next_id' /\ \A n \in Names : files'[n] < next_id'
    BY <1>2 DEF Settled
<1>7. pc' \notin Rolling /\ op'.kind # "create"
    BY <1>2 DEF Rolling
<1> QED BY <1>2, <1>3, <1>4, <1>5, <1>6, <1>7 DEF MemCore

(* An operation that is persisted has changed the name space to what it was to become. *)
LEMMA PersistedCore ==
    ASSUME Types, MemCore, op.kind # "none", Persisted(inode)
    PROVE  MemCore' /\ op'.before = After /\ pc' \in {"idle", "persist"}
<1>1. /\ files \in FileMaps /\ inode \in [Ids -> Inodes] /\ next_id \in Nat
      /\ NoFile \notin Ids /\ op.phase \in {1, 2}
      /\ op.kind \in OpKinds \cup {"none", "mount"}
      /\ op.kind \notin {"none", "mount"} => op.id \in Ids
      /\ op.id \in Nat /\ mig.id \in Nat
    BY OpParts
<1>2. OpTypes /\ OpInv
    BY DEF Types, MemCore
<1>3. CASE /\ op.kind = "create" /\ op.phase = 1 /\ pc' = "persist" /\ mig' = mig
           /\ MainCreate(op.name, files, inode)
  <2>1. op.name \in Names /\ Settled /\ After = files
      BY <1>2, <1>3, CoreSettled DEF OpTypes, After
  <2>2. files[op.name] = NoFile
    <3>1. files = [op.before EXCEPT ![op.name] = NoFile] /\ op.before \in FileMaps
        BY <1>2, <1>3, OpParts DEF OpInv, Removing, Removed
    <3> QED BY <2>1, <3>1 DEF FileMaps
  <2> QED BY <1>3, <2>1, <2>2, MainCreateCore
<1>4. CASE /\ op.kind = "rename" /\ op.phase = 1 /\ pc' = "persist" /\ mig' = mig
           /\ MainRename(op.name, op.to, files, inode)
  <2>1. /\ op.name \in Names /\ op.to \in Names /\ Settled /\ After = files
        /\ files[op.name] # NoFile /\ op.name # op.to
      BY <1>2, <1>4, CoreSettled DEF OpTypes, After, OpInv
  <2>2. files[op.to] = NoFile
    <3>1. files = [op.before EXCEPT ![op.to] = NoFile] /\ op.before \in FileMaps
        BY <1>2, <1>4, OpParts DEF OpInv, Removing, Removed
    <3> QED BY <2>1, <3>1 DEF FileMaps
  <2> QED BY <1>4, <2>1, <2>2, MainRenameCore
<1>5. CASE /\ op.phase = 2 /\ pc' = "idle" /\ op' = Resting(files') /\ rec' = NoRec
           /\ next_id' = next_id /\ files' = After
           /\ mig' = (IF op.kind = "migrate" THEN NoMig ELSE mig)
           /\ inode' = (IF op.kind \in {"delete", "mount"} THEN inode
                        ELSE MetadataSynced(inode, op.id))
  <2>1. \A id \in Ids : inode'[id].links = inode[id].links
    <3>1. CASE op.kind \in {"delete", "mount"}
        BY <1>5, <3>1
    <3>2. CASE op.kind \notin {"delete", "mount"}
      <4>1. op.id \in Ids /\ inode' = MetadataSynced(inode, op.id)
          BY <1>1, <1>5, <3>2
      <4> QED BY <1>1, <4>1, SyncedType
    <3> QED BY <3>1, <3>2
  <2>2. Links(inode') = Links(inode)
      BY <2>1 DEF Links
  <2>3. mig.id < next_id /\ op.id < next_id /\ \A n \in Names : files[n] < next_id
      BY DEF MemCore
  <2>4. NoFile < next_id /\ mig'.id < next_id
    <3>1. NoFile < next_id
        BY <1>1, <2>3 DEF NoFile
    <3> QED BY <1>5, <2>3, <3>1 DEF NoMig
  <2>5. CASE op.kind = "create"
    <3>1. /\ files' = [files EXCEPT ![op.name] = op.id] /\ op.name \in Names
          /\ files[op.name] = NoFile /\ inode[op.id].links = <<op.name>>
          /\ \A n \in Names : files[n] # op.id
        BY <1>2, <1>5, <2>5 DEF After, OpInv, OpTypes, MemCore
    <3>2. \A n \in Names : files'[n] = IF n = op.name THEN op.id ELSE files[n]
        BY <1>1, <3>1 DEF FileMaps
    <3>3. Agree(files', Links(inode))
      <4>1. ASSUME NEW j \in Ids
            PROVE  /\ Range(Links(inode)[j]) = {n \in Names : files'[n] = j}
                   /\ IsInjective(Links(inode)[j])
        <5>1. CASE j = op.id
          <6>1. Links(inode)[j] = <<op.name>>
              BY <3>1, <5>1 DEF Links
          <6>2. Range(<<op.name>>) = {op.name} /\ IsInjective(<<op.name>>)
              BY DEF Range, IsInjective
          <6>3. {n \in Names : files'[n] = j} = {op.name}
              BY <3>1, <3>2, <5>1
          <6> QED BY <6>1, <6>2, <6>3
        <5>2. CASE j # op.id
          <6>1. Links(inode)[j] = MemLinks[j]
              BY <5>2 DEF Links, MemLinks, Creating
          <6>2. Range(MemLinks[j]) = {n \in Names : files[n] = j} /\ IsInjective(MemLinks[j])
              BY DEF MemCore, Agree
          <6>3. {n \in Names : files'[n] = j} = {n \in Names : files[n] = j}
              BY <1>1, <3>1, <3>2, <5>2
          <6> QED BY <6>1, <6>2, <6>3
        <5> QED BY <5>1, <5>2
      <4> QED BY <4>1 DEF Agree
    <3>4. Settled'
        BY <1>5, <2>2, <2>3, <2>4, <3>2, <3>3 DEF Settled
    <3> QED BY <1>1, <1>5, <2>4, <3>4, RestingCore
  <2>6. CASE op.kind # "create"
    <3>1. files' = files /\ Settled
        BY <1>5, <2>6, CoreSettled DEF After
    <3>2. Settled'
        BY <1>5, <2>2, <2>4, <3>1 DEF Settled
    <3> QED BY <1>1, <1>5, <2>4, <3>2, RestingCore
  <2> QED BY <2>5, <2>6
<1> QED BY <1>2, <1>3, <1>4, <1>5, PersistedSteps

(* An operation that is not persisted leaves the name space as it was before it. *)
LEMMA UndoneCore ==
    ASSUME Types, MemCore, op.kind # "none", Undone
    PROVE  \/ op.kind = "mount" /\ pc' = "down" /\ UNCHANGED <<files, op>>
           \/ /\ op.kind # "mount" /\ pc' = "idle" /\ MemCore'
              /\ op'.before = op.before /\ files' = op.before
<1>1. /\ op.before \in FileMaps /\ files \in FileMaps /\ inode \in [Ids -> Inodes]
      /\ next_id \in Nat /\ NoFile \notin Ids /\ op.phase \in {1, 2} /\ op.id \in Nat
      /\ op.kind \notin {"none", "mount"} => op.id \in Ids
      /\ Removing => Removed \in Names
      /\ Links(inode) \in LinkMaps /\ \A id \in Ids : Links(inode)[id] = inode[id].links
    BY OpParts
<1>2. OpTypes /\ OpInv
    BY DEF Types, MemCore
<1>3. CASE op.kind = "mount"
    BY <1>2, <1>3, UndoneSteps
<1>4. CASE op.kind # "mount"
  <2>1. op.id \in Ids
      BY <1>1, <1>4
  <2>2. /\ pc' = "idle" /\ op' = Resting(files') /\ rec' = NoRec /\ next_id' = next_id
        /\ mig' = (IF op.kind = "migrate" THEN NoMig ELSE mig)
      BY <1>2, <1>4, UndoneSteps
  <2>3. op.id < next_id /\ mig.id < next_id /\ NoFile < next_id
        /\ \A n \in Names : files[n] < next_id
    <3>1. NoFile < next_id
        BY <1>1 DEF MemCore, NoFile
    <3> QED BY <3>1 DEF MemCore
  <2>4. mig'.id < next_id
      BY <2>2, <2>3 DEF NoMig
  <2>5. ASSUME files' = op.before, Agree(files', Links(inode')),
               \A n \in Names : files'[n] \in {files[n], op.id, NoFile}
        PROVE  MemCore' /\ op'.before = op.before
    <3>1. \A n \in Names : files'[n] < next_id
        BY <2>3, <2>5
    <3>2. Settled'
        BY <2>2, <2>4, <2>5, <3>1 DEF Settled
    <3> QED BY <1>1, <2>2, <2>3, <2>5, <3>2, RestingCore
  <2>6. ASSUME NEW ino, inode' = ino, ino \in [Ids -> Inodes]
        PROVE  Links(inode') \in LinkMaps /\ \A j \in Ids : Links(inode')[j] = ino[j].links
    <3>1. \A j \in Ids : ino[j].links \in Seq(Names)
        BY <2>6, InodeParts
    <3> QED BY <2>6, <3>1 DEF Links, LinkMaps
  <2>7. CASE /\ Removing
             /\ files' = [files EXCEPT ![Removed] = op.id]
             /\ inode' = AddLink(inode, op.id, Removed)
    <3>1. /\ Removed \in Names /\ op.before[Removed] = op.id
          /\ files = [op.before EXCEPT ![Removed] = NoFile]
        BY <1>1, <1>2, <2>7 DEF OpInv
    <3> DEFINE R == Removed
               i == op.id
               new == AddLink(inode, i, R)
    <3>2. /\ new \in [Ids -> Inodes] /\ new[i].links = Append(inode[i].links, R)
          /\ \A j \in Ids : j # i => new[j] = inode[j]
        BY <1>1, <2>1, <3>1, AddLinkType
    <3> HIDE DEF new
    <3>3. \A x \in Names : files'[x] = IF x = R THEN i ELSE files[x]
        BY <1>1, <2>7 DEF FileMaps
    <3>4. files[R] = NoFile /\ \A x \in Names : x # R => files[x] = op.before[x]
        BY <1>1, <3>1 DEF FileMaps
    <3>5. files' = op.before
      <4>1. \A x \in Names : files'[x] = op.before[x]
          BY <3>1, <3>3, <3>4
      <4>2. files' = [x \in Names |-> files'[x]] /\ op.before = [x \in Names |-> op.before[x]]
          BY <1>1, <2>7 DEF FileMaps
      <4> QED BY <4>1, <4>2
    <3>6. Links(inode') \in LinkMaps /\ \A j \in Ids : Links(inode')[j] = new[j].links
        BY <2>6, <2>7, <3>2 DEF new
    <3>7. /\ Links(inode')[i] = Append(Links(inode)[i], R)
          /\ \A j \in Ids : j # i => Links(inode')[j] = Links(inode)[j]
      <4>1. i \in Ids /\ \A j \in Ids : Links(inode)[j] = inode[j].links
          BY <1>1, <2>1
      <4> HIDE DEF R, i
      <4> QED BY <3>2, <3>6, <4>1
    <3>8. Agree(files, Links(inode))
      <4>1. ~(op.kind = "create" /\ op.phase = 2)
          BY <2>7 DEF Removing
      <4> QED BY <4>1, CoreSettled DEF Settled
    <3> HIDE DEF R, i
    <3>9. Agree(files', Links(inode'))
      <4>1. R \in Names /\ i \in Ids
          BY <2>1, <3>1 DEF R, i
      <4> QED BY <1>1, <3>3, <3>4, <3>6, <3>7, <3>8, <4>1, AgreeAdd
    <3>10. \A n \in Names : files'[n] \in {files[n], i, NoFile}
        BY <3>3
    <3> QED BY <1>4, <2>2, <2>5, <3>5, <3>9, <3>10 DEF i
  <2>8. CASE /\ op.kind = "rename" /\ op.phase = 2
             /\ files' = [files EXCEPT ![op.to] = NoFile, ![op.name] = op.id]
             /\ inode' = RenameLink(inode, op.id, op.to, op.name)
    <3> DEFINE n == op.to
               m == op.name
               i == op.id
               new == RenameLink(inode, i, n, m)
    <3>1. /\ n \in Names /\ m \in Names /\ n # m /\ op.before[m] = i /\ op.before[n] = NoFile
          /\ files = [op.before EXCEPT ![m] = NoFile, ![n] = i]
        BY <1>2, <2>8 DEF OpInv, OpTypes
    <3>2. /\ new \in [Ids -> Inodes]
          /\ new[i].links = Append(RemoveFirst(inode[i].links, n), m)
          /\ \A j \in Ids : j # i => new[j] = inode[j]
        BY <1>1, <2>1, <3>1, RenameLinkType
    <3> HIDE DEF new
    <3>3. \A x \in Names : files'[x] = IF x = m THEN i ELSE IF x = n THEN NoFile ELSE files[x]
        BY <1>1, <2>8 DEF FileMaps
    <3>4. /\ files[n] = i /\ files[m] = NoFile
          /\ \A x \in Names : x # n /\ x # m => files[x] = op.before[x]
        BY <1>1, <3>1 DEF FileMaps
    <3>5. files' = op.before
      <4>1. \A x \in Names : files'[x] = op.before[x]
          BY <3>1, <3>3, <3>4
      <4>2. files' = [x \in Names |-> files'[x]] /\ op.before = [x \in Names |-> op.before[x]]
          BY <1>1, <2>8 DEF FileMaps
      <4> QED BY <4>1, <4>2
    <3>6. Links(inode') \in LinkMaps /\ \A j \in Ids : Links(inode')[j] = new[j].links
        BY <2>6, <2>8, <3>2 DEF new
    <3>7. /\ Links(inode')[i] = Append(RemoveFirst(Links(inode)[i], n), m)
          /\ \A j \in Ids : j # i => Links(inode')[j] = Links(inode)[j]
        BY <1>1, <2>1, <3>2, <3>6
    <3>8. Agree(files, Links(inode))
        BY <2>8, CoreSettled DEF Settled
    <3>9. n \in Names /\ m \in Names /\ n # m /\ i \in Ids
        BY <2>1, <3>1
    <3> HIDE DEF n, m, i
    <3>10. Agree(files', Links(inode'))
        BY <1>1, <3>3, <3>4, <3>6, <3>7, <3>8, <3>9, AgreeRename
    <3>11. \A x \in Names : files'[x] \in {files[x], i, NoFile}
        BY <3>3
    <3> QED BY <1>4, <2>2, <2>5, <3>5, <3>10, <3>11 DEF i
  <2>9. CASE /\ op.kind = "link" /\ op.phase = 2
             /\ files' = [files EXCEPT ![op.to] = NoFile]
             /\ inode' = DropLink(inode, op.id, op.to)
    <3> DEFINE n == op.to
               i == op.id
               new == DropLink(inode, i, n)
    <3>1. /\ n \in Names /\ op.before[n] = NoFile
          /\ files = [op.before EXCEPT ![n] = i]
        BY <1>2, <2>9 DEF OpInv, OpTypes
    <3>2. /\ new \in [Ids -> Inodes] /\ new[i].links = RemoveFirst(inode[i].links, n)
          /\ \A j \in Ids : j # i => new[j] = inode[j]
        BY <1>1, <2>1, <3>1, DropLinkType
    <3> HIDE DEF new
    <3>3. \A x \in Names : files'[x] = IF x = n THEN NoFile ELSE files[x]
        BY <1>1, <2>9 DEF FileMaps
    <3>4. files[n] = i /\ \A x \in Names : x # n => files[x] = op.before[x]
        BY <1>1, <3>1 DEF FileMaps
    <3>5. files' = op.before
      <4>1. \A x \in Names : files'[x] = op.before[x]
          BY <3>1, <3>3, <3>4
      <4>2. files' = [x \in Names |-> files'[x]] /\ op.before = [x \in Names |-> op.before[x]]
          BY <1>1, <2>9 DEF FileMaps
      <4> QED BY <4>1, <4>2
    <3>6. Links(inode') \in LinkMaps /\ \A j \in Ids : Links(inode')[j] = new[j].links
        BY <2>6, <2>9, <3>2 DEF new
    <3>7. /\ Links(inode')[i] = RemoveFirst(Links(inode)[i], n)
          /\ \A j \in Ids : j # i => Links(inode')[j] = Links(inode)[j]
        BY <1>1, <2>1, <3>2, <3>6
    <3>8. Agree(files, Links(inode))
        BY <2>9, CoreSettled DEF Settled
    <3>9. n \in Names /\ i \in Ids
        BY <2>1, <3>1
    <3> HIDE DEF n, i
    <3>10. Agree(files', Links(inode'))
        BY <1>1, <3>3, <3>4, <3>6, <3>7, <3>8, <3>9, AgreeDrop
    <3>11. \A x \in Names : files'[x] \in {files[x], i, NoFile}
        BY <3>3
    <3> QED BY <1>4, <2>2, <2>5, <3>5, <3>10, <3>11 DEF i
  <2>10. CASE /\ op.kind = "create" /\ op.phase = 2
              /\ files' = files /\ inode' = [inode EXCEPT ![op.id] = NoInode]
    <3>1. op.before = files
        BY <1>2, <2>10 DEF OpInv
    <3>2. Links(inode') = MemLinks
      <4>1. inode'[op.id].links = <<>> /\ \A j \in Ids : j # op.id => inode'[j] = inode[j]
          BY <1>1, <2>1, <2>10 DEF NoInode
      <4> QED BY <2>10, <4>1 DEF Links, MemLinks, Creating
    <3>3. Agree(files', Links(inode'))
        BY <2>10, <3>2 DEF MemCore
    <3> QED BY <1>4, <2>2, <2>5, <2>10, <3>1, <3>3
  <2>11. CASE /\ op.kind \in {"sync", "migrate"} /\ op.phase = 2
              /\ files' = files /\ inode' = inode
    <3>1. op.before = files
        BY <1>2, <2>11 DEF OpInv, Steady
    <3>2. Agree(files', Links(inode'))
        BY <2>11, CoreSettled DEF Settled
    <3> QED BY <1>4, <2>2, <2>5, <2>11, <3>1, <3>2
  <2> QED BY <1>2, <1>4, <2>7, <2>8, <2>9, <2>10, <2>11, UndoneSteps
<1> QED BY <1>3, <1>4
-----------------------------------------------------------------------------
(* The logs on the device.                                                 *)

\* The records without a file.
MarkTypes == {"super", "end", "invalid"}

(* A mark in some zone. *)
LEMMA MarkStep ==
    ASSUME log \in Devices, NEW z \in MZones, NEW r \in Records, r.type \in MarkTypes,
           log' = Appended(log, z, r)
    PROVE  /\ ShapeInv => ShapeInv'
           /\ SoundLogs => SoundLogs'
           /\ \A c \in MZones : \A fs : Stands(log[c], fs) => Stands(log'[c], fs)
<1>1. /\ log'[z] = Append(log[z], r) /\ log[z] \in Seq(Records)
      /\ \A y \in MZones : y # z => log'[y] = log[y]
    BY LogAppend DEF Devices
<1>2. r.type # "snapshot" /\ r.type \in {"super", "end", "invalid"}
    BY DEF MarkTypes
<1>3. ShapeInv => ShapeInv'
  <2> SUFFICES ASSUME ShapeInv, NEW y \in MZones PROVE Shape(log'[y])
      BY DEF ShapeInv
  <2>1. CASE y = z
      BY <1>1, <1>2, <2>1, ShapeAppend DEF ShapeInv
  <2>2. CASE y # z
      BY <1>1, <2>2 DEF ShapeInv
  <2> QED BY <2>1, <2>2
<1>4. SoundLogs => SoundLogs'
  <2> SUFFICES ASSUME SoundLogs, NEW y \in MZones PROVE Sound(log'[y])
      BY DEF SoundLogs
  <2>1. CASE y = z
      BY <1>1, <1>2, <2>1, MarkEffect DEF SoundLogs
  <2>2. CASE y # z
      BY <1>1, <2>2 DEF SoundLogs
  <2> QED BY <2>1, <2>2
<1>5. ASSUME NEW c \in MZones, NEW fs, Stands(log[c], fs) PROVE Stands(log'[c], fs)
  <2>1. CASE c = z
    <3> DEFINE l == log[z]
               k == log'[z]
    <3>1. /\ HasSnapshot(k) <=> HasSnapshot(l)
          /\ HasSnapshot(l) /\ Replayed(k).status = "OK" =>
                Replayed(l).status = "OK" /\ Replayed(k) = Replayed(l)
        BY <1>1, <1>2, MarkEffect
    <3>2. Stands(l, fs)
        BY <1>5, <2>1
    <3> HIDE DEF l, k
    <3>3. Stands(k, fs)
        BY <3>1, <3>2 DEF Stands
    <3> QED BY <2>1, <3>3 DEF k
  <2>2. CASE c # z
      BY <1>1, <1>5, <2>2
  <2> QED BY <2>1, <2>2
<1> QED BY <1>3, <1>4, <1>5

(* The reset of some zone. *)
LEMMA EraseStep ==
    ASSUME log \in Devices, NEW z \in MZones, log' = Erased(log, z)
    PROVE  /\ ShapeInv => ShapeInv'
           /\ SoundLogs => SoundLogs'
           /\ log'[z] = <<>> /\ \A fs : Stands(log'[z], fs)
           /\ \A y \in MZones : y # z => log'[y] = log[y]
<1>1. log'[z] = <<>> /\ \A y \in MZones : y # z => log'[y] = log[y]
    BY LogReset
<1>2. ShapeInv => ShapeInv'
    BY <1>1, EmptyLog DEF ShapeInv
<1>3. SoundLogs => SoundLogs'
    BY <1>1, EmptyLog DEF SoundLogs
<1>4. \A fs : Stands(log'[z], fs)
    BY <1>1, EmptyLog DEF Stands
<1> QED BY <1>1, <1>2, <1>3, <1>4

(* The record of an operation at the end of the current log. *)
LEMMA PersistLog ==
    ASSUME Types, MemCore, pc = "persist", NEW l \in Seq(Records), Sound(l),
           Stands(l, op.before)
    PROVE  Sound(Append(l, rec)) /\ Stands(Append(l, rec), After)
<1> DEFINE k == Append(l, rec)
           st == Replayed(l)
           d == Decode(st, rec)
<1>1. rec \in Records /\ rec.type # "snapshot"
  <2>1. rec \in Updates \cup Deletions
      BY DEF Types, RecTypes
  <2>2. rec.type # "snapshot"
      BY <2>1 DEF Updates, Deletions
  <2> QED BY <2>1, <2>2 DEF Records
<1>2. CASE ~HasSnapshot(l)
  <2>1. ~HasSnapshot(k)
      BY <1>1, <1>2, SnapshotLacks
  <2> QED BY <2>1 DEF Sound, Stands
<1>3. CASE HasSnapshot(l)
  <2>1. HasSnapshot(k) /\ Replayed(k) = d /\ st \in States
      BY <1>1, <1>3, SnapshotStays
  <2>2. CASE st.status # "OK"
    <3>1. d = st
        BY <2>2 DEF Decode
    <3> QED BY <2>1, <2>2, <3>1 DEF Sound, Stands
  <2>3. CASE st.status = "OK"
    <3>1. /\ Agree(st.files, Links(st.inode)) /\ st.files = op.before
          /\ \A n \in Names : st.files[n] \in LogIds(l) \cup {NoFile}
        BY <1>3, <2>3 DEF Sound, Stands
    <3> HIDE DEF st
    <3>2. /\ d.status = "OK" /\ d.files = After /\ Agree(After, Links(d.inode))
          /\ \A n \in Names : After[n] \in {st.files[n], NoFile} \cup IdsOf(rec)
        BY <2>1, <2>3, <3>1, RecEffect
    <3>3. LogIds(k) = LogIds(l) \cup IdsOf(rec)
        BY <1>1, AppendLog
    <3>4. \A n \in Names : After[n] \in LogIds(k) \cup {NoFile}
        BY <3>1, <3>2, <3>3
    <3> HIDE DEF k, d
    <3>5. Sound(k) /\ Stands(k, After)
        BY <2>1, <3>2, <3>4 DEF Sound, Stands
    <3> QED BY <3>5 DEF k
  <2> QED BY <2>2, <2>3
<1> QED BY <1>2, <1>3

(* A snapshot behind the superblock of the current log. *)
LEMMA SnapshotLog ==
    ASSUME Types, MemCore, pc = "write", NEW l \in Seq(Records), Len(l) = 1
    PROVE  /\ HasSnapshot(Append(l, rec)) /\ Replayed(Append(l, rec)).status = "OK"
           /\ Replayed(Append(l, rec)).files = files
           /\ Sound(Append(l, rec)) /\ Stands(Append(l, rec), files)
           /\ \A id \in Named(files) : \E f \in rec.files :
                f.id = id /\ Replayed(Append(l, rec)).inode[id].ext = f.ext
<1> DEFINE k == Append(l, rec)
           st == Begun(Empty)
           d == Decode(st, rec)
<1>1. rec \in Snapshots /\ rec \in Records
    BY DEF Types, RecTypes, Records
<1>2. HasSnapshot(k) /\ Replayed(k) = d /\ st \in States /\ st.status = "OK"
    BY <1>1, SnapshotFirst
<1>3. Settled
  <2>1. ~(op.kind = "create" /\ op.phase = 2)
      BY DEF MemCore, Rolling
  <2> QED BY <2>1, CoreSettled
<1>4. SnapshotOf(files, Links(inode), rec.files) /\ Agree(files, Links(inode))
    BY <1>3 DEF MemCore, RecLinks, Settled
<1>5. files \in FileMaps /\ Links(inode) \in LinkMaps
    BY OpParts
<1> HIDE DEF st
<1>6. /\ d.status = "OK" /\ d.files = files /\ Agree(d.files, Links(d.inode))
      /\ \A n \in Names : files[n] \in IdsOf(rec) \cup {NoFile}
      /\ \A id \in Named(files) : \E f \in rec.files : f.id = id /\ d.inode[id].ext = f.ext
    BY <1>1, <1>2, <1>4, <1>5, SnapshotEffect
<1>7. LogIds(k) = LogIds(l) \cup IdsOf(rec)
    BY <1>1, AppendLog
<1> HIDE DEF k, d
<1>8. Sound(k) /\ Stands(k, files)
    BY <1>2, <1>6, <1>7 DEF Sound, Stands
<1> QED BY <1>2, <1>6, <1>8 DEF k

(* What each action may do to the logs. *)
LEMMA LogSteps ==
    ASSUME Types, Next
    PROVE  \/ log' = log
           \/ \E z \in MZones : log' = Erased(log, z)
           \/ \E z \in MZones, r \in Records : r.type \in MarkTypes /\ log' = Appended(log, z, r)
           \/ pc = "persist" /\ PersistRecord /\ log' = Appended(log, cur, rec)
           \/ pc = "write" /\ WriteSnapshotLocked /\ log' = Appended(log, cur, rec)
<1>1. Invalid \in Records /\ Invalid.type \in MarkTypes
    BY DEF Records, Marked, Invalid, MarkTypes
<1>2. [type |-> "end"] \in Records /\ [type |-> "end"].type \in MarkTypes
    BY DEF Records, Marked, MarkTypes
<1>3. ASSUME NEW z \in MZones, Write(z, Invalid)
      PROVE  \E y \in MZones, r \in Records : r.type \in MarkTypes /\ log' = Appended(log, y, r)
    BY <1>1, <1>3, WriteIs
<1>4. Untouched => log' = log
    BY DEF Untouched
<1>5. ASSUME NEW n \in Names, OpenWritableFile(n) \/ SyncFileMetadata(n) \/ DeleteFile(n)
      PROVE  log' = log
    BY <1>5 DEF OpenWritableFile, SyncFileMetadata, DeleteFile, Start, diskVars
<1>6. ASSUME NEW n \in Names, NEW m \in Names, RenameFile(n, m) \/ LinkFile(n, m)
      PROVE  log' = log
    BY <1>6 DEF RenameFile, LinkFile, Start, diskVars
<1>7. ASSUME NEW id \in Ids, PushExtent(id) \/ ReplaceExtentList(id) PROVE log' = log
    BY <1>7 DEF PushExtent, ReplaceExtentList, diskVars
<1>8. CASE SyncFileExtents \/ NoSpace \/ EncodeSnapshotTo \/ Mount
    BY <1>8 DEF SyncFileExtents, NoSpace, EncodeSnapshotTo, Mount, diskVars
<1>9. pc # "down" => cur \in MZones
    BY DEF Types, StepInv
<1>10. pc \in {"end", "finish", "super", "snap", "write", "reset"} => old \in MZones
    BY DEF Types, StepInv
<1>11. CASE PersistRecord
  <2>1. pc = "persist" /\ cur \in MZones
      BY <1>9, <1>11 DEF PersistRecord
  <2>2. Write(cur, rec) \/ WriteFails(cur)
      BY <1>11 DEF PersistRecord
  <2>3. CASE Write(cur, rec)
      BY <1>11, <2>1, <2>3, WriteIs
  <2>4. CASE WriteFails(cur)
      BY <1>3, <1>4, <2>1, <2>4 DEF WriteFails
  <2> QED BY <2>2, <2>3, <2>4
<1>12. CASE AllocateMetaZone
    BY <1>12 DEF AllocateMetaZone, Contents, Erased
<1>13. CASE WriteEndRecord
  <2>1. old \in MZones
      BY <1>10, <1>13 DEF WriteEndRecord
  <2>2. Write(old, [type |-> "end"]) \/ Untouched
      BY <1>13 DEF WriteEndRecord
  <2>3. CASE Write(old, [type |-> "end"])
    <3>1. log' = Appended(log, old, [type |-> "end"])
        BY <2>3, WriteIs
    <3> QED BY <1>2, <2>1, <3>1
  <2> QED BY <1>4, <2>2, <2>3
<1>14. CASE FinishOldZone
  <2>1. old \in MZones
      BY <1>10, <1>14 DEF FinishOldZone
  <2>2. Write(old, Invalid) \/ Untouched
      BY <1>14 DEF FinishOldZone
  <2> QED BY <1>3, <1>4, <2>1, <2>2
<1>15. CASE WriteSuperblock
  <2>1. cur \in MZones /\ seq' \in Nat
      BY <1>9, <1>15 DEF WriteSuperblock, Types, DiskTypes
  <2>2. Write(cur, [type |-> "super", seq |-> seq']) \/ Untouched
      BY <1>15 DEF WriteSuperblock
  <2>3. [type |-> "super", seq |-> seq'] \in Records
      BY <2>1 DEF Records, Supers
  <2>4. CASE Write(cur, [type |-> "super", seq |-> seq'])
    <3> DEFINE r == [type |-> "super", seq |-> seq']
    <3>1. r \in Records /\ r.type \in MarkTypes
        BY <2>3 DEF MarkTypes
    <3>2. log' = Appended(log, cur, r)
        BY <2>4, WriteIs
    <3> HIDE DEF r
    <3> QED BY <2>1, <3>1, <3>2
  <2> QED BY <1>4, <2>2, <2>4
<1>16. CASE WriteSnapshotLocked
  <2>1. pc = "write" /\ cur \in MZones
      BY <1>9, <1>16 DEF WriteSnapshotLocked
  <2>2. Write(cur, rec) \/ Untouched \/ Write(cur, Invalid)
      BY <1>16 DEF WriteSnapshotLocked
  <2>3. CASE Write(cur, rec)
      BY <1>16, <2>1, <2>3, WriteIs
  <2> QED BY <1>3, <1>4, <2>1, <2>2, <2>3
<1>17. CASE ResetOldZone
  <2>1. old \in MZones
      BY <1>10, <1>17 DEF ResetOldZone
  <2> QED BY <1>4, <1>17, <2>1 DEF ResetOldZone, Contents, Erased
<1>18. CASE Crash
  <2>1. cur \in MZones
      BY <1>9, <1>18 DEF Crash
  <2> QED BY <1>3, <1>4, <1>18, <2>1 DEF Crash
<1> QED BY <1>5, <1>6, <1>7, <1>8, <1>11, <1>12, <1>13, <1>14, <1>15, <1>16, <1>17, <1>18 DEF Next

(* A snapshot is only ever written behind a superblock. *)
LEMMA ShapeStep ==
    ASSUME Types, ShapeInv, Next
    PROVE  ShapeInv'
<1>1. log \in Devices
    BY DEF Types, DiskTypes
<1>2. ASSUME NEW r \in Records, log' = Appended(log, cur, rec), rec \in Records, cur \in MZones,
             rec.type = "snapshot" => Len(log[cur]) = 1 /\ log[cur][1].type = "super"
      PROVE  ShapeInv'
  <2>1. /\ log'[cur] = Append(log[cur], rec) /\ log[cur] \in Seq(Records)
        /\ \A y \in MZones : y # cur => log'[y] = log[y]
      BY <1>1, <1>2, LogAppend DEF Devices
  <2>2. Shape(log'[cur])
      BY <1>2, <2>1, ShapeAppend DEF ShapeInv
  <2> QED BY <2>1, <2>2 DEF ShapeInv
<1>3. CASE log' = log
    BY <1>3 DEF ShapeInv
<1>4. CASE \E z \in MZones : log' = Erased(log, z)
    BY <1>1, <1>4, EraseStep
<1>5. CASE \E z \in MZones, r \in Records : r.type \in MarkTypes /\ log' = Appended(log, z, r)
    BY <1>1, <1>5, MarkStep
<1>6. CASE pc = "persist" /\ PersistRecord /\ log' = Appended(log, cur, rec)
  <2>1. rec \in Updates \cup Deletions /\ cur \in MZones
      BY <1>6 DEF Types, RecTypes, StepInv
  <2>2. rec \in Records /\ rec.type # "snapshot"
      BY <2>1 DEF Records, Updates, Deletions
  <2> QED BY <1>2, <1>6, <2>1, <2>2
<1>7. CASE pc = "write" /\ WriteSnapshotLocked /\ log' = Appended(log, cur, rec)
  <2>1. rec \in Snapshots /\ cur \in MZones /\ log[cur] = <<[type |-> "super", seq |-> seq]>>
      BY <1>7 DEF Types, RecTypes, StepInv
  <2>2. rec \in Records
      BY <2>1 DEF Records
  <2>3. Len(log[cur]) = 1 /\ log[cur][1].type = "super"
      BY <2>1
  <2> QED BY <1>2, <1>7, <2>1, <2>2, <2>3
<1> QED BY <1>3, <1>4, <1>5, <1>6, <1>7, LogSteps
-----------------------------------------------------------------------------
(* The names and links agree: the steps.                                   *)

(* Between operations. *)
LEMMA IdleNames ==
    ASSUME Types, NameInv, pc = "idle"
    PROVE  Settled /\ OnDisk = files /\ MemCore /\ CurInv /\ SoundLogs
<1>1. op.kind = "none" /\ MemCore /\ CurInv /\ SoundLogs
    BY DEF Types, StepInv, NameInv
<1>2. Settled
    BY <1>1, CoreSettled
<1>3. op.before = files
    BY <1>1 DEF MemCore, OpInv, Steady
<1> QED BY <1>1, <1>2, <1>3 DEF OnDisk

(* The device and what it stands for stay. *)
LEMMA SameDisk ==
    ASSUME NameInv, pc # "down", UNCHANGED <<log, cur>>, MemCore', OnDisk' = OnDisk
    PROVE  NameInv'
BY DEF NameInv, CurInv, SoundLogs

(* An operation starts. *)
LEMMA StartNames ==
    ASSUME Types, NameInv, NEW k, Start(k), MemCore', op'.before = files
    PROVE  NameInv'
<1>1. pc = "idle" /\ pc' = "persist" /\ UNCHANGED <<log, cur>>
    BY DEF Start, diskVars
<1>2. OnDisk' = files /\ OnDisk = files
    BY <1>1, IdleNames DEF OnDisk
<1> QED BY <1>1, <1>2, SameDisk

(* OpenWritableFile preserves the name invariant. *)
LEMMA OpenNames ==
    ASSUME Types, NameInv, NEW n \in Names, OpenWritableFile(n)
    PROVE  NameInv'
<1>1. Start("create") /\ pc = "idle" /\ pc' = "persist" /\ mig' = mig
    BY DEF OpenWritableFile, Start
<1>2. Settled
    BY <1>1, IdleNames
<1>3. CASE files[n] = NoFile
  <2>1. MainCreate(n, files, inode)
      BY <1>3 DEF OpenWritableFile
  <2> QED BY <1>1, <1>2, <1>3, <2>1, MainCreateCore, StartNames
<1>4. CASE files[n] # NoFile
  <2>1. StartDeletion(n, Operation("create", n, n, NoFile, 1)) /\ next_id' = next_id
      BY <1>4 DEF OpenWritableFile
  <2> QED BY <1>1, <1>2, <1>4, <2>1, StartDeletionCore, StartNames
<1> QED BY <1>3, <1>4

(* DeleteFile preserves the name invariant. *)
LEMMA DeleteNames ==
    ASSUME Types, NameInv, NEW n \in Names, DeleteFile(n)
    PROVE  NameInv'
<1>1. /\ Start("delete") /\ pc = "idle" /\ pc' = "persist" /\ mig' = mig /\ next_id' = next_id
      /\ files[n] # NoFile /\ StartDeletion(n, Operation("delete", n, n, NoFile, 2))
    BY DEF DeleteFile, Start
<1>2. Settled
    BY <1>1, IdleNames
<1> QED BY <1>1, <1>2, StartDeletionCore, StartNames

(* RenameFile preserves the name invariant. *)
LEMMA RenameNames ==
    ASSUME Types, NameInv, NEW n \in Names, NEW m \in Names, RenameFile(n, m)
    PROVE  NameInv'
<1>1. /\ Start("rename") /\ pc = "idle" /\ pc' = "persist" /\ mig' = mig
      /\ files[n] # NoFile
    BY DEF RenameFile, Start
<1>2. Settled
    BY <1>1, IdleNames
<1>3. CASE files[m] = NoFile
  <2>1. MainRename(n, m, files, inode)
      BY <1>3 DEF RenameFile
  <2> QED BY <1>1, <1>2, <1>3, <2>1, MainRenameCore, StartNames
<1>4. CASE files[m] # NoFile /\ n # m
  <2>1. StartDeletion(m, Operation("rename", n, m, NoFile, 1)) /\ next_id' = next_id
      BY <1>4 DEF RenameFile
  <2> QED BY <1>1, <1>2, <1>4, <2>1, StartDeletionCore, StartNames
<1>5. CASE files[m] # NoFile /\ n = m
  <2>1. StartDeletion(m, Operation("delete", n, m, NoFile, 2)) /\ next_id' = next_id
      BY <1>5 DEF RenameFile
  <2> QED BY <1>1, <1>2, <1>5, <2>1, StartDeletionCore, StartNames
<1> QED BY <1>3, <1>4, <1>5

(* LinkFile preserves the name invariant. *)
LEMMA LinkNames ==
    ASSUME Types, NameInv, NEW n \in Names, NEW m \in Names, LinkFile(n, m)
    PROVE  NameInv'
<1>1. Start("link") /\ pc = "idle"
    BY DEF LinkFile, Start
<1> QED BY <1>1, IdleNames, LinkCore, StartNames

(* SyncFileMetadata preserves the name invariant. *)
LEMMA SyncNames ==
    ASSUME Types, NameInv, NEW n \in Names, SyncFileMetadata(n)
    PROVE  NameInv'
<1>1. /\ Start("sync") /\ pc = "idle" /\ pc' = "persist" /\ files[n] # NoFile
      /\ UNCHANGED <<files, inode, next_id, mig>>
      /\ op' = Operation("sync", n, n, files[n], 2) /\ rec' = FileUpdate(files[n])
    BY DEF SyncFileMetadata, Start, memVars
<1>2. files[n] \in Ids
    BY <1>1, OpParts DEF FileMaps, NoIds
<1>3. Settled
    BY <1>1, IdleNames
<1>4. MemCore' /\ op'.before = files
  <2> DEFINE k == "sync"
             id == files[n]
  <2>1. /\ k \in {"sync", "migrate"} /\ id \in Ids /\ op' = Operation(k, n, n, id, 2)
        /\ rec' = (IF k = "sync" THEN FileUpdate(id) ELSE FileReplace(id))
        /\ \E x \in Names : files[x] = id
      BY <1>1, <1>2
  <2> HIDE DEF k, id
  <2> QED BY <1>1, <1>3, <2>1, SyncCore
<1> QED BY <1>1, <1>4, StartNames

(* The extents of a file change. *)
LEMMA ExtentNames ==
    ASSUME Types, NameInv, NEW id \in Ids, PushExtent(id) \/ ReplaceExtentList(id)
    PROVE  NameInv'
<1>1. /\ UNCHANGED <<log, cur, files, next_id, pc, op, rec>> /\ pc # "down"
      /\ \E n \in Names : files[n] = id
    BY DEF PushExtent, ReplaceExtentList, diskVars
<1>2. inode \in [Ids -> Inodes]
    BY OpParts
<1>3. \A j \in Ids : inode'[j].links = inode[j].links
  <2>1. CASE PushExtent(id)
    <3>1. inode' = [inode EXCEPT ![id].ext = Append(@, "d")]
        BY <2>1 DEF PushExtent
    <3>2. ASSUME NEW x \in Inodes PROVE [x EXCEPT !.ext = Append(@, "d")].links = x.links
        BY DEF Inodes
    <3>3. inode'[id].links = inode[id].links
        BY <1>2, <3>1, <3>2
    <3>4. \A j \in Ids : j # id => inode'[j] = inode[j]
        BY <1>2, <3>1
    <3> QED BY <3>3, <3>4
  <2>2. CASE ReplaceExtentList(id)
    <3>1. inode' = [inode EXCEPT ![id] =
             [links |-> @.links, ext |-> [i \in DOMAIN @.ext |-> "m"], synced |-> 0]]
        BY <2>2 DEF ReplaceExtentList
    <3>2. inode'[id].links = inode[id].links /\ \A j \in Ids : j # id => inode'[j] = inode[j]
        BY <1>2, <3>1
    <3> QED BY <3>2
  <2> QED BY <2>1, <2>2
<1>4. MemCore
    BY <1>1 DEF NameInv
<1>5. mig'.id < next_id
  <2>1. mig' = mig \/ mig'.id = id
      BY DEF PushExtent, ReplaceExtentList
  <2> QED BY <1>1, <1>4, <2>1 DEF MemCore
<1>6. RecLinks'
  <2>1. Links(inode') = Links(inode)
      BY <1>3 DEF Links
  <2>2. RecLinks
      BY <1>4 DEF MemCore
  <2>3. pc = "persist" => op.id \in Ids
      BY OpParts DEF Types, StepInv
  <2> QED BY <1>1, <1>3, <2>1, <2>2, <2>3 DEF RecLinks, Removing, Removed
<1>7. MemCore'
  <2>1. op.kind = "create" /\ op.phase = 2 => op.id \in Ids
      BY OpParts
  <2>2. pc' \in Rolling => ~(op.kind = "create" /\ op.phase = 2)
      BY <1>1, <1>4 DEF MemCore
  <2> QED BY <1>1, <1>3, <1>4, <1>5, <1>6, <2>1, <2>2, SameCore
<1>8. OnDisk' = OnDisk
    BY <1>1 DEF OnDisk
<1> QED BY <1>1, <1>7, <1>8, SameDisk

(* SyncFileExtents preserves the name invariant. *)
LEMMA MigrateNames ==
    ASSUME Types, NameInv, SyncFileExtents
    PROVE  NameInv'
<1>1. /\ pc = "idle" /\ mig # NoMig /\ UNCHANGED <<log, cur, files, inode, next_id>>
    BY DEF SyncFileExtents, diskVars, memVars
<1>2. Settled /\ OnDisk = files /\ MemCore
    BY <1>1, IdleNames
<1>3. mig.id \in Ids
    BY <1>1 DEF Types, MemTypes, NoIds
<1>4. CASE inode[mig.id].links = <<>>
  <2>1. mig' = NoMig /\ UNCHANGED <<pc, op, rec>>
      BY <1>4 DEF SyncFileExtents
  <2>2. NoMig.id < next_id
    <3>1. mig.id \in Nat /\ mig.id < next_id /\ next_id \in Nat
        BY <1>2, OpParts DEF Settled
    <3> QED BY <3>1 DEF NoMig, NoFile
  <2>3. RecLinks' /\ OnDisk' = OnDisk
      BY <1>1, <2>1 DEF RecLinks, OnDisk
  <2>4. MemCore'
    <3>1. op.kind = "none" /\ pc' \notin Rolling
        BY <1>1, <2>1 DEF Types, StepInv, Rolling
    <3>2. mig'.id < next_id
        BY <2>1, <2>2
    <3> QED BY <1>1, <1>2, <2>1, <2>3, <3>1, <3>2, SameCore
  <2> QED BY <1>1, <2>3, <2>4, SameDisk
<1>5. CASE inode[mig.id].links # <<>>
  <2>1. /\ pc' = "persist" /\ mig' = mig /\ op' = Operation("migrate", "-", "-", mig.id, 2)
        /\ rec' = FileReplace(mig.id)
      BY <1>5 DEF SyncFileExtents
  <2>2. \E n \in Names : files[n] = mig.id
    <3> DEFINE ls == inode[mig.id].links
    <3>1. ls \in Seq(Names) /\ ls # <<>>
        BY <1>3, <1>5, OpParts
    <3>2. Range(ls) = {n \in Names : files[n] = mig.id}
        BY <1>2, <1>3 DEF Settled, Agree, Links
    <3> HIDE DEF ls
    <3>3. ls[1] \in Range(ls)
        BY <3>1, RangeSeq
    <3> QED BY <3>2, <3>3
  <2>3. MemCore' /\ op'.before = files
    <3> DEFINE k == "migrate"
               id == mig.id
    <3>1. /\ k \in {"sync", "migrate"} /\ id \in Ids /\ op' = Operation(k, "-", "-", id, 2)
          /\ rec' = (IF k = "sync" THEN FileUpdate(id) ELSE FileReplace(id))
          /\ \E x \in Names : files[x] = id
        BY <1>3, <2>1, <2>2
    <3> HIDE DEF k, id
    <3> QED BY <1>1, <1>2, <2>1, <3>1, SyncCore
  <2>4. OnDisk' = OnDisk
      BY <1>2, <2>1, <2>3 DEF OnDisk
  <2> QED BY <1>1, <2>3, <2>4, SameDisk
<1> QED BY <1>4, <1>5

(* The step of an operation under way. *)
LEMMA BusyNames ==
    ASSUME Types, NameInv, pc \notin {"down", "idle"}
    PROVE  /\ MemCore /\ CurInv /\ SoundLogs /\ op.kind # "none" /\ cur \in MZones
           /\ log \in Devices /\ log[cur] \in Seq(Records)
           /\ Invalid \in Records /\ Invalid.type \in MarkTypes
           /\ pc # "reset" => CurInv = Stands(log[cur], op.before)
<1>1. Invalid \in Records /\ Invalid.type \in MarkTypes
    BY DEF Records, Marked, Invalid, MarkTypes
<1>2. cur \in MZones /\ log \in Devices /\ op.kind # "none"
    BY DEF Types, StepInv, DiskTypes
<1>3. log[cur] \in Seq(Records)
    BY <1>2 DEF Devices
<1>4. pc # "reset" => OnDisk = op.before
    BY DEF OnDisk
<1> QED BY <1>1, <1>2, <1>3, <1>4 DEF NameInv, CurInv

(* An operation takes itself back. *)
LEMMA UndoneNames ==
    ASSUME Types, NameInv, pc \notin {"down", "idle", "reset"}, Undone, cur' = cur,
           \/ log' = log
           \/ log' = Appended(log, cur, Invalid)
    PROVE  NameInv'
<1>1. /\ MemCore /\ SoundLogs /\ op.kind # "none" /\ cur \in MZones /\ log \in Devices
      /\ Invalid \in Records /\ Invalid.type \in MarkTypes /\ Stands(log[cur], op.before)
    BY BusyNames
<1>2. SoundLogs' /\ Stands(log'[cur], op.before)
    BY <1>1, MarkStep DEF SoundLogs
<1>3. CASE pc' = "down"
    BY <1>2, <1>3 DEF NameInv
<1>4. CASE pc' = "idle" /\ MemCore' /\ op'.before = op.before
  <2>1. OnDisk' = op.before
      BY <1>4 DEF OnDisk
  <2> QED BY <1>2, <1>4, <2>1 DEF NameInv, CurInv
<1> QED BY <1>1, <1>3, <1>4, UndoneCore

(* PersistRecord preserves the name invariant. *)
LEMMA PersistNames ==
    ASSUME Types, NameInv, PersistRecord
    PROVE  NameInv'
<1>1. pc = "persist" /\ cur' = cur
    BY DEF PersistRecord
<1>2. /\ MemCore /\ SoundLogs /\ op.kind # "none" /\ cur \in MZones /\ log \in Devices
      /\ log[cur] \in Seq(Records) /\ Stands(log[cur], op.before)
    BY <1>1, BusyNames
<1>3. CASE Write(cur, rec) /\ Persisted(inode)
  <2>1. log' = Appended(log, cur, rec)
      BY <1>3, WriteIs
  <2>2. rec \in Records
    <3>1. rec \in Updates \cup Deletions
        BY <1>1 DEF Types, RecTypes
    <3> QED BY <3>1 DEF Records
  <2>3. log'[cur] = Append(log[cur], rec) /\ \A y \in MZones : y # cur => log'[y] = log[y]
      BY <1>2, <2>1, <2>2, LogAppend
  <2>4. Sound(log'[cur]) /\ Stands(log'[cur], After)
    <3>1. Sound(log[cur])
        BY <1>2 DEF SoundLogs
    <3> QED BY <1>1, <1>2, <2>3, <3>1, PersistLog
  <2>5. SoundLogs'
      BY <1>2, <2>3, <2>4 DEF SoundLogs
  <2>6. MemCore' /\ op'.before = After /\ pc' \in {"idle", "persist"}
      BY <1>2, <1>3, PersistedCore
  <2>7. CurInv'
      BY <1>1, <2>4, <2>6 DEF CurInv, OnDisk
  <2> QED BY <2>5, <2>6, <2>7 DEF NameInv
<1>4. CASE WriteFails(cur) /\ Undone
  <2>1. log' = log \/ log' = Appended(log, cur, Invalid)
      BY <1>4, WriteIs DEF WriteFails, Untouched
  <2> QED BY <1>1, <1>4, <2>1, UndoneNames
<1> QED BY <1>3, <1>4 DEF PersistRecord

(* NoSpace preserves the name invariant. *)
LEMMA NoSpaceNames ==
    ASSUME Types, NameInv, NoSpace, "create" \notin spoilt'
    PROVE  NameInv'
<1>1. /\ pc = "persist" /\ pc' = "alloc" /\ UNCHANGED <<log, cur, files, inode, next_id, op, mig>>
    BY DEF NoSpace, diskVars, memVars
<1>2. ~(op.kind = "create" /\ op.phase = 2)
    BY DEF NoSpace, Mark
<1>3. MemCore /\ mig'.id < next_id
    BY <1>1 DEF NameInv, MemCore
<1>4. RecLinks' /\ OnDisk' = OnDisk
    BY <1>1 DEF RecLinks, OnDisk
<1>5. MemCore'
    BY <1>1, <1>2, <1>3, <1>4, SameCore
<1> QED BY <1>1, <1>4, <1>5, SameDisk

(* A step of the roll that leaves memory alone. *)
LEMMA RollCore ==
    ASSUME MemCore, pc \in Rolling, pc' \in Rolling \ {"write"},
           UNCHANGED <<files, inode, next_id, op, mig>>
    PROVE  MemCore'
<1>1. ~(op.kind = "create" /\ op.phase = 2) /\ mig'.id < next_id
    BY DEF MemCore
<1>2. RecLinks'
    BY DEF RecLinks, Rolling
<1> QED BY <1>1, <1>2, SameCore

(* AllocateMetaZone preserves the name invariant. *)
LEMMA AllocNames ==
    ASSUME Types, NameInv, AllocateMetaZone
    PROVE  NameInv'
<1>1. pc = "alloc"
    BY DEF AllocateMetaZone
<1>2. MemCore /\ SoundLogs /\ log \in Devices
    BY <1>1, BusyNames
<1>3. CASE \E z \in MZones :
             /\ Contents([log EXCEPT ![z] = <<>>]) /\ cur' = z /\ pc' = "end"
             /\ UNCHANGED <<memVars, op, rec, mig>>
  <2>1. PICK z \in MZones :
             /\ Contents([log EXCEPT ![z] = <<>>]) /\ cur' = z /\ pc' = "end"
             /\ UNCHANGED <<memVars, op, rec, mig>>
      BY <1>3
  <2>2. log' = Erased(log, z)
      BY <2>1 DEF Contents, Erased
  <2>3. SoundLogs' /\ \A fs : Stands(log'[z], fs)
      BY <1>2, <2>2, EraseStep
  <2>4. MemCore'
      BY <1>1, <1>2, <2>1, RollCore DEF memVars, Rolling
  <2> QED BY <2>1, <2>3, <2>4 DEF NameInv, CurInv
<1>4. CASE Undone /\ UNCHANGED <<log, cur>>
    BY <1>1, <1>4, UndoneNames
<1> QED BY <1>3, <1>4 DEF AllocateMetaZone

(* WriteEndRecord preserves the name invariant. *)
LEMMA EndNames ==
    ASSUME Types, NameInv, WriteEndRecord \/ FinishOldZone
    PROVE  NameInv'
<1>1. /\ pc \in {"end", "finish"} /\ pc' \in {"finish", "super"}
      /\ UNCHANGED <<cur, files, inode, next_id, op, mig>>
    BY DEF WriteEndRecord, FinishOldZone, memVars
<1>2. MemCore /\ CurInv /\ SoundLogs /\ cur \in MZones /\ log \in Devices
      /\ Invalid \in Records /\ Invalid.type \in MarkTypes
    BY <1>1, BusyNames
<1>3. old \in MZones
    BY <1>1 DEF Types, StepInv
<1>4. [type |-> "end"] \in Records /\ [type |-> "end"].type \in MarkTypes
    BY DEF Records, Marked, MarkTypes
<1>5. \/ log' = log \/ log' = Appended(log, old, [type |-> "end"])
      \/ log' = Appended(log, old, Invalid)
    BY WriteIs DEF WriteEndRecord, FinishOldZone, Untouched
<1>6. SoundLogs' /\ \A fs : Stands(log[cur], fs) => Stands(log'[cur], fs)
  <2>1. CASE log' = log
      BY <1>2, <2>1 DEF SoundLogs
  <2>2. CASE log' = Appended(log, old, Invalid)
      BY <1>2, <1>3, <2>2, MarkStep
  <2>3. CASE log' = Appended(log, old, [type |-> "end"])
      BY <1>2, <1>3, <1>4, <2>3, MarkStep
  <2> QED BY <1>5, <2>1, <2>2, <2>3
<1>7. OnDisk' = OnDisk
    BY <1>1 DEF OnDisk
<1>8. MemCore'
    BY <1>1, <1>2, RollCore DEF Rolling
<1> QED BY <1>1, <1>2, <1>6, <1>7, <1>8 DEF NameInv, CurInv

(* WriteSuperblock preserves the name invariant. *)
LEMMA SuperNames ==
    ASSUME Types, NameInv, WriteSuperblock
    PROVE  NameInv'
<1>1. pc = "super" /\ cur' = cur
    BY DEF WriteSuperblock
<1>2. MemCore /\ CurInv /\ SoundLogs /\ cur \in MZones /\ log \in Devices
    BY <1>1, BusyNames
<1>3. seq' \in Nat
    BY DEF WriteSuperblock, Types, DiskTypes
<1>4. CASE /\ Write(cur, [type |-> "super", seq |-> seq']) /\ pc' = "snap"
           /\ UNCHANGED <<memVars, op, rec, mig>>
  <2> DEFINE r == [type |-> "super", seq |-> seq']
  <2>1. log' = Appended(log, cur, r) /\ r \in Records /\ r.type \in MarkTypes
      BY <1>3, <1>4, WriteIs DEF Records, Supers, MarkTypes
  <2> HIDE DEF r
  <2>2. SoundLogs' /\ \A fs : Stands(log[cur], fs) => Stands(log'[cur], fs)
      BY <1>2, <2>1, MarkStep
  <2>3. MemCore'
      BY <1>1, <1>2, <1>4, RollCore DEF memVars, Rolling
  <2>4. OnDisk' = OnDisk
      BY <1>1, <1>4 DEF OnDisk
  <2> QED BY <1>1, <1>2, <2>2, <2>3, <2>4 DEF NameInv, CurInv
<1>5. CASE Untouched /\ Undone
    BY <1>1, <1>5, UndoneNames DEF Untouched
<1> QED BY <1>4, <1>5 DEF WriteSuperblock

(* EncodeSnapshotTo preserves the name invariant. *)
LEMMA SnapNames ==
    ASSUME Types, NameInv, EncodeSnapshotTo
    PROVE  NameInv'
<1>1. /\ pc = "snap" /\ pc' = "write" /\ rec' = Snapshot
      /\ UNCHANGED <<log, cur, files, inode, next_id, op, mig>>
    BY DEF EncodeSnapshotTo, diskVars, memVars
<1>2. MemCore /\ ~(op.kind = "create" /\ op.phase = 2) /\ mig'.id < next_id
    BY <1>1 DEF NameInv, MemCore, Rolling
<1>3. SnapshotOf(files, Links(inode), Snapshot.files)
  <2>1. Snapshot.files = {Encoded(files[n], 0) : n \in {m \in Names : files[m] # NoFile}}
      BY DEF Snapshot
  <2>2. files \in FileMaps
      BY OpParts
  <2>3. \A n \in Names : files[n] # NoFile => files[n] \in Ids /\ files[n] \in Named(files)
      BY <2>2 DEF FileMaps, NoIds, Named
  <2>4. \A id \in Ids : Encoded(id, 0).id = id /\ Encoded(id, 0).links = Links(inode)[id]
      BY DEF Encoded, Links
  <2>5. ASSUME NEW f \in Snapshot.files
        PROVE  f.id \in Named(files) /\ f.links = Links(inode)[f.id]
    <3>1. PICK n \in Names : files[n] # NoFile /\ f = Encoded(files[n], 0)
        BY <2>1
    <3> QED BY <2>3, <2>4, <3>1
  <2>6. ASSUME NEW id \in Named(files) PROVE \E f \in Snapshot.files : f.id = id
    <3>1. PICK n \in Names : files[n] = id /\ id # NoFile
        BY DEF Named
    <3>2. Encoded(id, 0) \in Snapshot.files /\ Encoded(id, 0).id = id
        BY <2>1, <2>3, <2>4, <3>1
    <3> QED BY <3>2
  <2> QED BY <2>5, <2>6 DEF SnapshotOf
<1>4. RecLinks'
    BY <1>1, <1>3 DEF RecLinks
<1>5. MemCore'
    BY <1>1, <1>2, <1>4, SameCore
<1>6. OnDisk' = OnDisk
    BY <1>1 DEF OnDisk
<1> QED BY <1>1, <1>5, <1>6, SameDisk

(* WriteSnapshotLocked preserves the name invariant. *)
LEMMA WriteNames ==
    ASSUME Types, NameInv, WriteSnapshotLocked
    PROVE  NameInv'
<1>1. pc = "write" /\ cur' = cur
    BY DEF WriteSnapshotLocked
<1>2. /\ MemCore /\ SoundLogs /\ cur \in MZones /\ log \in Devices /\ log[cur] \in Seq(Records)
    BY <1>1, BusyNames
<1>3. CASE /\ Write(cur, rec) /\ inode' = SyncedAll /\ pc' = "reset"
           /\ UNCHANGED <<files, next_id, op, mig>>
  <2>1. rec \in Records /\ log[cur] = <<[type |-> "super", seq |-> seq]>>
      BY <1>1 DEF Types, RecTypes, StepInv, Records
  <2>2. Len(log[cur]) = 1
      BY <2>1
  <2>3. log'[cur] = Append(log[cur], rec) /\ \A y \in MZones : y # cur => log'[y] = log[y]
    <3>1. log' = Appended(log, cur, rec)
        BY <1>3, WriteIs
    <3> QED BY <1>2, <2>1, <3>1, LogAppend
  <2>4. Sound(log'[cur]) /\ Stands(log'[cur], files)
      BY <1>1, <1>2, <2>2, <2>3, SnapshotLog
  <2>5. SoundLogs'
      BY <1>2, <2>3, <2>4 DEF SoundLogs
  <2>6. CurInv'
      BY <1>1, <1>3, <2>4 DEF CurInv, OnDisk
  <2>7. MemCore'
    <3>1. \A id \in Ids : inode'[id].links = inode[id].links
        BY <1>3, SyncedAllType, OpParts
    <3>2. ~(op.kind = "create" /\ op.phase = 2) /\ mig'.id < next_id
        BY <1>1, <1>2, <1>3 DEF MemCore, Rolling
    <3>3. RecLinks'
        BY <1>3 DEF RecLinks
    <3> QED BY <1>2, <1>3, <3>1, <3>2, <3>3, SameCore
  <2> QED BY <2>5, <2>6, <2>7 DEF NameInv
<1>4. CASE Undone /\ (Untouched \/ Write(cur, Invalid))
  <2>1. log' = log \/ log' = Appended(log, cur, Invalid)
      BY <1>4, WriteIs DEF Untouched
  <2> QED BY <1>1, <1>4, <2>1, UndoneNames
<1> QED BY <1>3, <1>4 DEF WriteSnapshotLocked

(* ResetOldZone preserves the name invariant. *)
LEMMA ResetNames ==
    ASSUME Types, NameInv, ResetOldZone
    PROVE  NameInv'
<1>1. pc = "reset" /\ cur' = cur /\ Persisted(inode)
    BY DEF ResetOldZone
<1>2. /\ MemCore /\ CurInv /\ SoundLogs /\ cur \in MZones /\ log \in Devices /\ op.kind # "none"
    BY <1>1, BusyNames
<1>3. old \in MZones /\ old # cur
    BY <1>1 DEF Types, StepInv
<1>4. log' = log \/ log' = Erased(log, old)
    BY DEF ResetOldZone, Contents, Erased, Untouched
<1>5. SoundLogs' /\ log'[cur] = log[cur]
    BY <1>2, <1>3, <1>4, EraseStep DEF SoundLogs
<1>6. After = files /\ OnDisk = files
    BY <1>1, <1>2 DEF MemCore, Rolling, After, OnDisk
<1>7. MemCore' /\ op'.before = After /\ pc' \in {"idle", "persist"}
    BY <1>1, <1>2, PersistedCore
<1>8. CurInv'
  <2>1. OnDisk' = OnDisk
      BY <1>6, <1>7 DEF OnDisk
  <2> QED BY <1>1, <1>2, <1>5, <2>1 DEF CurInv
<1> QED BY <1>5, <1>7, <1>8 DEF NameInv

(* Crash preserves the name invariant. *)
LEMMA CrashNames ==
    ASSUME Types, NameInv, Crash
    PROVE  NameInv'
<1>1. pc' = "down" /\ cur \in MZones /\ log \in Devices
    BY DEF Crash, Types, StepInv, DiskTypes
<1>2. log' = log \/ log' = Appended(log, cur, Invalid)
    BY WriteIs DEF Crash, Untouched
<1>3. Invalid \in Records /\ Invalid.type \in MarkTypes
    BY DEF Records, Marked, Invalid, MarkTypes
<1>4. SoundLogs'
    BY <1>1, <1>2, <1>3, MarkStep DEF NameInv, SoundLogs
<1> QED BY <1>1, <1>4 DEF NameInv

(* A mount finds names and links that agree, and goes on with ids that none of them has. *)
LEMMA MountNames ==
    ASSUME Types, FoundInv, ShapeInv, NameInv, Mount
    PROVE  NameInv'
<1> DEFINE z == found.zone
           l == log[z]
           st == found.st
<1>1. log \in Devices /\ found = Recover(log) /\ z # 0
    BY DEF Types, DiskTypes, FoundInv, Mount
<1>2. z \in Valid(log) /\ st \in States /\ TriedInv(log, found)
    BY <1>1, RecoverType DEF TriedInv
<1>3. z \in MZones
    BY <1>1, <1>2, ValidZone
<1>4. st = Replayed(l) /\ HasSnapshot(l) /\ st.status = "OK"
    BY <1>1, <1>2, <1>3 DEF TriedInv, ShapeInv
<1>5. Sound(l)
    BY <1>3 DEF NameInv, SoundLogs
<1>6. /\ Agree(st.files, Links(st.inode))
      /\ \A n \in Names : st.files[n] \in LogIds(l) \cup {NoFile}
    BY <1>4, <1>5 DEF Sound
<1>7. /\ files' = st.files /\ inode' = st.inode
      /\ next_id' = 1 + Max({0} \cup DecodedIds(z))
      /\ op' = [NoOp EXCEPT !.kind = "mount", !.before = st.files]
      /\ cur' = z /\ mig' = NoMig /\ rec' = NoRec /\ pc' = "alloc" /\ log' = log
    BY DEF Mount
<1>8. op' = [kind |-> "mount", name |-> "-", to |-> "-", id |-> NoFile, phase |-> 2,
             before |-> files']
    BY <1>7 DEF NoOp
<1>9. next_id' \in 1..(MaxId + 1) /\ \A id \in DecodedIds(z) : id < next_id'
    BY <1>1, <1>7, MountIds
<1>10. LogIds(l) \subseteq DecodedIds(z)
    BY <1>2 DEF LogIds, DecodedIds
<1>11. NoFile < next_id'
    BY <1>9, MetaLogAssumption DEF NoFile
<1>12. \A n \in Names : files'[n] < next_id'
    BY <1>6, <1>7, <1>9, <1>10, <1>11
<1>13. /\ op'.kind = "mount" /\ op'.phase = 2 /\ op'.id = NoFile /\ op'.before = files'
       /\ pc' = "alloc" /\ mig'.id = NoFile
  <2>1. op'.kind = "mount" /\ op'.phase = 2 /\ op'.id = NoFile /\ op'.before = files'
      BY <1>8
  <2>2. pc' = "alloc" /\ mig' = NoMig
      BY DEF Mount
  <2> QED BY <2>1, <2>2 DEF NoMig
<1>14. Agree(files', MemLinks')
  <2>1. MemLinks' = Links(st.inode)
      BY <1>7, <1>8 DEF MemLinks, Creating, Links
  <2> QED BY <1>6, <1>7, <2>1
<1>15. MemCore'
  <2>1. OpInv' /\ RecLinks'
      BY <1>13 DEF OpInv, RecLinks, Removing, Steady
  <2> QED BY <1>11, <1>12, <1>13, <1>14, <2>1 DEF MemCore
<1>16. CurInv'
    BY <1>4, <1>7, <1>8 DEF CurInv, Stands, OnDisk
<1>17. SoundLogs'
    BY <1>7 DEF NameInv, SoundLogs
<1> QED BY <1>15, <1>16, <1>17 DEF NameInv

(* What has happened stays in the history. *)
LEMMA SpoiltGrows ==
    ASSUME Next
    PROVE  spoilt \subseteq spoilt'
<1>1. ASSUME NEW c, NEW w, Mark(c, w) PROVE spoilt \subseteq spoilt'
    BY <1>1 DEF Mark
<1>2. ASSUME NEW n \in Names, OpenWritableFile(n) \/ SyncFileMetadata(n) \/ DeleteFile(n)
      PROVE  spoilt' = spoilt
    BY <1>2 DEF OpenWritableFile, SyncFileMetadata, DeleteFile, Start
<1>3. ASSUME NEW n \in Names, NEW m \in Names, RenameFile(n, m) \/ LinkFile(n, m)
      PROVE  spoilt' = spoilt
    BY <1>3 DEF RenameFile, LinkFile, Start
<1>4. ASSUME NEW id \in Ids, PushExtent(id) \/ ReplaceExtentList(id)
      PROVE  spoilt \subseteq spoilt'
    BY <1>1, <1>4 DEF PushExtent, ReplaceExtentList
<1>5. CASE SyncFileExtents \/ WriteEndRecord \/ EncodeSnapshotTo \/ Mount
    BY <1>5 DEF SyncFileExtents, WriteEndRecord, EncodeSnapshotTo, Mount
<1>6. CASE PersistRecord \/ NoSpace
    BY <1>1, <1>6 DEF PersistRecord, WriteFails, MarkOvertaken, NoSpace
<1>7. CASE AllocateMetaZone \/ FinishOldZone \/ WriteSuperblock
    BY <1>1, <1>7 DEF AllocateMetaZone, FinishOldZone, WriteSuperblock
<1>8. CASE WriteSnapshotLocked \/ ResetOldZone \/ Crash
    BY <1>1, <1>8 DEF WriteSnapshotLocked, ResetOldZone, MarkOvertaken, Crash
<1> QED BY <1>2, <1>3, <1>4, <1>5, <1>6, <1>7, <1>8 DEF Next

(* Every step keeps names and links in agreement, on the device and in memory, while no *)
(* creation has been lost.                                                              *)
LEMMA NameStep ==
    ASSUME Types, FoundInv, ShapeInv, NameInv, Next, "create" \notin spoilt'
    PROVE  NameInv'
<1>1. ASSUME NEW n \in Names, OpenWritableFile(n) \/ SyncFileMetadata(n) \/ DeleteFile(n)
      PROVE  NameInv'
    BY <1>1, OpenNames, SyncNames, DeleteNames
<1>2. ASSUME NEW n \in Names, NEW m \in Names, RenameFile(n, m) \/ LinkFile(n, m)
      PROVE  NameInv'
    BY <1>2, RenameNames, LinkNames
<1>3. ASSUME NEW id \in Ids, PushExtent(id) \/ ReplaceExtentList(id) PROVE NameInv'
    BY <1>3, ExtentNames
<1>4. CASE SyncFileExtents
    BY <1>4, MigrateNames
<1>5. CASE PersistRecord \/ NoSpace
    BY <1>5, PersistNames, NoSpaceNames
<1>6. CASE AllocateMetaZone \/ WriteEndRecord \/ FinishOldZone
    BY <1>6, AllocNames, EndNames
<1>7. CASE WriteSuperblock \/ EncodeSnapshotTo \/ WriteSnapshotLocked \/ ResetOldZone
    BY <1>7, SuperNames, SnapNames, WriteNames, ResetNames
<1>8. CASE Crash \/ Mount
    BY <1>8, CrashNames, MountNames
<1> QED BY <1>1, <1>2, <1>3, <1>4, <1>5, <1>6, <1>7, <1>8 DEF Next

(* The log of MkFS. *)
LEMMA InitNames ==
    ASSUME Init
    PROVE  ShapeInv /\ NameInv /\ Replayed(log[1]).files = files
           /\ Replayed(log[1]).status = "OK" /\ HasSnapshot(log[1])
           /\ \A id \in Named(files) : Replayed(log[1]).inode[id].ext = <<"d">>
<1> DEFINE a == [type |-> "super", seq |-> 1]
           l == <<a>>
           k == <<a, InitSnapshot>>
           st == Begun(Empty)
           d == Decode(st, InitSnapshot)
           L == [id \in Ids |-> InitLinks(id)]
<1>1. /\ InitIds \subseteq Ids /\ InitFiles \in FileMaps /\ InitSnapshot \in Snapshots
      /\ a \in Supers /\ log[1] = k /\ 1 \in MZones
      /\ \A z \in MZones : z # 1 => log[z] = <<>>
    BY InitDisk
<1>2. InitFiles = files /\ pc = "down"
    BY DEF Init
<1>3. InitSnapshot.files = {[id |-> id, links |-> InitLinks(id), ext |-> <<"d">>] : id \in InitIds}
      /\ InitSnapshot.type = "snapshot"
    BY DEF InitSnapshot
<1> HIDE DEF InitSnapshot
<1>4. a \in Records /\ InitSnapshot \in Records
    BY <1>1 DEF Records
<1>5. a.type = "super"
    OBVIOUS
<1> HIDE DEF a
<1>6. l \in Seq(Records) /\ Len(l) = 1 /\ l[1] = a /\ k = Append(l, InitSnapshot)
    BY <1>4
<1>7. Shape(l)
  <2>1. ~HasSnapshot(l)
      BY <1>6 DEF HasSnapshot
  <2>2. \A i \in 3..1 : FALSE
      OBVIOUS
  <2> QED BY <1>6, <2>1, <2>2 DEF Shape
<1> HIDE DEF l, k
<1>8. Shape(k)
    BY <1>4, <1>5, <1>6, <1>7, ShapeAppend
<1>9. HasSnapshot(k) /\ Replayed(k) = d /\ st \in States /\ st.status = "OK"
    BY <1>1, <1>6, SnapshotFirst
<1>10. L \in LinkMaps /\ Agree(files, L)
  <2>1. \A id \in Ids : /\ InitLinks(id) \in Seq(Names) /\ IsInjective(InitLinks(id))
                        /\ Range(InitLinks(id)) = {n \in Names : InitFiles[n] = id}
      BY InitLinksType
  <2> QED BY <1>2, <2>1 DEF LinkMaps, Agree
<1>11. Named(files) = InitIds
    BY <1>2 DEF Named, InitIds
<1>12. SnapshotOf(files, L, InitSnapshot.files)
  <2>1. \A f \in InitSnapshot.files : f.id \in Named(files) /\ f.links = L[f.id]
      BY <1>1, <1>3, <1>11
  <2>2. \A id \in Named(files) : \E f \in InitSnapshot.files : f.id = id
    <3> SUFFICES ASSUME NEW id \in Named(files) PROVE \E f \in InitSnapshot.files : f.id = id
        OBVIOUS
    <3> DEFINE f == [id |-> id, links |-> InitLinks(id), ext |-> <<"d">>]
    <3>1. f \in InitSnapshot.files /\ f.id = id
        BY <1>3, <1>11
    <3> QED BY <3>1
  <2> QED BY <2>1, <2>2 DEF SnapshotOf
<1> HIDE DEF L, st
<1>13. /\ d.status = "OK" /\ d.files = files /\ Agree(d.files, Links(d.inode))
       /\ \A n \in Names : files[n] \in IdsOf(InitSnapshot) \cup {NoFile}
       /\ \A id \in Named(files) : \E f \in InitSnapshot.files : f.id = id /\ d.inode[id].ext = f.ext
    BY <1>1, <1>2, <1>9, <1>10, <1>12, SnapshotEffect
<1>14. LogIds(k) = LogIds(l) \cup IdsOf(InitSnapshot)
    BY <1>4, <1>6, AppendLog
<1> HIDE DEF d
<1>15. Sound(k)
    BY <1>9, <1>13, <1>14 DEF Sound
<1>16. ShapeInv /\ SoundLogs
    BY <1>1, <1>8, <1>15, EmptyLog DEF ShapeInv, SoundLogs
<1>17. \A id \in Named(files) : d.inode[id].ext = <<"d">>
    BY <1>3, <1>13
<1> QED BY <1>1, <1>2, <1>9, <1>13, <1>16, <1>17 DEF NameInv

\* The part of the inductive invariant about names.
NamesPart == Types /\ FoundInv /\ ShapeInv /\ ("create" \notin spoilt => NameInv)

(* The inductive invariant about names and links: what every log that can be read  *)
(* stands for has names and links that agree, the log of the current zone stands   *)
(* for the name space before the operation under way, and what that operation has  *)
(* done in memory is what its record says (PersistRecord, DeleteFileNoLock,        *)
(* RenameFileNoLock, LinkFile, OpenWritableFile, Mount).                           *)
THEOREM MetaLogNamesInv == Spec => []NamesPart
<1>1. Init => NamesPart
    BY InitTypes, InitNames DEF NamesPart
<1>2. NamesPart /\ [Next]_vars => NamesPart'
  <2> SUFFICES ASSUME NamesPart, [Next]_vars PROVE NamesPart'
      OBVIOUS
  <2>1. CASE Next
    <3>1. Types' /\ FoundInv' /\ ShapeInv'
        BY <2>1, TypesStep, FoundStep, ShapeStep DEF NamesPart
    <3>2. "create" \notin spoilt' => NameInv'
        BY <2>1, SpoiltGrows, NameStep DEF NamesPart
    <3> QED BY <3>1, <3>2 DEF NamesPart
  <2>2. CASE UNCHANGED vars
    <3>1. (Types /\ FoundInv)'
      <4>1. DiskTypes' /\ MemTypes' /\ pc' \in Steps /\ spoilt' \subseteq Marks
          BY <2>2 DEF vars, NamesPart, Types, DiskTypes, MemTypes
      <4>2. OpTypes' /\ StepInv' /\ RecTypes' /\ FoundInv'
          BY <2>2 DEF vars, NamesPart, Types, OpTypes, StepInv, RecTypes, FoundInv
      <4> QED BY <4>1, <4>2 DEF Types
    <3>2. ShapeInv'
        BY <2>2 DEF vars, NamesPart, ShapeInv
    <3>3. "create" \notin spoilt' => NameInv'
      <4> SUFFICES ASSUME "create" \notin spoilt' PROVE NameInv'
          OBVIOUS
      <4>1. NameInv
          BY <2>2 DEF vars, NamesPart
      <4>2. SoundLogs'
          BY <2>2, <4>1 DEF vars, NameInv, SoundLogs
      <4>3. pc' # "down" => CurInv'
          BY <2>2, <4>1 DEF vars, NameInv, CurInv, OnDisk
      <4>4. pc' # "down" => MemCore'
        <5>1. OpInv => OpInv'
            BY <2>2 DEF vars, OpInv, Removing, Removed
        <5>2. RecLinks => RecLinks'
            BY <2>2 DEF vars, RecLinks, Removing, Removed
        <5>3. MemLinks' = MemLinks
            BY <2>2 DEF vars, MemLinks, Creating
        <5> QED BY <2>2, <4>1, <5>1, <5>2, <5>3 DEF vars, NameInv, MemCore
      <4> QED BY <4>2, <4>3, <4>4 DEF NameInv
    <3> QED BY <3>1, <3>2, <3>3 DEF NamesPart
  <2> QED BY <2>1, <2>2
<1> QED BY <1>1, <1>2, PTL DEF Spec

(* Between operations files_ and the link names of the files agree, for every number *)
(* of files, zones and records and whatever writes fail, unless a creation was lost: *)
(* "Failed to persist the delete, return to a consistent state" (fs_aquafs.cc:628).  *)
THEOREM MetaLogNames == Spec => []NamesMatchLinks
<1>1. NamesPart => NamesMatchLinks
  <2> SUFFICES ASSUME NamesPart, pc = "idle", "create" \notin spoilt, NEW id \in Ids
               PROVE  /\ {n \in Names : files[n] = id} = Range(inode[id].links)
                      /\ IsInjective(inode[id].links)
      BY DEF NamesMatchLinks
  <2>1. Settled
      BY IdleNames DEF NamesPart
  <2>2. Links(inode)[id] = inode[id].links
      BY DEF Links
  <2> QED BY <2>1, <2>2 DEF Settled, Agree
<1> QED BY <1>1, MetaLogNamesInv, PTL
-----------------------------------------------------------------------------
(* The zone that a mount recovers from.                                    *)

(* The first record of that zone. *)
LEMMA MainParts ==
    ASSUME NEW d \in Devices, NEW m, Main(d, m)
    PROVE  /\ m \in MZones /\ d[m] \in Seq(Records) /\ Len(d[m]) >= 2
           /\ AllSuper(d) /\ HasSnapshot(d[m]) /\ ~Newer(d, m, m)
           /\ \A y \in Valid(d) : d[y][1].seq \in Nat /\ y \in MZones /\ d[y] \in Seq(Records)
           /\ m \in Valid(d)
<1>1. m \in Valid(d) /\ AllSuper(d) /\ HasSnapshot(d[m])
    BY DEF Main, AllSuper
<1>2. \A y \in Valid(d) : y \in MZones /\ d[y] \in Seq(Records)
    BY ValidZone
<1>3. \A y \in Valid(d) : d[y][1].seq \in Nat /\ ~Newer(d, y, y)
    BY <1>1, NewerOrder
<1> QED BY <1>1, <1>2, <1>3 DEF HasSnapshot

(* The log of that zone grows by a record that can be applied. *)
LEMMA MainGrows ==
    ASSUME NEW d \in Devices, NEW m, Main(d, m), NEW r \in Records,
           Decode(Replayed(d[m]), r).status = "OK",
           NEW e, e = Appended(d, m, r)
    PROVE  Main(e, m) /\ Replayed(e[m]) = Decode(Replayed(d[m]), r) /\ e[m][1] = d[m][1]
<1>1. /\ m \in MZones /\ d[m] \in Seq(Records) /\ Len(d[m]) >= 2 /\ HasSnapshot(d[m])
      /\ ~Newer(d, m, m) /\ m \in Valid(d)
    BY MainParts
<1>2. /\ e[m] = Append(d[m], r) /\ \A y \in MZones : y # m => e[y] = d[y]
    BY <1>1, LogAppend
<1>3. /\ HasSnapshot(e[m]) /\ Replayed(e[m]) = Decode(Replayed(d[m]), r) /\ e[m][1] = d[m][1]
    BY <1>1, <1>2, SnapshotStays
<1>4. e[m] # <<>>
    BY <1>3 DEF HasSnapshot
<1>5. d[m] # <<>>
    BY <1>1
<1>6. Valid(e) = Valid(d)
    BY <1>2, <1>3, <1>4, <1>5 DEF Valid
<1>7. \A y \in Valid(d) : e[y][1] = d[y][1]
    BY <1>2, <1>3 DEF Valid
<1>8. \A y \in Valid(e) : e[y][1].type = "super"
    BY <1>6, <1>7 DEF Main
<1>9. ASSUME NEW y \in Valid(e), Newer(e, y, m) PROVE Len(e[y]) = 1
  <2>1. Newer(d, y, m) /\ y # m /\ y \in Valid(d)
      BY <1>1, <1>6, <1>7, <1>9 DEF Newer
  <2>2. Len(d[y]) = 1 /\ e[y] = d[y]
      BY <1>2, <2>1 DEF Main, Valid
  <2> QED BY <2>2
<1> QED BY <1>1, <1>3, <1>6, <1>8, <1>9 DEF Main

(* Another zone is reset. *)
LEMMA MainErase ==
    ASSUME NEW d \in Devices, NEW m, Main(d, m), NEW z \in MZones, z # m,
           NEW e, e = Erased(d, z)
    PROVE  Main(e, m) /\ e[m] = d[m]
<1>1. m \in MZones
    BY MainParts
<1>2. e[z] = <<>> /\ \A y \in MZones : y # z => e[y] = d[y]
    BY LogReset
<1>3. Valid(e) = Valid(d) \ {z}
    BY <1>2 DEF Valid
<1>4. \A y \in Valid(e) : e[y] = d[y] /\ y \in Valid(d)
    BY <1>2, <1>3 DEF Valid
<1>5. m \in Valid(e) /\ e[m] = d[m]
    BY <1>1, <1>2, <1>3 DEF Main
<1>6. \A y \in Valid(e) : Newer(e, y, m) => Newer(d, y, m)
    BY <1>4, <1>5 DEF Newer
<1> QED BY <1>4, <1>5, <1>6 DEF Main

(* A fresh zone gets a superblock. *)
LEMMA MainSuper ==
    ASSUME NEW d \in Devices, NEW m, Main(d, m), NEW z \in MZones, z # m, d[z] = <<>>,
           NEW r \in Supers, NEW e, e = Appended(d, z, r)
    PROVE  Main(e, m) /\ e[m] = d[m]
<1>1. m \in MZones /\ r \in Records /\ r.type = "super" /\ r # Invalid
    BY MainParts DEF Records, Supers, Invalid
<1>2. /\ e[z] = Append(d[z], r) /\ \A y \in MZones : y # z => e[y] = d[y]
    BY <1>1, LogAppend
<1>3. e[z] = <<r>>
    BY <1>2
<1>4. Len(e[z]) = 1 /\ e[z][1] = r /\ e[z] # <<>>
    BY <1>3
<1>5. Valid(e) = Valid(d) \cup {z}
    BY <1>1, <1>2, <1>4 DEF Valid
<1>6. \A y \in Valid(e) : y # z => e[y] = d[y] /\ y \in Valid(d)
    BY <1>2, <1>5 DEF Valid
<1>7. m \in Valid(e) /\ e[m] = d[m]
    BY <1>1, <1>2, <1>5 DEF Main
<1>8. \A y \in Valid(e) : e[y][1].type = "super"
    BY <1>1, <1>4, <1>6 DEF Main
<1>9. ASSUME NEW y \in Valid(e), Newer(e, y, m) PROVE Len(e[y]) = 1
  <2>1. CASE y = z
      BY <1>4, <2>1
  <2>2. CASE y # z
      BY <1>6, <1>7, <1>9, <2>2 DEF Newer, Main
  <2> QED BY <2>1, <2>2
<1> QED BY <1>7, <1>8, <1>9 DEF Main

(* A zone with a higher sequence number gets its snapshot: mounts recover from it from *)
(* now on.                                                                             *)
LEMMA MainSnapshot ==
    ASSUME NEW d \in Devices, NEW m, Main(d, m), NEW z \in MZones, z # m,
           NEW a \in Supers, d[z] = <<a>>, a.seq > d[m][1].seq,
           NEW r \in Snapshots, Decode(Begun(Empty), r).status = "OK",
           NEW e, e = Appended(d, z, r)
    PROVE  Main(e, z) /\ e[z][1] = a /\ e[z] = Append(d[z], r)
<1>1. /\ m \in MZones /\ m \in Valid(d) /\ r \in Records /\ a # Invalid /\ a.type = "super"
      /\ d[z] \in Seq(Records) /\ a.seq \in Nat
    BY MainParts DEF Records, Supers, Invalid, Devices
<1>2. e[z] = Append(d[z], r) /\ \A y \in MZones : y # z => e[y] = d[y]
    BY <1>1, LogAppend
<1>3. Len(d[z]) = 1 /\ d[z][1] = a
    OBVIOUS
<1>4. HasSnapshot(e[z]) /\ Replayed(e[z]) = Decode(Begun(Empty), r)
    BY <1>1, <1>2, <1>3, SnapshotFirst
<1>5. e[z][1] = a
  <2>1. \A i \in 1..Len(d[z]) : e[z][i] = d[z][i]
      BY <1>1, <1>2, AppendLog
  <2> QED BY <1>3, <2>1
<1>6. e[z] # <<>>
    BY <1>4 DEF HasSnapshot
<1>7. Valid(e) = Valid(d) /\ z \in Valid(d)
  <2>1. d[z] # <<>>
      OBVIOUS
  <2> QED BY <1>1, <1>2, <1>3, <1>5, <1>6, <2>1 DEF Valid
<1>8. \A y \in Valid(d) : e[y][1] = d[y][1]
    BY <1>2, <1>3, <1>5 DEF Valid
<1>9. \A y \in Valid(e) : e[y][1].type = "super"
    BY <1>7, <1>8 DEF Main
<1>10. ASSUME NEW y \in Valid(e), Newer(e, y, z) PROVE Len(e[y]) = 1
  <2>1. /\ d[y][1].seq \in Nat /\ d[m][1].seq \in Nat /\ y \in Valid(d) /\ y \in MZones
        /\ e[y][1] = d[y][1]
      BY <1>1, <1>7, <1>8, MainParts
  <2>2. z \in Nat /\ y \in Nat
      BY <2>1 DEF MZones
  <2>3. d[y][1].seq > a.seq \/ (d[y][1].seq = a.seq /\ y > z)
      BY <1>5, <1>10, <2>1 DEF Newer
  <2>4. d[y][1].seq > d[m][1].seq /\ y # z
    <3>1. CASE d[y][1].seq > a.seq
      <4>1. d[y][1].seq > d[m][1].seq
          BY <1>1, <2>1, <3>1
      <4>2. y # z
          BY <1>1, <1>3, <3>1
      <4> QED BY <4>1, <4>2
    <3>2. CASE d[y][1].seq = a.seq /\ y > z
        BY <2>2, <3>2
    <3> QED BY <2>3, <3>1, <3>2
  <2>5. Len(d[y]) = 1
      BY <2>1, <2>4 DEF Main, Newer
  <2> QED BY <1>2, <2>1, <2>4, <2>5
<1> QED BY <1>2, <1>4, <1>5, <1>7, <1>9, <1>10 DEF Main
-----------------------------------------------------------------------------
(* The name space is durable: the steps.                                   *)

\* The steps that have superblocks of two sequence numbers, and the last number.
InSnap == pc \in {"snap", "write"}
SeqInv == IF InSnap THEN seq > log[old][1].seq ELSE seq = log[MainZone][1].seq

(* What a mount would recover. *)
LEMMA DiskFacts ==
    ASSUME Types, FoundInv, DiskInv
    PROVE  /\ log \in Devices /\ Main(log, found.zone) /\ found.zone \in MZones
           /\ found.st = Replayed(log[found.zone]) /\ found.zone # 0
           /\ pc # "down" => /\ found.zone = MainZone /\ found.st.files = OnDisk /\ SeqInv
           /\ found.st.status = "OK" /\ found.st \in States
<1>1. log \in Devices /\ found = Recover(log) /\ Main(log, found.zone)
    BY DEF Types, DiskTypes, FoundInv, DiskInv
<1>2. found = [zone |-> found.zone, st |-> Replayed(log[found.zone])]
    BY <1>1, RecoverMain
<1>3. found.st = Replayed(log[found.zone])
    BY <1>2
<1>4. found.zone \in MZones
    BY <1>1, MainParts
<1>5. found.zone # 0
    BY <1>4 DEF MZones
<1>6. found.st \in States
    BY <1>1, RecoverType
<1> QED BY <1>1, <1>3, <1>4, <1>5, <1>6 DEF DiskInv, Main, SeqInv, InSnap

(* A mount recovers from zone m. *)
LEMMA FoundMain ==
    ASSUME log' \in Devices, FoundInv', NEW m, Main(log', m)
    PROVE  found'.zone = m /\ found'.st = Replayed(log'[m]) /\ Main(log', found'.zone)
<1>1. found' = Recover(log')
    BY DEF FoundInv
<1>2. found' = [zone |-> m, st |-> Replayed(log'[m])]
    BY <1>1, RecoverMain
<1>3. found'.zone = m /\ found'.st = Replayed(log'[m])
    BY <1>2
<1> QED BY <1>3

(* Nothing happens to the device and to what it stands for. *)
LEMMA DiskSame ==
    ASSUME DiskInv, pc # "down", pc' # "down", UNCHANGED <<log, found, seq>>,
           OnDisk' = OnDisk, MainZone' = MainZone, (InSnap' <=> InSnap), InSnap => old' = old
    PROVE  DiskInv'
BY DEF DiskInv, InSnap

(* An operation starts, or an extent changes. *)
LEMMA MemoryDisk ==
    ASSUME Types, NameInv, DiskInv, UNCHANGED <<log, found, cur, old, seq>>,
           \/ pc # "down" /\ pc' = pc /\ UNCHANGED <<files, op>>
           \/ pc = "idle" /\ pc' = "persist" /\ op'.before = files
    PROVE  DiskInv'
<1>1. CASE pc # "down" /\ pc' = pc /\ UNCHANGED <<files, op>>
    BY <1>1, DiskSame DEF OnDisk, MainZone, InSnap
<1>2. CASE pc = "idle" /\ pc' = "persist" /\ op'.before = files
  <2>1. OnDisk = files
      BY <1>2, IdleNames
  <2>2. OnDisk' = files
      BY <1>2 DEF OnDisk
  <2>3. MainZone' = MainZone /\ ~InSnap /\ ~InSnap'
      BY <1>2 DEF MainZone, InSnap
  <2> QED BY <1>2, <2>1, <2>2, <2>3, DiskSame
<1> QED BY <1>1, <1>2

(* The start of an operation only touches memory, and preserves the *)
(* durability of the name space.                                    *)
LEMMA StartDisk ==
    ASSUME Types, NameInv, DiskInv,
           \/ \E n \in Names : OpenWritableFile(n) \/ SyncFileMetadata(n) \/ DeleteFile(n)
           \/ \E n, m \in Names : RenameFile(n, m) \/ LinkFile(n, m)
           \/ \E id \in Ids : PushExtent(id) \/ ReplaceExtentList(id)
           \/ SyncFileExtents
    PROVE  DiskInv'
<1>1. ASSUME NEW n, NEW k, NEW x, NEW y, NEW ph,
             StartDeletion(n, Operation(k, x, y, NoFile, ph))
      PROVE  op'.before = files
  <2>1. op' = [Operation(k, x, y, NoFile, ph) EXCEPT !.id = files[n], !.before = files]
      BY <1>1 DEF StartDeletion
  <2>2. op' = [kind |-> k, name |-> x, to |-> y, id |-> files[n], phase |-> ph, before |-> files]
      BY <2>1 DEF Operation
  <2> QED BY <2>2
<1>2. ASSUME NEW k, Start(k), op'.before = files PROVE DiskInv'
  <2>1. pc = "idle" /\ pc' = "persist" /\ UNCHANGED <<log, found, cur, old, seq>>
      BY <1>2 DEF Start, diskVars
  <2> QED BY <1>2, <2>1, MemoryDisk
<1>3. ASSUME NEW n \in Names, OpenWritableFile(n) PROVE DiskInv'
  <2>1. Start("create") /\ (MainCreate(n, files, inode)
                            \/ StartDeletion(n, Operation("create", n, n, NoFile, 1)))
      BY <1>3 DEF OpenWritableFile
  <2>2. MainCreate(n, files, inode) => op'.before = files
      BY DEF MainCreate
  <2> QED BY <1>1, <1>2, <2>1, <2>2
<1>4. ASSUME NEW n \in Names, DeleteFile(n) PROVE DiskInv'
    BY <1>1, <1>2, <1>4 DEF DeleteFile
<1>5. ASSUME NEW n \in Names, SyncFileMetadata(n) PROVE DiskInv'
  <2>1. Start("sync") /\ op'.before = files
      BY <1>5 DEF SyncFileMetadata, Operation
  <2> QED BY <1>2, <2>1
<1>6. ASSUME NEW n \in Names, NEW m \in Names, RenameFile(n, m) PROVE DiskInv'
  <2>1. Start("rename") /\ (MainRename(n, m, files, inode)
                            \/ StartDeletion(m, Operation("rename", n, m, NoFile, 1))
                            \/ StartDeletion(m, Operation("delete", n, m, NoFile, 2)))
      BY <1>6 DEF RenameFile
  <2>2. MainRename(n, m, files, inode) => op'.before = files
      BY DEF MainRename
  <2> QED BY <1>1, <1>2, <2>1, <2>2
<1>7. ASSUME NEW n \in Names, NEW m \in Names, LinkFile(n, m) PROVE DiskInv'
  <2>1. Start("link") /\ op'.before = files
      BY <1>7 DEF LinkFile, Operation
  <2> QED BY <1>2, <2>1
<1>8. ASSUME NEW id \in Ids, PushExtent(id) \/ ReplaceExtentList(id) PROVE DiskInv'
  <2>1. pc # "down" /\ pc' = pc /\ UNCHANGED <<files, op, log, found, cur, old, seq>>
      BY <1>8 DEF PushExtent, ReplaceExtentList, diskVars
  <2> QED BY <2>1, MemoryDisk
<1>9. CASE SyncFileExtents
  <2>1. pc = "idle" /\ UNCHANGED <<files, log, found, cur, old, seq>>
      BY <1>9 DEF SyncFileExtents, diskVars, memVars
  <2>2. \/ pc' = pc /\ op' = op
        \/ pc' = "persist" /\ op'.before = files
      BY <1>9 DEF SyncFileExtents, Operation
  <2> QED BY <2>1, <2>2, MemoryDisk
<1> QED BY <1>3, <1>4, <1>5, <1>6, <1>7, <1>8, <1>9

(* PersistRecord preserves the durability of the name space. *)
LEMMA PersistDisk ==
    ASSUME Types, FoundInv, NameInv, DiskInv, PersistRecord, Types', FoundInv', Unspoilt'
    PROVE  DiskInv'
<1>1. pc = "persist" /\ UNCHANGED <<cur, old, seq>>
    BY DEF PersistRecord
<1>2. /\ MemCore /\ SoundLogs /\ op.kind # "none" /\ cur \in MZones /\ log \in Devices
      /\ OnDisk = op.before /\ MainZone = cur /\ ~InSnap /\ log' \in Devices /\ op.kind # "mount"
    BY <1>1, BusyNames DEF OnDisk, MainZone, InSnap, Types, DiskTypes, StepInv
<1>3. /\ Main(log, cur) /\ found.zone = cur /\ found.st = Replayed(log[cur])
      /\ found.st.files = op.before /\ found.st.status = "OK" /\ found.st \in States
      /\ seq = log[cur][1].seq
    BY <1>1, <1>2, DiskFacts DEF SeqInv
<1>4. CASE Write(cur, rec) /\ Persisted(inode)
  <2> DEFINE st == found.st
  <2>1. log' = Appended(log, cur, rec) /\ rec \in Records
    <3>1. rec \in Updates \cup Deletions
        BY <1>1 DEF Types, RecTypes
    <3> QED BY <1>4, <3>1, WriteIs DEF Records
  <2>2. Agree(st.files, Links(st.inode))
    <3>1. Sound(log[cur]) /\ HasSnapshot(log[cur])
        BY <1>2, <1>3, MainParts DEF SoundLogs
    <3> QED BY <1>3, <3>1 DEF Sound
  <2> HIDE DEF st
  <2>3. Decode(st, rec).status = "OK" /\ Decode(st, rec).files = After
    <3>1. st \in States /\ st.status = "OK" /\ st.files = op.before
        BY <1>3 DEF st
    <3> QED BY <1>1, <1>2, <2>2, <3>1, RecEffect
  <2>4. /\ Main(log', cur) /\ Replayed(log'[cur]) = Decode(st, rec)
        /\ log'[cur][1] = log[cur][1]
    <3>1. Replayed(log[cur]) = st
        BY <1>3 DEF st
    <3> QED BY <1>2, <1>3, <2>1, <2>3, <3>1, MainGrows
  <2>5. found'.zone = cur /\ found'.st.files = After /\ Main(log', found'.zone)
      BY <1>2, <2>3, <2>4, FoundMain
  <2>6. op'.before = After /\ pc' \in {"idle", "persist"}
      BY <1>2, <1>4, PersistedCore
  <2>7. MainZone' = cur /\ OnDisk' = After /\ seq' = log'[cur][1].seq
      BY <1>1, <1>3, <2>4, <2>6 DEF MainZone, OnDisk
  <2> QED BY <1>1, <2>5, <2>6, <2>7 DEF DiskInv
<1>5. CASE WriteFails(cur) /\ Undone
  <2>1. log' = log /\ found' = found
      BY <1>5 DEF WriteFails, Untouched, Unspoilt, Mark
  <2>2. pc' = "idle" /\ op'.before = op.before
      BY <1>2, <1>5, UndoneCore
  <2>3. OnDisk' = OnDisk /\ MainZone' = MainZone /\ (InSnap' <=> InSnap)
      BY <1>1, <1>2, <2>2 DEF OnDisk, MainZone, InSnap
  <2> QED BY <1>1, <1>2, <2>1, <2>2, <2>3, DiskSame
<1> QED BY <1>4, <1>5 DEF PersistRecord

(* NoSpace preserves the durability of the name space. *)
LEMMA NoSpaceDisk ==
    ASSUME DiskInv, NoSpace \/ EncodeSnapshotTo
    PROVE  DiskInv'
<1>1. UNCHANGED <<log, found, cur, old, seq, files, op>>
      /\ \/ pc = "persist" /\ pc' = "alloc"
         \/ pc = "snap" /\ pc' = "write"
    BY DEF NoSpace, EncodeSnapshotTo, diskVars, memVars
<1>2. OnDisk' = OnDisk /\ MainZone' = MainZone /\ (InSnap' <=> InSnap)
    BY <1>1 DEF OnDisk, MainZone, InSnap
<1> QED BY <1>1, <1>2, DiskSame

(* AllocateMetaZone preserves the durability of the name space. *)
LEMMA AllocDisk ==
    ASSUME Types, FoundInv, DiskInv, AllocateMetaZone, Types', FoundInv', Unspoilt'
    PROVE  DiskInv'
<1>1. pc = "alloc" /\ seq' = seq /\ OnDisk = op.before /\ MainZone = cur /\ ~InSnap
      /\ log' \in Devices
    BY DEF AllocateMetaZone, OnDisk, MainZone, InSnap, Types, DiskTypes
<1>2. /\ log \in Devices /\ Main(log, cur) /\ found.st = Replayed(log[cur])
      /\ found.st.files = op.before /\ seq = log[cur][1].seq
    BY <1>1, DiskFacts DEF SeqInv
<1>3. PICK z \in MZones \ {cur} :
         /\ Contents([log EXCEPT ![z] = <<>>]) /\ old' = cur /\ pc' = "end" /\ op' = op
    BY DEF AllocateMetaZone, Unspoilt, Mark
<1>4. log' = Erased(log, z)
    BY <1>3 DEF Contents, Erased
<1>5. Main(log', cur) /\ log'[cur] = log[cur]
    BY <1>2, <1>3, <1>4, MainErase
<1>6. found'.zone = cur /\ found'.st = Replayed(log[cur]) /\ Main(log', found'.zone)
    BY <1>1, <1>5, FoundMain
<1>7. MainZone' = cur /\ OnDisk' = op.before /\ ~InSnap'
    BY <1>3 DEF MainZone, OnDisk, InSnap
<1> QED BY <1>1, <1>2, <1>3, <1>5, <1>6, <1>7 DEF DiskInv, InSnap

(* WriteEndRecord preserves the durability of the name space. *)
LEMMA EndDisk ==
    ASSUME Types, FoundInv, DiskInv, WriteEndRecord \/ FinishOldZone, Types', FoundInv', Unspoilt'
    PROVE  DiskInv'
<1>1. /\ pc \in {"end", "finish"} /\ pc' \in {"finish", "super"}
      /\ UNCHANGED <<cur, old, seq, op, files>>
    BY DEF WriteEndRecord, FinishOldZone, memVars
<1>2. /\ OnDisk = op.before /\ OnDisk' = op.before /\ MainZone = old /\ MainZone' = old
      /\ ~InSnap /\ ~InSnap' /\ log' \in Devices
    BY <1>1 DEF OnDisk, MainZone, InSnap, Types, DiskTypes
<1>3. /\ log \in Devices /\ Main(log, old) /\ found.st = Replayed(log[old])
      /\ found.st.files = op.before /\ seq = log[old][1].seq /\ found.st.status = "OK"
    BY <1>1, <1>2, DiskFacts DEF SeqInv
<1>4. \/ log' = log /\ found' = found
      \/ log' = Appended(log, old, [type |-> "end"])
  <2>1. CASE WriteEndRecord
      BY <2>1, WriteIs DEF WriteEndRecord, Untouched
  <2>2. CASE FinishOldZone
      BY <2>2 DEF FinishOldZone, Untouched, Unspoilt, Mark
  <2> QED BY <2>1, <2>2
<1>5. CASE log' = log /\ found' = found
    BY <1>1, <1>2, <1>5, DiskSame
<1>6. CASE log' = Appended(log, old, [type |-> "end"])
  <2> DEFINE r == [type |-> "end"]
  <2>1. r \in Records /\ r.type = "end"
      BY DEF Records, Marked
  <2>2. Decode(found.st, r) = found.st
      BY <2>1 DEF Decode
  <2> HIDE DEF r
  <2>3. Main(log', old) /\ Replayed(log'[old]) = found.st /\ log'[old][1] = log[old][1]
    <3>1. log' = Appended(log, old, r)
        BY <1>6 DEF r
    <3> QED BY <1>3, <2>1, <2>2, <3>1, MainGrows
  <2>4. found'.zone = old /\ found'.st = found.st /\ Main(log', found'.zone)
      BY <1>2, <2>3, FoundMain
  <2> QED BY <1>1, <1>2, <1>3, <2>3, <2>4 DEF DiskInv, InSnap
<1> QED BY <1>4, <1>5, <1>6

(* WriteSuperblock preserves the durability of the name space. *)
LEMMA SuperDisk ==
    ASSUME Types, FoundInv, DiskInv, WriteSuperblock, Types', FoundInv', Unspoilt'
    PROVE  DiskInv'
<1>1. /\ pc = "super" /\ pc' = "snap" /\ seq' = seq + 1
      /\ Write(cur, [type |-> "super", seq |-> seq']) /\ UNCHANGED <<cur, old, op, files>>
    BY DEF WriteSuperblock, Unspoilt, Mark, memVars
<1>2. /\ OnDisk = op.before /\ OnDisk' = op.before /\ MainZone = old /\ MainZone' = old
      /\ ~InSnap /\ InSnap' /\ log' \in Devices
    BY <1>1 DEF OnDisk, MainZone, InSnap, Types, DiskTypes
<1>3. /\ log \in Devices /\ Main(log, old) /\ found.st = Replayed(log[old])
      /\ found.st.files = op.before /\ seq = log[old][1].seq /\ found.st.status = "OK"
    BY <1>1, <1>2, DiskFacts DEF SeqInv
<1>4. cur \in MZones /\ old # cur /\ log[cur] = <<>> /\ seq \in Nat
    BY <1>1 DEF Types, StepInv, DiskTypes
<1> DEFINE r == [type |-> "super", seq |-> seq']
<1>5. log' = Appended(log, cur, r) /\ r \in Supers
    BY <1>1, <1>4, WriteIs DEF Supers
<1> HIDE DEF r
<1>6. Main(log', old) /\ log'[old] = log[old]
    BY <1>3, <1>4, <1>5, MainSuper
<1>7. found'.zone = old /\ found'.st = found.st /\ Main(log', found'.zone)
    BY <1>2, <1>3, <1>6, FoundMain
<1>8. seq' > log'[old'][1].seq
    BY <1>1, <1>3, <1>4, <1>6
<1> QED BY <1>1, <1>2, <1>3, <1>7, <1>8 DEF DiskInv, InSnap

(* WriteSnapshotLocked preserves the durability of the name space. *)
LEMMA WriteDisk ==
    ASSUME Types, FoundInv, NameInv, DiskInv, WriteSnapshotLocked, Types', FoundInv', Unspoilt'
    PROVE  DiskInv'
<1>1. /\ pc = "write" /\ pc' = "reset" /\ Write(cur, rec) /\ UNCHANGED <<cur, old, seq, op, files>>
    BY DEF WriteSnapshotLocked, Unspoilt, Mark
<1>2. /\ OnDisk' = files /\ MainZone = old /\ MainZone' = cur
      /\ InSnap /\ ~InSnap' /\ log' \in Devices
    BY <1>1 DEF OnDisk, MainZone, InSnap, Types, DiskTypes
<1>3. /\ log \in Devices /\ Main(log, old) /\ seq > log[old][1].seq
    BY <1>1, <1>2, DiskFacts DEF SeqInv
<1> DEFINE a == [type |-> "super", seq |-> seq]
<1>4. cur \in MZones /\ old # cur /\ log[cur] = <<a>> /\ rec \in Snapshots /\ seq \in Nat
    BY <1>1 DEF Types, StepInv, DiskTypes, RecTypes
<1>5. a \in Supers /\ a.seq = seq
    BY <1>4 DEF Supers
<1> HIDE DEF a
<1>6. log' = Appended(log, cur, rec) /\ MemCore
    BY <1>1, WriteIs, BusyNames
<1>7. log[cur] \in Seq(Records) /\ Len(log[cur]) = 1
    BY <1>3, <1>4 DEF Devices
<1> DEFINE k == Append(log[cur], rec)
<1>8. Replayed(k).status = "OK" /\ Replayed(k).files = files
    BY <1>1, <1>6, <1>7, SnapshotLog
<1>9. Replayed(k) = Decode(Begun(Empty), rec)
    BY <1>4, <1>7, SnapshotFirst
<1>10. Main(log', cur) /\ log'[cur][1] = a /\ log'[cur] = k
  <2>1. Decode(Begun(Empty), rec).status = "OK"
      BY <1>8, <1>9
  <2>2. a.seq > log[old][1].seq
      BY <1>3, <1>5
  <2> QED BY <1>3, <1>4, <1>5, <1>6, <2>1, <2>2, MainSnapshot
<1>11. found'.zone = cur /\ found'.st = Replayed(k) /\ Main(log', found'.zone)
    BY <1>2, <1>10, FoundMain
<1> HIDE DEF k
<1> QED BY <1>1, <1>2, <1>5, <1>8, <1>10, <1>11 DEF DiskInv, InSnap

(* ResetOldZone preserves the durability of the name space. *)
LEMMA ResetDisk ==
    ASSUME Types, FoundInv, NameInv, DiskInv, ResetOldZone, Types', FoundInv', Unspoilt'
    PROVE  DiskInv'
<1>1. /\ pc = "reset" /\ Persisted(inode) /\ UNCHANGED <<cur, seq>>
    BY DEF ResetOldZone
<1>2. OnDisk = files /\ MainZone = cur /\ ~InSnap /\ log' \in Devices
    BY <1>1 DEF OnDisk, MainZone, InSnap, Types, DiskTypes
<1>3. /\ log \in Devices /\ Main(log, cur) /\ found.st = Replayed(log[cur])
      /\ found.st.files = files /\ seq = log[cur][1].seq
    BY <1>1, <1>2, DiskFacts DEF SeqInv
<1>4. old \in MZones /\ old # cur
    BY <1>1 DEF Types, StepInv
<1>5. log' = log \/ log' = Erased(log, old)
    BY DEF ResetOldZone, Contents, Erased, Untouched
<1>6. Main(log', cur) /\ log'[cur] = log[cur]
    BY <1>3, <1>4, <1>5, MainErase
<1>7. found'.zone = cur /\ found'.st = found.st /\ Main(log', found'.zone)
    BY <1>2, <1>3, <1>6, FoundMain
<1>8. MemCore /\ op.kind # "none"
    BY <1>1, BusyNames
<1>9. After = files
    BY <1>1, <1>8 DEF MemCore, Rolling, After
<1>10. op'.before = files /\ pc' \in {"idle", "persist"}
    BY <1>1, <1>8, <1>9, PersistedCore
<1>11. OnDisk' = files /\ MainZone' = cur /\ ~InSnap'
    BY <1>1, <1>10 DEF OnDisk, MainZone, InSnap
<1> QED BY <1>1, <1>3, <1>6, <1>7, <1>10, <1>11 DEF DiskInv, InSnap

(* Crash preserves the durability of the name space. *)
LEMMA CrashDisk ==
    ASSUME Types, FoundInv, NameInv, DiskInv, Crash, Unspoilt'
    PROVE  DiskInv'
<1>1. pc # "down" /\ pc' = "down" /\ UNCHANGED <<log, found, op, files>>
    BY DEF Crash, Untouched, Unspoilt, Mark, memVars
<1>2. MemCore /\ found.st.files = OnDisk /\ Main(log, found.zone)
    BY <1>1 DEF NameInv, DiskInv
<1>3. OnDisk \in {op.before, After} /\ After' = After
    BY <1>1, <1>2 DEF OnDisk, After, MemCore, Rolling
<1> QED BY <1>1, <1>2, <1>3 DEF DiskInv

(* Mount preserves the durability of the name space. *)
LEMMA MountDisk ==
    ASSUME DiskInv, Mount
    PROVE  DiskInv'
<1>1. /\ op' = [NoOp EXCEPT !.kind = "mount", !.before = found.st.files]
      /\ cur' = found.zone /\ seq' = log[found.zone][1].seq /\ pc' = "alloc"
      /\ UNCHANGED <<log, found>>
    BY DEF Mount
<1>2. op'.before = found.st.files
    BY <1>1 DEF NoOp
<1>3. MainZone' = found.zone /\ OnDisk' = found.st.files
  <2>1. pc' = "alloc" /\ cur' = found.zone
      BY <1>1
  <2> QED BY <1>2, <2>1 DEF MainZone, OnDisk
<1>4. /\ seq' = log'[MainZone'][1].seq /\ pc' = "alloc" /\ Main(log', found'.zone)
      /\ found'.zone = MainZone' /\ found'.st.files = OnDisk'
    BY <1>1, <1>3 DEF DiskInv
<1> QED BY <1>4 DEF DiskInv

(* Every step keeps the zone that a mount recovers from and what its log stands for, *)
(* unless a write is cut short, a roll given up or a creation lost.                  *)
LEMMA DiskStep ==
    ASSUME Types, FoundInv, NameInv, DiskInv, Next, Types', FoundInv', Unspoilt'
    PROVE  DiskInv'
<1>1. CASE \E n \in Names : OpenWritableFile(n) \/ SyncFileMetadata(n) \/ DeleteFile(n)
    BY <1>1, StartDisk
<1>2. CASE \E n, m \in Names : RenameFile(n, m) \/ LinkFile(n, m)
    BY <1>2, StartDisk
<1>3. CASE \E id \in Ids : PushExtent(id) \/ ReplaceExtentList(id)
    BY <1>3, StartDisk
<1>4. CASE SyncFileExtents
    BY <1>4, StartDisk
<1>5. CASE PersistRecord \/ NoSpace \/ EncodeSnapshotTo
    BY <1>5, PersistDisk, NoSpaceDisk
<1>6. CASE AllocateMetaZone \/ WriteEndRecord \/ FinishOldZone \/ WriteSuperblock
    BY <1>6, AllocDisk, EndDisk, SuperDisk
<1>7. CASE WriteSnapshotLocked \/ ResetOldZone
    BY <1>7, WriteDisk, ResetDisk
<1>8. CASE Crash \/ Mount
    BY <1>8, CrashDisk, MountDisk
<1> QED BY <1>1, <1>2, <1>3, <1>4, <1>5, <1>6, <1>7, <1>8 DEF Next

(* The device of MkFS. *)
LEMMA InitDiskInv ==
    ASSUME Init
    PROVE  DiskInv /\ found.zone = 1 /\ found.st = Replayed(log[1])
<1>1. /\ log \in Devices /\ 1 \in MZones
      /\ log[1] = << [type |-> "super", seq |-> 1], InitSnapshot >>
      /\ \A z \in MZones : z # 1 => log[z] = <<>>
    BY InitDisk
<1>2. log[1] # <<>> /\ log[1][1].type = "super" /\ log[1][1] # Invalid /\ log[1][1].seq = 1
    BY <1>1 DEF Invalid
<1>3. Valid(log) = {1}
    BY <1>1, <1>2 DEF Valid
<1>4. ~Newer(log, 1, 1)
    BY <1>2 DEF Newer
<1>5. HasSnapshot(log[1]) /\ Replayed(log[1]).status = "OK" /\ Replayed(log[1]).files = files
    BY InitNames
<1>6. Main(log, 1)
    BY <1>2, <1>3, <1>4, <1>5 DEF Main
<1>7. found = Recover(log) /\ pc = "down" /\ op = NoOp
    BY DEF Init
<1>8. found = [zone |-> 1, st |-> Replayed(log[1])]
    BY <1>1, <1>6, <1>7, RecoverMain
<1>9. found.zone = 1 /\ found.st = Replayed(log[1])
    BY <1>8
<1>10. op.before = files
    BY <1>7 DEF NoOp
<1>11. found.st.files \in {op.before, After}
    BY <1>5, <1>9, <1>10
<1> QED BY <1>6, <1>7, <1>9, <1>11 DEF DiskInv

\* The part of the inductive invariant about the device.
DiskPart == NamesPart /\ (Unspoilt => DiskInv)

(* The inductive invariant about the device: the zone that a mount recovers from is *)
(* the current one, or the old one until the new one has its snapshot; newer zones  *)
(* have no more than a superblock; and the log of that zone stands for the name     *)
(* space before the operation under way (RollMetaZoneLocked, Mount).                *)
THEOREM MetaLogDiskInv == Spec => []DiskPart
<1>1. Init => DiskPart
    BY InitTypes, InitNames, InitDiskInv DEF DiskPart, NamesPart
<1>2. DiskPart /\ NamesPart' /\ [Next]_vars => DiskPart'
  <2> SUFFICES ASSUME DiskPart, NamesPart', [Next]_vars, Unspoilt' PROVE DiskInv'
      BY DEF DiskPart
  <2>1. CASE Next
    <3>1. Unspoilt /\ "create" \notin spoilt
        BY <2>1, SpoiltGrows DEF Unspoilt
    <3>2. Types /\ FoundInv /\ NameInv /\ DiskInv
        BY <3>1 DEF DiskPart, NamesPart
    <3> QED BY <2>1, <3>2, DiskStep DEF NamesPart
  <2>2. CASE UNCHANGED vars
    <3>1. DiskInv
        BY <2>2 DEF vars, DiskPart, Unspoilt
    <3>2. OnDisk' = OnDisk /\ MainZone' = MainZone /\ After' = After
        BY <2>2 DEF vars, OnDisk, MainZone, After
    <3> QED BY <2>2, <3>1, <3>2 DEF vars, DiskInv
  <2> QED BY <2>1, <2>2
<1> QED BY <1>1, <1>2, MetaLogNamesInv, PTL DEF Spec

(* With an unspoilt history a mount finds the name space. *)
LEMMA DiskDurable ==
    ASSUME DiskPart, Unspoilt
    PROVE  NamespaceDurable
<1>1. Types /\ FoundInv /\ NameInv /\ DiskInv
    BY DEF DiskPart, NamesPart, Unspoilt
<1>2. found.zone # 0
    BY <1>1, DiskFacts
<1>3. CASE pc = "down"
    BY <1>1, <1>2, <1>3 DEF DiskInv, NamespaceDurable, MountSucceeds
<1>4. CASE pc # "down"
  <2>1. MemCore /\ found.st.files = OnDisk
      BY <1>1, <1>4 DEF NameInv, DiskInv
  <2>2. OnDisk \in {op.before, After}
      BY <2>1 DEF OnDisk, After, MemCore, Rolling
  <2> QED BY <1>2, <2>1, <2>2 DEF NamespaceDurable, MountSucceeds
<1> QED BY <1>3, <1>4
-----------------------------------------------------------------------------
(* The extents are durable.                                                *)

(* The parts of an extent list. *)
LEMMA ExtentLists ==
    ASSUME NEW e \in Seq(Data), NEW k \in Nat, k <= Len(e)
    PROVE  /\ SubSeq(e, 1, k) \o SubSeq(e, k + 1, Len(e)) = e
           /\ SubSeq(e, 1, Len(e)) = e /\ SubSeq(e, 0 + 1, Len(e)) = e
           /\ SubSeq(e, 1, k) \in Seq(Data) /\ Len(SubSeq(e, 1, k)) = k
           /\ IsPrefix(SubSeq(e, 1, k), SubSeq(e, 1, k)) /\ IsPrefix(SubSeq(e, 1, k), e)
           /\ \A x \in Data : SubSeq(Append(e, x), 1, k) = SubSeq(e, 1, k)
<1>0. Len(e) \in Nat /\ 1 \in Int /\ k \in Int /\ 0 + 1 = 1
    BY LenProperties
<1>1. SubSeq(e, 1, k) \o SubSeq(e, k + 1, Len(e)) = SubSeq(e, 1, Len(e))
  <2>1. 1 \in 1 .. Len(e) + 1 /\ k \in 1 - 1 .. Len(e) /\ Len(e) \in k .. Len(e)
      BY <1>0
  <2> QED BY <2>1, ConcatAdjacentSubSeq
<1>2. SubSeq(e, 1, Len(e)) = e
    BY SubSeqFull
<1> DEFINE p == SubSeq(e, 1, k)
<1>3. p \in Seq(Data) /\ Len(p) = k /\ \A i \in 1 .. k : p[i] = e[i]
  <2>1. \A i \in 1 .. k : e[i] \in Data
      BY <1>0
  <2>2. /\ p \in Seq(Data) /\ Len(p) = IF 1 <= k THEN k - 1 + 1 ELSE 0
        /\ \A i \in 1 .. k - 1 + 1 : p[i] = e[1 + i - 1]
      BY <1>0, <2>1, SubSeqProperties
  <2>3. k - 1 + 1 = k /\ \A i \in 1 .. k : 1 + i - 1 = i
      OBVIOUS
  <2> QED BY <2>2, <2>3
<1>4. SubSeq(p, 1, Len(p)) = p
    BY <1>3, SubSeqFull
<1>5. IsPrefix(p, p) /\ IsPrefix(p, e)
    BY <1>0, <1>3, <1>4 DEF IsPrefix
<1>6. ASSUME NEW x \in Data PROVE SubSeq(Append(e, x), 1, k) = p
  <2> DEFINE a == Append(e, x)
             q == SubSeq(a, 1, k)
  <2>1. \A i \in 1 .. k : a[i] = e[i] /\ a[i] \in Data
      BY <1>0, AppendProperties
  <2> HIDE DEF a
  <2>2. /\ q \in Seq(Data) /\ Len(q) = IF 1 <= k THEN k - 1 + 1 ELSE 0
        /\ \A i \in 1 .. k - 1 + 1 : q[i] = a[1 + i - 1]
      BY <1>0, <2>1, SubSeqProperties
  <2>3. k - 1 + 1 = k /\ \A i \in 1 .. k : 1 + i - 1 = i
      OBVIOUS
  <2>4. Len(q) = Len(p) /\ \A i \in 1 .. Len(q) : q[i] = p[i]
      BY <1>3, <2>1, <2>2, <2>3
  <2> HIDE DEF p, q
  <2>5. q = p
      BY <1>3, <2>2, <2>4, SeqEqual
  <2> QED BY <2>5 DEF q, p, a
<1> HIDE DEF p
<1>7. SubSeq(e, 1, k) = p
    BY DEF p
<1> QED BY <1>0, <1>1, <1>2, <1>3, <1>5, <1>6, <1>7

\* Of what is recovered every extent counts as synced.
AllSynced(st) == \A id \in Ids : st.inode[id].synced = Len(st.inode[id].ext)

(* What is decoded counts as synced. *)
LEMMA DecodeSynced ==
    ASSUME NEW st \in States, AllSynced(st), NEW r \in Records
    PROVE  AllSynced(Decode(st, r))
<1>0. st.inode \in [Ids -> Inodes]
    BY DEF States
<1>1. AllSynced(Corrupt(st))
    BY DEF AllSynced, Corrupt, States
<1>2. CASE st.status = "OK" /\ r.type = "snapshot"
  <2>1. Decode(st, r).inode = DecodeSnapshotFrom(st, r).inode
      BY <1>2 DEF Decode
  <2>2. ASSUME NEW id \in Ids
        PROVE  DecodeSnapshotFrom(st, r).inode[id].synced = Len(DecodeSnapshotFrom(st, r).inode[id].ext)
      BY DEF DecodeSnapshotFrom, NoInode
  <2> QED BY <2>1, <2>2 DEF AllSynced
<1>3. CASE st.status = "OK" /\ r.type \in {"update", "replace"}
  <2>1. Decode(st, r) = DecodeFileUpdateFrom(st, r) /\ r \in Updates
      BY <1>3, RecordKinds DEF Decode
  <2>2. PICK x, fs : \/ DecodeFileUpdateFrom(st, r) = Corrupt(st)
                     \/ DecodeFileUpdateFrom(st, r) =
                          [st EXCEPT !.files = fs,
                             !.inode[r.file.id] = [links |-> r.file.links, ext |-> x, synced |-> Len(x)]]
      BY DEF DecodeFileUpdateFrom
  <2> DEFINE f == [links |-> r.file.links, ext |-> x, synced |-> Len(x)]
  <2>3. f.synced = Len(f.ext)
      OBVIOUS
  <2> HIDE DEF f
  <2>4. CASE DecodeFileUpdateFrom(st, r) = [st EXCEPT !.files = fs, !.inode[r.file.id] = f]
    <3>1. DecodeFileUpdateFrom(st, r).inode = [st.inode EXCEPT ![r.file.id] = f]
        BY <2>4 DEF States
    <3>2. \A id \in Ids : DecodeFileUpdateFrom(st, r).inode[id] = IF id = r.file.id THEN f ELSE st.inode[id]
        BY <1>0, <3>1
    <3> QED BY <2>1, <2>3, <3>2 DEF AllSynced
  <2> QED BY <1>1, <2>1, <2>2, <2>4 DEF f
<1>4. CASE st.status = "OK" /\ r.type = "deletion"
  <2>1. Decode(st, r) = DecodeFileDeletionFrom(st, r) /\ r \in Deletions
      BY <1>4, RecordKinds DEF Decode
  <2>2. r.id \in Ids
      BY <2>1 DEF Deletions
  <2>3. CASE DecodeFileDeletionFrom(st, r).inode = DropLink(st.inode, r.id, r.name)
    <3>1. LET e == DropLink(st.inode, r.id, r.name)
          IN  /\ e[r.id].ext = st.inode[r.id].ext /\ e[r.id].synced = st.inode[r.id].synced
              /\ \A j \in Ids : j # r.id => e[j] = st.inode[j]
        BY <1>0, <2>2, DropLinkType
    <3> QED BY <2>1, <2>3, <3>1 DEF AllSynced
  <2>4. \/ DecodeFileDeletionFrom(st, r) = Corrupt(st)
        \/ DecodeFileDeletionFrom(st, r) = [st EXCEPT !.files[r.name] = NoFile,
                                              !.inode[r.id].links = RemoveFirst(@, r.name)]
      BY DEF DecodeFileDeletionFrom
  <2>5. \/ DecodeFileDeletionFrom(st, r) = Corrupt(st)
        \/ DecodeFileDeletionFrom(st, r).inode = DropLink(st.inode, r.id, r.name)
      BY <2>4 DEF DropLink, States
  <2> QED BY <1>1, <2>1, <2>3, <2>5
<1>5. CASE st.status # "OK" \/ r.type \in {"super", "end", "invalid"}
  <2>1. Decode(st, r) \in {st, Corrupt(st)}
      BY <1>5 DEF Decode
  <2> QED BY <1>1, <2>1
<1> QED BY <1>2, <1>3, <1>4, <1>5, RecordKinds

(* After a mount all extents count as synced. *)
LEMMA ReplaySynced ==
    ASSUME NEW l \in Seq(Records), Len(l) >= 1
    PROVE  AllSynced(Replayed(l))
<1> DEFINE G == ReplayFun(Empty, l)
           S == {k \in Nat : k \in 1..Len(l) => AllSynced(G[k])}
<1>0. Len(l) \in Nat /\ (\A i \in 1..Len(l) : l[i] \in Records) /\ Empty \in States
    BY EmptyType
<1>1. \A i \in 1..Len(l) : G[i] = IF i = 1 THEN Begun(Empty) ELSE Decode(G[i - 1], l[i])
    BY <1>0, ReplayAt
<1>2. \A i \in 1..Len(l) : G[i] \in States
    BY <1>0, ReplayType
<1> HIDE DEF G
<1>3. AllSynced(Begun(Empty))
  <2>1. Begun(Empty).inode = [id \in Ids |-> NoInode]
      BY DEF Begun, Empty
  <2> QED BY <2>1 DEF AllSynced, NoInode
<1>4. 0 \in S
    OBVIOUS
<1>5. ASSUME NEW k \in Nat, k \in S PROVE k + 1 \in S
  <2> SUFFICES ASSUME k + 1 \in 1..Len(l) PROVE AllSynced(G[k + 1])
      OBVIOUS
  <2>1. CASE k = 0
      BY <1>1, <1>3, <2>1
  <2>2. CASE k # 0
    <3>1. k \in 1..Len(l) /\ (k + 1) - 1 = k /\ k + 1 # 1
        BY <1>0, <2>2
    <3>2. AllSynced(G[k]) /\ l[k + 1] \in Records /\ G[k] \in States
        BY <1>0, <1>2, <1>5, <3>1
    <3>3. G[k + 1] = Decode(G[k], l[k + 1])
        BY <1>1, <3>1
    <3> QED BY <3>2, <3>3, DecodeSynced
  <2> QED BY <2>1, <2>2
<1>6. \A k \in Nat : k \in S
  <2> HIDE DEF S
  <2> QED BY <1>4, <1>5, Induction
<1>7. AllSynced(G[Len(l)])
    BY <1>0, <1>6
<1>8. Replayed(l) = G[Len(l)]
    BY ReplayIsFun DEF G, Replayed
<1> QED BY <1>7, <1>8

\* A step that changes no extents.
SameExt == \A id \in Ids : inode'[id].ext = inode[id].ext /\ inode'[id].synced = inode[id].synced

(* What a mount would recover after a step. *)
LEMMA ExtFound ==
    ASSUME Types', FoundInv', DiskInv', pc' # "down"
    PROVE  /\ found'.zone = MainZone' /\ found'.st = Replayed(log'[MainZone'])
           /\ found'.st.files = OnDisk'
<1>1. log' \in Devices /\ Main(log', found'.zone) /\ found'.zone = MainZone'
      /\ found'.st.files = OnDisk'
    BY DEF Types, DiskTypes, DiskInv
<1>2. found'.st = Replayed(log'[found'.zone])
    BY <1>1, FoundMain
<1> QED BY <1>1, <1>2

(* The files on the device and in memory. *)
LEMMA ExtTypes ==
    ASSUME Types, FoundInv
    PROVE  /\ found.st.files \in FileMaps /\ Named(found.st.files) \subseteq Ids
           /\ \A id \in Ids : /\ inode[id].ext \in Seq(Data) /\ inode[id].synced \in Nat
                              /\ inode[id].synced <= Len(inode[id].ext)
           /\ NoFile \notin Ids /\ mig.id \in NoIds
<1>1. found.st \in States
    BY RecoverType DEF Types, DiskTypes, FoundInv
<1>2. found.st.files \in FileMaps
    BY <1>1, StateParts
<1>3. Named(found.st.files) \subseteq Ids
    BY <1>2 DEF Named, FileMaps, NoIds
<1>4. inode \in [Ids -> Inodes] /\ NoFile \notin Ids /\ mig.id \in NoIds
    BY OpParts
<1>5. \A id \in Ids : /\ inode[id].ext \in Seq(Data) /\ inode[id].synced \in Nat
                      /\ inode[id].synced <= Len(inode[id].ext)
    BY <1>4, InodeParts
<1> QED BY <1>2, <1>3, <1>4, <1>5

(* The extents of the files on the device do not change, on the device or in memory. *)
LEMMA DiskExtSame ==
    ASSUME DiskExt, mig' = mig, MigDone' <=> MigDone,
           \A id \in Named(found'.st.files) :
             /\ id \in Named(found.st.files)
             /\ found'.st.inode[id].ext = found.st.inode[id].ext
             /\ inode'[id].ext = inode[id].ext /\ inode'[id].synced = inode[id].synced
    PROVE  DiskExt'
BY DEF DiskExt

(* Between operations. *)
LEMMA RestingExt ==
    ASSUME op' = Resting(files'), pc' = "idle",
           mig'.id # NoFile => inode'[mig'.id].synced = 0
    PROVE  MemExt'
<1>1. op'.kind = "none"
    BY DEF Resting
<1> QED BY <1>1 DEF MemExt

(* A new file. *)
LEMMA MainCreateExt ==
    ASSUME Types, mig.id < next_id, NEW n \in Names, MainCreate(n, files, inode),
           pc' = "persist", mig' = mig, mig.id # NoFile => inode[mig.id].synced = 0
    PROVE  /\ MemExt' /\ next_id \in Ids
           /\ \A id \in Ids : id # next_id => inode'[id] = inode[id]
<1>1. /\ next_id \in Ids
      /\ inode' = [inode EXCEPT ![next_id] = [NoInode EXCEPT !.links = <<n>>]]
    BY DEF MainCreate
<1>2. /\ op'.kind = "create" /\ op'.phase = 2 /\ op'.id = next_id /\ rec'.file.ext = <<>>
    BY DEF MainCreate
<1>3. /\ inode \in [Ids -> Inodes] /\ mig.id \in NoIds /\ mig.id \in Nat /\ next_id \in Nat
    BY OpParts
<1>4. /\ inode'[next_id].ext = <<>> /\ inode'[next_id].synced = 0
      /\ \A id \in Ids : id # next_id => inode'[id] = inode[id]
    BY <1>1, <1>3, NewFileType
<1>5. mig.id # next_id
    BY <1>3
<1>6. SubSeq(<<>>, 0 + 1, Len(<<>>)) = <<>>
    OBVIOUS
<1>7. ~Removing'
    BY <1>2 DEF Removing
<1>8. mig'.id # NoFile => inode'[mig'.id].synced = 0
    BY <1>3, <1>4, <1>5 DEF NoIds
<1> QED BY <1>1, <1>2, <1>4, <1>5, <1>6, <1>7, <1>8 DEF MemExt, MigDone

(* A file changes its name. *)
LEMMA MainRenameExt ==
    ASSUME Types, NEW n \in Names, NEW m \in Names, files[n] # NoFile,
           MainRename(n, m, files, inode),
           pc' = "persist", mig' = mig, mig.id # NoFile => inode[mig.id].synced = 0
    PROVE  MemExt' /\ SameExt
<1> DEFINE id == files[n]
           new == RenameLink(inode, id, n, m)
<1>1. /\ inode' = new /\ op'.kind = "rename" /\ op'.id = id /\ op'.phase = 2
      /\ rec'.file.ext = SubSeq(inode[id].ext, inode[id].synced + 1, Len(inode[id].ext))
    BY DEF MainRename
<1>2. /\ files \in FileMaps /\ inode \in [Ids -> Inodes] /\ mig.id \in NoIds
    BY OpParts
<1>3. id \in Ids
    BY <1>2 DEF FileMaps, NoIds
<1>4. /\ new[id].ext = inode[id].ext /\ new[id].synced = inode[id].synced
      /\ \A j \in Ids : j # id => new[j] = inode[j]
    BY <1>2, <1>3, RenameLinkType
<1>5. SameExt
    BY <1>1, <1>4 DEF SameExt
<1>6. mig'.id # NoFile => inode'[mig'.id].synced = 0
    BY <1>2, <1>5 DEF NoIds, SameExt
<1> HIDE DEF id, new
<1>7. rec'.file.ext = SubSeq(inode'[op'.id].ext, inode'[op'.id].synced + 1, Len(inode'[op'.id].ext))
    BY <1>1, <1>3, <1>5 DEF SameExt
<1> QED BY <1>1, <1>5, <1>6, <1>7 DEF MemExt

(* What follows a record or a snapshot on the device. *)
LEMMA PersistedExt ==
    ASSUME Types, MemCore, MemExt, op.kind # "none", Persisted(inode),
           ~(op.kind \in {"rename", "link"} /\ op.phase = 2 /\ op.id = mig.id)
    PROVE  /\ MemExt' /\ pc' \in {"idle", "persist"}
           /\ mig' = (IF op.kind = "migrate" THEN NoMig ELSE mig)
           /\ \A id \in Ids : id < next_id =>
                /\ inode'[id].ext = inode[id].ext
                /\ inode'[id].synced = IF ~Removing /\ op.kind # "mount" /\ id = op.id
                                       THEN Len(inode[id].ext) ELSE inode[id].synced
<1>1. /\ files \in FileMaps /\ inode \in [Ids -> Inodes] /\ next_id \in Nat
      /\ NoFile \notin Ids /\ op.phase \in {1, 2}
      /\ op.kind \in OpKinds \cup {"none", "mount"}
      /\ op.kind \notin {"none", "mount"} => op.id \in Ids
      /\ op.id \in Nat /\ mig.id \in Nat /\ mig.id \in NoIds
    BY OpParts
<1>2. OpTypes /\ OpInv
    BY DEF Types, MemCore
<1>3. mig.id # NoFile /\ op.kind # "migrate" => inode[mig.id].synced = 0
    BY DEF MemExt, MigDone
<1>4. CASE /\ op.kind = "create" /\ op.phase = 1 /\ pc' = "persist" /\ mig' = mig
           /\ MainCreate(op.name, files, inode)
  <2>1. op.name \in Names /\ mig.id < next_id /\ Removing
      BY <1>2, <1>4 DEF OpTypes, MemCore, Removing
  <2>2. MemExt' /\ \A id \in Ids : id # next_id => inode'[id] = inode[id]
      BY <1>3, <1>4, <2>1, MainCreateExt
  <2>3. \A id \in Ids : id < next_id => id # next_id
      BY <1>1 DEF Ids
  <2> QED BY <1>4, <2>1, <2>2, <2>3
<1>5. CASE /\ op.kind = "rename" /\ op.phase = 1 /\ pc' = "persist" /\ mig' = mig
           /\ MainRename(op.name, op.to, files, inode)
  <2>1. op.name \in Names /\ op.to \in Names /\ files[op.name] # NoFile /\ Removing
      BY <1>2, <1>5 DEF OpTypes, Removing
  <2>2. MemExt' /\ SameExt
      BY <1>3, <1>5, <2>1, MainRenameExt
  <2> QED BY <1>5, <2>1, <2>2 DEF SameExt
<1>6. CASE /\ op.phase = 2 /\ pc' = "idle" /\ op' = Resting(files')
           /\ mig' = (IF op.kind = "migrate" THEN NoMig ELSE mig)
           /\ inode' = (IF op.kind \in {"delete", "mount"} THEN inode
                        ELSE MetadataSynced(inode, op.id))
  <2>1. Removing <=> op.kind = "delete"
      BY <1>6 DEF Removing
  <2>2. \A id \in Ids :
          /\ inode'[id].ext = inode[id].ext
          /\ inode'[id].synced = IF op.kind \notin {"delete", "mount"} /\ id = op.id
                                 THEN Len(inode[id].ext) ELSE inode[id].synced
    <3>1. CASE op.kind \in {"delete", "mount"}
        BY <1>6, <3>1
    <3>2. CASE op.kind \notin {"delete", "mount"}
      <4>1. op.id \in Ids /\ inode' = MetadataSynced(inode, op.id)
          BY <1>1, <1>6, <3>2
      <4>2. LET e == MetadataSynced(inode, op.id)
            IN  /\ e[op.id].ext = inode[op.id].ext /\ e[op.id].synced = Len(inode[op.id].ext)
                /\ \A j \in Ids : j # op.id => e[j] = inode[j]
          BY <1>1, <4>1, SyncedType
      <4> QED BY <3>2, <4>1, <4>2
    <3> QED BY <3>1, <3>2
  <2>3. mig'.id # NoFile => inode'[mig'.id].synced = 0
    <3> SUFFICES ASSUME mig'.id # NoFile PROVE inode'[mig'.id].synced = 0
        OBVIOUS
    <3>1. op.kind # "migrate" /\ mig' = mig
        BY <1>6 DEF NoMig
    <3>2. mig.id \in Ids /\ inode[mig.id].synced = 0
        BY <1>1, <1>3, <3>1 DEF NoIds
    <3>3. op.kind \notin {"delete", "mount"} => op.id # mig.id
        BY <1>1, <1>6, <3>1 DEF MemExt, OpKinds
    <3> QED BY <2>2, <3>1, <3>2, <3>3
  <2>4. MemExt'
      BY <1>6, <2>3, RestingExt
  <2> QED BY <1>6, <2>1, <2>2, <2>4
<1> QED BY <1>2, <1>4, <1>5, <1>6, PersistedSteps

(* Neither the extents in memory nor those on the device change. *)
LEMMA SameExtDisk ==
    ASSUME Types, FoundInv, DiskExt, SameExt, found'.st = found.st, mig' = mig,
           MigDone' <=> MigDone
    PROVE  DiskExt'
<1>1. Named(found.st.files) \subseteq Ids
    BY ExtTypes
<1> QED BY <1>1, DiskExtSame DEF SameExt

(* The removal of a name starts. *)
LEMMA StartDeletionExt ==
    ASSUME Types, NEW n \in Names, files[n] # NoFile, NEW k, NEW x, NEW y, NEW ph,
           StartDeletion(n, Operation(k, x, y, NoFile, ph)),
           k \in {"create", "rename", "delete"}, ph = 1 \/ k = "delete",
           pc' = "persist", mig' = mig, mig.id # NoFile => inode[mig.id].synced = 0
    PROVE  MemExt' /\ SameExt
<1>1. inode' = DropLink(inode, files[n], n)
      /\ op' = [Operation(k, x, y, NoFile, ph) EXCEPT !.id = files[n], !.before = files]
    BY DEF StartDeletion
<1>2. op'.kind = k /\ op'.phase = ph
    BY <1>1 DEF Operation
<1>3. Removing' /\ ~(op'.kind = "create" /\ op'.phase = 2)
    BY <1>2 DEF Removing
<1>4. files \in FileMaps /\ inode \in [Ids -> Inodes] /\ mig.id \in NoIds
    BY OpParts
<1>5. files[n] \in Ids
    BY <1>4 DEF FileMaps, NoIds
<1>6. LET e == DropLink(inode, files[n], n)
      IN  /\ e[files[n]].ext = inode[files[n]].ext /\ e[files[n]].synced = inode[files[n]].synced
          /\ \A j \in Ids : j # files[n] => e[j] = inode[j]
    BY <1>4, <1>5, DropLinkType
<1>7. SameExt
  <2>1. inode' = DropLink(inode, files[n], n)
      BY <1>1
  <2> QED BY <1>6, <2>1 DEF SameExt
<1>8. mig'.id # NoFile => inode'[mig'.id].synced = 0
    BY <1>4, <1>7 DEF NoIds, SameExt
<1> QED BY <1>2, <1>3, <1>7, <1>8 DEF MemExt

(* An operation starts. *)
LEMMA StartExt ==
    ASSUME Types, FoundInv, NameInv, DiskInv, ExtInv,
           \/ \E n \in Names : OpenWritableFile(n) \/ SyncFileMetadata(n) \/ DeleteFile(n)
           \/ \E n, m \in Names : RenameFile(n, m) \/ LinkFile(n, m)
    PROVE  ExtInv'
<1>1. files \in FileMaps /\ inode \in [Ids -> Inodes] /\ mig.id \in NoIds /\ NoFile \notin Ids
    BY OpParts
<1>2. ASSUME NEW k, Start(k)
      PROVE  /\ pc = "idle" /\ pc' = "persist" /\ mig' = mig /\ found' = found
             /\ (mig.id # NoFile => inode[mig.id].synced = 0)
             /\ ~MigDone /\ ~MigDone' /\ mig.id < next_id
             /\ \A id \in Named(found.st.files) : id < next_id
  <2>1. pc = "idle" /\ pc' = "persist" /\ mig' = mig /\ found' = found
      BY <1>2 DEF Start, diskVars
  <2>2. ~MigDone /\ ~MigDone'
      BY <2>1 DEF MigDone
  <2>3. Settled /\ found.st.files = files
      BY <2>1, IdleNames DEF DiskInv
  <2> QED BY <2>1, <2>2, <2>3 DEF ExtInv, MemExt, Settled, Named
<1>3. ASSUME NEW k, Start(k), SameExt PROVE DiskExt'
    BY <1>2, <1>3, SameExtDisk DEF ExtInv
<1>4. ASSUME NEW n \in Names, OpenWritableFile(n) PROVE ExtInv'
  <2>1. Start("create")
      BY <1>4 DEF OpenWritableFile
  <2>2. CASE MainCreate(n, files, inode)
    <3>1. MemExt' /\ \A id \in Ids : id # next_id => inode'[id] = inode[id]
        BY <1>2, <2>1, <2>2, MainCreateExt
    <3>2. Named(found.st.files) \subseteq Ids /\ next_id \in Nat
        BY ExtTypes, OpParts
    <3>3. \A id \in Named(found.st.files) : inode'[id] = inode[id]
        BY <1>2, <2>1, <3>1, <3>2 DEF Ids
    <3>4. DiskExt'
        BY <1>2, <2>1, <3>3, DiskExtSame DEF ExtInv
    <3> QED BY <3>1, <3>4 DEF ExtInv
  <2>3. CASE files[n] # NoFile /\ StartDeletion(n, Operation("create", n, n, NoFile, 1))
    <3>1. MemExt' /\ SameExt
        BY <1>2, <2>1, <2>3, StartDeletionExt
    <3> QED BY <1>3, <2>1, <3>1 DEF ExtInv
  <2> QED BY <1>4, <2>2, <2>3 DEF OpenWritableFile
<1>5. ASSUME NEW n \in Names, DeleteFile(n) PROVE ExtInv'
  <2>1. Start("delete") /\ files[n] # NoFile
        /\ StartDeletion(n, Operation("delete", n, n, NoFile, 2))
      BY <1>5 DEF DeleteFile
  <2>2. MemExt' /\ SameExt
      BY <1>2, <2>1, StartDeletionExt
  <2> QED BY <1>3, <2>1, <2>2 DEF ExtInv
<1>6. ASSUME NEW n \in Names, SyncFileMetadata(n) PROVE ExtInv'
  <2>1. /\ Start("sync") /\ files[n] # NoFile /\ files[n] # mig.id /\ inode' = inode
        /\ op' = Operation("sync", n, n, files[n], 2) /\ rec' = FileUpdate(files[n])
      BY <1>6 DEF SyncFileMetadata, memVars
  <2>2. op'.kind = "sync" /\ op'.id = files[n] /\ op'.phase = 2
      BY <2>1 DEF Operation
  <2>3. rec'.file.ext = SubSeq(inode[files[n]].ext, inode[files[n]].synced + 1,
                               Len(inode[files[n]].ext))
      BY <2>1 DEF FileUpdate, Encoded
  <2>4. inode' = inode /\ Start("sync") /\ files[n] # mig.id
      BY <2>1
  <2>5. MemExt'
      BY <1>2, <2>2, <2>3, <2>4 DEF MemExt
  <2>6. SameExt
      BY <2>4 DEF SameExt
  <2> QED BY <1>3, <2>4, <2>5, <2>6 DEF ExtInv
<1>7. ASSUME NEW n \in Names, NEW m \in Names, RenameFile(n, m) PROVE ExtInv'
  <2>1. Start("rename") /\ files[n] # NoFile
      BY <1>7 DEF RenameFile
  <2>2. CASE MainRename(n, m, files, inode)
    <3>1. MemExt' /\ SameExt
        BY <1>2, <2>1, <2>2, MainRenameExt
    <3> QED BY <1>3, <2>1, <3>1 DEF ExtInv
  <2>3. CASE files[m] # NoFile /\ StartDeletion(m, Operation("rename", n, m, NoFile, 1))
    <3>1. MemExt' /\ SameExt
        BY <1>2, <2>1, <2>3, StartDeletionExt
    <3> QED BY <1>3, <2>1, <3>1 DEF ExtInv
  <2>4. CASE files[m] # NoFile /\ StartDeletion(m, Operation("delete", n, m, NoFile, 2))
    <3>1. MemExt' /\ SameExt
        BY <1>2, <2>1, <2>4, StartDeletionExt
    <3> QED BY <1>3, <2>1, <3>1 DEF ExtInv
  <2> QED BY <1>7, <2>2, <2>3, <2>4 DEF RenameFile
<1>8. ASSUME NEW n \in Names, NEW m \in Names, LinkFile(n, m) PROVE ExtInv'
  <2> DEFINE id == files[n]
  <2>1. /\ Start("link") /\ id # NoFile /\ inode' = AddLink(inode, id, m)
        /\ op' = Operation("link", n, m, id, 2)
        /\ rec' = [type |-> "update",
                   file |-> [FileUpdate(id).file EXCEPT !.links = Append(@, m)]]
      BY <1>8 DEF LinkFile
  <2>2. op'.kind = "link" /\ op'.id = id /\ op'.phase = 2
      BY <2>1 DEF Operation
  <2>3. rec'.file.ext = SubSeq(inode[id].ext, inode[id].synced + 1, Len(inode[id].ext))
      BY <2>1 DEF FileUpdate, Encoded
  <2>4. id \in Ids /\ Start("link") /\ inode' = AddLink(inode, id, m)
      BY <1>1, <2>1 DEF FileMaps, NoIds
  <2> HIDE DEF id
  <2>5. LET e == AddLink(inode, id, m)
        IN  /\ e[id].ext = inode[id].ext /\ e[id].synced = inode[id].synced
            /\ \A j \in Ids : j # id => e[j] = inode[j]
      BY <1>1, <2>4, AddLinkType
  <2>6. SameExt
      BY <2>4, <2>5 DEF SameExt
  <2>7. mig'.id # NoFile => inode'[mig'.id].synced = 0
      BY <1>1, <1>2, <2>4, <2>6 DEF NoIds, SameExt
  <2>8. rec'.file.ext = SubSeq(inode'[op'.id].ext, inode'[op'.id].synced + 1, Len(inode'[op'.id].ext))
      BY <2>2, <2>3, <2>4, <2>6 DEF SameExt
  <2>9. MemExt'
    <3>1. pc' = "persist"
        BY <1>2, <2>4
    <3> QED BY <2>2, <2>7, <2>8, <3>1 DEF MemExt
  <2> QED BY <1>3, <2>4, <2>6, <2>9 DEF ExtInv
<1> QED BY <1>4, <1>5, <1>6, <1>7, <1>8

(* A writer pushes an extent. *)
LEMMA PushExt ==
    ASSUME Types, FoundInv, ExtInv, NEW id \in Ids, PushExtent(id), spoilt' = {}
    PROVE  ExtInv'
<1>1. /\ pc = "idle" /\ pc' = "idle" /\ mig.id # id /\ mig' = mig /\ op' = op /\ found' = found
      /\ inode' = [inode EXCEPT ![id].ext = Append(@, "d")]
    BY DEF PushExtent, Mark, diskVars
<1>2. /\ inode \in [Ids -> Inodes] /\ mig.id \in NoIds
    BY OpParts
<1>3. /\ inode'[id].ext = Append(inode[id].ext, "d") /\ inode'[id].synced = inode[id].synced
      /\ \A j \in Ids : j # id => inode'[j] = inode[j]
    BY <1>1, <1>2 DEF Inodes
<1>4. /\ inode[id].ext \in Seq(Data) /\ inode[id].synced \in Nat
      /\ inode[id].synced <= Len(inode[id].ext) /\ Named(found.st.files) \subseteq Ids
    BY ExtTypes
<1>5. SubSeq(inode'[id].ext, 1, inode'[id].synced) = SubSeq(inode[id].ext, 1, inode[id].synced)
    BY <1>3, <1>4, ExtentLists DEF Data
<1>6. op.kind = "none" /\ ~MigDone /\ ~MigDone'
    BY <1>1 DEF Types, StepInv, MigDone
<1>7. mig.id # NoFile => inode'[mig.id].synced = 0
    BY <1>1, <1>2, <1>3, <1>6 DEF ExtInv, MemExt, NoIds
<1>8. pc' = "idle" /\ mig' = mig /\ op' = op /\ found' = found
    BY <1>1
<1>9. MemExt'
    BY <1>6, <1>7, <1>8 DEF MemExt
<1>10. DiskExt'
  <2> SUFFICES ASSUME NEW j \in Named(found.st.files)
               PROVE  found.st.inode[j].ext = IF j = mig.id THEN mig.ext
                                              ELSE SubSeq(inode'[j].ext, 1, inode'[j].synced)
      BY <1>6, <1>8 DEF DiskExt
  <2>1. found.st.inode[j].ext = IF j = mig.id THEN mig.ext
                                ELSE SubSeq(inode[j].ext, 1, inode[j].synced)
      BY <1>6 DEF ExtInv, DiskExt
  <2> QED BY <1>3, <1>4, <1>5, <2>1
<1> QED BY <1>9, <1>10 DEF ExtInv

(* The collector replaces the extents of a file. *)
LEMMA ReplaceExt ==
    ASSUME Types, FoundInv, NameInv, ExtInv, NEW id \in Ids, ReplaceExtentList(id)
    PROVE  ExtInv'
<1>1. /\ pc # "down" /\ op.kind # "mount" /\ mig = NoMig /\ inode[id].synced = Len(inode[id].ext)
      /\ ~(op.kind = "sync" /\ op.id = id) /\ \E n \in Names : files[n] = id
    BY DEF ReplaceExtentList
<1>2. pc' = pc /\ op' = op /\ rec' = rec /\ found' = found /\ files' = files
    BY DEF ReplaceExtentList, diskVars
<1>3. mig'.id = id /\ mig'.ext = inode[id].ext
    BY DEF ReplaceExtentList
<1>4. inode \in [Ids -> Inodes] /\ NoFile \notin Ids
      /\ (op.kind \notin {"none", "mount"} => op.id \in Ids)
      /\ op.kind \in OpKinds \cup {"none", "mount"} /\ op.phase \in {1, 2}
    BY OpParts
<1>5. /\ inode'[id].synced = 0 /\ \A j \in Ids : j # id => inode'[j] = inode[j]
  <2>1. inode' = [inode EXCEPT ![id] =
                    [links |-> @.links, ext |-> [i \in DOMAIN @.ext |-> "m"], synced |-> 0]]
      BY DEF ReplaceExtentList
  <2> QED BY <1>4, <2>1
<1>6. op.kind # "migrate" /\ ~MigDone /\ ~MigDone' /\ mig.id = NoFile
    BY <1>1, <1>2, <1>4 DEF ExtInv, MemExt, NoMig, MigDone
<1>7. MemCore
    BY <1>1 DEF NameInv
<1>8. op.kind = "create" /\ op.phase = 2 => op.id # id
    BY <1>1, <1>7 DEF MemCore, OpInv
<1>9. mig' # NoMig
    BY <1>3, <1>4 DEF NoMig
<1>10. pc = "persist" /\ ~Removing /\ ~(op.kind \in {"rename", "link"} /\ op.id = id) =>
         op.id \in Ids /\ op.id # id
  <2>1. pc = "persist" => op.kind # "none"
      BY DEF Types, StepInv
  <2> QED BY <1>1, <1>4, <1>6, <1>8, <2>1 DEF Removing, OpKinds
<1>11. MemExt'
  <2>1. (op.kind = "create" /\ op.phase = 2) => id # op.id /\ inode'[op.id].ext = <<>>
      BY <1>4, <1>5, <1>8 DEF ExtInv, MemExt
  <2>2. ASSUME pc = "persist", ~Removing, ~(op.kind \in {"rename", "link"} /\ op.id = id)
        PROVE  rec.file.ext = SubSeq(inode'[op.id].ext, inode'[op.id].synced + 1,
                                     Len(inode'[op.id].ext))
    <3>1. op.id \in Ids /\ inode'[op.id] = inode[op.id]
        BY <1>5, <1>10, <2>2
    <3>2. op.id # mig.id
        BY <1>4, <1>6, <3>1
    <3> QED BY <2>2, <3>1, <3>2 DEF ExtInv, MemExt
  <2>3. ASSUME pc = "reset", NEW j \in Ids
        PROVE  \/ \A n \in Names : files[n] # j
               \/ j = id
               \/ inode'[j].synced = Len(inode'[j].ext)
    <3>1. j # mig.id
        BY <1>4, <1>6
    <3> QED BY <1>5, <2>3, <3>1 DEF ExtInv, MemExt
  <2>4. Removing' <=> Removing
      BY <1>2 DEF Removing
  <2> HIDE DEF Removing
  <2> QED BY <1>1, <1>2, <1>3, <1>5, <1>6, <1>9, <2>1, <2>2, <2>3, <2>4 DEF MemExt
<1>12. DiskExt'
  <2> SUFFICES ASSUME NEW j \in Named(found.st.files)
               PROVE  found.st.inode[j].ext = IF j = id THEN inode[id].ext
                                              ELSE SubSeq(inode'[j].ext, 1, inode'[j].synced)
      BY <1>2, <1>3, <1>6 DEF DiskExt
  <2>1. j \in Ids /\ inode[j].ext \in Seq(Data)
      BY ExtTypes
  <2>2. found.st.inode[j].ext = SubSeq(inode[j].ext, 1, inode[j].synced)
      BY <1>4, <1>6, <2>1 DEF ExtInv, DiskExt
  <2>3. SubSeq(inode[j].ext, 1, Len(inode[j].ext)) = inode[j].ext
      BY <2>1, SubSeqFull
  <2> QED BY <1>1, <1>5, <2>1, <2>2, <2>3
<1> QED BY <1>11, <1>12 DEF ExtInv

(* The collector persists what it has replaced, or finds the file deleted. *)
LEMMA MigrateExt ==
    ASSUME Types, FoundInv, NameInv, DiskInv, ExtInv, SyncFileExtents
    PROVE  ExtInv'
<1>1. pc = "idle" /\ inode' = inode /\ found' = found /\ mig # NoMig /\ files' = files
    BY DEF SyncFileExtents, diskVars, memVars
<1>2. Settled /\ found.st.files = files /\ op.kind = "none"
    BY <1>1, IdleNames DEF DiskInv, Types, StepInv
<1>3. mig.id \in Ids /\ NoFile \notin Ids
  <2>1. mig.id \in NoIds /\ NoFile \notin Ids
      BY OpParts
  <2>2. mig.id # NoFile
      BY <1>1 DEF Types, MemTypes
  <2> QED BY <2>1, <2>2 DEF NoIds
<1>4. ~MigDone /\ inode[mig.id].synced = 0
    BY <1>1, <1>3 DEF MigDone, ExtInv, MemExt
<1>5. CASE inode[mig.id].links = <<>> /\ mig' = NoMig /\ UNCHANGED <<pc, op, rec>>
  <2>1. mig'.id = NoFile
      BY <1>5 DEF NoMig
  <2>2. pc' = "idle" /\ op'.kind = "none" /\ ~MigDone'
      BY <1>1, <1>2, <1>5 DEF MigDone
  <2>3. MemExt'
      BY <2>1, <2>2 DEF MemExt
  <2>4. mig.id \notin Named(files)
    <3>1. Links(inode)[mig.id] = <<>>
        BY <1>3, <1>5 DEF Links
    <3>2. Range(<<>>) = {}
        BY DEF Range
    <3>3. {n \in Names : files[n] = mig.id} = {}
        BY <1>2, <1>3, <3>1, <3>2 DEF Settled, Agree
    <3> QED BY <3>3 DEF Named
  <2>5. \A j \in Named(files) : j # mig.id /\ j # NoFile
      BY <2>4 DEF Named
  <2>6. DiskExt'
      BY <1>1, <1>2, <1>4, <2>1, <2>2, <2>5 DEF ExtInv, DiskExt
  <2> QED BY <2>3, <2>6 DEF ExtInv
<1>6. CASE /\ pc' = "persist" /\ op' = Operation("migrate", "-", "-", mig.id, 2)
           /\ rec' = FileReplace(mig.id) /\ mig' = mig
  <2>1. op'.kind = "migrate" /\ op'.id = mig.id /\ op'.phase = 2
      BY <1>6 DEF Operation
  <2>2. rec'.file.ext = SubSeq(inode[mig.id].ext, inode[mig.id].synced + 1, Len(inode[mig.id].ext))
      BY <1>6 DEF FileReplace, Encoded
  <2>3. pc' = "persist" /\ mig' = mig /\ ~MigDone'
      BY <1>6 DEF MigDone
  <2>4. MemExt'
      BY <1>1, <1>4, <2>1, <2>2, <2>3 DEF MemExt
  <2>5. DiskExt'
      BY <1>1, <1>4, <2>3 DEF ExtInv, DiskExt
  <2> QED BY <2>4, <2>5 DEF ExtInv
<1> QED BY <1>5, <1>6 DEF SyncFileExtents

(* An operation takes itself back. *)
LEMMA UndoneExt ==
    ASSUME Types, MemExt, pc = "persist", op.kind # "migrate", Undone
    PROVE  /\ MemExt' /\ pc' = "idle" /\ mig' = mig
           /\ \A id \in Ids : \/ op.kind = "create" /\ op.phase = 2 /\ id = op.id
                              \/ /\ inode'[id].ext = inode[id].ext
                                 /\ inode'[id].synced = inode[id].synced
<1>1. /\ inode \in [Ids -> Inodes] /\ op.kind \notin {"none", "mount"} /\ op.id \in Ids
      /\ mig.id \in NoIds /\ (Removing => Removed \in Names) /\ OpTypes
    BY OpParts DEF Types, StepInv
<1>2. /\ pc' = "idle" /\ op' = Resting(files') /\ mig' = mig
      /\ \/ Removing /\ inode' = AddLink(inode, op.id, Removed)
         \/ op.kind = "rename" /\ inode' = RenameLink(inode, op.id, op.to, op.name)
         \/ op.kind = "link" /\ inode' = DropLink(inode, op.id, op.to)
         \/ op.kind = "create" /\ op.phase = 2 /\ inode' = [inode EXCEPT ![op.id] = NoInode]
         \/ inode' = inode
    BY <1>1, UndoneSteps
<1>3. ASSUME NEW id \in Ids
      PROVE  \/ op.kind = "create" /\ op.phase = 2 /\ id = op.id
             \/ inode'[id].ext = inode[id].ext /\ inode'[id].synced = inode[id].synced
  <2>1. CASE Removing /\ inode' = AddLink(inode, op.id, Removed)
    <3>1. LET e == AddLink(inode, op.id, Removed)
          IN  /\ e[op.id].ext = inode[op.id].ext /\ e[op.id].synced = inode[op.id].synced
              /\ \A j \in Ids : j # op.id => e[j] = inode[j]
        BY <1>1, <2>1, AddLinkType
    <3> QED BY <2>1, <3>1
  <2>2. CASE op.kind = "rename" /\ inode' = RenameLink(inode, op.id, op.to, op.name)
    <3>1. op.name \in Names
        BY <1>1, <2>2 DEF OpTypes
    <3>2. LET e == RenameLink(inode, op.id, op.to, op.name)
          IN  /\ e[op.id].ext = inode[op.id].ext /\ e[op.id].synced = inode[op.id].synced
              /\ \A j \in Ids : j # op.id => e[j] = inode[j]
        BY <1>1, <3>1, RenameLinkType
    <3> QED BY <2>2, <3>2
  <2>3. CASE op.kind = "link" /\ inode' = DropLink(inode, op.id, op.to)
    <3>1. LET e == DropLink(inode, op.id, op.to)
          IN  /\ e[op.id].ext = inode[op.id].ext /\ e[op.id].synced = inode[op.id].synced
              /\ \A j \in Ids : j # op.id => e[j] = inode[j]
        BY <1>1, DropLinkType
    <3> QED BY <2>3, <3>1
  <2>4. CASE op.kind = "create" /\ op.phase = 2 /\ inode' = [inode EXCEPT ![op.id] = NoInode]
    <3>1. id # op.id => inode'[id] = inode[id]
        BY <1>1, <2>4
    <3> QED BY <2>4, <3>1
  <2> QED BY <1>2, <2>1, <2>2, <2>3, <2>4
<1>4. mig'.id # NoFile => inode'[mig'.id].synced = 0
  <2> SUFFICES ASSUME mig.id # NoFile PROVE inode'[mig.id].synced = 0
      BY <1>2
  <2>1. mig.id \in Ids /\ inode[mig.id].synced = 0
      BY <1>1 DEF NoIds, MemExt, MigDone
  <2>2. op.kind = "create" /\ op.phase = 2 => mig.id # op.id
      BY DEF MemExt
  <2> QED BY <1>3, <2>1, <2>2
<1>5. MemExt'
    BY <1>2, <1>4, RestingExt
<1> QED BY <1>2, <1>3, <1>5

(* The record of an operation is written, or the write fails. *)
LEMMA PersistExt ==
    ASSUME Types, FoundInv, NameInv, DiskInv, ExtInv, PersistRecord,
           Types', FoundInv', DiskInv', spoilt' = {}
    PROVE  ExtInv'
<1>1. pc = "persist" /\ UNCHANGED <<cur, old, seq>>
    BY DEF PersistRecord
<1>2. /\ MemCore /\ SoundLogs /\ op.kind # "none" /\ cur \in MZones /\ log \in Devices
      /\ OnDisk = op.before /\ MainZone = cur /\ op.kind # "mount" /\ OpInv
    BY <1>1, BusyNames DEF OnDisk, MainZone, Types, StepInv, MemCore
<1>3. /\ Main(log, cur) /\ found.zone = cur /\ found.st = Replayed(log[cur])
      /\ found.st.files = op.before /\ found.st.status = "OK" /\ found.st \in States
    BY <1>1, <1>2, DiskFacts
<1>4. /\ op.before \in FileMaps /\ files \in FileMaps /\ NoFile \notin Ids /\ op.id \in Ids
      /\ next_id \in Nat /\ mig.id \in NoIds /\ op.phase \in {1, 2}
      /\ op.kind \in OpKinds \cup {"none", "mount"}
    BY <1>2, OpParts
<1>5. /\ Named(found.st.files) \subseteq Ids
      /\ \A id \in Ids : /\ inode[id].ext \in Seq(Data) /\ inode[id].synced \in Nat
                         /\ inode[id].synced <= Len(inode[id].ext)
    BY ExtTypes
<1>6. MemExt /\ DiskExt /\ ~MigDone
    BY <1>1 DEF ExtInv, MigDone
<1>7. CASE Write(cur, rec) /\ Persisted(inode) /\ MarkOvertaken
  <2> DEFINE st == found.st
  <2>1. log' = Appended(log, cur, rec) /\ rec \in Updates \cup Deletions /\ rec \in Records
    <3>1. rec \in Updates \cup Deletions
        BY <1>1 DEF Types, RecTypes
    <3> QED BY <1>7, <3>1, WriteIs DEF Records
  <2>2. Agree(st.files, Links(st.inode))
    <3>1. Sound(log[cur]) /\ HasSnapshot(log[cur])
        BY <1>2, <1>3, MainParts DEF SoundLogs
    <3> QED BY <1>3, <3>1 DEF Sound
  <2>3. ~(op.kind \in {"rename", "link"} /\ op.phase = 2 /\ op.id = mig.id)
      BY <1>7 DEF MarkOvertaken, Mark
  <2>4. /\ MemExt' /\ pc' \in {"idle", "persist"}
        /\ mig' = (IF op.kind = "migrate" THEN NoMig ELSE mig)
        /\ \A id \in Ids : id < next_id =>
             /\ inode'[id].ext = inode[id].ext
             /\ inode'[id].synced = IF ~Removing /\ op.kind # "mount" /\ id = op.id
                                    THEN Len(inode[id].ext) ELSE inode[id].synced
      BY <1>2, <1>6, <1>7, <2>3, PersistedExt
  <2>5. op'.before = After /\ MainZone' = cur /\ OnDisk' = op'.before /\ ~MigDone' /\ pc' # "down"
      BY <1>1, <1>2, <1>7, <2>4, PersistedCore DEF MainZone, OnDisk, MigDone
  <2> HIDE DEF st
  <2>6. /\ Decode(st, rec).status = "OK" /\ Decode(st, rec).files = After
        /\ \A n \in Names : After[n] \in {st.files[n], NoFile} \cup IdsOf(rec)
        /\ IF Removing THEN \A id \in Ids : Decode(st, rec).inode[id].ext = st.inode[id].ext
           ELSE /\ \A id \in Ids : id # op.id =>
                     Decode(st, rec).inode[id].ext = st.inode[id].ext
                /\ Decode(st, rec).inode[op.id].ext =
                     IF op.kind = "create" \/ op.kind = "migrate" THEN rec.file.ext
                     ELSE st.inode[op.id].ext \o rec.file.ext
    <3>1. st \in States /\ st.status = "OK" /\ st.files = op.before
        BY <1>3 DEF st
    <3> QED BY <1>1, <1>2, <2>2, <3>1, RecEffect
  <2>7. Replayed(log'[cur]) = Decode(st, rec)
    <3>1. Replayed(log[cur]) = st
        BY <1>3 DEF st
    <3> QED BY <1>2, <1>3, <2>1, <2>6, <3>1, MainGrows
  <2>8. found'.st = Decode(st, rec)
      BY <2>5, <2>7, ExtFound
  <2>9. \A n \in Names : After[n] \in {st.files[n], NoFile, op.id}
    <3>1. IdsOf(rec) \subseteq {op.id}
      <4>1. CASE Removing
          BY <1>1, <1>2, <4>1 DEF MemCore, RecLinks, IdsOf
      <4>2. CASE ~Removing
        <5>1. rec.type \in {"update", "replace"} /\ rec.file.id = op.id
            BY <1>1, <1>2, <4>2 DEF MemCore, RecLinks
        <5> QED BY <5>1 DEF IdsOf
      <4> QED BY <4>1, <4>2
    <3> QED BY <2>6, <3>1
  <2>10. \A id \in Named(After) : id < next_id
    <3>1. \A n \in Names : After[n] \in {files[n], op.id}
        BY <1>4 DEF After, FileMaps
    <3> QED BY <1>2, <3>1 DEF MemCore, Named
  <2>11. st.files = op.before /\ st = found.st
      BY <1>3 DEF st
  <2>12. CASE Removing
    <3>1. After = files /\ mig' = mig /\ \A id \in Named(files) : id \in Named(op.before)
      <4>1. op.kind \in {"create", "rename", "delete"} /\ ~(op.kind = "create" /\ op.phase = 2)
            /\ Removed \in Names
          BY <2>12, OpParts DEF Removing
      <4>2. files = [op.before EXCEPT ![Removed] = NoFile]
          BY <1>2, <2>12 DEF OpInv
      <4> QED BY <1>4, <2>4, <4>1, <4>2 DEF After, Named, FileMaps
    <3>2. DiskExt'
      <4>1. ASSUME NEW id \in Named(found'.st.files)
            PROVE  /\ id \in Named(found.st.files)
                   /\ found'.st.inode[id].ext = found.st.inode[id].ext
                   /\ inode'[id].ext = inode[id].ext /\ inode'[id].synced = inode[id].synced
        <5>1. id \in Named(files)
            BY <2>6, <2>8, <3>1
        <5>2. id \in Named(found.st.files) /\ id \in Ids /\ id < next_id
            BY <1>3, <1>5, <2>10, <3>1, <5>1
        <5> QED BY <2>4, <2>6, <2>8, <2>11, <2>12, <5>2
      <4> QED BY <1>6, <2>5, <3>1, <4>1, DiskExtSame
    <3> QED BY <2>4, <3>2 DEF ExtInv
  <2>13. CASE ~Removing
    <3> DEFINE e == inode[op.id].ext
               k == inode[op.id].synced
    <3>0. op.phase = 2 /\ op.kind \in {"create", "sync", "rename", "link", "migrate"}
        BY <1>2, <1>4, <2>13 DEF Removing, OpKinds
    <3>2. SubSeq(e, 1, k) \o SubSeq(e, k + 1, Len(e)) = e /\ SubSeq(e, 1, Len(e)) = e
          /\ SubSeq(e, 0 + 1, Len(e)) = e
        BY <1>4, <1>5, ExtentLists
    <3>3. rec.file.ext = SubSeq(e, k + 1, Len(e))
        BY <1>1, <1>6, <2>3, <2>13, <3>0 DEF MemExt
    <3>4. op.kind # "migrate" => op.id # mig.id /\ mig' = mig
        BY <1>6, <2>3, <2>4, <3>0 DEF MemExt
    <3>5. op.kind = "migrate" => k = 0 /\ mig.id = op.id /\ mig' = NoMig
        BY <1>4, <1>6, <2>4 DEF MemExt
    <3>6. op.kind = "create" => e = <<>> /\ rec.file.ext = <<>>
        BY <1>1, <1>2, <1>6, <2>13, <3>0 DEF MemExt, MemCore, RecLinks
    <3>7. op.kind # "create" => op.id \in Named(op.before)
        BY <1>1, <1>2, <1>4, <2>13 DEF MemCore, RecLinks, Named
    <3>8. op.id \in Named(After) => Decode(st, rec).inode[op.id].ext = e
      <4>1. CASE op.kind = "create"
          BY <2>6, <2>13, <3>6, <4>1
      <4>2. CASE op.kind = "migrate"
          BY <2>6, <2>13, <3>2, <3>3, <3>5, <4>2
      <4>3. CASE op.kind \notin {"create", "migrate"}
        <5>1. st.inode[op.id].ext = SubSeq(e, 1, k)
            BY <1>6, <2>11, <3>4, <3>7, <4>3 DEF DiskExt
        <5> QED BY <2>6, <2>13, <3>2, <3>3, <4>3, <5>1
      <4> QED BY <4>1, <4>2, <4>3
    <3> HIDE DEF e, k
    <3>9. ASSUME NEW id \in Named(After)
          PROVE  Decode(st, rec).inode[id].ext = IF id = mig'.id THEN mig'.ext
                                                 ELSE SubSeq(inode'[id].ext, 1, inode'[id].synced)
      <4>1. id # NoFile /\ id \in Ids
        <5>1. id # NoFile /\ id \in Named(op.before) \cup {op.id}
            BY <2>9, <2>11 DEF Named
        <5> QED BY <1>3, <1>4, <1>5, <5>1
      <4>2. CASE id = op.id
        <5>1. inode'[id].ext = e /\ inode'[id].synced = Len(e)
            BY <1>2, <2>4, <2>10, <2>13, <3>9, <4>1, <4>2 DEF e
        <5>2. id # mig'.id
            BY <3>4, <3>5, <4>1, <4>2 DEF NoMig
        <5> QED BY <3>2, <3>8, <3>9, <4>2, <5>1, <5>2
      <4>3. CASE id # op.id
        <5>1. id \in Named(op.before)
            BY <2>9, <2>11, <4>3 DEF Named
        <5>2. st.inode[id].ext = IF id = mig.id THEN mig.ext
                                 ELSE SubSeq(inode[id].ext, 1, inode[id].synced)
            BY <1>6, <2>11, <5>1 DEF DiskExt
        <5>3. inode'[id].ext = inode[id].ext /\ inode'[id].synced = inode[id].synced
            BY <2>4, <2>10, <3>9, <4>1, <4>3
        <5>4. op.kind = "migrate" => id # mig.id /\ id # mig'.id
            BY <3>5, <4>1, <4>3 DEF NoMig
        <5>5. Decode(st, rec).inode[id].ext = st.inode[id].ext
            BY <2>6, <2>13, <4>1, <4>3
        <5> QED BY <3>4, <5>2, <5>3, <5>4, <5>5
      <4> QED BY <4>2, <4>3
    <3>10. DiskExt'
        BY <2>5, <2>6, <2>8, <3>9 DEF DiskExt
    <3> QED BY <2>4, <3>10 DEF ExtInv
  <2> QED BY <2>12, <2>13
<1>8. CASE WriteFails(cur) /\ Undone
  <2>1. found' = found /\ op.kind # "migrate"
      BY <1>8 DEF WriteFails, Untouched, Mark
  <2>2. /\ MemExt' /\ pc' = "idle" /\ mig' = mig
        /\ \A id \in Ids : \/ op.kind = "create" /\ op.phase = 2 /\ id = op.id
                           \/ /\ inode'[id].ext = inode[id].ext
                              /\ inode'[id].synced = inode[id].synced
      BY <1>1, <1>6, <1>8, <2>1, UndoneExt
  <2>3. \A id \in Named(found.st.files) : ~(op.kind = "create" /\ op.phase = 2 /\ id = op.id)
      BY <1>2, <1>3 DEF OpInv, Named
  <2>4. ~MigDone'
      BY <2>2 DEF MigDone
  <2>5. DiskExt'
      BY <1>5, <1>6, <2>1, <2>2, <2>3, <2>4, DiskExtSame
  <2> QED BY <2>2, <2>5 DEF ExtInv
<1> QED BY <1>7, <1>8 DEF PersistRecord

(* The steps of a roll up to the snapshot leave what a mount would recover. *)
LEMMA RollFound ==
    ASSUME Types, FoundInv, DiskInv, Types', FoundInv', DiskInv', Unspoilt',
           AllocateMetaZone \/ WriteEndRecord \/ FinishOldZone \/ WriteSuperblock
    PROVE  /\ found'.st = found.st /\ UNCHANGED <<files, inode, mig, op>>
           /\ pc \in {"alloc", "end", "finish", "super"} /\ pc' \in {"end", "finish", "super", "snap"}
<1>1. /\ UNCHANGED <<files, inode, mig, op>>
      /\ pc \in {"alloc", "end", "finish", "super"} /\ pc' \in {"end", "finish", "super", "snap"}
  <2>1. CASE AllocateMetaZone
      BY <2>1 DEF AllocateMetaZone, Unspoilt, Mark, memVars
  <2>2. CASE WriteEndRecord
      BY <2>2 DEF WriteEndRecord, memVars
  <2>3. CASE FinishOldZone
      BY <2>3 DEF FinishOldZone, memVars
  <2>4. CASE WriteSuperblock
      BY <2>4 DEF WriteSuperblock, Unspoilt, Mark, memVars
  <2> QED BY <2>1, <2>2, <2>3, <2>4
<1>2. /\ found'.st = Replayed(log'[MainZone']) /\ found.st = Replayed(log[MainZone])
      /\ MainZone \in MZones /\ Main(log, MainZone) /\ log \in Devices
    BY <1>1, ExtFound, DiskFacts
<1>3. Replayed(log'[MainZone']) = Replayed(log[MainZone])
  <2>1. CASE AllocateMetaZone
    <3>1. PICK z \in MZones \ {cur} : Contents([log EXCEPT ![z] = <<>>]) /\ old' = cur /\ pc' = "end"
        BY <2>1 DEF AllocateMetaZone, Unspoilt, Mark
    <3>2. pc = "alloc" /\ MainZone = cur /\ MainZone' = cur
        BY <2>1, <3>1 DEF AllocateMetaZone, MainZone
    <3>3. log'[cur] = log[cur]
        BY <1>2, <3>1, <3>2 DEF Contents, Devices
    <3> QED BY <3>2, <3>3
  <2>2. CASE WriteEndRecord \/ FinishOldZone
    <3>1. pc \in {"end", "finish"} /\ old' = old /\ pc' \in {"finish", "super"}
        BY <2>2 DEF WriteEndRecord, FinishOldZone
    <3>2. MainZone = old /\ MainZone' = old
        BY <3>1 DEF MainZone
    <3> DEFINE r == [type |-> "end"]
    <3>3. log' = log \/ log' = Appended(log, old, r)
        BY <2>2, WriteIs DEF WriteEndRecord, FinishOldZone, Untouched, Unspoilt, Mark
    <3>4. r \in Records /\ r.type = "end"
        BY DEF Records, Marked
    <3>5. Decode(Replayed(log[old]), r) = Replayed(log[old])
        BY <3>4 DEF Decode
    <3> HIDE DEF r
    <3>6. log' = Appended(log, old, r) => Replayed(log'[old]) = Replayed(log[old])
      <4>1. Replayed(log[old]).status = "OK"
          BY <1>2, <3>2 DEF Main
      <4> QED BY <1>2, <3>2, <3>4, <3>5, <4>1, MainGrows
    <3> QED BY <3>2, <3>3, <3>6
  <2>3. CASE WriteSuperblock
    <3>1. pc = "super" /\ pc' = "snap" /\ old' = old /\ Write(cur, [type |-> "super", seq |-> seq'])
        BY <2>3 DEF WriteSuperblock, Unspoilt, Mark
    <3>2. MainZone = old /\ MainZone' = old /\ old # cur /\ old \in MZones
        BY <3>1 DEF MainZone, Types, StepInv
    <3>3. log'[old] = log[old]
        BY <1>2, <3>1, <3>2 DEF Write, Contents, Devices
    <3> QED BY <3>2, <3>3
  <2> QED BY <2>1, <2>2, <2>3
<1> QED BY <1>1, <1>2, <1>3

(* Steps that leave the extents alone. *)
LEMMA QuietExt ==
    ASSUME Types, FoundInv, DiskInv, ExtInv, Types', FoundInv', DiskInv', Unspoilt',
           NoSpace \/ EncodeSnapshotTo \/ AllocateMetaZone \/ WriteEndRecord
           \/ FinishOldZone \/ WriteSuperblock
    PROVE  ExtInv'
<1>1. /\ found'.st = found.st /\ UNCHANGED <<files, inode, mig, op>>
      /\ pc \notin {"reset", "down"} /\ pc' \in {"alloc", "end", "finish", "super", "snap", "write"}
      /\ (pc' = "write" => rec' = Snapshot)
  <2>1. CASE NoSpace
      BY <2>1 DEF NoSpace, diskVars, memVars
  <2>2. CASE EncodeSnapshotTo
      BY <2>2 DEF EncodeSnapshotTo, diskVars, memVars
  <2>3. CASE AllocateMetaZone \/ WriteEndRecord \/ FinishOldZone \/ WriteSuperblock
      BY <2>3, RollFound
  <2> QED BY <2>1, <2>2, <2>3
<1>2. ~MigDone /\ ~MigDone' /\ SameExt
    BY <1>1 DEF MigDone, SameExt
<1>3. Snapshot' = Snapshot
    BY <1>1 DEF Snapshot, Encoded
<1>4. MemExt'
    BY <1>1, <1>2, <1>3 DEF ExtInv, MemExt
<1>5. DiskExt'
    BY <1>1, <1>2, SameExtDisk DEF ExtInv
<1> QED BY <1>4, <1>5 DEF ExtInv

(* The new zone gets its snapshot. *)
LEMMA WriteExt ==
    ASSUME Types, FoundInv, NameInv, DiskInv, ExtInv, WriteSnapshotLocked,
           Types', FoundInv', DiskInv', spoilt' = {}
    PROVE  ExtInv'
<1>1. /\ pc = "write" /\ pc' = "reset" /\ Write(cur, rec) /\ inode' = SyncedAll
      /\ UNCHANGED <<cur, old, op, files, mig>> /\ (mig = NoMig \/ op.kind = "migrate")
    BY DEF WriteSnapshotLocked, Mark
<1>2. MemCore /\ cur \in MZones /\ log \in Devices /\ log[cur] \in Seq(Records)
    BY <1>1, BusyNames
<1>3. Len(log[cur]) = 1
  <2>1. log[cur] = <<[type |-> "super", seq |-> seq]>>
      BY <1>1 DEF Types, StepInv
  <2> QED BY <2>1
<1> DEFINE k == Append(log[cur], rec)
<1>4. /\ Replayed(k).files = files
      /\ \A id \in Named(files) : \E f \in rec.files : f.id = id /\ Replayed(k).inode[id].ext = f.ext
    BY <1>1, <1>2, <1>3, SnapshotLog
<1>5. found'.st = Replayed(k)
  <2>1. log'[cur] = k
      BY <1>1, <1>2 DEF Write, Contents, Devices
  <2>2. MainZone' = cur
      BY <1>1 DEF MainZone
  <2> QED BY <1>1, <2>1, <2>2, ExtFound
<1> HIDE DEF k
<1>6. /\ files \in FileMaps /\ inode \in [Ids -> Inodes] /\ NoFile \notin Ids
    BY OpParts
<1>7. Named(files) \subseteq Ids /\ \A id \in Named(files) : \E n \in Names : files[n] = id
    BY <1>6 DEF Named, FileMaps, NoIds
<1>8. \A id \in Ids : inode[id].ext \in Seq(Data) /\ SubSeq(inode[id].ext, 0 + 1, Len(inode[id].ext)) = inode[id].ext
                      /\ SubSeq(inode[id].ext, 1, Len(inode[id].ext)) = inode[id].ext
    BY ExtTypes, ExtentLists
<1>9. \A f \in rec.files : f.ext = SubSeq(inode[f.id].ext, 0 + 1, Len(inode[f.id].ext))
  <2>1. rec = Snapshot
      BY <1>1 DEF ExtInv, MemExt
  <2> QED BY <2>1 DEF Snapshot, Encoded
<1>10. \A id \in Named(files) : Replayed(k).inode[id].ext = inode[id].ext
    BY <1>4, <1>7, <1>8, <1>9
<1>11. \A id \in Ids : /\ inode'[id].ext = inode[id].ext
                       /\ inode'[id].synced = IF \E n \in Names : files[n] = id THEN Len(inode[id].ext)
                                              ELSE inode[id].synced
    BY <1>1, <1>6, SyncedAllType
<1>12. MigDone' <=> op.kind = "migrate"
    BY <1>1 DEF MigDone
<1>13. MemExt'
  <2>1. op.kind = "create" /\ op.phase = 2 => FALSE
      BY <1>1, <1>2 DEF MemCore, Rolling
  <2>2. mig'.id # NoFile => MigDone'
      BY <1>1, <1>12 DEF NoMig
  <2>3. \A id \in Ids : (\E n \in Names : files[n] = id) => inode'[id].synced = Len(inode'[id].ext)
      BY <1>11
  <2>4. pc' = "reset" /\ op' = op /\ mig' = mig /\ files' = files
      BY <1>1
  <2> QED BY <2>1, <2>2, <2>3, <2>4 DEF ExtInv, MemExt
<1>14. DiskExt'
  <2> SUFFICES ASSUME NEW id \in Named(files)
               PROVE  Replayed(k).inode[id].ext = IF id = mig.id /\ ~MigDone' THEN mig.ext
                                        ELSE SubSeq(inode'[id].ext, 1, inode'[id].synced)
      BY <1>1, <1>4, <1>5 DEF DiskExt
  <2>1. id \in Ids /\ id # NoFile /\ inode'[id].ext = inode[id].ext /\ inode'[id].synced = Len(inode[id].ext)
      BY <1>6, <1>7, <1>11
  <2>2. ~(id = mig.id /\ ~MigDone')
      BY <1>1, <1>12, <2>1 DEF NoMig
  <2> QED BY <1>8, <1>10, <2>1, <2>2
<1> QED BY <1>13, <1>14 DEF ExtInv

(* The roll is over. *)
LEMMA ResetExt ==
    ASSUME Types, FoundInv, NameInv, DiskInv, ExtInv, ResetOldZone,
           Types', FoundInv', DiskInv', spoilt' = {}
    PROVE  ExtInv'
<1>1. /\ pc = "reset" /\ Persisted(inode) /\ cur' = cur
    BY DEF ResetOldZone
<1>2. MemCore /\ op.kind # "none" /\ OnDisk = files /\ MainZone = cur
    BY <1>1, BusyNames DEF OnDisk, MainZone
<1>3. /\ log \in Devices /\ found.st = Replayed(log[cur]) /\ found.st.files = files
      /\ old \in MZones /\ old # cur /\ cur \in MZones
    BY <1>1, <1>2, DiskFacts DEF Types, StepInv
<1>4. log'[cur] = log[cur]
    BY <1>3 DEF ResetOldZone, Contents, Untouched, Devices
<1>5. ~(op.kind \in {"rename", "link"} /\ op.phase = 2 /\ op.id = mig.id)
    BY DEF ResetOldZone, MarkOvertaken, Mark
<1>6. /\ MemExt' /\ pc' \in {"idle", "persist"}
      /\ mig' = (IF op.kind = "migrate" THEN NoMig ELSE mig)
      /\ \A id \in Ids : id < next_id =>
           /\ inode'[id].ext = inode[id].ext
           /\ inode'[id].synced = IF ~Removing /\ op.kind # "mount" /\ id = op.id
                                  THEN Len(inode[id].ext) ELSE inode[id].synced
    BY <1>1, <1>2, <1>5, PersistedExt DEF ExtInv
<1>7. found'.st = found.st
  <2>1. MainZone' = cur /\ pc' # "down"
      BY <1>1, <1>6 DEF MainZone
  <2> QED BY <1>3, <1>4, <2>1, ExtFound
<1>8. /\ Named(found.st.files) \subseteq Ids
      /\ \A id \in Ids : inode[id].ext \in Seq(Data) /\ inode[id].synced \in Nat
                         /\ inode[id].synced <= Len(inode[id].ext)
    BY ExtTypes
<1>9. DiskExt'
  <2> SUFFICES ASSUME NEW id \in Named(found.st.files)
               PROVE  found.st.inode[id].ext = IF id = mig'.id THEN mig'.ext
                                               ELSE SubSeq(inode'[id].ext, 1, inode'[id].synced)
    <3>1. ~MigDone'
        BY <1>6 DEF MigDone
    <3> QED BY <1>7, <3>1 DEF DiskExt
  <2>1. id \in Ids /\ id # NoFile /\ id < next_id /\ \E n \in Names : files[n] = id
      BY <1>2, <1>3, <1>8 DEF MemCore, Named
  <2>2. found.st.inode[id].ext = IF id = mig.id /\ ~MigDone THEN mig.ext
                                 ELSE SubSeq(inode[id].ext, 1, inode[id].synced)
      BY DEF ExtInv, DiskExt
  <2>3. (id = mig.id /\ ~MigDone) \/ inode[id].synced = Len(inode[id].ext)
      BY <1>1, <2>1 DEF ExtInv, MemExt
  <2>4. MigDone <=> op.kind = "migrate"
      BY <1>1 DEF MigDone
  <2>5. CASE id = mig.id /\ ~MigDone
    <3>1. mig' = mig
        BY <1>6, <2>4, <2>5
    <3> QED BY <2>2, <2>5, <3>1
  <2>6. CASE ~(id = mig.id /\ ~MigDone)
    <3>1. inode'[id].ext = inode[id].ext /\ inode'[id].synced = inode[id].synced
        BY <1>6, <2>1, <2>3, <2>6
    <3>2. id # mig'.id
        BY <1>6, <2>1, <2>4, <2>6 DEF NoMig
    <3> QED BY <2>2, <2>6, <3>1, <3>2
  <2> QED BY <2>5, <2>6
<1> QED BY <1>6, <1>9 DEF ExtInv

(* The extents that a mount finds. *)
LEMMA ExtDurable ==
    ASSUME Types, FoundInv, NameInv, DiskInv, ExtInv, pc # "down"
    PROVE  ExtentsDurable
<1> SUFFICES ASSUME NEW id \in Named(found.st.files)
             PROVE  IF id = mig.id THEN found.st.inode[id].ext \in {mig.ext, inode[id].ext}
                    ELSE /\ IsPrefix(SubSeq(inode[id].ext, 1, inode[id].synced), found.st.inode[id].ext)
                         /\ IsPrefix(found.st.inode[id].ext, inode[id].ext)
    BY DEF ExtentsDurable, Named
<1> DEFINE e == inode[id].ext
           k == inode[id].synced
<1>1. id \in Ids /\ e \in Seq(Data) /\ k \in Nat /\ k <= Len(e)
    BY ExtTypes
<1>2. /\ SubSeq(e, 1, Len(e)) = e
      /\ IsPrefix(SubSeq(e, 1, k), SubSeq(e, 1, k)) /\ IsPrefix(SubSeq(e, 1, k), e)
    BY <1>1, ExtentLists
<1>3. found.st.inode[id].ext = IF id = mig.id /\ ~MigDone THEN mig.ext ELSE SubSeq(e, 1, k)
    BY DEF ExtInv, DiskExt
<1>4. MigDone => k = Len(e)
  <2> SUFFICES ASSUME MigDone PROVE k = Len(e)
      OBVIOUS
  <2>1. pc = "reset"
      BY DEF MigDone
  <2>2. found.st.files = files
      BY <2>1 DEF DiskInv, OnDisk
  <2>3. \E n \in Names : files[n] = id
      BY <2>2 DEF Named
  <2> QED BY <1>1, <2>1, <2>3 DEF ExtInv, MemExt
<1> HIDE DEF e, k
<1>5. CASE id = mig.id
  <2>1. found.st.inode[id].ext \in {mig.ext, e}
      BY <1>2, <1>3, <1>4, <1>5
  <2> QED BY <1>5, <2>1 DEF e
<1>6. CASE id # mig.id
  <2>1. IsPrefix(SubSeq(e, 1, k), found.st.inode[id].ext) /\ IsPrefix(found.st.inode[id].ext, e)
      BY <1>2, <1>3, <1>6
  <2> QED BY <1>6, <2>1 DEF e, k
<1> QED BY <1>5, <1>6

(* A mount starts with what it has found. *)
LEMMA MountExt ==
    ASSUME Types, FoundInv, DiskInv, Mount
    PROVE  ExtInv'
<1>1. /\ inode' = found.st.inode /\ mig' = NoMig /\ pc' = "alloc" /\ found' = found
    BY DEF Mount
<1>2. op'.kind = "mount"
  <2>1. op' = [NoOp EXCEPT !.kind = "mount", !.before = found.st.files]
      BY DEF Mount
  <2> QED BY <2>1 DEF NoOp
<1>3. /\ log[found.zone] \in Seq(Records) /\ Len(log[found.zone]) >= 2
      /\ found.st = Replayed(log[found.zone]) /\ found.st \in States
    BY DiskFacts, MainParts
<1>4. AllSynced(found.st)
    BY <1>3, ReplaySynced
<1>5. mig'.id = NoFile /\ ~MigDone'
    BY <1>1 DEF NoMig, MigDone
<1>6. MemExt'
    BY <1>1, <1>2, <1>5 DEF MemExt
<1>7. DiskExt'
  <2> SUFFICES ASSUME NEW id \in Named(found.st.files)
               PROVE  found.st.inode[id].ext = SubSeq(inode'[id].ext, 1, inode'[id].synced)
    <3>1. \A id \in Named(found.st.files) : id # NoFile
        BY DEF Named
    <3> QED BY <1>1, <1>5, <3>1 DEF DiskExt
  <2>1. id \in Ids
      BY ExtTypes
  <2>2. found.st.inode[id].ext \in Seq(Data)
      BY <1>3, <2>1, StateParts, InodeParts
  <2>3. inode'[id].ext = found.st.inode[id].ext /\ inode'[id].synced = Len(found.st.inode[id].ext)
      BY <1>1, <1>4, <2>1 DEF AllSynced
  <2> QED BY <2>2, <2>3, SubSeqFull
<1> QED BY <1>6, <1>7 DEF ExtInv

\* The part of the inductive invariant about extents.
ExtState == IF pc = "down" THEN ExtentsDurable ELSE ExtInv
ExtPart == DiskPart /\ (spoilt = {} => ExtState)

(* Every step keeps the extents, unless something happens that the log does not survive. *)
LEMMA ExtStep ==
    ASSUME Types, FoundInv, NameInv, DiskInv, ExtState, Next,
           Types', FoundInv', DiskInv', spoilt' = {}
    PROVE  ExtState'
<1>0. Unspoilt'
    BY DEF Unspoilt
<1>1. CASE \/ \E n \in Names : OpenWritableFile(n) \/ SyncFileMetadata(n) \/ DeleteFile(n)
           \/ \E n, m \in Names : RenameFile(n, m) \/ LinkFile(n, m)
  <2>1. pc = "idle" /\ pc' = "persist"
      BY <1>1 DEF OpenWritableFile, SyncFileMetadata, DeleteFile, RenameFile, LinkFile, Start
  <2>2. ExtInv
      BY <2>1 DEF ExtState
  <2>3. ExtInv'
      BY <1>1, <2>2, StartExt
  <2> QED BY <2>1, <2>3 DEF ExtState
<1>2. ASSUME NEW id \in Ids, PushExtent(id) \/ ReplaceExtentList(id) PROVE ExtState'
  <2>1. pc # "down" /\ pc' = pc
      BY <1>2 DEF PushExtent, ReplaceExtentList
  <2>2. ExtInv
      BY <2>1 DEF ExtState
  <2>3. ExtInv'
      BY <1>2, <2>2, PushExt, ReplaceExt
  <2> QED BY <2>1, <2>3 DEF ExtState
<1>3. CASE SyncFileExtents
  <2>1. pc = "idle" /\ pc' # "down"
      BY <1>3 DEF SyncFileExtents
  <2>2. ExtInv
      BY <2>1 DEF ExtState
  <2>3. ExtInv'
      BY <1>3, <2>2, MigrateExt
  <2> QED BY <2>1, <2>3 DEF ExtState
<1>4. CASE PersistRecord \/ WriteSnapshotLocked \/ ResetOldZone
  <2>1. ExtInv
      BY <1>4 DEF ExtState, PersistRecord, WriteSnapshotLocked, ResetOldZone
  <2>2. ExtInv'
      BY <1>4, <2>1, PersistExt, WriteExt, ResetExt
  <2>3. pc' # "down"
    <3>1. CASE WriteSnapshotLocked
        BY <3>1 DEF WriteSnapshotLocked, Mark
    <3>2. CASE PersistRecord \/ ResetOldZone
      <4>1. pc \in {"persist", "reset"} /\ (Persisted(inode) \/ (pc = "persist" /\ Undone))
          BY <3>2 DEF PersistRecord, ResetOldZone
      <4>2. MemCore /\ op.kind # "none" /\ (pc = "persist" => op.kind # "mount")
          BY <4>1, BusyNames DEF Types, StepInv
      <4> QED BY <4>1, <4>2, PersistedCore, UndoneCore
    <3> QED BY <1>4, <3>1, <3>2
  <2> QED BY <2>2, <2>3 DEF ExtState
<1>5. CASE NoSpace \/ EncodeSnapshotTo \/ AllocateMetaZone \/ WriteEndRecord
           \/ FinishOldZone \/ WriteSuperblock
  <2>1. pc # "down"
      BY <1>5 DEF NoSpace, EncodeSnapshotTo, AllocateMetaZone, WriteEndRecord,
                  FinishOldZone, WriteSuperblock
  <2>2. ExtInv
      BY <2>1 DEF ExtState
  <2>3. ExtInv'
      BY <1>0, <1>5, <2>2, QuietExt
  <2>4. pc' # "down"
      BY <1>0, <1>5, RollFound DEF NoSpace, EncodeSnapshotTo
  <2> QED BY <2>3, <2>4 DEF ExtState
<1>6. CASE Crash
  <2>1. pc # "down" /\ pc' = "down" /\ UNCHANGED <<found, inode, mig>>
      BY <1>6 DEF Crash, Untouched, Mark, memVars
  <2>2. ExtentsDurable
      BY <2>1, ExtDurable DEF ExtState
  <2>3. ExtentsDurable'
      BY <2>1, <2>2 DEF ExtentsDurable
  <2> QED BY <2>1, <2>3 DEF ExtState
<1>7. CASE Mount
  <2>1. pc' = "alloc"
      BY <1>7 DEF Mount
  <2> QED BY <1>7, <2>1, MountExt DEF ExtState
<1> QED BY <1>1, <1>2, <1>3, <1>4, <1>5, <1>6, <1>7 DEF Next

(* The extents of MkFS. *)
LEMMA InitExt ==
    ASSUME Init
    PROVE  ExtState
<1>1. pc = "down" /\ mig = NoMig
      /\ inode = [id \in Ids |->
           IF id \in InitIds
           THEN [links |-> InitLinks(id), ext |-> <<"d">>, synced |-> 1] ELSE NoInode]
    BY DEF Init
<1>2. found.st = Replayed(log[1]) /\ Replayed(log[1]).files = files /\ files = InitFiles
    BY InitDiskInv, InitNames DEF Init
<1>3. Types /\ FoundInv
    BY InitTypes
<1>4. \A id \in Named(files) : id \in InitIds /\ id # NoFile
    BY <1>2 DEF Named, InitIds
<1>5. \A id \in Named(files) : Replayed(log[1]).inode[id].ext = <<"d">>
    BY InitNames
<1>6. Named(found.st.files) \subseteq Ids
    BY <1>3, ExtTypes
<1>7. mig.id = NoFile
    BY <1>1 DEF NoMig
<1> DEFINE e == <<"d">>
<1>8. IsPrefix(SubSeq(e, 1, 1), e) /\ IsPrefix(e, e)
  <2>1. e \in Seq(Data) /\ Len(e) = 1
      BY DEF Data
  <2> HIDE DEF e
  <2>2. SubSeq(e, 1, 1) = e
      BY <2>1, ExtentLists
  <2>3. \A k \in Nat : k <= Len(e) => IsPrefix(SubSeq(e, 1, k), e)
      BY <2>1, ExtentLists
  <2>4. IsPrefix(SubSeq(e, 1, 1), e)
      BY <2>1, <2>3
  <2> QED BY <2>2, <2>4
<1> HIDE DEF e
<1>9. ASSUME NEW id \in Named(found.st.files)
      PROVE  /\ id # mig.id
             /\ IsPrefix(SubSeq(inode[id].ext, 1, inode[id].synced), found.st.inode[id].ext)
             /\ IsPrefix(found.st.inode[id].ext, inode[id].ext)
  <2>1. id \in Ids /\ id \in InitIds /\ id # NoFile
      BY <1>2, <1>4, <1>6
  <2>2. inode[id].ext = e /\ inode[id].synced = 1
      BY <1>1, <2>1 DEF e
  <2>3. found.st.inode[id].ext = e
      BY <1>2, <1>5 DEF e
  <2> QED BY <1>7, <1>8, <2>1, <2>2, <2>3
<1>10. ExtentsDurable
    BY <1>9 DEF ExtentsDurable, Named
<1> QED BY <1>1, <1>10 DEF ExtState

(* The inductive invariant about extents: the log has the extents that count as synced, *)
(* and the old ones of a file under migration (MetadataSynced, WriteSnapshotLocked,     *)
(* ReplaceExtentList, SyncFileExtents).                                                 *)
THEOREM MetaLogExtInv == Spec => []ExtPart
<1>1. Init => ExtPart
    BY InitTypes, InitNames, InitDiskInv, InitExt DEF ExtPart, DiskPart, NamesPart
<1>2. ExtPart /\ DiskPart' /\ [Next]_vars => ExtPart'
  <2> SUFFICES ASSUME ExtPart, DiskPart', [Next]_vars, spoilt' = {} PROVE ExtState'
      BY DEF ExtPart
  <2>0. Types' /\ FoundInv' /\ DiskInv'
      BY DEF DiskPart, NamesPart, Unspoilt
  <2>1. CASE Next
    <3>1. spoilt = {}
        BY <2>1, SpoiltGrows
    <3>2. Types /\ FoundInv /\ NameInv /\ DiskInv /\ ExtState
        BY <3>1 DEF ExtPart, DiskPart, NamesPart, Unspoilt
    <3> QED BY <2>0, <2>1, <3>2, ExtStep
  <2>2. CASE UNCHANGED vars
    <3>1. ExtState
        BY <2>2 DEF vars, ExtPart
    <3>2. UNCHANGED <<found, inode, mig, pc, op, rec, files>>
        BY <2>2 DEF vars
    <3>3. (MigDone' <=> MigDone) /\ (Removing' <=> Removing) /\ Snapshot' = Snapshot
        BY <3>2 DEF MigDone, Removing, Snapshot, Encoded
    <3>4. CASE pc = "down"
        BY <3>1, <3>2, <3>4 DEF ExtState, ExtentsDurable
    <3>5. CASE pc # "down"
      <4>1. MemExt'
          BY <3>1, <3>2, <3>3, <3>5 DEF ExtState, ExtInv, MemExt
      <4>2. DiskExt'
          BY <3>1, <3>2, <3>3, <3>5 DEF ExtState, ExtInv, DiskExt
      <4> QED BY <3>2, <3>5, <4>1, <4>2 DEF ExtState, ExtInv
    <3> QED BY <3>4, <3>5
  <2> QED BY <2>1, <2>2
<1> QED BY <1>1, <1>2, MetaLogDiskInv, PTL DEF Spec

(* With an unspoilt history a mount finds the extents. *)
LEMMA ExtentsKept ==
    ASSUME ExtPart, spoilt = {}
    PROVE  ExtentsDurable
<1>1. Types /\ FoundInv /\ NameInv /\ DiskInv /\ ExtState
    BY DEF ExtPart, DiskPart, NamesPart, Unspoilt
<1> QED BY <1>1, ExtDurable DEF ExtState

(* Whatever operations, writers, migrations, crashes and failed writes come in whatever *)
(* order, for every number of names, zones and records: the name space is found by the  *)
(* next mount unless a write was cut short, a roll given up or a creation lost, and the *)
(* extents unless a migration or a push came between (PersistRecord,                    *)
(* RollMetaZoneLocked, Mount).                                                          *)
THEOREM MetaLogSurvives == Spec => []SurvivesFaults
<1>1. ExtPart => SurvivesFaults
    BY DiskDurable, ExtentsKept DEF SurvivesFaults, Unspoilt, ExtPart
<1> QED BY <1>1, MetaLogExtInv, PTL

-----------------------------------------------------------------------------
(* Refinement: what a mount would find changes by whole operations.        *)

(* An operation becomes visible. *)
LEMMA OpRefines ==
    ASSUME Types, MemCore, found.st.files = op.before, found'.st.files = After
    PROVE  NS!Next \/ found'.st.files = found.st.files
<1>1. /\ op.before \in FileMaps /\ files \in FileMaps /\ NoFile \notin Ids
      /\ op.phase \in {1, 2} /\ op.kind \in OpKinds \cup {"none", "mount"}
      /\ op.kind \notin {"none", "mount"} => op.id \in Ids
      /\ Removing => Removed \in Names /\ op.kind \in {"create", "rename", "delete"}
    BY OpParts
<1>2. OpTypes /\ OpInv
    BY DEF Types, MemCore
<1>3. CASE Removing
  <2>1. Removed \in Names /\ op.id \in Ids /\ ~(op.kind = "create" /\ op.phase = 2)
      BY <1>1, <1>3 DEF Removing
  <2>2. op.before[Removed] # NoFile /\ After = [op.before EXCEPT ![Removed] = NoFile]
      BY <1>1, <1>2, <1>3, <2>1 DEF OpInv, After
  <2>3. NS!Delete(Removed)
      BY <2>2 DEF NS!Delete
  <2> QED BY <2>1, <2>3 DEF NS!Next
<1>4. CASE op.kind = "rename" /\ op.phase = 2
  <2>1. /\ op.name \in Names /\ op.to \in Names /\ op.name # op.to /\ op.id \in Ids
        /\ op.before[op.name] = op.id /\ op.before[op.to] = NoFile
        /\ files = [op.before EXCEPT ![op.name] = NoFile, ![op.to] = op.id] /\ After = files
      BY <1>1, <1>2, <1>4 DEF OpTypes, OpInv, After
  <2>2. files = [x \in Names |-> IF x = op.name THEN NoFile
                                 ELSE IF x = op.to THEN op.before[op.name] ELSE op.before[x]]
      BY <1>1, <2>1 DEF FileMaps
  <2>3. NS!Rename(op.name, op.to)
      BY <1>1, <2>1, <2>2 DEF NS!Rename
  <2> QED BY <2>1, <2>3 DEF NS!Next
<1>5. CASE op.kind = "link" /\ op.phase = 2
  <2>1. /\ op.name \in Names /\ op.to \in Names /\ op.id \in Ids
        /\ op.before[op.name] = op.id /\ op.before[op.to] = NoFile
        /\ After = [op.before EXCEPT ![op.to] = op.id]
      BY <1>1, <1>2, <1>5 DEF OpTypes, OpInv, After
  <2>2. NS!Link(op.name, op.to)
      BY <1>1, <2>1 DEF NS!Link
  <2> QED BY <2>1, <2>2 DEF NS!Next
<1>6. CASE op.kind = "create" /\ op.phase = 2
  <2>1. /\ op.name \in Names /\ op.id \in Ids /\ op.before[op.name] = NoFile
        /\ \A n \in Names : op.before[n] # op.id
        /\ After = [op.before EXCEPT ![op.name] = op.id]
      BY <1>1, <1>2, <1>6 DEF OpTypes, OpInv, After
  <2>2. NS!Create(op.name)
      BY <2>1 DEF NS!Create
  <2> QED BY <2>1, <2>2 DEF NS!Next
<1>7. CASE op.kind \in Steady
    BY <1>2, <1>7 DEF OpInv, Steady, After
<1> QED BY <1>1, <1>3, <1>4, <1>5, <1>6, <1>7 DEF Removing, Steady, OpKinds

(* A step does to the name space on the device what one operation does, or nothing. *)
LEMMA RefineStep ==
    ASSUME DiskPart, DiskPart', [Next]_vars, Unspoilt, Unspoilt'
    PROVE  NS!Next \/ found'.st.files = found.st.files
<1>1. Types /\ FoundInv /\ NameInv /\ DiskInv /\ Types' /\ FoundInv' /\ DiskInv'
    BY DEF DiskPart, NamesPart, Unspoilt
<1>2. ASSUME found' = found \/ found'.st = found.st PROVE found'.st.files = found.st.files
    BY <1>2
<1>3. CASE \E n \in Names : OpenWritableFile(n) \/ SyncFileMetadata(n) \/ DeleteFile(n)
    BY <1>2, <1>3 DEF OpenWritableFile, SyncFileMetadata, DeleteFile, Start, diskVars
<1>4. CASE \E n, m \in Names : RenameFile(n, m) \/ LinkFile(n, m)
    BY <1>2, <1>4 DEF RenameFile, LinkFile, Start, diskVars
<1>5. CASE \E id \in Ids : PushExtent(id) \/ ReplaceExtentList(id)
    BY <1>2, <1>5 DEF PushExtent, ReplaceExtentList, diskVars
<1>6. CASE SyncFileExtents \/ NoSpace \/ EncodeSnapshotTo \/ Mount \/ UNCHANGED vars
    BY <1>2, <1>6 DEF SyncFileExtents, NoSpace, EncodeSnapshotTo, Mount, vars, diskVars
<1>7. CASE AllocateMetaZone \/ WriteEndRecord \/ FinishOldZone \/ WriteSuperblock
    BY <1>1, <1>2, <1>7, RollFound
<1>8. CASE Crash
    BY <1>2, <1>8 DEF Crash, Untouched, Unspoilt, Mark
<1>9. CASE PersistRecord
  <2>1. pc = "persist"
      BY <1>9 DEF PersistRecord
  <2>2. MemCore /\ op.kind # "none" /\ op.kind # "mount" /\ found.st.files = op.before
      BY <1>1, <2>1, BusyNames, DiskFacts DEF Types, StepInv, OnDisk
  <2>3. CASE Persisted(inode)
    <3>1. op'.before = After /\ pc' \in {"idle", "persist"}
        BY <1>1, <2>2, <2>3, PersistedCore
    <3>2. found'.st.files = After
        BY <1>1, <3>1, ExtFound DEF OnDisk
    <3> QED BY <1>1, <2>2, <3>2, OpRefines
  <2>4. CASE WriteFails(cur)
      BY <1>2, <2>4 DEF WriteFails, Untouched, Unspoilt, Mark
  <2> QED BY <1>9, <2>3, <2>4 DEF PersistRecord
<1>10. CASE WriteSnapshotLocked
  <2>1. pc = "write" /\ pc' = "reset" /\ files' = files
      BY <1>10 DEF WriteSnapshotLocked, Unspoilt, Mark
  <2>2. MemCore /\ found.st.files = op.before
      BY <1>1, <2>1, BusyNames, DiskFacts DEF OnDisk
  <2>3. found'.st.files = files
      BY <1>1, <2>1, ExtFound DEF OnDisk
  <2>4. After = files
      BY <2>1, <2>2 DEF MemCore, Rolling, After
  <2> QED BY <1>1, <2>2, <2>3, <2>4, OpRefines
<1>11. CASE ResetOldZone
  <2>1. pc = "reset" /\ Persisted(inode)
      BY <1>11 DEF ResetOldZone
  <2>2. MemCore /\ op.kind # "none" /\ found.st.files = files
      BY <1>1, <2>1, BusyNames, DiskFacts DEF OnDisk
  <2>3. op'.before = After /\ pc' \in {"idle", "persist"}
      BY <1>1, <2>1, <2>2, PersistedCore
  <2>4. found'.st.files = After
      BY <1>1, <2>3, ExtFound DEF OnDisk
  <2>5. After = files
      BY <2>1, <2>2 DEF MemCore, Rolling, After
  <2> QED BY <2>2, <2>4, <2>5
<1> QED BY <1>3, <1>4, <1>5, <1>6, <1>7, <1>8, <1>9, <1>10, <1>11 DEF Next

(* As long as no write is cut short, no roll given up and no creation lost, the log     *)
(* implements Namespace: what a mount would find changes by one creation, deletion,     *)
(* rename or link at a time, and not by a roll, a crash or a mount (PersistRecord,      *)
(* RollMetaZoneLocked, Mount).                                                          *)
THEOREM MetaLogRefines == Spec /\ []Unspoilt => NamespaceRefined
<1>1. Init => NS!Init
  <2> SUFFICES ASSUME Init PROVE NS!Init
      OBVIOUS
  <2>1. found.st.files \in FileMaps
      BY InitTypes, ExtTypes
  <2>2. found.st.files \in [Names -> Ids \cup {NoFile}]
      BY <2>1 DEF FileMaps, NoIds
  <2> QED BY <2>2 DEF NS!Init
<1>2. DiskPart /\ DiskPart' /\ Unspoilt /\ Unspoilt' /\ [Next]_vars => [NS!Next]_(found.st.files)
    BY RefineStep
<1> QED BY <1>1, <1>2, MetaLogDiskInv, PTL DEF Spec, NamespaceRefined, NS!Spec
-----------------------------------------------------------------------------
(* What cannot happen under which parameters.                              *)

(* The marks that the history can have. *)
Possible ==
  (IF Torn \/ "end" \in Faults THEN {"torn"} ELSE {})
    \cup (IF "roll" \in Faults THEN {"roll"} ELSE {})
    \cup (IF Overlap THEN {"overlap"} ELSE {})
    \cup (Ops \cap {"create", "migrate"})

\* The history has nothing but what the parameters allow.
MarkInv ==
  /\ spoilt \subseteq Possible
  /\ op.kind \in {"create", "migrate"} => op.kind \in Ops
  /\ mig.id # NoFile => "migrate" \in Ops
  /\ pc = "finish" => \/ ~(Capacity(old) > 0) \/ "end" \in Faults
                      \/ Last(log[old]).type = "end"

(* A mark that is possible. *)
LEMMA MarkPossible ==
    ASSUME spoilt \subseteq Possible, NEW c, NEW w, Mark(c, w), c => w \in Possible
    PROVE  spoilt' \subseteq Possible
BY DEF Mark

(* What is under way after an operation has been persisted or taken back. *)
LEMMA NextKind ==
    ASSUME Types, op.kind # "none", Persisted(inode) \/ Undone
    PROVE  /\ op'.kind \in {"none", "rename", op.kind} /\ mig' \in {mig, NoMig}
           /\ pc' \in {"idle", "persist", "down"}
<1>1. OpTypes
    BY DEF Types
<1>2. CASE Persisted(inode)
  <2>1. CASE op.kind = "create" /\ pc' = "persist" /\ mig' = mig /\ MainCreate(op.name, files, inode)
      BY <2>1 DEF MainCreate
  <2>2. CASE pc' = "persist" /\ mig' = mig /\ MainRename(op.name, op.to, files, inode)
      BY <2>2 DEF MainRename
  <2>3. CASE pc' = "idle" /\ op' = Resting(files') /\ mig' = (IF op.kind = "migrate" THEN NoMig ELSE mig)
      BY <2>3 DEF Resting
  <2> QED BY <1>1, <1>2, <2>1, <2>2, <2>3, PersistedSteps
<1>3. CASE Undone
  <2>1. \/ pc' = "down" /\ mig' = mig /\ op' = op
        \/ pc' = "idle" /\ op' = Resting(files') /\ mig' = (IF op.kind = "migrate" THEN NoMig ELSE mig)
      BY <1>1, <1>3, UndoneSteps
  <2> QED BY <2>1 DEF Resting
<1> QED BY <1>2, <1>3

(* Every step leaves only marks that are possible. *)
LEMMA MarkSteps ==
    ASSUME Types, MarkInv, Next
    PROVE  MarkInv'
<1>1. ("roll" \in Faults => "roll" \in Possible) /\ (Overlap => "overlap" \in Possible)
      /\ (Torn \/ "end" \in Faults => "torn" \in Possible)
      /\ ("create" \in Ops => "create" \in Possible) /\ ("migrate" \in Ops => "migrate" \in Possible)
    BY DEF Possible
<1>2. /\ spoilt \subseteq Possible /\ (op.kind \in {"create", "migrate"} => op.kind \in Ops)
      /\ (mig.id # NoFile => "migrate" \in Ops) /\ (mig # NoMig => mig.id # NoFile)
      /\ NoMig.id = NoFile /\ (pc \notin {"idle", "down"} => op.kind # "none")
      /\ (op.kind \in {"rename", "link"} => op.id # NoFile)
  <2>1. op.kind \in {"rename", "link"} => op.id # NoFile
      BY OpParts
  <2> QED BY <2>1 DEF MarkInv, Types, MemTypes, StepInv, NoMig
<1>3. ASSUME Persisted(inode) \/ Undone, pc \notin {"idle", "down"}, spoilt' \subseteq Possible
      PROVE  MarkInv'
  <2>1. /\ op'.kind \in {"none", "rename", op.kind} /\ mig' \in {mig, NoMig} /\ pc' # "finish"
      BY <1>2, <1>3, NextKind
  <2> QED BY <1>2, <1>3, <2>1 DEF MarkInv
<1>4. ASSUME op' = op, mig' = mig, pc' # "finish", spoilt' \subseteq Possible PROVE MarkInv'
    BY <1>2, <1>4 DEF MarkInv
<1>5. ASSUME NEW k, Start(k), op'.kind \in {k, "delete"} PROVE MarkInv'
  <2>1. k \in Ops /\ pc' = "persist" /\ mig' = mig /\ spoilt' = spoilt
      BY <1>5 DEF Start
  <2> QED BY <1>2, <1>5, <2>1 DEF MarkInv
<1>6. ASSUME NEW n, NEW k, NEW x, NEW y, NEW ph, StartDeletion(n, Operation(k, x, y, NoFile, ph))
      PROVE  op'.kind = k
    BY <1>6 DEF StartDeletion, Operation
<1>7. ASSUME NEW n \in Names, OpenWritableFile(n) \/ SyncFileMetadata(n) \/ DeleteFile(n)
      PROVE  MarkInv'
  <2>1. CASE OpenWritableFile(n)
    <3>1. MainCreate(n, files, inode) => op'.kind = "create"
        BY DEF MainCreate
    <3> QED BY <1>5, <1>6, <2>1, <3>1 DEF OpenWritableFile
  <2>2. CASE SyncFileMetadata(n)
    <3>1. op'.kind = "sync" /\ Start("sync")
        BY <2>2 DEF SyncFileMetadata, Operation
    <3> QED BY <1>5, <3>1
  <2>3. CASE DeleteFile(n)
      BY <1>5, <1>6, <2>3 DEF DeleteFile
  <2> QED BY <1>7, <2>1, <2>2, <2>3
<1>8. ASSUME NEW n \in Names, NEW m \in Names, RenameFile(n, m) \/ LinkFile(n, m) PROVE MarkInv'
  <2>1. CASE RenameFile(n, m)
    <3>1. MainRename(n, m, files, inode) => op'.kind = "rename"
        BY DEF MainRename
    <3>2. Start("rename") /\ op'.kind \in {"rename", "delete"}
        BY <1>6, <2>1, <3>1 DEF RenameFile
    <3> QED BY <1>5, <3>2
  <2>2. CASE LinkFile(n, m)
    <3>1. op'.kind = "link" /\ Start("link")
        BY <2>2 DEF LinkFile, Operation
    <3> QED BY <1>5, <3>1
  <2> QED BY <1>8, <2>1, <2>2
<1>9. ASSUME NEW id \in Ids, PushExtent(id) PROVE MarkInv'
  <2>1. /\ pc' = pc /\ op' = op /\ mig' = mig /\ UNCHANGED <<log, full, old>>
        /\ Mark(pc # "idle", "overlap") /\ (pc # "idle" => Overlap)
      BY <1>9 DEF PushExtent, diskVars
  <2>2. spoilt' \subseteq Possible
      BY <1>1, <1>2, <2>1, MarkPossible
  <2>3. Capacity(old)' = Capacity(old)
      BY <2>1 DEF Capacity
  <2> QED BY <2>1, <2>2, <2>3 DEF MarkInv
<1>10. ASSUME NEW id \in Ids, ReplaceExtentList(id) PROVE MarkInv'
  <2>1. /\ pc' = pc /\ op' = op /\ UNCHANGED <<log, full, old, spoilt>> /\ "migrate" \in Ops
      BY <1>10 DEF ReplaceExtentList, diskVars
  <2>2. Capacity(old)' = Capacity(old)
      BY <2>1 DEF Capacity
  <2> QED BY <2>1, <2>2 DEF MarkInv
<1>11. CASE SyncFileExtents
  <2>1. /\ pc = "idle" /\ mig # NoMig /\ spoilt' = spoilt /\ mig' \in {mig, NoMig}
        /\ \/ pc' = pc /\ op' = op
           \/ pc' = "persist" /\ op'.kind = "migrate"
      BY <1>11 DEF SyncFileExtents, Operation
  <2> QED BY <1>2, <2>1 DEF MarkInv
<1>12. CASE PersistRecord \/ ResetOldZone
  <2>1. pc \in {"persist", "reset"} /\ (Persisted(inode) \/ Undone)
      BY <1>12 DEF PersistRecord, ResetOldZone
  <2>2. CASE MarkOvertaken
    <3>1. op.kind \in {"rename", "link"} /\ op.phase = 2 /\ op.id = mig.id => "migrate" \in Possible
        BY <1>1, <1>2
    <3>2. spoilt' \subseteq Possible
        BY <1>2, <2>2, <3>1, MarkPossible DEF MarkOvertaken
    <3> QED BY <1>3, <2>1, <3>2
  <2>3. CASE WriteFails(cur)
    <3>1. spoilt' \subseteq Possible
        BY <1>1, <1>2, <2>3, MarkPossible DEF WriteFails
    <3> QED BY <1>3, <2>1, <3>1
  <2> QED BY <1>12, <2>2, <2>3 DEF PersistRecord, ResetOldZone
<1>13. CASE NoSpace
  <2>1. Mark(op.kind = "create" /\ op.phase = 2, "create") /\ op' = op /\ mig' = mig /\ pc' = "alloc"
      BY <1>13 DEF NoSpace
  <2>2. spoilt' \subseteq Possible
      BY <1>1, <1>2, <2>1, MarkPossible
  <2> QED BY <1>4, <2>1, <2>2
<1>14. CASE AllocateMetaZone
  <2>1. pc = "alloc"
      BY <1>14 DEF AllocateMetaZone
  <2>2. CASE pc' = "end" /\ UNCHANGED <<op, mig, spoilt>>
      BY <1>2, <1>4, <2>2
  <2>3. CASE /\ MZones \ {cur} = {y \in MZones \ {cur} : "roll" \in Faults /\ log[y] # <<>>}
             /\ Undone /\ Mark(TRUE, "roll")
    <3>1. \E y \in MZones : y # cur
      <4>1. 1 \in MZones /\ 2 \in MZones
          BY MetaLogAssumption DEF MZones
      <4> QED BY <4>1
    <3>2. "roll" \in Faults
        BY <2>3, <3>1
    <3>3. spoilt' \subseteq Possible
        BY <1>1, <1>2, <2>3, <3>2, MarkPossible
    <3> QED BY <1>3, <2>1, <2>3, <3>3
  <2> QED BY <1>14, <2>2, <2>3 DEF AllocateMetaZone, memVars
<1>15. CASE WriteEndRecord
  <2>1. /\ pc = "end" /\ pc' = "finish" /\ UNCHANGED <<op, mig, spoilt, old, full>>
        /\ \/ Write(old, [type |-> "end"])
           \/ (Capacity(old) > 0 => "end" \in Faults) /\ log' = log
      BY <1>15 DEF WriteEndRecord, Untouched
  <2>2. CASE Write(old, [type |-> "end"])
    <3> DEFINE r == [type |-> "end"]
    <3>1. old \in MZones /\ log \in Devices /\ r \in Records /\ r.type = "end"
        BY <2>1 DEF Types, StepInv, DiskTypes, Records, Marked
    <3>2. log'[old] = Append(log[old], r)
      <4>1. log' = Appended(log, old, r)
          BY <2>2, WriteIs
      <4> HIDE DEF r
      <4> QED BY <3>1, <4>1, LogAppend
    <3> HIDE DEF r
    <3>3. Last(log'[old]) = r
      <4>1. log[old] \in Seq(Records)
          BY <3>1 DEF Devices
      <4> QED BY <3>1, <3>2, <4>1, AppendProperties DEF Last
    <3> QED BY <1>2, <2>1, <3>1, <3>3 DEF MarkInv
  <2>3. CASE (Capacity(old) > 0 => "end" \in Faults) /\ log' = log
    <3>1. Capacity(old)' = Capacity(old)
        BY <2>1, <2>3 DEF Capacity
    <3> QED BY <1>2, <2>1, <2>3, <3>1 DEF MarkInv
  <2> QED BY <2>1, <2>2, <2>3
<1>16. CASE FinishOldZone
  <2>1. pc = "finish" /\ pc' = "super" /\ op' = op /\ mig' = mig
      BY <1>16 DEF FinishOldZone
  <2>2. \/ spoilt' = spoilt
        \/ Mark(TRUE, "torn") /\ Capacity(old) > 0 /\ Last(log[old]).type # "end"
      BY <1>16 DEF FinishOldZone
  <2>3. Capacity(old) > 0 /\ Last(log[old]).type # "end" => "end" \in Faults
      BY <2>1 DEF MarkInv
  <2>4. spoilt' \subseteq Possible
      BY <1>1, <1>2, <2>2, <2>3, MarkPossible
  <2> QED BY <1>4, <2>1, <2>4
<1>17. CASE WriteSuperblock \/ WriteSnapshotLocked
  <2>1. \/ "roll" \in Faults /\ Undone /\ Mark(TRUE, "roll")
        \/ pc' = "snap" /\ UNCHANGED <<op, mig, spoilt>>
        \/ pc' = "reset" /\ UNCHANGED <<op, mig>> /\ Mark(mig # NoMig /\ op.kind # "migrate", "migrate")
      BY <1>17 DEF WriteSuperblock, WriteSnapshotLocked
  <2>2. pc \in {"super", "write"}
      BY <1>17 DEF WriteSuperblock, WriteSnapshotLocked
  <2>3. spoilt' \subseteq Possible
      BY <1>1, <1>2, <2>1, MarkPossible
  <2> QED BY <1>3, <1>4, <2>1, <2>2, <2>3
<1>18. CASE EncodeSnapshotTo
    BY <1>2, <1>4, <1>18 DEF EncodeSnapshotTo
<1>19. CASE Crash
  <2>1. /\ pc' = "down" /\ op' = op /\ mig' = mig
        /\ spoilt' = spoilt \/ (Mark(TRUE, "torn") /\ Torn)
      BY <1>19 DEF Crash
  <2>2. spoilt' \subseteq Possible
      BY <1>1, <1>2, <2>1, MarkPossible
  <2> QED BY <1>4, <2>1, <2>2
<1>20. CASE Mount
  <2>1. mig' = NoMig /\ pc' = "alloc" /\ spoilt' = spoilt
      BY <1>20 DEF Mount
  <2>2. op'.kind = "mount"
      BY <1>20 DEF Mount, NoOp
  <2> QED BY <1>2, <2>1, <2>2 DEF MarkInv
<1> QED BY <1>7, <1>8, <1>9, <1>10, <1>11, <1>12, <1>13, <1>14, <1>15, <1>16, <1>17, <1>18,
           <1>19, <1>20 DEF Next

(* What the history can have is what the parameters allow: without torn writes and with *)
(* end records that succeed no log is cut short, without failing rolls none is given    *)
(* up, and so on (PersistRecord, RollMetaZoneLocked).                                   *)
THEOREM MetaLogMarks == Spec => [](spoilt \subseteq Possible)
<1>1. Init => MarkInv
    BY DEF Init, MarkInv, NoOp, NoMig
<1>2. Types /\ MarkInv /\ [Next]_vars => MarkInv'
  <2> SUFFICES ASSUME Types, MarkInv, [Next]_vars PROVE MarkInv'
      OBVIOUS
  <2>1. CASE Next
      BY <2>1, MarkSteps
  <2>2. CASE UNCHANGED vars
    <3>1. Capacity(old)' = Capacity(old)
        BY <2>2 DEF vars, Capacity
    <3> QED BY <2>2, <3>1 DEF vars, MarkInv
  <2> QED BY <2>1, <2>2
<1>3. MarkInv => spoilt \subseteq Possible
    BY DEF MarkInv
<1> QED BY <1>1, <1>2, <1>3, MetaLogTypesInv, PTL DEF Spec

(* When no file is created, no write is torn and the only faults are failing appends,   *)
(* what a mount would find changes by one operation of Namespace at a time              *)
(* (PersistRecord, RollMetaZoneLocked, RecoverFrom).                                    *)
THEOREM MetaLogImplements ==
    ASSUME "create" \notin Ops, ~Torn, Faults \subseteq {"append"}
    PROVE  Spec => NamespaceRefined
<1>1. spoilt \subseteq Possible => Unspoilt
    BY DEF Possible, Unspoilt
<1> QED BY <1>1, MetaLogMarks, MetaLogRefines, PTL
=============================================================================
