----------------------------- MODULE ExtFsProofs -----------------------------
(***************************************************************************)
(* The inodes and the blocks of ExtFs, for any number of inodes, names and *)
(* blocks, any number of direct blocks and entries of an index block, and  *)
(* calls of any length.                                                    *)
(*                                                                         *)
(* InodesOwned is inductive once the types of the bitmaps and of the       *)
(* directory are added, and once the first free bit, which ExtFs finds     *)
(* with Min, is known to be one of the free ones.                          *)
(*                                                                         *)
(* For BlocksOwned a node is seen as the blocks at its slots: the direct   *)
(* blocks, the two index blocks, and what can be reached through them.     *)
(* WalkInv says of a walk in progress that what it sees, with the tables   *)
(* it has loaded in place of those on disk, has one place for every block  *)
(* and no block of another file; and that the disk is behind: a slot there *)
(* is empty or as in memory, so that what is lost when a table is not      *)
(* saved, or when the walk stops, is blocks of this file.  Every stage of  *)
(* a step keeps it, hence, by induction on the indexes, the walk does.     *)
(* BlocksInv is the same of all files between two calls.                   *)
(***************************************************************************)
EXTENDS ExtFs, WellFoundedInduction, TLAPS

Below == {ss \in Nat \X Nat : ss[1] < ss[2]}

(* A set of naturals that is not empty has a least element, which Min finds. *)
LEMMA LeastNatural ==
    ASSUME NEW T, T \subseteq Nat, T # {}
    PROVE  Min(T) \in T /\ \A y \in T : Min(T) <= y
<1>1. OpToRel(<, Nat) = Below
    BY Zenon DEF OpToRel, Below
<1>2. IsWellFoundedOn(Below, Nat)
    BY <1>1, NatLessThanWellFounded, Zenon
<1>3. \E x \in T : \A y \in T : ~(<<y, x>> \in Below)
    BY <1>2, WFMin, Zenon
<1>4. PICK x \in T : \A y \in T : ~(<<y, x>> \in Below)
    BY <1>3
<1>5. ASSUME NEW y \in T PROVE x <= y
  <2>1. x \in Nat /\ y \in Nat
      BY <1>4
  <2>2. ~(y < x)
      BY <1>4, <2>1 DEF Below
  <2> QED BY <2>1, <2>2
<1>6. \E u \in T : \A y \in T : u <= y
    BY <1>4, <1>5
<1> QED BY <1>6 DEF Min

(* The first free bit of the inode bitmap is free. *)
LEMMA NewInoFree ==
    ASSUME FreeInos # {}
    PROVE  NewIno \in Inos /\ NewIno \notin bitmapInode
<1>1. FreeInos \subseteq Nat
    BY DEF FreeInos, Inos
<1>2. Min(FreeInos) \in FreeInos
    BY <1>1, LeastNatural
<1> QED BY <1>2 DEF NewIno, FreeInos

-----------------------------------------------------------------------------
(* The inductive invariant: InodesOwned, name by name, and the types.      *)

InodeTypes ==
    /\ bitmapInode \subseteq Inos /\ savedInode \subseteq Inos
    /\ dir \in [Names -> Inos \cup {NoIno}]

InodeInv ==
    /\ InodeTypes
    /\ ~exposed =>
         \A n \in Names :
           dir[n] # NoIno =>
             /\ dir[n] \in bitmapInode \cap savedInode
             /\ \A m \in Names : m # n => dir[m] # dir[n]

(* The invariant says more than the property. *)
LEMMA InvGivesOwned == InodeInv => InodesOwned
BY DEF InodeInv, InodesOwned, InodeTypes, Live, NoIno, Inos

(* An empty directory owns nothing. *)
LEMMA InitInodeInv == Init => InodeInv
BY DEF Init, InodeInv, InodeTypes, NoIno

(* A new name gets an inode that no other name has, or the call stops before *)
(* it is named.                                                              *)
LEMMA NamedInodeInv ==
    ASSUME InodeInv, ~exposed, TakeInode,
           NEW n \in Names, dir[n] = NoIno,
           dir' = [dir EXCEPT ![n] = NewIno] \/ dir' = dir
    PROVE  InodeInv'
<1>1. NewIno \in Inos /\ NewIno \notin bitmapInode
    BY NewInoFree DEF TakeInode
<1>2. InodeTypes'
    BY <1>1 DEF InodeInv, InodeTypes, TakeInode
<1>a. \A y \in Names : dir'[y] = dir[y] \/ (y = n /\ dir'[y] = NewIno)
  <2>1. DOMAIN dir = Names
      BY DEF InodeInv, InodeTypes
  <2>2. CASE dir' = [dir EXCEPT ![n] = NewIno]
      BY <2>1, <2>2, Zenon
  <2>3. CASE dir' = dir
      BY <2>3
  <2> QED BY <2>2, <2>3
<1>3. ASSUME NEW x \in Names, dir'[x] # NoIno
      PROVE  dir'[x] \in bitmapInode' \cap savedInode' /\ \A y \in Names : y # x => dir'[y] # dir'[x]
  <2>1. \A y \in Names : dir[y] # NoIno => dir[y] # NewIno
      BY <1>1 DEF InodeInv
  <2>2. CASE dir'[x] = dir[x]
    <3>1. dir[x] \in bitmapInode' \cap savedInode'
        BY <2>2, <1>3 DEF InodeInv, TakeInode
    <3>2. ASSUME NEW y \in Names, y # x PROVE dir'[y] # dir[x]
      <4>1. dir[y] # dir[x]
          BY <1>3, <2>2, <3>2 DEF InodeInv
      <4>2. dir'[y] = dir[y] \/ dir'[y] = NewIno
          BY <1>a
      <4> QED BY <4>1, <4>2, <2>1, <1>3, <2>2
    <3> QED BY <2>2, <3>1, <3>2
  <2>3. CASE dir'[x] # dir[x]
    <3>1. x = n /\ dir'[x] = NewIno /\ \A y \in Names : y # x => dir'[y] = dir[y]
        BY <2>3, <1>a
    <3>2. NewIno \in bitmapInode' \cap savedInode'
        BY DEF TakeInode
    <3>3. NewIno # NoIno
        BY <1>1 DEF NoIno, Inos
    <3> QED BY <3>1, <3>2, <3>3, <2>1
  <2> QED BY <2>2, <2>3
<1> QED BY <1>2, <1>3 DEF InodeInv

(* Unlink clears the bit of an inode that no other name has. *)
LEMMA UnlinkInodeInv ==
    ASSUME InodeInv, NEW n \in Names, Unlink(n)
    PROVE  InodeInv'
<1>1. PICK v \in {RemoveVisit(dir[n])} :
        /\ Unlinked(v, dir[n])
        /\ dir' = IF v.err THEN dir
                  ELSE [m \in Names |-> IF dir[m] = dir[n] THEN NoIno ELSE dir[m]]
    BY DEF Unlink
<1>2. exposed' = exposed /\ ~exposed /\ dir[n] # NoIno /\ savedInode' = savedInode
    BY <1>1 DEF Unlink, Called, Unlinked
<1>3. CASE v.err
  <2>1. dir' = dir /\ bitmapInode' = bitmapInode
      BY <1>1, <1>3 DEF Unlinked
  <2> QED BY <1>2, <2>1 DEF InodeInv, InodeTypes
<1>4. CASE ~v.err
  <2>1. bitmapInode' = bitmapInode \ {dir[n]}
      BY <1>1, <1>4 DEF Unlinked
  <2>2. dir' = [m \in Names |-> IF dir[m] = dir[n] THEN NoIno ELSE dir[m]]
      BY <1>1, <1>4
  <2> QED BY <1>2, <2>1, <2>2 DEF InodeInv, InodeTypes
<1> QED BY <1>3, <1>4

(* Rename moves an inode from one name to the other; the name it had is gone. *)
LEMMA RenameInodeInv ==
    ASSUME InodeInv, NEW n \in Names, NEW m \in Names, Rename(n, m)
    PROVE  InodeInv'
<1>1. PICK v \in {RemoveVisit(dir[n])} :
        /\ Unlinked(v, dir[n])
        /\ dir' = IF v.err THEN dir ELSE [dir EXCEPT ![n] = NoIno, ![m] = dir[n]]
        /\ exposed' = ~v.err
    BY DEF Rename
<1>2. ~exposed /\ savedInode' = savedInode
    BY <1>1 DEF Rename, Called, Unlinked
<1>3. CASE v.err
  <2>1. dir' = dir /\ bitmapInode' = bitmapInode
      BY <1>1, <1>3 DEF Unlinked
  <2> QED BY <1>2, <2>1 DEF InodeInv, InodeTypes
<1>4. CASE ~v.err
  <2>1. bitmapInode' = bitmapInode \ {dir[n]}
      BY <1>1, <1>4 DEF Unlinked
  <2>2. dir' = [dir EXCEPT ![n] = NoIno, ![m] = dir[n]] /\ exposed'
      BY <1>1, <1>4
  <2> QED BY <1>2, <2>1, <2>2 DEF InodeInv, InodeTypes
<1> QED BY <1>3, <1>4

(* Steps that touch neither the directory nor the inode bitmap. *)
LEMMA SameInodes ==
    ASSUME InodeInv, UNCHANGED <<bitmapInode, savedInode, dir, exposed>>
    PROVE  InodeInv'
BY DEF InodeInv, InodeTypes

(* Every step keeps the inodes owned. *)
LEMMA NextInodeInv == InodeInv /\ [Next]_vars => InodeInv'
<1> SUFFICES ASSUME InodeInv, [Next]_vars PROVE InodeInv'
    OBVIOUS
<1>1. ASSUME NEW n \in Names, Create(n) PROVE InodeInv'
  <2>1. PICK v \in {Allocate(Visit0(NewIno))} :
          IF v.err THEN UNCHANGED <<inode, dir, written>>
          ELSE Named(n, [Blank EXCEPT !.type = "file", !.direct[0] = v.new])
      BY <1>1 DEF Create
  <2>2. dir' = [dir EXCEPT ![n] = NewIno] \/ dir' = dir
      BY <2>1 DEF Named
  <2> QED BY <1>1, <2>2, NamedInodeInv DEF Create, Called
<1>2. ASSUME NEW n \in Names, Mkdir(n) PROVE InodeInv'
  <2> DEFINE old == inode[NewIno].direct[0]
  <2>1. PICK v \in {IF old = NoBlock THEN Allocate(Visit0(NewIno))
                    ELSE [Visit0(NewIno) EXCEPT !.new = old]} :
          IF v.err \/ old = LinkText
          THEN UNCHANGED <<inode, disk, dir, written, exposed>>
          ELSE /\ disk' = [disk EXCEPT ![v.new] = Bytes(0)]
               /\ Named(n, [Blank EXCEPT !.type = "dir", !.direct[0] = v.new])
               /\ exposed' = (old # NoBlock)
      BY <1>2 DEF Mkdir
  <2>2. dir' = [dir EXCEPT ![n] = NewIno] \/ dir' = dir
      BY <2>1 DEF Named
  <2> QED BY <1>2, <2>2, NamedInodeInv DEF Mkdir, Called
<1>3. ASSUME NEW n \in Names, Symlink(n) PROVE InodeInv'
    BY <1>3, NamedInodeInv DEF Symlink, Called, Named
<1>4. ASSUME NEW n \in Names, Unlink(n) PROVE InodeInv'
    BY <1>4, UnlinkInodeInv
<1>5. ASSUME NEW n \in Names, NEW m \in Names, Rename(n, m) PROVE InodeInv'
    BY <1>5, RenameInodeInv
<1>6. ASSUME NEW ino \in Inos, NEW i \in Indexes, NEW j \in Indexes, Write(ino, i, j)
      PROVE  InodeInv'
    BY <1>6, SameInodes DEF Write, Walked
<1>7. ASSUME NEW ino \in Inos, NEW i \in Indexes, NEW j \in Indexes, Read(ino, i, j)
      PROVE  InodeInv'
    BY <1>7, SameInodes DEF Read, Walked
<1>8. CASE Remount
    BY <1>8 DEF Remount, InodeInv, InodeTypes
<1>9. CASE Crash
    BY <1>9 DEF Crash, InodeInv, InodeTypes
<1>10. CASE UNCHANGED vars
    BY <1>10, SameInodes DEF vars
<1> QED BY <1>1, <1>2, <1>3, <1>4, <1>5, <1>6, <1>7, <1>8, <1>9, <1>10 DEF Next

(* The inode of a name is marked in the bitmap in memory and on disk and   *)
(* belongs to no other name, whatever calls fail half way (create, mkdir,  *)
(* unlink, rename) and wherever a crash falls between the bitmap and the   *)
(* directory; the states after a block or an inode in use was freed are    *)
(* excepted, as in the property.                                           *)
THEOREM InodesStayOwned == Spec => []InodesOwned
<1>1. Init => InodeInv
    BY InitInodeInv
<1>2. InodeInv /\ [Next]_vars => InodeInv'
    BY NextInodeInv
<1>3. InodeInv => InodesOwned
    BY InvGivesOwned
<1> QED BY <1>1, <1>2, <1>3, PTL DEF Spec

-----------------------------------------------------------------------------
(* The view of a node: the block at each of its slots, given the tables of *)
(* the index blocks.                                                       *)

Entries == 0 .. Layer - 1
Directs == 0 .. Direct - 1
Types == {"none", "file", "dir", "link"}
Tables == [Entries -> Known]
Nodes == [type : Types, direct : [Directs -> Known], l1 : Known, l2 : Known]
Contents == [tag : Nat, table : Tables]
Disks == [Blocks -> Contents]

Slots == ({"d"} \X Directs \X {0})
           \cup ({"l1", "l2"} \X {0} \X {0})
           \cup ({"e1", "o"} \X Entries \X {0})
           \cup ({"e2"} \X Entries \X Entries)
IsIndex(s) == s[1] \in {"l1", "l2", "o"}

Entry(tb, b, i) == IF b = NoBlock THEN NoBlock ELSE tb[b][i]
At(nd, tb, s) ==
    IF s[1] = "d" THEN nd.direct[s[2]]
    ELSE IF s[1] = "l1" THEN nd.l1
    ELSE IF s[1] = "l2" THEN nd.l2
    ELSE IF s[1] = "e1" THEN Entry(tb, nd.l1, s[2])
    ELSE IF s[1] = "o" THEN Entry(tb, nd.l2, s[2])
    ELSE Entry(tb, Entry(tb, nd.l2, s[2]), s[3])

\* No block is at two slots.
OnePlace(nd, tb) ==
    \A s, u \in Slots : At(nd, tb, s) # NoBlock /\ s # u => At(nd, tb, u) # At(nd, tb, s)

\* The tables on a disk, and those that a walk sees.
OnDisk(dk) == [b \in Blocks |-> dk[b].table]
Seen(v) == [b \in Blocks |-> IF b = v.t[1].at THEN v.t[1].table
                             ELSE IF b = v.t[2].at THEN v.t[2].table
                             ELSE v.disk[b].table]

-----------------------------------------------------------------------------
(* The invariant of a walk.                                                *)

Loads == [at : Known, table : Tables, mod : BOOLEAN]
Visits == [map : SUBSET Blocks, saved : SUBSET Blocks, disk : Disks,
           kept : Nodes, node : Nodes, dirty : BOOLEAN,
           t : [1 .. 2 -> Loads], new : Known,
           got : Seq(Known), done : BOOLEAN, err : BOOLEAN]

\* A block of the view of the walk belongs to no other file.
ViewOwned(v, F) ==
    /\ OnePlace(v.node, Seen(v))
    /\ \A s \in Slots : At(v.node, Seen(v), s) \in ((v.map \cap v.saved) \ F) \cup {NoBlock}
\* The blocks F of the other files are marked, and are as on the disk dk.
OthersKept(v, F, dk) ==
    F \subseteq v.map \cap v.saved /\ \A b \in F : v.disk[b] = dk[b]
\* What is on disk is behind what the walk has in memory.
DiskBehind(v) ==
    /\ v.kept.type = v.node.type
    /\ \A i \in Directs : v.kept.direct[i] \in {NoBlock, v.node.direct[i]}
    /\ v.kept.l1 \in {NoBlock, v.node.l1}
    /\ v.kept.l2 \in {NoBlock, v.node.l2}
    /\ \A l \in 1 .. 2 : v.t[l].at # NoBlock =>
         \A i \in Entries : v.disk[v.t[l].at].table[i] \in {NoBlock, v.t[l].table[i]}
\* The tables loaded belong to the file.
LoadsRight(v) ==
    /\ v.t[1].at \in {NoBlock, v.node.l1, v.node.l2}
    /\ v.t[2].at = NoBlock => v.t[2].table = Zeros
    /\ v.t[2].at # NoBlock =>
         /\ v.t[1].at = v.node.l2 /\ v.node.l2 # NoBlock
         /\ \E a \in Entries : v.t[2].at = v.t[1].table[a]
\* The blocks met are data blocks of the file.
GotRight(v, F) ==
    \A n \in 1 .. Len(v.got) : v.got[n] # NoBlock =>
      /\ v.got[n] \in v.map \ F
      /\ \A s \in Slots : IsIndex(s) => At(v.node, Seen(v), s) # v.got[n]

WalkInv(v, F, dk) ==
    /\ v \in Visits
    /\ ViewOwned(v, F)
    /\ OthersKept(v, F, dk)
    /\ DiskBehind(v)
    /\ LoadsRight(v)
    /\ GotRight(v, F)

-----------------------------------------------------------------------------
(* Views.                                                                  *)

(* A slot is of one of six kinds. *)
LEMMA SlotKinds ==
    ASSUME NEW s \in Slots
    PROVE  \/ s[1] = "d" /\ s[2] \in Directs /\ s[3] = 0 /\ s = <<"d", s[2], 0>>
           \/ s[1] = "l1" /\ s = <<"l1", 0, 0>>
           \/ s[1] = "l2" /\ s = <<"l2", 0, 0>>
           \/ s[1] = "e1" /\ s[2] \in Entries /\ s[3] = 0 /\ s = <<"e1", s[2], 0>>
           \/ s[1] = "o" /\ s[2] \in Entries /\ s[3] = 0 /\ s = <<"o", s[2], 0>>
           \/ s[1] = "e2" /\ s[2] \in Entries /\ s[3] \in Entries /\ s = <<"e2", s[2], s[3]>>
BY DEF Slots

(* The slots of each kind, and what they show. *)
LEMMA SlotsOf ==
    ASSUME NEW nd, NEW tb
    PROVE  /\ \A i \in Directs : <<"d", i, 0>> \in Slots
                                 /\ At(nd, tb, <<"d", i, 0>>) = nd.direct[i]
           /\ <<"l1", 0, 0>> \in Slots /\ At(nd, tb, <<"l1", 0, 0>>) = nd.l1
           /\ <<"l2", 0, 0>> \in Slots /\ At(nd, tb, <<"l2", 0, 0>>) = nd.l2
           /\ \A i \in Entries :
                /\ <<"e1", i, 0>> \in Slots
                /\ At(nd, tb, <<"e1", i, 0>>) = Entry(tb, nd.l1, i)
           /\ \A i \in Entries :
                /\ <<"o", i, 0>> \in Slots
                /\ At(nd, tb, <<"o", i, 0>>) = Entry(tb, nd.l2, i)
           /\ \A i, j \in Entries :
                /\ <<"e2", i, j>> \in Slots
                /\ At(nd, tb, <<"e2", i, j>>) = Entry(tb, Entry(tb, nd.l2, i), j)
<1>1. \A i \in Directs : <<"d", i, 0>> \in Slots
    BY DEF Slots
<1>2. <<"l1", 0, 0>> \in Slots /\ <<"l2", 0, 0>> \in Slots
    BY DEF Slots
<1>3. \A i \in Entries : <<"e1", i, 0>> \in Slots /\ <<"o", i, 0>> \in Slots
    BY DEF Slots
<1>4. \A i, j \in Entries : <<"e2", i, j>> \in Slots
    BY DEF Slots
<1> QED BY <1>1, <1>2, <1>3, <1>4 DEF At

(* A view shows blocks. *)
LEMMA AtKnown ==
    ASSUME NEW nd \in Nodes, NEW tb \in [Blocks -> Tables], NEW s \in Slots
    PROVE  At(nd, tb, s) \in Known
<1>1. ASSUME NEW b \in Known, NEW i \in Entries PROVE Entry(tb, b, i) \in Known
    BY <1>1 DEF Entry, Known, Tables
<1>2. nd.l1 \in Known /\ nd.l2 \in Known /\ nd.direct \in [Directs -> Known]
    BY DEF Nodes
<1> HIDE DEF Known
<1>3. CASE s[1] = "d"
    BY <1>2, <1>3, SlotKinds DEF At
<1>4. CASE s[1] = "l1" \/ s[1] = "l2"
    BY <1>2, <1>4 DEF At
<1>5. CASE s[1] = "e1" \/ s[1] = "o"
    BY <1>1, <1>2, <1>5, SlotKinds DEF At
<1>6. CASE s[1] = "e2"
  <2>1. s[2] \in Entries /\ s[3] \in Entries
      BY <1>6, SlotKinds
  <2>2. Entry(tb, nd.l2, s[2]) \in Known
      BY <1>1, <1>2, <2>1
  <2>3. Entry(tb, Entry(tb, nd.l2, s[2]), s[3]) \in Known
      BY <1>1, <2>1, <2>2
  <2> QED BY <1>6, <2>3 DEF At
<1> QED BY <1>3, <1>4, <1>5, <1>6, SlotKinds

\* The view (nd2, tb2) shows no more than (nd, tb), but for b at the slot s0.
Grows1(nd, tb, nd2, tb2, s0, b) ==
    \A s \in Slots : \/ At(nd2, tb2, s) = NoBlock
                     \/ At(nd2, tb2, s) = At(nd, tb, s)
                     \/ s = s0 /\ At(nd2, tb2, s) = b

(* A view that grows by one new block keeps one place for each block. *)
LEMMA GrowsOnePlace ==
    ASSUME NEW nd, NEW tb, NEW nd2, NEW tb2, NEW s0, NEW b,
           OnePlace(nd, tb), Grows1(nd, tb, nd2, tb2, s0, b),
           \A s \in Slots : At(nd, tb, s) # b
    PROVE  OnePlace(nd2, tb2)
<1> SUFFICES ASSUME NEW s \in Slots, NEW u \in Slots, At(nd2, tb2, s) # NoBlock, s # u,
                    At(nd2, tb2, u) = At(nd2, tb2, s)
             PROVE  FALSE
    BY DEF OnePlace
<1> DEFINE A(x) == At(nd, tb, x)
           B(x) == At(nd2, tb2, x)
<1>1. B(s) = A(s) \/ (s = s0 /\ B(s) = b)
    BY DEF Grows1
<1>2. B(u) = A(u) \/ (u = s0 /\ B(u) = b)
    BY DEF Grows1
<1>3. A(s) # b /\ A(u) # b
    OBVIOUS
<1>4. A(s) # NoBlock => A(u) # A(s)
    BY DEF OnePlace
<1> HIDE DEF A, B
<1>5. B(s) # NoBlock /\ B(u) = B(s) /\ s # u
    BY DEF B
<1> QED BY <1>1, <1>2, <1>3, <1>4, <1>5

\* The slots that entry i of block x leads to.
LeadsOnly(nd, tb, x, i, s0) ==
    /\ x = nd.l1 => s0 = <<"e1", i, 0>>
    /\ x = nd.l2 => s0 = <<"o", i, 0>>
    /\ \A a \in Entries : x = Entry(tb, nd.l2, a) => s0 = <<"e2", a, i>>

\* What changes when the block b is put at the slot s0: an entry of a table
\* or a field of the node; an index block starts with zeros.
PutNode(nd, nd2, s0, b) ==
    /\ \A i \in Directs : \/ nd2.direct[i] \in {NoBlock, nd.direct[i]}
                          \/ s0 = <<"d", i, 0>> /\ nd2.direct[i] = b
    /\ nd2.l1 \in {NoBlock, nd.l1} \/ (s0 = <<"l1", 0, 0>> /\ nd2.l1 = b)
    /\ nd2.l2 \in {NoBlock, nd.l2} \/ (s0 = <<"l2", 0, 0>> /\ nd2.l2 = b)
PutTables(nd, tb, tb2, s0, b) ==
    /\ \A x \in Blocks : x # b =>
         \A i \in Entries : \/ tb2[x][i] \in {NoBlock, tb[x][i]}
                            \/ tb2[x][i] = b /\ LeadsOnly(nd, tb, x, i, s0)
    /\ IsIndex(s0) => tb2[b] = Zeros

(* Putting a new block at a slot does nothing else to the view. *)
LEMMA PutGrows ==
    ASSUME NEW nd \in Nodes, NEW tb \in [Blocks -> Tables], NEW nd2, NEW tb2,
           NEW s0 \in Slots, NEW b,
           PutNode(nd, nd2, s0, b), PutTables(nd, tb, tb2, s0, b),
           \A s \in Slots : At(nd, tb, s) # b
    PROVE  Grows1(nd, tb, nd2, tb2, s0, b)
<1> DEFINE O(i) == Entry(tb, nd.l2, i)
           O2(i) == Entry(tb2, nd2.l2, i)
<1>1. nd.l1 \in Known /\ nd.l2 \in Known /\ \A i \in Entries : O(i) \in Known
  <2>1. nd.l1 \in Known /\ nd.l2 \in Known
      BY DEF Nodes
  <2> QED BY <2>1 DEF Entry, Known, Tables
<1>2. nd.l1 # b /\ nd.l2 # b /\ \A i \in Entries : O(i) # b
    BY SlotsOf
<1>3. \A i \in Entries : Zeros[i] = NoBlock
    BY DEF Zeros, Entries
<1>4. ASSUME NEW x \in Known, x # b, NEW i \in Entries
      PROVE  \/ Entry(tb2, x, i) \in {NoBlock, Entry(tb, x, i)}
             \/ x # NoBlock /\ Entry(tb2, x, i) = b /\ LeadsOnly(nd, tb, x, i, s0)
  <2>1. CASE x = NoBlock
      BY <2>1 DEF Entry
  <2>2. CASE x # NoBlock
    <3>1. x \in Blocks
        BY <2>2 DEF Known
    <3>2. tb2[x][i] \in {NoBlock, tb[x][i]} \/ (tb2[x][i] = b /\ LeadsOnly(nd, tb, x, i, s0))
        BY <1>4, <3>1 DEF PutTables
    <3> QED BY <2>2, <3>2 DEF Entry
  <2> QED BY <2>1, <2>2
<1>5. IsIndex(s0) => \A i \in Entries : Entry(tb2, b, i) = NoBlock
    BY <1>3 DEF PutTables, Entry
<1>6. ASSUME NEW i \in Entries
      PROVE  O2(i) \in {NoBlock, O(i)} \/ (s0 = <<"o", i, 0>> /\ O2(i) = b)
  <2>1. CASE nd2.l2 = NoBlock
      BY <2>1 DEF Entry
  <2>2. CASE nd2.l2 = nd.l2 /\ nd2.l2 # NoBlock
    <3>1. \/ Entry(tb2, nd.l2, i) \in {NoBlock, Entry(tb, nd.l2, i)}
          \/ Entry(tb2, nd.l2, i) = b /\ LeadsOnly(nd, tb, nd.l2, i, s0)
        BY <1>1, <1>2, <1>4
    <3> QED BY <2>2, <3>1 DEF LeadsOnly
  <2>3. CASE s0 = <<"l2", 0, 0>> /\ nd2.l2 = b
    <3>1. IsIndex(s0)
        BY <2>3 DEF IsIndex
    <3> QED BY <1>5, <2>3, <3>1
  <2> QED BY <2>1, <2>2, <2>3 DEF PutNode
<1> SUFFICES ASSUME NEW s \in Slots
             PROVE  \/ At(nd2, tb2, s) = NoBlock
                    \/ At(nd2, tb2, s) = At(nd, tb, s)
                    \/ s = s0 /\ At(nd2, tb2, s) = b
    BY DEF Grows1
<1>7. CASE s[1] = "d"
    BY <1>7, SlotKinds DEF At, PutNode
<1>8. CASE s[1] = "l1" \/ s[1] = "l2"
    BY <1>8, SlotKinds DEF At, PutNode
<1>9. CASE s[1] = "e1"
  <2> DEFINE i == s[2]
  <2>1. i \in Entries /\ s = <<"e1", i, 0>>
      BY <1>9, SlotKinds
  <2>2. At(nd2, tb2, s) = Entry(tb2, nd2.l1, i) /\ At(nd, tb, s) = Entry(tb, nd.l1, i)
      BY <1>9 DEF At
  <2> HIDE DEF i
  <2>3. CASE nd2.l1 = NoBlock
      BY <2>2, <2>3 DEF Entry
  <2>4. CASE nd2.l1 = nd.l1 /\ nd2.l1 # NoBlock
    <3>1. \/ Entry(tb2, nd.l1, i) \in {NoBlock, Entry(tb, nd.l1, i)}
          \/ Entry(tb2, nd.l1, i) = b /\ LeadsOnly(nd, tb, nd.l1, i, s0)
        BY <1>1, <1>2, <1>4, <2>1
    <3> QED BY <2>1, <2>2, <2>4, <3>1 DEF LeadsOnly
  <2>5. CASE s0 = <<"l1", 0, 0>> /\ nd2.l1 = b
    <3>1. IsIndex(s0)
        BY <2>5 DEF IsIndex
    <3> QED BY <1>5, <2>1, <2>2, <2>5, <3>1
  <2> QED BY <2>3, <2>4, <2>5 DEF PutNode
<1>10. CASE s[1] = "o"
  <2>1. s[2] \in Entries /\ s = <<"o", s[2], 0>>
      BY <1>10, SlotKinds
  <2>2. At(nd2, tb2, s) = O2(s[2]) /\ At(nd, tb, s) = O(s[2])
      BY <1>10 DEF At
  <2> HIDE DEF O, O2
  <2> QED BY <1>6, <2>1, <2>2
<1>11. CASE s[1] = "e2"
  <2> DEFINE i == s[2]
             j == s[3]
  <2>1. i \in Entries /\ j \in Entries /\ s = <<"e2", i, j>>
      BY <1>11, SlotKinds
  <2>2. At(nd2, tb2, s) = Entry(tb2, O2(i), j) /\ At(nd, tb, s) = Entry(tb, O(i), j)
      BY <1>11 DEF At
  <2>a. O(i) = Entry(tb, nd.l2, i)
      OBVIOUS
  <2> HIDE DEF i, j, O, O2
  <2>3. CASE O2(i) = NoBlock
      BY <2>2, <2>3 DEF Entry
  <2>4. CASE O2(i) = O(i)
    <3>1. \/ Entry(tb2, O(i), j) \in {NoBlock, Entry(tb, O(i), j)}
          \/ Entry(tb2, O(i), j) = b /\ LeadsOnly(nd, tb, O(i), j, s0)
        BY <1>1, <1>2, <1>4, <2>1
    <3> QED BY <2>a, <2>1, <2>2, <2>4, <3>1 DEF LeadsOnly
  <2>5. CASE s0 = <<"o", i, 0>> /\ O2(i) = b
    <3>1. IsIndex(s0)
        BY <2>5 DEF IsIndex
    <3> QED BY <1>5, <2>1, <2>2, <2>5, <3>1
  <2> QED BY <1>6, <2>1, <2>3, <2>4, <2>5
<1> QED BY <1>7, <1>8, <1>9, <1>10, <1>11, SlotKinds

(* A node and tables that are behind others show no more than those. *)
LEMMA BehindShows ==
    ASSUME NEW nd \in Nodes, NEW tb \in [Blocks -> Tables], NEW nd2, NEW tb2,
           \A i \in Directs : nd2.direct[i] \in {NoBlock, nd.direct[i]},
           nd2.l1 \in {NoBlock, nd.l1}, nd2.l2 \in {NoBlock, nd.l2},
           \A x \in Blocks : \A i \in Entries : tb2[x][i] \in {NoBlock, tb[x][i]}
    PROVE  \A s \in Slots : At(nd2, tb2, s) \in {NoBlock, At(nd, tb, s)}
<1> DEFINE s0 == <<"d", 0, 0>>
<1>1. 0 \in Directs /\ LinkText \notin Known /\ LinkText # NoBlock
    BY ExtAssumption DEF Directs, LinkText, Known, Blocks, NoBlock
<1>2. s0 \in Slots /\ ~IsIndex(s0)
    BY <1>1, SlotsOf DEF IsIndex
<1>3. \A s \in Slots : At(nd, tb, s) # LinkText
    BY <1>1, AtKnown
<1>4. PutNode(nd, nd2, s0, LinkText)
    BY DEF PutNode
<1>5. PutTables(nd, tb, tb2, s0, LinkText)
    BY <1>2 DEF PutTables
<1>6. Grows1(nd, tb, nd2, tb2, s0, LinkText)
    BY <1>2, <1>3, <1>4, <1>5, PutGrows
<1>7. At(nd2, tb2, s0) \in {NoBlock, At(nd, tb, s0)}
    BY <1>1 DEF At
<1> QED BY <1>6, <1>7 DEF Grows1

-----------------------------------------------------------------------------
(* The parts of a walk that the operations on it change.                   *)

(* The types of the parts. *)
LEMMA VisitParts ==
    ASSUME NEW v \in Visits
    PROVE  /\ v.map \subseteq Blocks /\ v.saved \subseteq Blocks
           /\ v.disk \in Disks /\ v.kept \in Nodes /\ v.node \in Nodes
           /\ v.new \in Known /\ v.got \in Seq(Known)
           /\ v.t \in [1 .. 2 -> Loads]
           /\ \A l \in 1 .. 2 : v.t[l].at \in Known /\ v.t[l].table \in Tables
           /\ \A b \in Blocks : v.disk[b] \in Contents /\ v.disk[b].table \in Tables
           /\ v.node.l1 \in Known /\ v.node.l2 \in Known
           /\ v.node.direct \in [Directs -> Known]
           /\ v.done \in BOOLEAN /\ v.err \in BOOLEAN /\ v.dirty \in BOOLEAN
<1>1. v.disk \in Disks /\ v.t \in [1 .. 2 -> Loads] /\ v.node \in Nodes
    BY DEF Visits
<1>2. \A l \in 1 .. 2 : v.t[l].at \in Known /\ v.t[l].table \in Tables
    BY <1>1 DEF Loads
<1>3. \A b \in Blocks : v.disk[b] \in Contents /\ v.disk[b].table \in Tables
    BY <1>1 DEF Disks, Contents
<1>4. v.node.l1 \in Known /\ v.node.l2 \in Known /\ v.node.direct \in [Directs -> Known]
    BY <1>1 DEF Nodes
<1> QED BY <1>1, <1>2, <1>3, <1>4 DEF Visits

(* The tables that a walk sees. *)
LEMMA SeenAt ==
    ASSUME NEW v \in Visits
    PROVE  /\ Seen(v) \in [Blocks -> Tables]
           /\ \A b \in Blocks :
                /\ b = v.t[1].at => Seen(v)[b] = v.t[1].table
                /\ b # v.t[1].at /\ b = v.t[2].at => Seen(v)[b] = v.t[2].table
                /\ b # v.t[1].at /\ b # v.t[2].at => Seen(v)[b] = v.disk[b].table
BY VisitParts DEF Seen

\* The parts that only Allocate changes.
SameMaps(v, w) == w.map = v.map /\ w.saved = v.saved
SameEnd(v, w) == w.done = v.done /\ w.err = v.err

(* A new block changes the bitmaps. *)
LEMMA TakeParts ==
    ASSUME NEW v \in Visits, NEW b \in Blocks, NEW w, w = Take(v, b)
    PROVE  /\ w \in Visits
           /\ w.map = v.map \cup {b} /\ w.saved = v.map \cup {b} /\ w.new = b
           /\ w.disk = v.disk /\ w.kept = v.kept /\ w.node = v.node /\ w.t = v.t
           /\ w.got = v.got /\ SameEnd(v, w)
BY DEF Take, Visits, SameEnd, Known

(* A dump saves the node, and perhaps a table. *)
LEMMA DumpParts ==
    ASSUME NEW v \in Visits, NEW l \in 1 .. 2, ~v.done, NEW w, w = Dump(v, l)
    PROVE  /\ w \in Visits /\ SameMaps(v, w) /\ SameEnd(v, w)
           /\ w.kept = v.node /\ w.node = v.node /\ w.new = v.new /\ w.got = v.got
           /\ \A k \in 1 .. 2 : w.t[k].at = v.t[k].at /\ w.t[k].table = v.t[k].table
           /\ \A x \in Blocks : \/ w.disk[x] = v.disk[x]
                                \/ x = v.t[l].at /\ w.disk[x].table = v.t[l].table
<1>0. v.t \in [1 .. 2 -> Loads] /\ v.disk \in Disks /\ v.t[l].at \in Known
      /\ v.t[l].table \in Tables
    BY VisitParts
<1>1. CASE v.t[l].mod /\ v.t[l].at # NoBlock
  <2> DEFINE x0 == v.t[l].at
             tt == [v.t EXCEPT ![l] = [v.t[l] EXCEPT !.mod = FALSE]]
             dk == [v.disk EXCEPT ![x0] = Table(v.t[l].table)]
  <2>1. x0 \in Blocks
      BY <1>0, <1>1 DEF Known
  <2>2. w = [v EXCEPT !.kept = v.node, !.t = tt, !.disk = dk]
      BY <1>1 DEF Dump
  <2>3. v.t[l] \in Loads
      BY <1>0
  <2>4. [v.t[l] EXCEPT !.mod = FALSE] \in Loads
      BY <2>3 DEF Loads
  <2>5. tt \in [1 .. 2 -> Loads]
      BY <1>0, <2>4
  <2>6. \A k \in 1 .. 2 : tt[k].at = v.t[k].at /\ tt[k].table = v.t[k].table
    <3>1. [v.t[l] EXCEPT !.mod = FALSE].at = v.t[l].at
          /\ [v.t[l] EXCEPT !.mod = FALSE].table = v.t[l].table
        BY <2>3 DEF Loads
    <3> QED BY <1>0, <3>1
  <2>7. Table(v.t[l].table) \in Contents /\ Table(v.t[l].table).table = v.t[l].table
      BY <1>0 DEF Table, Contents
  <2>8. dk \in Disks
      BY <1>0, <2>1, <2>7 DEF Disks
  <2>9. \A x \in Blocks : dk[x] = v.disk[x] \/ (x = x0 /\ dk[x].table = v.t[l].table)
      BY <1>0, <2>1, <2>7 DEF Disks
  <2> HIDE DEF x0, tt, dk
  <2>10. w \in Visits /\ w.kept = v.node /\ w.t = tt /\ w.disk = dk /\ SameMaps(v, w)
         /\ SameEnd(v, w) /\ w.node = v.node /\ w.new = v.new /\ w.got = v.got
      BY <2>2, <2>5, <2>8 DEF Visits, SameMaps, SameEnd
  <2> QED BY <2>6, <2>9, <2>10 DEF x0
<1>2. CASE ~(v.t[l].mod /\ v.t[l].at # NoBlock)
  <2>1. w = [v EXCEPT !.kept = v.node]
      BY <1>2 DEF Dump
  <2> QED BY <2>1 DEF Visits, SameMaps, SameEnd
<1> QED BY <1>1, <1>2

(* A table is loaded. *)
LEMMA LoadedParts ==
    ASSUME NEW v \in Visits, NEW l \in 1 .. 2, NEW b \in Blocks, NEW w, w = Loaded(v, l, b)
    PROVE  /\ w \in Visits /\ SameMaps(v, w) /\ SameEnd(v, w)
           /\ w.kept = v.kept /\ w.node = v.node /\ w.new = v.new /\ w.got = v.got
           /\ w.disk = v.disk
           /\ w.t[l].at = b /\ w.t[l].table = v.disk[b].table
           /\ \A k \in 1 .. 2 : k # l => w.t[k].at = v.t[k].at /\ w.t[k].table = v.t[k].table
<1>0. v.t \in [1 .. 2 -> Loads] /\ v.t[l] \in Loads /\ v.disk[b].table \in Tables
    BY VisitParts
<1> DEFINE ld == [v.t[l] EXCEPT !.at = b, !.table = v.disk[b].table]
           tt == [v.t EXCEPT ![l] = ld]
<1>1. w = [v EXCEPT !.t = tt]
    BY <1>0 DEF Loaded, Loads
<1>2. ld \in Loads /\ ld.at = b /\ ld.table = v.disk[b].table
    BY <1>0 DEF Loads, Known
<1> HIDE DEF ld
<1>3. tt \in [1 .. 2 -> Loads] /\ tt[l] = ld /\ \A k \in 1 .. 2 : k # l => tt[k] = v.t[k]
    BY <1>0, <1>2
<1> HIDE DEF tt
<1>4. w \in Visits /\ SameMaps(v, w) /\ SameEnd(v, w) /\ w.t = tt
      /\ w.kept = v.kept /\ w.node = v.node /\ w.new = v.new /\ w.got = v.got
      /\ w.disk = v.disk
    BY <1>1, <1>3 DEF Visits, SameMaps, SameEnd
<1> QED BY <1>2, <1>3, <1>4

\* What loading the inner layer leaves.
HasInner(v, w, b) ==
    /\ w \in Visits /\ SameMaps(v, w) /\ SameEnd(v, w)
    /\ w.kept = v.kept /\ w.node = v.node /\ w.new = v.new /\ w.got = v.got
    /\ w.disk = v.disk
    /\ w.t[2].at = b /\ w.t[2].table = v.disk[b].table
    /\ w.t[1].at = v.t[1].at /\ w.t[1].table = v.t[1].table

(* The same of the inner layer. *)
LEMMA InnerLoaded ==
    ASSUME NEW v \in Visits, NEW b \in Blocks, NEW w, w = Loaded(v, 2, b)
    PROVE  HasInner(v, w, b)
<1>1. 1 \in 1 .. 2 /\ 2 \in 1 .. 2 /\ 1 # 2
    OBVIOUS
<1>2. /\ w \in Visits /\ SameMaps(v, w) /\ SameEnd(v, w)
      /\ w.kept = v.kept /\ w.node = v.node /\ w.new = v.new /\ w.got = v.got
      /\ w.disk = v.disk
      /\ w.t[2].at = b /\ w.t[2].table = v.disk[b].table
      /\ \A k \in 1 .. 2 : k # 2 => w.t[k].at = v.t[k].at /\ w.t[k].table = v.t[k].table
    BY <1>1, LoadedParts
<1> QED BY <1>1, <1>2 DEF HasInner

\* A disk on which block b became an index block with zeros.
ZeroedAt(d1, d2, b) ==
    d2[b].table = Zeros /\ \A x \in Blocks : x # b => d2[x] = d1[x]

(* Writing zeros to a block. *)
LEMMA ZeroTable ==
    ASSUME NEW dk \in Disks, NEW b \in Blocks
    PROVE  /\ [dk EXCEPT ![b] = Table(Zeros)] \in Disks
           /\ ZeroedAt(dk, [dk EXCEPT ![b] = Table(Zeros)], b)
<1>1. Zeros \in Tables
    BY DEF Zeros, Tables, Known, Entries
<1>2. Table(Zeros) \in Contents /\ Table(Zeros).table = Zeros
    BY <1>1 DEF Table, Contents
<1> QED BY <1>2 DEF Disks, ZeroedAt

\* The table t2 is t1 with the block b at entry j.
EntrySet(t1, t2, j, b) == \A i \in Entries : t2[i] = IF i = j THEN b ELSE t1[i]

(* The new block becomes the first-layer table. *)
LEMMA AsLayer1Parts ==
    ASSUME NEW v \in Visits, ~v.done, v.new \in Blocks, NEW w, w = AsLayer1(v)
    PROVE  /\ w \in Visits /\ SameMaps(v, w) /\ SameEnd(v, w)
           /\ w.kept = v.kept /\ w.new = v.new /\ w.got = v.got
           /\ w.node.l1 = v.new /\ w.node.l2 = v.node.l2
           /\ w.node.direct = v.node.direct /\ w.node.type = v.node.type
           /\ ZeroedAt(v.disk, w.disk, v.new)
           /\ w.t[1].at = NoBlock /\ w.t[2] = v.t[2]
<1>0. v.t \in [1 .. 2 -> Loads] /\ v.t[1] \in Loads /\ v.node \in Nodes /\ v.disk \in Disks
    BY VisitParts
<1> DEFINE ld == [v.t[1] EXCEPT !.at = NoBlock]
           tt == [v.t EXCEPT ![1] = ld]
           nd == [v.node EXCEPT !.l1 = v.new]
           dk == [v.disk EXCEPT ![v.new] = Table(Zeros)]
<1>1. w = [v EXCEPT !.node = nd, !.disk = dk, !.t = tt]
    BY <1>0 DEF AsLayer1
<1>2. ld \in Loads /\ ld.at = NoBlock
    BY <1>0 DEF Loads, Known
<1>3. nd \in Nodes /\ nd.l1 = v.new /\ nd.l2 = v.node.l2 /\ nd.direct = v.node.direct
      /\ nd.type = v.node.type
    BY <1>0 DEF Nodes, Known
<1>4. dk \in Disks /\ ZeroedAt(v.disk, dk, v.new)
    BY <1>0, ZeroTable
<1> HIDE DEF ld, nd, dk
<1>5. tt \in [1 .. 2 -> Loads] /\ tt[1] = ld /\ tt[2] = v.t[2]
    BY <1>0, <1>2
<1> HIDE DEF tt
<1>6. w \in Visits /\ SameMaps(v, w) /\ SameEnd(v, w) /\ w.t = tt /\ w.node = nd
      /\ w.disk = dk /\ w.kept = v.kept /\ w.new = v.new /\ w.got = v.got
    BY <1>1, <1>3, <1>4, <1>5 DEF Visits, SameMaps, SameEnd
<1> QED BY <1>2, <1>3, <1>4, <1>5, <1>6

(* The new block becomes the second-layer table. *)
LEMMA AsLayer2Parts ==
    ASSUME NEW v \in Visits, ~v.done, v.new \in Blocks, NEW w, w = AsLayer2(v)
    PROVE  /\ w \in Visits /\ SameMaps(v, w) /\ SameEnd(v, w)
           /\ w.kept = v.kept /\ w.new = v.new /\ w.got = v.got
           /\ w.node.l2 = v.new /\ w.node.l1 = v.node.l1
           /\ w.node.direct = v.node.direct /\ w.node.type = v.node.type
           /\ ZeroedAt(v.disk, w.disk, v.new)
           /\ w.t[1].at = NoBlock /\ w.t[2] = v.t[2]
<1>0. v.t \in [1 .. 2 -> Loads] /\ v.t[1] \in Loads /\ v.node \in Nodes /\ v.disk \in Disks
    BY VisitParts
<1> DEFINE ld == [v.t[1] EXCEPT !.at = NoBlock]
           tt == [v.t EXCEPT ![1] = ld]
           nd == [v.node EXCEPT !.l2 = v.new]
           dk == [v.disk EXCEPT ![v.new] = Table(Zeros)]
<1>1. w = [v EXCEPT !.node = nd, !.disk = dk, !.t = tt]
    BY <1>0 DEF AsLayer2
<1>2. ld \in Loads /\ ld.at = NoBlock
    BY <1>0 DEF Loads, Known
<1>3. nd \in Nodes /\ nd.l2 = v.new /\ nd.l1 = v.node.l1 /\ nd.direct = v.node.direct
      /\ nd.type = v.node.type
    BY <1>0 DEF Nodes, Known
<1>4. dk \in Disks /\ ZeroedAt(v.disk, dk, v.new)
    BY <1>0, ZeroTable
<1> HIDE DEF ld, nd, dk
<1>5. tt \in [1 .. 2 -> Loads] /\ tt[1] = ld /\ tt[2] = v.t[2]
    BY <1>0, <1>2
<1> HIDE DEF tt
<1>6. w \in Visits /\ SameMaps(v, w) /\ SameEnd(v, w) /\ w.t = tt /\ w.node = nd
      /\ w.disk = dk /\ w.kept = v.kept /\ w.new = v.new /\ w.got = v.got
    BY <1>1, <1>3, <1>4, <1>5 DEF Visits, SameMaps, SameEnd
<1> QED BY <1>2, <1>3, <1>4, <1>5, <1>6

(* The new block becomes an entry of a table. *)
LEMMA AsEntryParts ==
    ASSUME NEW v \in Visits, ~v.done, v.new \in Blocks, NEW l \in 1 .. 2, NEW j \in Entries,
           NEW w, w = AsEntry(v, l, j)
    PROVE  /\ w \in Visits /\ SameMaps(v, w) /\ SameEnd(v, w)
           /\ w.kept = v.kept /\ w.node = v.node /\ w.new = v.new /\ w.got = v.got
           /\ w.disk = v.disk
           /\ w.t[l].at = v.t[l].at /\ EntrySet(v.t[l].table, w.t[l].table, j, v.new)
           /\ \A k \in 1 .. 2 : k # l => w.t[k] = v.t[k]
<1>0. v.t \in [1 .. 2 -> Loads] /\ v.t[l] \in Loads /\ v.t[l].table \in Tables
    BY VisitParts
<1> DEFINE tb == [v.t[l].table EXCEPT ![j] = v.new]
           ld == [v.t[l] EXCEPT !.table = tb, !.mod = TRUE]
           tt == [v.t EXCEPT ![l] = ld]
<1>1. w = [v EXCEPT !.t = tt]
    BY <1>0 DEF AsEntry, Loads
<1>2. tb \in Tables
    BY <1>0 DEF Tables, Known
<1>a. w.t[l].table = tb => EntrySet(v.t[l].table, w.t[l].table, j, v.new)
    BY <1>0 DEF EntrySet, Tables
<1> HIDE DEF tb
<1>3. ld \in Loads /\ ld.at = v.t[l].at /\ ld.table = tb
    BY <1>0, <1>2 DEF Loads
<1> HIDE DEF ld
<1>4. tt \in [1 .. 2 -> Loads] /\ tt[l] = ld /\ \A k \in 1 .. 2 : k # l => tt[k] = v.t[k]
    BY <1>0, <1>3
<1> HIDE DEF tt
<1>5. w \in Visits /\ SameMaps(v, w) /\ SameEnd(v, w) /\ w.t = tt
      /\ w.kept = v.kept /\ w.node = v.node /\ w.new = v.new /\ w.got = v.got
      /\ w.disk = v.disk
    BY <1>1, <1>4 DEF Visits, SameMaps, SameEnd
<1> QED BY <1>a, <1>3, <1>4, <1>5

(* The new block becomes a direct block. *)
LEMMA AsDirectParts ==
    ASSUME NEW v \in Visits, ~v.done, v.new \in Blocks, NEW i \in Directs,
           NEW w, w = AsDirect(v, i)
    PROVE  /\ w \in Visits /\ SameMaps(v, w) /\ SameEnd(v, w)
           /\ w.kept = v.kept /\ w.new = v.new /\ w.got = v.got /\ w.disk = v.disk /\ w.t = v.t
           /\ w.node.l1 = v.node.l1 /\ w.node.l2 = v.node.l2 /\ w.node.type = v.node.type
           /\ w.node.direct = [v.node.direct EXCEPT ![i] = v.new]
<1>0. v.node \in Nodes /\ v.node.direct \in [Directs -> Known]
    BY VisitParts
<1> DEFINE dd == [v.node.direct EXCEPT ![i] = v.new]
           nd == [v.node EXCEPT !.direct = dd]
<1>1. w = [v EXCEPT !.node = nd, !.dirty = TRUE]
    BY DEF AsDirect
<1>2. dd \in [Directs -> Known]
    BY <1>0 DEF Known
<1>a. w.node.direct = dd => w.node.direct = [v.node.direct EXCEPT ![i] = v.new]
    OBVIOUS
<1> HIDE DEF dd
<1>3. nd \in Nodes /\ nd.direct = dd /\ nd.l1 = v.node.l1 /\ nd.l2 = v.node.l2
      /\ nd.type = v.node.type
    BY <1>0, <1>2 DEF Nodes
<1> HIDE DEF nd
<1>4. w \in Visits /\ SameMaps(v, w) /\ SameEnd(v, w) /\ w.t = v.t /\ w.node = nd
      /\ w.kept = v.kept /\ w.new = v.new /\ w.got = v.got /\ w.disk = v.disk
    BY <1>1, <1>3 DEF Visits, SameMaps, SameEnd
<1> QED BY <1>a, <1>3, <1>4

(* The new block becomes the table that an entry leads to. *)
LEMMA AsTableParts ==
    ASSUME NEW v \in Visits, ~v.done, v.new \in Blocks, NEW j \in Entries,
           NEW w, w = AsTable(v, j)
    PROVE  /\ w \in Visits /\ SameMaps(v, w) /\ SameEnd(v, w)
           /\ w.kept = v.kept /\ w.node = v.node /\ w.new = v.new /\ w.got = v.got
           /\ ZeroedAt(v.disk, w.disk, v.new)
           /\ w.t[1].at = v.t[1].at /\ EntrySet(v.t[1].table, w.t[1].table, j, v.new)
           /\ w.t[2].at = v.new /\ w.t[2].table = Zeros
<1>0. v.t \in [1 .. 2 -> Loads] /\ v.t[1] \in Loads /\ v.t[2] \in Loads
      /\ v.t[1].table \in Tables /\ v.disk \in Disks
    BY VisitParts
<1> DEFINE tb == [v.t[1].table EXCEPT ![j] = v.new]
           l1 == [v.t[1] EXCEPT !.table = tb, !.mod = TRUE]
           l2 == [v.t[2] EXCEPT !.at = v.new, !.table = Zeros]
           tt == [v.t EXCEPT ![1] = l1, ![2] = l2]
           dk == [v.disk EXCEPT ![v.new] = Table(Zeros)]
<1>1. w = [v EXCEPT !.t = tt, !.disk = dk]
  <2>1. w = [v EXCEPT !.t[1].table[j] = v.new, !.t[1].mod = TRUE,
                      !.disk[v.new] = Table(Zeros),
                      !.t[2].at = v.new, !.t[2].table = Zeros]
      BY DEF AsTable
  <2> DEFINE a1 == [v EXCEPT !.t = [v.t EXCEPT ![1] = [v.t[1] EXCEPT !.table = tb]]]
             a2 == [a1 EXCEPT !.t = [a1.t EXCEPT ![1] = [a1.t[1] EXCEPT !.mod = TRUE]]]
             a3 == [a2 EXCEPT !.disk = [a2.disk EXCEPT ![v.new] = Table(Zeros)]]
             a4 == [a3 EXCEPT !.t = [a3.t EXCEPT ![2] = [a3.t[2] EXCEPT !.at = v.new]]]
             a5 == [a4 EXCEPT !.t = [a4.t EXCEPT ![2] = [a4.t[2] EXCEPT !.table = Zeros]]]
  <2>2. w = a5
      BY <2>1
  <2>3. a1.t[1] = [v.t[1] EXCEPT !.table = tb]
      BY <1>0 DEF Visits
  <2>4. a2.t = [v.t EXCEPT ![1] = l1]
    <3>1. [[v.t[1] EXCEPT !.table = tb] EXCEPT !.mod = TRUE] = l1
        BY <1>0 DEF Loads
    <3>2. a1.t = [v.t EXCEPT ![1] = [v.t[1] EXCEPT !.table = tb]]
        BY DEF Visits
    <3>3. a1 = [v EXCEPT !.t = a1.t] /\ "t" \in DOMAIN v
        BY DEF Visits
    <3>4. a2.t = [a1.t EXCEPT ![1] = l1]
      <4> HIDE DEF l1, tb
      <4> QED BY <2>3, <3>1, <3>3 
    <3> HIDE DEF a1, l1, tb
    <3> QED BY <1>0, <3>2, <3>4
  <2> DEFINE t2 == [v.t EXCEPT ![1] = l1]
             m2 == [v.t[2] EXCEPT !.at = v.new]
             t4 == [t2 EXCEPT ![2] = m2]
  <2>5. a2 = [v EXCEPT !.t = t2]
    <3>1. a2 = [v EXCEPT !.t = a2.t]
        BY DEF Visits
    <3> HIDE DEF a2
    <3> QED BY <2>4, <3>1
  <2>6. v.t[2] \in Loads /\ t2[2] = v.t[2] /\ [m2 EXCEPT !.table = Zeros] = l2
    <3>1. [m2 EXCEPT !.table = Zeros] = l2
        BY <1>0 DEF Loads
    <3> HIDE DEF l1
    <3> QED BY <1>0, <3>1
  <2> HIDE DEF a2, l1, m2
  <2>7. t4[2] = m2 /\ [t4 EXCEPT ![2] = l2] = tt
    <3> HIDE DEF l2
    <3> QED BY <1>0
  <2>8. a3 = [v EXCEPT !.t = t2, !.disk = dk]
    <3> HIDE DEF t2
    <3> QED BY <2>5 DEF Visits
  <2> HIDE DEF a3, dk
  <2>9. a4 = [v EXCEPT !.t = t4, !.disk = dk]
    <3>1. a3.t = t2
      <4> HIDE DEF t2
      <4> QED BY <2>8 DEF Visits
    <3>2. [a3.t EXCEPT ![2] = [a3.t[2] EXCEPT !.at = v.new]] = t4
      <4> HIDE DEF t2
      <4> QED BY <2>6, <3>1 DEF m2
    <3>3. a4 = [a3 EXCEPT !.t = t4]
        BY <3>2
    <3> HIDE DEF t2, t4
    <3> QED BY <2>8, <3>3 DEF Visits
  <2> HIDE DEF a4
  <2>10. a4.t = t4
    <3> HIDE DEF t4
    <3> QED BY <2>9 DEF Visits
  <2>11. a5 = [a4 EXCEPT !.t = tt]
    <3>1. [a4.t EXCEPT ![2] = [a4.t[2] EXCEPT !.table = Zeros]] = tt
      <4> HIDE DEF t4, tt, l2
      <4> QED BY <2>6, <2>7, <2>10
    <3> HIDE DEF tt
    <3> QED BY <3>1
  <2> HIDE DEF t4, tt, a5
  <2> QED BY <2>2, <2>9, <2>11 DEF Visits
<1>2. tb \in Tables
    BY <1>0 DEF Tables, Known
<1>a. w.t[1].table = tb => EntrySet(v.t[1].table, w.t[1].table, j, v.new)
    BY <1>0 DEF EntrySet, Tables
<1> HIDE DEF tb
<1>3. l1 \in Loads /\ l1.at = v.t[1].at /\ l1.table = tb
    BY <1>0, <1>2 DEF Loads
<1>4. l2 \in Loads /\ l2.at = v.new /\ l2.table = Zeros
  <2>1. Zeros \in Tables
      BY DEF Zeros, Tables, Known, Entries
  <2> QED BY <1>0, <2>1 DEF Loads, Known
<1>5. dk \in Disks /\ ZeroedAt(v.disk, dk, v.new)
    BY <1>0, ZeroTable
<1> HIDE DEF l1, l2, dk
<1>6. tt \in [1 .. 2 -> Loads] /\ tt[1] = l1 /\ tt[2] = l2
    BY <1>0, <1>3, <1>4
<1> HIDE DEF tt
<1>7. w \in Visits /\ SameMaps(v, w) /\ SameEnd(v, w) /\ w.t = tt
      /\ w.kept = v.kept /\ w.node = v.node /\ w.new = v.new /\ w.got = v.got
      /\ w.disk = dk
    BY <1>1, <1>5, <1>6 DEF Visits, SameMaps, SameEnd
<1> QED BY <1>a, <1>3, <1>4, <1>5, <1>6, <1>7

-----------------------------------------------------------------------------
(* The operations on a walk keep its invariant.                            *)

\* The block allocated last is marked and not in use yet.
Fresh(v, F) ==
    /\ v.new \in Blocks /\ v.new \in v.map \cap v.saved /\ v.new \notin F
    /\ \A s \in Slots : At(v.node, Seen(v), s) # v.new
    /\ \A n \in 1 .. Len(v.got) : v.got[n] # v.new

(* A view that shows no more stays owned. *)
LEMMA LessOwned ==
    ASSUME NEW v, NEW w, NEW F, ViewOwned(v, F), GotRight(v, F), SameMaps(v, w), w.got = v.got,
           \A s \in Slots : At(w.node, Seen(w), s) \in {NoBlock, At(v.node, Seen(v), s)}
    PROVE  ViewOwned(w, F) /\ GotRight(w, F)
<1>1. OnePlace(w.node, Seen(w))
    BY DEF ViewOwned, OnePlace
<1>2. ASSUME NEW s \in Slots
      PROVE  At(w.node, Seen(w), s) \in ((w.map \cap w.saved) \ F) \cup {NoBlock}
    BY DEF ViewOwned, SameMaps
<1>3. GotRight(w, F)
    BY DEF GotRight, SameMaps
<1> QED BY <1>1, <1>2, <1>3 DEF ViewOwned

(* A view that shows one new block more stays owned. *)
LEMMA PutOwned ==
    ASSUME NEW v \in Visits, NEW w, NEW F, NEW s0 \in Slots,
           ViewOwned(v, F), GotRight(v, F), Fresh(v, F), SameMaps(v, w), w.got = v.got,
           PutNode(v.node, w.node, s0, v.new),
           PutTables(v.node, Seen(v), Seen(w), s0, v.new)
    PROVE  ViewOwned(w, F) /\ GotRight(w, F)
<1> DEFINE A(s) == At(v.node, Seen(v), s)
           B(s) == At(w.node, Seen(w), s)
<1>1. v.node \in Nodes /\ Seen(v) \in [Blocks -> Tables]
    BY VisitParts, SeenAt
<1>2. \A s \in Slots : At(v.node, Seen(v), s) # v.new
    BY DEF Fresh
<1>3. Grows1(v.node, Seen(v), w.node, Seen(w), s0, v.new)
    BY <1>1, <1>2, PutGrows
<1>4. OnePlace(w.node, Seen(w))
    BY <1>2, <1>3, GrowsOnePlace DEF ViewOwned
<1>5. \A s \in Slots : B(s) = NoBlock \/ B(s) = A(s) \/ B(s) = v.new
    BY <1>3 DEF Grows1
<1>6. \A s \in Slots : B(s) \in ((w.map \cap w.saved) \ F) \cup {NoBlock}
  <2>1. \A s \in Slots : A(s) \in ((v.map \cap v.saved) \ F) \cup {NoBlock}
      BY DEF ViewOwned
  <2> HIDE DEF A, B
  <2> QED BY <1>5, <2>1 DEF Fresh, SameMaps
<1>7. ASSUME NEW n \in 1 .. Len(w.got), w.got[n] # NoBlock
      PROVE  w.got[n] \in w.map \ F /\ \A s \in Slots : IsIndex(s) => B(s) # w.got[n]
  <2>1. w.got[n] \in v.map \ F /\ \A s \in Slots : IsIndex(s) => A(s) # w.got[n]
      BY <1>7 DEF GotRight
  <2>2. w.got[n] # v.new
      BY DEF Fresh
  <2> HIDE DEF A, B
  <2> QED BY <1>5, <1>7, <2>1, <2>2 DEF SameMaps
<1> QED BY <1>4, <1>6, <1>7 DEF ViewOwned, GotRight

(* What a walk sees, and the disk behind it, depend on a few of its parts. *)
LEMMA SameParts ==
    ASSUME NEW v, NEW F, NEW dk, WalkInv(v, F, dk), NEW w, w.node = v.node, w.t = v.t,
           w.disk = v.disk, w.kept = v.kept
    PROVE  Seen(w) = Seen(v) /\ DiskBehind(w) /\ LoadsRight(w)
<1>1. Seen(w) = Seen(v)
    BY DEF Seen
<1>2. DiskBehind(v) /\ LoadsRight(v)
    BY DEF WalkInv
<1>3. DiskBehind(w)
    BY <1>2 DEF DiskBehind
<1>4. LoadsRight(w)
    BY <1>2 DEF LoadsRight
<1> QED BY <1>1, <1>3, <1>4

(* If the bitmaps are the same too, so is what the walk owns. *)
LEMMA SameOwned ==
    ASSUME NEW v, NEW F, NEW dk, WalkInv(v, F, dk), NEW w, SameMaps(v, w), w.node = v.node,
           w.t = v.t, w.disk = v.disk
    PROVE  ViewOwned(w, F) /\ OthersKept(w, F, dk)
<1>1. Seen(w) = Seen(v)
    BY DEF Seen
<1>2. ViewOwned(v, F) /\ OthersKept(v, F, dk)
    BY DEF WalkInv
<1>3. ViewOwned(w, F)
    BY <1>1, <1>2 DEF ViewOwned, SameMaps
<1>4. OthersKept(w, F, dk)
    BY <1>2 DEF OthersKept, SameMaps
<1> QED BY <1>3, <1>4

(* A walk that finds a free block takes it; one that finds none is over. *)
LEMMA AllocateInv ==
    ASSUME NEW v, NEW F, NEW dk, WalkInv(v, F, dk), NEW w, w = Allocate(v)
    PROVE  /\ WalkInv(w, F, dk)
           /\ ~w.done => Fresh(w, F) /\ ~v.done
           /\ w.node = v.node /\ w.t = v.t
<1>0. v \in Visits
    BY DEF WalkInv
<1>1. CASE v.done
    BY <1>1 DEF Allocate
<1>2. CASE ~v.done /\ Blocks \subseteq v.map
  <2>1. w = [v EXCEPT !.done = TRUE, !.err = TRUE]
      BY <1>2 DEF Allocate
  <2>2. w \in Visits /\ w.done /\ SameMaps(v, w) /\ w.disk = v.disk /\ w.kept = v.kept
        /\ w.node = v.node /\ w.t = v.t /\ w.got = v.got
      BY <1>0, <2>1 DEF Visits, SameMaps
  <2>3. Seen(w) = Seen(v) /\ DiskBehind(w) /\ LoadsRight(w)
      BY <2>2, SameParts
  <2>4. ViewOwned(w, F) /\ OthersKept(w, F, dk)
      BY <2>2, SameOwned
  <2>5. GotRight(w, F)
      BY <2>2, <2>3 DEF WalkInv, GotRight, SameMaps
  <2> QED BY <2>2, <2>3, <2>4, <2>5 DEF WalkInv
<1>3. CASE ~v.done /\ ~(Blocks \subseteq v.map)
  <2> DEFINE b == Search(Blocks \ v.map)
  <2>1. b \in Blocks /\ b \notin v.map
    <3>1. Blocks \ v.map \subseteq Nat /\ Blocks \ v.map # {}
        BY <1>3 DEF Blocks
    <3>2. Min(Blocks \ v.map) \in Blocks \ v.map
        BY <3>1, LeastNatural
    <3> QED BY <3>2 DEF Search
  <2>2. w = Take(v, b)
      BY <1>3 DEF Allocate
  <2> HIDE DEF b
  <2>3. /\ w \in Visits
        /\ w.map = v.map \cup {b} /\ w.saved = v.map \cup {b} /\ w.new = b
        /\ w.disk = v.disk /\ w.kept = v.kept /\ w.node = v.node /\ w.t = v.t
        /\ w.got = v.got /\ w.done = v.done /\ w.err = v.err
      BY <1>0, <2>1, <2>2, TakeParts DEF SameEnd
  <2>4. Seen(w) = Seen(v) /\ DiskBehind(w) /\ LoadsRight(w)
      BY <2>3, SameParts
  <2>5. ViewOwned(w, F)
      BY <2>1, <2>3, <2>4 DEF WalkInv, ViewOwned
  <2>6. OthersKept(w, F, dk) /\ GotRight(w, F)
      BY <2>1, <2>3, <2>4 DEF WalkInv, OthersKept, GotRight
  <2>7. Fresh(w, F)
    <3>1. b \notin F /\ b # NoBlock
        BY <2>1 DEF WalkInv, OthersKept, Blocks, NoBlock
    <3>2. \A s \in Slots : At(w.node, Seen(w), s) # b
        BY <2>1, <2>3, <2>4, <3>1 DEF WalkInv, ViewOwned
    <3>3. \A n \in 1 .. Len(w.got) : w.got[n] # b
        BY <2>1, <2>3, <3>1 DEF WalkInv, GotRight
    <3> QED BY <2>1, <2>3, <3>1, <3>2, <3>3 DEF Fresh
  <2> QED BY <1>3, <2>3, <2>4, <2>5, <2>6, <2>7 DEF WalkInv
<1> QED BY <1>1, <1>2, <1>3

(* The tables loaded are index blocks of the view, at different slots. *)
LEMMA LoadsInView ==
    ASSUME NEW v, NEW F, NEW dk, WalkInv(v, F, dk)
    PROVE  /\ \A l \in 1 .. 2 : v.t[l].at # NoBlock =>
                /\ v.t[l].at \in Blocks
                /\ v.t[l].at \notin F
                /\ \E s \in Slots : IsIndex(s) /\ At(v.node, Seen(v), s) = v.t[l].at
           /\ v.t[2].at # NoBlock => v.t[1].at # v.t[2].at
<1>0. v \in Visits
    BY DEF WalkInv
<1> DEFINE A(s) == At(v.node, Seen(v), s)
<1>1. v.t[1].at \in Known /\ v.t[2].at \in Known
    BY <1>0, VisitParts
<1>2. <<"l1", 0, 0>> \in Slots /\ A(<<"l1", 0, 0>>) = v.node.l1 /\ IsIndex(<<"l1", 0, 0>>)
      /\ <<"l2", 0, 0>> \in Slots /\ A(<<"l2", 0, 0>>) = v.node.l2 /\ IsIndex(<<"l2", 0, 0>>)
    BY SlotsOf DEF IsIndex
<1>3. v.t[1].at # NoBlock => \E s \in Slots : IsIndex(s) /\ A(s) = v.t[1].at
  <2>1. v.t[1].at \in {NoBlock, v.node.l1, v.node.l2}
      BY DEF WalkInv, LoadsRight
  <2> HIDE DEF A
  <2> QED BY <1>2, <2>1
<1>4. ASSUME v.t[2].at # NoBlock
      PROVE  /\ \E s \in Slots : IsIndex(s) /\ A(s) = v.t[2].at
             /\ v.t[1].at # v.t[2].at
  <2>1. PICK a \in Entries : /\ v.t[1].at = v.node.l2 /\ v.node.l2 # NoBlock
                             /\ v.t[2].at = v.t[1].table[a]
      BY <1>4 DEF WalkInv, LoadsRight
  <2>2. v.node.l2 \in Blocks
      BY <1>1, <2>1 DEF Known
  <2>3. Seen(v)[v.node.l2] = v.t[1].table
      BY <1>0, <2>1, <2>2, SeenAt
  <2> DEFINE u == <<"o", a, 0>>
             z == <<"l2", 0, 0>>
  <2>4. u \in Slots /\ A(u) = Entry(Seen(v), v.node.l2, a) /\ IsIndex(u) /\ u # z
      BY SlotsOf DEF IsIndex
  <2>5. A(u) = v.t[2].at
      BY <2>1, <2>3, <2>4 DEF Entry
  <2>6. A(z) # NoBlock /\ z # u => A(u) # A(z)
    <3>1. OnePlace(v.node, Seen(v)) /\ z \in Slots /\ u \in Slots
        BY <1>2, <2>4 DEF WalkInv, ViewOwned
    <3> HIDE DEF u, z
    <3> QED BY <3>1 DEF OnePlace
  <2> HIDE DEF A, u
  <2> QED BY <1>2, <2>1, <2>4, <2>5, <2>6
<1>5. \A s \in Slots : A(s) \in ((v.map \cap v.saved) \ F) \cup {NoBlock}
    BY DEF WalkInv, ViewOwned
<1> HIDE DEF A
<1>6. \A l \in 1 .. 2 : l = 1 \/ l = 2
    OBVIOUS
<1>7. v.t[1].at # NoBlock => v.t[1].at \in Blocks /\ v.t[1].at \notin F
    BY <1>1, <1>3, <1>5 DEF Known
<1>8. v.t[2].at # NoBlock => v.t[2].at \in Blocks /\ v.t[2].at \notin F
    BY <1>1, <1>4, <1>5 DEF Known
<1> QED BY <1>3, <1>4, <1>6, <1>7, <1>8 DEF A

(* A table on disk is behind the one that the walk has loaded. *)
LEMMA TableBehind ==
    ASSUME NEW v, NEW F, NEW dk, WalkInv(v, F, dk), NEW l \in 1 .. 2, v.t[l].at # NoBlock,
           NEW i \in Entries
    PROVE  v.disk[v.t[l].at].table[i] \in {NoBlock, v.t[l].table[i]}
<1>1. DiskBehind(v)
    BY DEF WalkInv
<1> QED BY <1>1 DEF DiskBehind

(* The same of the outer layer. *)
LEMMA Behind1 ==
    ASSUME NEW v, NEW F, NEW dk, WalkInv(v, F, dk), v.t[1].at # NoBlock, NEW i \in Entries
    PROVE  v.disk[v.t[1].at].table[i] \in {NoBlock, v.t[1].table[i]}
<1>1. 1 \in 1 .. 2
    OBVIOUS
<1> QED BY <1>1, TableBehind

(* And of the inner one. *)
LEMMA Behind2 ==
    ASSUME NEW v, NEW F, NEW dk, WalkInv(v, F, dk), v.t[2].at # NoBlock, NEW i \in Entries
    PROVE  v.disk[v.t[2].at].table[i] \in {NoBlock, v.t[2].table[i]}
<1>1. 2 \in 1 .. 2
    OBVIOUS
<1> QED BY <1>1, TableBehind

(* A dump keeps the invariant, and what the walk sees. *)
LEMMA DumpInv ==
    ASSUME NEW v, NEW F, NEW dk, WalkInv(v, F, dk), NEW l \in 1 .. 2, NEW w, w = Dump(v, l)
    PROVE  /\ WalkInv(w, F, dk) /\ w.done = v.done /\ w.node = v.node
           /\ \A k \in 1 .. 2 : w.t[k].at = v.t[k].at /\ w.t[k].table = v.t[k].table
<1>0. v \in Visits
    BY DEF WalkInv
<1>1. CASE v.done
    BY <1>1 DEF Dump
<1>2. CASE ~v.done
  <2>1. /\ w \in Visits /\ SameMaps(v, w) /\ SameEnd(v, w)
        /\ w.kept = v.node /\ w.node = v.node /\ w.new = v.new /\ w.got = v.got
        /\ \A k \in 1 .. 2 : w.t[k].at = v.t[k].at /\ w.t[k].table = v.t[k].table
        /\ \A x \in Blocks : \/ w.disk[x] = v.disk[x]
                             \/ x = v.t[l].at /\ w.disk[x].table = v.t[l].table
      BY <1>0, <1>2, DumpParts
  <2>a. w.t[1].at = v.t[1].at /\ w.t[1].table = v.t[1].table
        /\ w.t[2].at = v.t[2].at /\ w.t[2].table = v.t[2].table
      BY <2>1
  <2>b. l = 1 \/ l = 2
      OBVIOUS
  <2>2. \A x \in Blocks : Seen(w)[x] = Seen(v)[x]
      BY <1>0, <2>1, <2>a, <2>b, SeenAt
  <2>3. Seen(w) = Seen(v)
      BY <2>2 DEF Seen
  <2>4. ViewOwned(w, F) /\ GotRight(w, F)
      BY <2>1, <2>3 DEF WalkInv, ViewOwned, GotRight, SameMaps
  <2>5. \A k \in 1 .. 2 : v.t[k].at # NoBlock => v.t[k].at \in Blocks /\ v.t[k].at \notin F
      BY LoadsInView
  <2>6. OthersKept(w, F, dk)
    <3>1. ASSUME NEW b \in F PROVE w.disk[b] = v.disk[b]
      <4>1. b \in Blocks
          BY <1>0, VisitParts DEF WalkInv, OthersKept
      <4>2. b # v.t[l].at
        <5>1. b # NoBlock
            BY <4>1 DEF Blocks, NoBlock
        <5> QED BY <2>5, <5>1
      <4> QED BY <2>1, <4>1, <4>2
    <3> QED BY <2>1, <3>1 DEF WalkInv, OthersKept, SameMaps
  <2>7. DiskBehind(w)
    <3>1. ASSUME NEW k \in 1 .. 2, w.t[k].at # NoBlock, NEW i \in Entries
          PROVE  w.disk[w.t[k].at].table[i] \in {NoBlock, w.t[k].table[i]}
      <4> DEFINE x == v.t[k].at
      <4>1. x \in Blocks /\ w.t[k].at = x /\ w.t[k].table = v.t[k].table
          BY <2>1, <2>5, <3>1
      <4>2. v.disk[x].table[i] \in {NoBlock, v.t[k].table[i]}
          BY <3>1, <4>1 DEF WalkInv, DiskBehind
      <4>3. x = v.t[l].at => k = l
          BY <2>b, <3>1, <4>1, LoadsInView
      <4> HIDE DEF x
      <4> QED BY <2>1, <4>1, <4>2, <4>3
    <3> QED BY <2>1, <3>1 DEF DiskBehind
  <2>8. LoadsRight(w)
      BY <2>1, <2>a DEF WalkInv, LoadsRight
  <2> QED BY <2>1, <2>4, <2>6, <2>7, <2>8 DEF WalkInv, SameEnd
<1> QED BY <1>1, <1>2

(* The table of a layer is loaded, while no table of the inner layer is. *)
LEMMA LoadInv1 ==
    ASSUME NEW v, NEW F, NEW dk, WalkInv(v, F, dk), NEW b, b \in {v.node.l1, v.node.l2},
           b # NoBlock, ~v.done => v.t[2].at = NoBlock \/ v.t[1].at = b,
           NEW w, w = Load(v, 1, b)
    PROVE  /\ WalkInv(w, F, dk) /\ w.done = v.done /\ w.node = v.node
           /\ w.t[2].at = v.t[2].at /\ w.t[2].table = v.t[2].table
           /\ ~v.done => w.t[1].at = b
<1>1. CASE v.done \/ v.t[1].at = b
    BY <1>1 DEF Load
<1>2. CASE ~v.done /\ v.t[1].at # b
  <2> DEFINE u == Dump(v, 1)
  <2>1. /\ WalkInv(u, F, dk) /\ u.done = v.done /\ u.node = v.node
        /\ \A k \in 1 .. 2 : u.t[k].at = v.t[k].at /\ u.t[k].table = v.t[k].table
      BY DumpInv
  <2>2. w = Loaded(u, 1, b)
      BY <1>2 DEF Load
  <2>3. u \in Visits /\ b \in Blocks
      BY <2>1, VisitParts DEF WalkInv, Known
  <2> HIDE DEF u
  <2>4. /\ w \in Visits /\ SameMaps(u, w) /\ SameEnd(u, w)
        /\ w.kept = u.kept /\ w.node = u.node /\ w.new = u.new /\ w.got = u.got
        /\ w.disk = u.disk
        /\ w.t[1].at = b /\ w.t[1].table = u.disk[b].table
        /\ w.t[2].at = u.t[2].at /\ w.t[2].table = u.t[2].table
      BY <2>2, <2>3, LoadedParts
  <2>5. u.t[2].at = NoBlock /\ u.t[1].at # b
      BY <1>2, <2>1
  <2>6. ASSUME NEW x \in Blocks, NEW i \in Entries
        PROVE  Seen(w)[x][i] \in {NoBlock, Seen(u)[x][i]}
    <3>1. x # NoBlock
        BY DEF Blocks, NoBlock
    <3>2. CASE x = b
        BY <2>3, <2>4, <2>5, <3>1, <3>2, SeenAt
    <3>3. CASE x # b
      <4>1. Seen(w)[x] = u.disk[x].table
          BY <2>3, <2>4, <2>5, <3>1, <3>3, SeenAt
      <4>2. CASE x = u.t[1].at
        <5>1. u.disk[u.t[1].at].table[i] \in {NoBlock, u.t[1].table[i]}
            BY <2>1, <3>1, <4>2, Behind1
        <5> QED BY <2>3, <4>1, <4>2, <5>1, SeenAt
      <4>3. CASE x # u.t[1].at
          BY <2>3, <2>5, <3>1, <4>1, <4>3, SeenAt
      <4> QED BY <4>2, <4>3
    <3> QED BY <3>2, <3>3
  <2>7. \A s \in Slots : At(w.node, Seen(w), s) \in {NoBlock, At(u.node, Seen(u), s)}
    <3>1. u.node \in Nodes /\ Seen(u) \in [Blocks -> Tables] /\ w.node = u.node
        BY <2>3, <2>4, VisitParts, SeenAt
    <3> QED BY <2>6, <3>1, BehindShows
  <2>8. ViewOwned(w, F) /\ GotRight(w, F)
      BY <2>1, <2>4, <2>7, LessOwned DEF WalkInv
  <2>9. OthersKept(w, F, dk)
      BY <2>1, <2>4 DEF WalkInv, OthersKept, SameMaps
  <2>10. DiskBehind(w)
    <3>1. ASSUME NEW k \in 1 .. 2, w.t[k].at # NoBlock, NEW i \in Entries
          PROVE  w.disk[w.t[k].at].table[i] \in {NoBlock, w.t[k].table[i]}
        BY <2>4, <2>5, <3>1
    <3>2. DiskBehind(u)
        BY <2>1 DEF WalkInv
    <3> QED BY <2>4, <3>1, <3>2 DEF DiskBehind
  <2>11. LoadsRight(w)
      BY <2>1, <2>4, <2>5 DEF WalkInv, LoadsRight
  <2> QED BY <2>1, <2>4, <2>8, <2>9, <2>10, <2>11 DEF WalkInv, SameEnd
<1> QED BY <1>1, <1>2

(* The table of the inner layer is loaded. *)
LEMMA LoadInv2 ==
    ASSUME NEW v, NEW F, NEW dk, WalkInv(v, F, dk), NEW a \in Entries,
           ~v.done => v.t[1].at = v.node.l2 /\ v.node.l2 # NoBlock,
           NEW w, w = Load(v, 2, v.t[1].table[a])
    PROVE  /\ WalkInv(w, F, dk) /\ w.done = v.done /\ w.node = v.node
           /\ w.t[1].at = v.t[1].at /\ w.t[1].table = v.t[1].table
           /\ ~v.done /\ v.t[1].table[a] # NoBlock => w.t[2].at # NoBlock
<1> DEFINE b == v.t[1].table[a]
<1>1. CASE v.done \/ b = NoBlock \/ v.t[2].at = b
    BY <1>1 DEF Load
<1>2. CASE ~(v.done \/ b = NoBlock \/ v.t[2].at = b)
  <2> DEFINE u == Dump(v, 2)
  <2>1. /\ WalkInv(u, F, dk) /\ u.done = v.done /\ u.node = v.node
        /\ \A k \in 1 .. 2 : u.t[k].at = v.t[k].at /\ u.t[k].table = v.t[k].table
      BY DumpInv
  <2>2. w = Loaded(u, 2, b)
      BY <1>2 DEF Load
  <2>3. u \in Visits /\ v \in Visits
      BY <2>1 DEF WalkInv
  <2> HIDE DEF u
  <2>4. b \in Blocks
    <3>1. v.t[1].table \in Tables
        BY <2>3, VisitParts
    <3> QED BY <1>2, <3>1 DEF Tables, Known
  <2>5. /\ w \in Visits /\ SameMaps(u, w) /\ SameEnd(u, w)
        /\ w.kept = u.kept /\ w.node = u.node /\ w.new = u.new /\ w.got = u.got
        /\ w.disk = u.disk
        /\ w.t[2].at = b /\ w.t[2].table = u.disk[b].table
        /\ w.t[1].at = u.t[1].at /\ w.t[1].table = u.t[1].table
    <3> HIDE DEF b
    <3>1. HasInner(u, w, b)
        BY <2>2, <2>3, <2>4, InnerLoaded
    <3> QED BY <3>1 DEF HasInner
  <2>b. u.t[1].at = v.t[1].at /\ u.t[1].table = v.t[1].table
    <3>1. 1 \in 1 .. 2
        OBVIOUS
    <3> QED BY <2>1, <3>1
  <2>6. u.t[2].at # b /\ u.t[1].at = u.node.l2 /\ u.node.l2 # NoBlock /\ b = u.t[1].table[a]
      BY <1>2, <2>1
  <2>a. b # NoBlock
      BY <1>2
  <2> HIDE DEF b
  <2>7. u.t[1].at # b
    <3>1. u.node.l2 \in Blocks /\ u.t[1].at \in Blocks
        BY <2>3, <2>6, VisitParts DEF Known
    <3>2. Seen(u)[u.node.l2] = u.t[1].table
        BY <2>3, <2>6, <3>1, SeenAt
    <3> DEFINE s == <<"o", a, 0>>
               z == <<"l2", 0, 0>>
    <3>a. s \in Slots /\ At(u.node, Seen(u), s) = Entry(Seen(u), u.node.l2, a)
        BY SlotsOf
    <3>b. Entry(Seen(u), u.node.l2, a) = b
        BY <2>6, <3>2 DEF Entry
    <3>3. s \in Slots /\ At(u.node, Seen(u), s) = b
        BY <3>a, <3>b
    <3>4. z \in Slots /\ At(u.node, Seen(u), z) = u.node.l2 /\ s # z
        BY SlotsOf
    <3> HIDE DEF s, z
    <3> QED BY <2>1, <2>6, <3>3, <3>4 DEF WalkInv, ViewOwned, OnePlace
  <2>8. ASSUME NEW x \in Blocks, NEW i \in Entries
        PROVE  Seen(w)[x][i] \in {NoBlock, Seen(u)[x][i]}
    <3>1. x # NoBlock
        BY DEF Blocks, NoBlock
    <3>2. CASE x = u.t[1].at
        BY <2>3, <2>5, <3>2, SeenAt
    <3>3. CASE x = b
        BY <2>3, <2>5, <2>6, <2>7, <3>3, SeenAt
    <3>4. CASE x # b /\ x # u.t[1].at
      <4>1. Seen(w)[x] = u.disk[x].table
          BY <2>5, <3>4, SeenAt
      <4>2. CASE x = u.t[2].at
        <5>1. u.disk[u.t[2].at].table[i] \in {NoBlock, u.t[2].table[i]}
            BY <2>1, <3>1, <4>2, Behind2
        <5> QED BY <2>3, <3>4, <4>1, <4>2, <5>1, SeenAt
      <4>3. CASE x # u.t[2].at
          BY <2>3, <3>4, <4>1, <4>3, SeenAt
      <4> QED BY <4>2, <4>3
    <3> QED BY <3>2, <3>3, <3>4
  <2>9. \A s \in Slots : At(w.node, Seen(w), s) \in {NoBlock, At(u.node, Seen(u), s)}
    <3>1. u.node \in Nodes /\ Seen(u) \in [Blocks -> Tables] /\ w.node = u.node
        BY <2>3, <2>5, VisitParts, SeenAt
    <3> QED BY <2>8, <3>1, BehindShows
  <2>10. ViewOwned(w, F) /\ GotRight(w, F)
      BY <2>1, <2>5, <2>9, LessOwned DEF WalkInv
  <2>11. OthersKept(w, F, dk)
      BY <2>1, <2>5 DEF WalkInv, OthersKept, SameMaps
  <2>12. DiskBehind(w)
    <3>1. ASSUME NEW k \in 1 .. 2, w.t[k].at # NoBlock, NEW i \in Entries
          PROVE  w.disk[w.t[k].at].table[i] \in {NoBlock, w.t[k].table[i]}
      <4>1. CASE k = 2
          BY <2>5, <4>1
      <4>2. CASE k = 1
        <5>1. u.disk[u.t[1].at].table[i] \in {NoBlock, u.t[1].table[i]}
          <6>1. u.t[1].at # NoBlock
              BY <2>5, <3>1, <4>2
          <6> QED BY <2>1, <6>1, Behind1
        <5> QED BY <2>5, <4>2, <5>1
      <4>3. k = 1 \/ k = 2
          OBVIOUS
      <4> QED BY <4>1, <4>2, <4>3
    <3>2. DiskBehind(u)
        BY <2>1 DEF WalkInv
    <3> QED BY <2>5, <3>1, <3>2 DEF DiskBehind
  <2>13. LoadsRight(w)
      BY <2>a, <2>5, <2>6 DEF LoadsRight
  <2>14. WalkInv(w, F, dk)
      BY <2>5, <2>10, <2>11, <2>12, <2>13 DEF WalkInv
  <2>15. w.done = v.done /\ w.node = v.node /\ w.t[1].at = v.t[1].at /\ w.t[1].table = v.t[1].table
      BY <2>1, <2>b, <2>5 DEF SameEnd
  <2>16. w.t[2].at # NoBlock
      BY <1>2, <2>5
  <2> QED BY <2>14, <2>15, <2>16
<1> QED BY <1>1, <1>2

(* The new block as the table of the first layer. *)
LEMMA AsLayer1Inv ==
    ASSUME NEW v, NEW F, NEW dk, WalkInv(v, F, dk), ~v.done => Fresh(v, F),
           ~v.done => v.node.l1 = NoBlock /\ v.t[2].at = NoBlock, NEW w, w = AsLayer1(v)
    PROVE  /\ WalkInv(w, F, dk) /\ w.done = v.done /\ w.t[2] = v.t[2]
           /\ ~v.done => w.node.l1 # NoBlock
<1>1. CASE v.done
    BY <1>1 DEF AsLayer1
<1>2. CASE ~v.done
  <2> DEFINE s0 == <<"l1", 0, 0>>
  <2>1. v \in Visits /\ v.new \in Blocks /\ v.new # NoBlock
      BY <1>2 DEF WalkInv, Fresh, Blocks, NoBlock
  <2>2. /\ w \in Visits /\ SameMaps(v, w) /\ SameEnd(v, w)
        /\ w.kept = v.kept /\ w.new = v.new /\ w.got = v.got
        /\ w.node.l1 = v.new /\ w.node.l2 = v.node.l2
        /\ w.node.direct = v.node.direct /\ w.node.type = v.node.type
        /\ ZeroedAt(v.disk, w.disk, v.new)
        /\ w.t[1].at = NoBlock /\ w.t[2] = v.t[2]
      BY <1>2, <2>1, AsLayer1Parts
  <2>3. s0 \in Slots
      BY SlotsOf
  <2>4. PutNode(v.node, w.node, s0, v.new)
      BY <2>2 DEF PutNode
  <2>5. PutTables(v.node, Seen(v), Seen(w), s0, v.new)
    <3>1. ASSUME NEW x \in Blocks, x # v.new, NEW i \in Entries
          PROVE  Seen(w)[x][i] \in {NoBlock, Seen(v)[x][i]}
      <4>1. x # NoBlock
          BY DEF Blocks, NoBlock
      <4>2. Seen(w)[x] = v.disk[x].table
          BY <1>2, <2>2, <3>1, <4>1, SeenAt DEF ZeroedAt
      <4>3. CASE x = v.t[1].at
        <5>1. v.disk[v.t[1].at].table[i] \in {NoBlock, v.t[1].table[i]}
            BY <4>1, <4>3, Behind1
        <5> QED BY <2>1, <4>2, <4>3, <5>1, SeenAt
      <4>4. CASE x # v.t[1].at
          BY <1>2, <2>1, <4>1, <4>2, <4>4, SeenAt
      <4> QED BY <4>3, <4>4
    <3>2. Seen(w)[v.new] = Zeros
        BY <1>2, <2>1, <2>2, SeenAt DEF ZeroedAt
    <3> QED BY <3>1, <3>2 DEF PutTables
  <2>6. ViewOwned(w, F) /\ GotRight(w, F)
      BY <1>2, <2>1, <2>2, <2>3, <2>4, <2>5, PutOwned DEF WalkInv
  <2>7. OthersKept(w, F, dk)
    <3>1. F \subseteq Blocks
        BY <2>1, VisitParts DEF WalkInv, OthersKept
    <3> QED BY <1>2, <2>2, <3>1 DEF WalkInv, OthersKept, SameMaps, ZeroedAt, Fresh
  <2>8. DiskBehind(w)
    <3>1. ASSUME NEW k \in 1 .. 2 PROVE w.t[k].at = NoBlock
        BY <1>2, <2>2
    <3> QED BY <1>2, <2>2, <3>1 DEF WalkInv, DiskBehind
  <2>9. LoadsRight(w)
      BY <1>2, <2>2 DEF WalkInv, LoadsRight
  <2> QED BY <2>1, <2>2, <2>6, <2>7, <2>8, <2>9 DEF WalkInv, SameEnd
<1> QED BY <1>1, <1>2

(* The new block as the table of the second layer. *)
LEMMA AsLayer2Inv ==
    ASSUME NEW v, NEW F, NEW dk, WalkInv(v, F, dk), ~v.done => Fresh(v, F),
           ~v.done => v.node.l2 = NoBlock, NEW w, w = AsLayer2(v)
    PROVE  /\ WalkInv(w, F, dk) /\ w.done = v.done
           /\ ~v.done => w.node.l2 # NoBlock /\ w.t[2].at = NoBlock
<1>1. CASE v.done
    BY <1>1 DEF AsLayer2
<1>2. CASE ~v.done
  <2> DEFINE s0 == <<"l2", 0, 0>>
  <2>1. v \in Visits /\ v.new \in Blocks /\ v.new # NoBlock
      BY <1>2 DEF WalkInv, Fresh, Blocks, NoBlock
  <2>a. v.t[2].at = NoBlock
      BY <1>2 DEF WalkInv, LoadsRight
  <2>2. /\ w \in Visits /\ SameMaps(v, w) /\ SameEnd(v, w)
        /\ w.kept = v.kept /\ w.new = v.new /\ w.got = v.got
        /\ w.node.l2 = v.new /\ w.node.l1 = v.node.l1
        /\ w.node.direct = v.node.direct /\ w.node.type = v.node.type
        /\ ZeroedAt(v.disk, w.disk, v.new)
        /\ w.t[1].at = NoBlock /\ w.t[2] = v.t[2]
      BY <1>2, <2>1, AsLayer2Parts
  <2>3. s0 \in Slots
      BY SlotsOf
  <2>4. PutNode(v.node, w.node, s0, v.new)
      BY <2>2 DEF PutNode
  <2>5. PutTables(v.node, Seen(v), Seen(w), s0, v.new)
    <3>1. ASSUME NEW x \in Blocks, x # v.new, NEW i \in Entries
          PROVE  Seen(w)[x][i] \in {NoBlock, Seen(v)[x][i]}
      <4>1. x # NoBlock
          BY DEF Blocks, NoBlock
      <4>2. Seen(w)[x] = v.disk[x].table
          BY <2>a, <2>2, <3>1, <4>1, SeenAt DEF ZeroedAt
      <4>3. CASE x = v.t[1].at
        <5>1. v.disk[v.t[1].at].table[i] \in {NoBlock, v.t[1].table[i]}
            BY <4>1, <4>3, Behind1
        <5> QED BY <2>1, <4>2, <4>3, <5>1, SeenAt
      <4>4. CASE x # v.t[1].at
          BY <2>a, <2>1, <4>1, <4>2, <4>4, SeenAt
      <4> QED BY <4>3, <4>4
    <3>2. Seen(w)[v.new] = Zeros
        BY <2>a, <2>1, <2>2, SeenAt DEF ZeroedAt
    <3> QED BY <3>1, <3>2 DEF PutTables
  <2>6. ViewOwned(w, F) /\ GotRight(w, F)
      BY <1>2, <2>1, <2>2, <2>3, <2>4, <2>5, PutOwned DEF WalkInv
  <2>7. OthersKept(w, F, dk)
    <3>1. F \subseteq Blocks
        BY <2>1, VisitParts DEF WalkInv, OthersKept
    <3> QED BY <1>2, <2>2, <3>1 DEF WalkInv, OthersKept, SameMaps, ZeroedAt, Fresh
  <2>8. DiskBehind(w)
    <3>1. ASSUME NEW k \in 1 .. 2 PROVE w.t[k].at = NoBlock
        BY <2>a, <2>2
    <3> QED BY <1>2, <2>2, <3>1 DEF WalkInv, DiskBehind
  <2>9. LoadsRight(w)
      BY <2>a, <2>2 DEF WalkInv, LoadsRight
  <2> QED BY <2>a, <2>1, <2>2, <2>6, <2>7, <2>8, <2>9 DEF WalkInv, SameEnd
<1> QED BY <1>1, <1>2

(* The new block as a direct block. *)
LEMMA AsDirectInv ==
    ASSUME NEW v, NEW F, NEW dk, WalkInv(v, F, dk), ~v.done => Fresh(v, F),
           NEW i \in Directs, ~v.done => v.node.direct[i] = NoBlock, NEW w, w = AsDirect(v, i)
    PROVE  WalkInv(w, F, dk) /\ w.done = v.done /\ w.t = v.t
<1>1. CASE v.done
    BY <1>1 DEF AsDirect
<1>2. CASE ~v.done
  <2> DEFINE s0 == <<"d", i, 0>>
  <2>1. v \in Visits /\ v.new \in Blocks
      BY <1>2 DEF WalkInv, Fresh
  <2>2. /\ w \in Visits /\ SameMaps(v, w) /\ SameEnd(v, w)
        /\ w.kept = v.kept /\ w.new = v.new /\ w.got = v.got /\ w.disk = v.disk /\ w.t = v.t
        /\ w.node.l1 = v.node.l1 /\ w.node.l2 = v.node.l2 /\ w.node.type = v.node.type
        /\ w.node.direct = [v.node.direct EXCEPT ![i] = v.new]
      BY <1>2, <2>1, AsDirectParts
  <2>a. \A k \in Directs : w.node.direct[k] = IF k = i THEN v.new ELSE v.node.direct[k]
    <3>1. v.node.direct \in [Directs -> Known]
        BY <2>1, VisitParts
    <3> QED BY <2>2, <3>1
  <2>3. s0 \in Slots /\ ~IsIndex(s0)
      BY SlotsOf DEF IsIndex
  <2>4. PutNode(v.node, w.node, s0, v.new)
      BY <2>2, <2>a DEF PutNode
  <2>b. Seen(w) = Seen(v)
      BY <2>2 DEF Seen
  <2>5. PutTables(v.node, Seen(v), Seen(w), s0, v.new)
      BY <2>b, <2>3 DEF PutTables
  <2>6. ViewOwned(w, F) /\ GotRight(w, F)
      BY <1>2, <2>1, <2>2, <2>3, <2>4, <2>5, PutOwned DEF WalkInv
  <2>7. OthersKept(w, F, dk) /\ LoadsRight(w)
      BY <2>2 DEF WalkInv, OthersKept, SameMaps, LoadsRight
  <2>8. DiskBehind(w)
    <3>1. DiskBehind(v)
        BY DEF WalkInv
    <3>2. \A k \in Directs : w.kept.direct[k] \in {NoBlock, w.node.direct[k]}
      <4>1. \A k \in Directs : v.kept.direct[k] \in {NoBlock, v.node.direct[k]}
          BY <3>1 DEF DiskBehind
      <4> QED BY <1>2, <2>2, <2>a, <4>1
    <3>3. /\ w.kept.type = w.node.type
          /\ w.kept.l1 \in {NoBlock, w.node.l1} /\ w.kept.l2 \in {NoBlock, w.node.l2}
        BY <2>2, <3>1 DEF DiskBehind
    <3>4. \A l \in 1 .. 2 : w.t[l].at # NoBlock =>
            \A k \in Entries : w.disk[w.t[l].at].table[k] \in {NoBlock, w.t[l].table[k]}
      <4> SUFFICES ASSUME NEW l \in 1 .. 2, w.t[l].at # NoBlock, NEW k \in Entries
                   PROVE  w.disk[w.t[l].at].table[k] \in {NoBlock, w.t[l].table[k]}
          OBVIOUS
      <4>1. w.t[l] = v.t[l] /\ w.disk = v.disk
          BY <2>2
      <4>2. v.disk[v.t[l].at].table[k] \in {NoBlock, v.t[l].table[k]}
        <5>1. v.t[l].at # NoBlock
            BY <4>1
        <5> QED BY <5>1, TableBehind
      <4> QED BY <4>1, <4>2
    <3> QED BY <3>2, <3>3, <3>4 DEF DiskBehind
  <2> QED BY <2>2, <2>6, <2>7, <2>8 DEF WalkInv, SameEnd
<1> QED BY <1>1, <1>2

(* Where entries of loaded tables are in the view. *)
LEMMA EntrySlots ==
    ASSUME NEW v, NEW F, NEW dk, WalkInv(v, F, dk), NEW j \in Entries
    PROVE  /\ v.t[1].at # NoBlock /\ v.t[1].at = v.node.l1 =>
                /\ At(v.node, Seen(v), <<"e1", j, 0>>) = v.t[1].table[j]
                /\ LeadsOnly(v.node, Seen(v), v.t[1].at, j, <<"e1", j, 0>>)
           /\ v.t[1].at # NoBlock /\ v.t[1].at = v.node.l2 =>
                /\ At(v.node, Seen(v), <<"o", j, 0>>) = v.t[1].table[j]
                /\ LeadsOnly(v.node, Seen(v), v.t[1].at, j, <<"o", j, 0>>)
           /\ v.t[2].at # NoBlock =>
                \E a \in Entries :
                  /\ At(v.node, Seen(v), <<"e2", a, j>>) = v.t[2].table[j]
                  /\ LeadsOnly(v.node, Seen(v), v.t[2].at, j, <<"e2", a, j>>)
<1> DEFINE A(s) == At(v.node, Seen(v), s)
           O(a) == Entry(Seen(v), v.node.l2, a)
<1>0. v \in Visits
    BY DEF WalkInv
<1>1. /\ <<"l1", 0, 0>> \in Slots /\ A(<<"l1", 0, 0>>) = v.node.l1
      /\ <<"l2", 0, 0>> \in Slots /\ A(<<"l2", 0, 0>>) = v.node.l2
      /\ \A a \in Entries : <<"o", a, 0>> \in Slots /\ A(<<"o", a, 0>>) = O(a)
    BY SlotsOf
<1>2. \A s, u \in Slots : A(s) # NoBlock /\ s # u => A(u) # A(s)
    BY DEF WalkInv, ViewOwned, OnePlace
<1>3. v.node.l1 # NoBlock => v.node.l1 # v.node.l2 /\ \A a \in Entries : O(a) # v.node.l1
  <2> HIDE DEF A, O
  <2> QED BY <1>1, <1>2
<1>4. v.node.l2 # NoBlock => \A a \in Entries : O(a) # v.node.l2
  <2> HIDE DEF A, O
  <2> QED BY <1>1, <1>2
<1>5. \A a, c \in Entries : O(a) # NoBlock /\ a # c => O(c) # O(a)
  <2>1. \A a, c \in Entries : a # c => <<"o", a, 0>> # <<"o", c, 0>>
      OBVIOUS
  <2> HIDE DEF A, O
  <2> QED BY <1>1, <1>2, <2>1
<1>6. v.t[1].at # NoBlock => v.t[1].at \in Blocks /\ Seen(v)[v.t[1].at] = v.t[1].table
    BY <1>0, SeenAt, VisitParts DEF Known
<1>7. ASSUME v.t[1].at # NoBlock, v.t[1].at = v.node.l1
      PROVE  /\ A(<<"e1", j, 0>>) = v.t[1].table[j]
             /\ LeadsOnly(v.node, Seen(v), v.t[1].at, j, <<"e1", j, 0>>)
  <2>1. A(<<"e1", j, 0>>) = Entry(Seen(v), v.node.l1, j)
      BY SlotsOf
  <2>2. Entry(Seen(v), v.node.l1, j) = v.t[1].table[j]
      BY <1>6, <1>7 DEF Entry
  <2>3. LeadsOnly(v.node, Seen(v), v.t[1].at, j, <<"e1", j, 0>>)
      BY <1>3, <1>7 DEF LeadsOnly
  <2> QED BY <2>1, <2>2, <2>3
<1>8. ASSUME v.t[1].at # NoBlock, v.t[1].at = v.node.l2
      PROVE  /\ A(<<"o", j, 0>>) = v.t[1].table[j]
             /\ LeadsOnly(v.node, Seen(v), v.t[1].at, j, <<"o", j, 0>>)
  <2>1. A(<<"o", j, 0>>) = Entry(Seen(v), v.node.l2, j)
      BY SlotsOf
  <2>2. Entry(Seen(v), v.node.l2, j) = v.t[1].table[j]
      BY <1>6, <1>8 DEF Entry
  <2>3. LeadsOnly(v.node, Seen(v), v.t[1].at, j, <<"o", j, 0>>)
      BY <1>3, <1>4, <1>8 DEF LeadsOnly
  <2> QED BY <2>1, <2>2, <2>3
<1>9. ASSUME v.t[2].at # NoBlock
      PROVE  \E a \in Entries :
               /\ A(<<"e2", a, j>>) = v.t[2].table[j]
               /\ LeadsOnly(v.node, Seen(v), v.t[2].at, j, <<"e2", a, j>>)
  <2>1. PICK a \in Entries : /\ v.t[1].at = v.node.l2 /\ v.node.l2 # NoBlock
                             /\ v.t[2].at = v.t[1].table[a]
      BY <1>9 DEF WalkInv, LoadsRight
  <2>2. v.t[2].at \in Blocks /\ v.t[2].at # v.t[1].at
      BY <1>9, LoadsInView
  <2>3. Seen(v)[v.t[2].at] = v.t[2].table
      BY <1>0, <2>2, SeenAt
  <2>4. O(a) = v.t[2].at
      BY <1>6, <2>1 DEF Entry
  <2>5. A(<<"e2", a, j>>) = Entry(Seen(v), O(a), j)
    <3>1. \A i, k \in Entries :
            At(v.node, Seen(v), <<"e2", i, k>>) = Entry(Seen(v), Entry(Seen(v), v.node.l2, i), k)
        BY DEF At
    <3> QED BY <3>1
  <2>6. A(<<"e2", a, j>>) = v.t[2].table[j]
    <3> HIDE DEF A, O
    <3> QED BY <1>9, <2>3, <2>4, <2>5 DEF Entry
  <2>7. v.t[2].at # v.node.l1
    <3> HIDE DEF A, O
    <3> QED BY <1>3, <1>9, <2>4
  <2>8. \A c \in Entries : v.t[2].at = O(c) => c = a
    <3> HIDE DEF A, O
    <3> QED BY <1>5, <1>9, <2>4
  <2>9. LeadsOnly(v.node, Seen(v), v.t[2].at, j, <<"e2", a, j>>)
      BY <2>1, <2>2, <2>7, <2>8 DEF LeadsOnly
  <2> QED BY <2>6, <2>9
<1> QED BY <1>7, <1>8, <1>9

(* The new block as an entry of the first-layer table. *)
LEMMA AsEntry1Inv ==
    ASSUME NEW v, NEW F, NEW dk, WalkInv(v, F, dk), ~v.done => Fresh(v, F), NEW j \in Entries,
           ~v.done => /\ v.t[1].at # NoBlock /\ v.t[1].at = v.node.l1 /\ v.t[2].at = NoBlock
                      /\ v.t[1].table[j] = NoBlock,
           NEW w, w = AsEntry(v, 1, j)
    PROVE  /\ WalkInv(w, F, dk) /\ w.done = v.done /\ w.node = v.node
           /\ w.t[1].at = v.t[1].at /\ w.t[2] = v.t[2]
<1>1. CASE v.done
    BY <1>1 DEF AsEntry
<1>2. CASE ~v.done
  <2> DEFINE s0 == <<"e1", j, 0>>
  <2>1. v \in Visits /\ v.new \in Blocks
      BY <1>2 DEF WalkInv, Fresh
  <2>2. /\ w \in Visits /\ SameMaps(v, w) /\ SameEnd(v, w)
        /\ w.kept = v.kept /\ w.node = v.node /\ w.new = v.new /\ w.got = v.got
        /\ w.disk = v.disk
        /\ w.t[1].at = v.t[1].at /\ EntrySet(v.t[1].table, w.t[1].table, j, v.new)
        /\ w.t[2] = v.t[2]
      BY <1>2, <2>1, AsEntryParts
  <2>a. \A i \in Entries : w.t[1].table[i] = IF i = j THEN v.new ELSE v.t[1].table[i]
      BY <2>2 DEF EntrySet
  <2>3. s0 \in Slots /\ ~IsIndex(s0) /\ LeadsOnly(v.node, Seen(v), v.t[1].at, j, s0)
    <3>1. s0 \in Slots /\ ~IsIndex(s0)
        BY SlotsOf DEF IsIndex
    <3>2. LeadsOnly(v.node, Seen(v), v.t[1].at, j, s0)
        BY <1>2, EntrySlots
    <3> QED BY <3>1, <3>2
  <2> HIDE DEF s0
  <2>4. PutNode(v.node, w.node, s0, v.new)
      BY <2>2 DEF PutNode
  <2>5. PutTables(v.node, Seen(v), Seen(w), s0, v.new)
    <3>1. ASSUME NEW x \in Blocks, NEW i \in Entries
          PROVE  \/ Seen(w)[x][i] \in {NoBlock, Seen(v)[x][i]}
                 \/ Seen(w)[x][i] = v.new /\ LeadsOnly(v.node, Seen(v), x, i, s0)
      <4>1. CASE x = v.t[1].at
        <5>1. Seen(w)[x] = w.t[1].table /\ Seen(v)[x] = v.t[1].table
            BY <2>1, <2>2, <4>1, SeenAt
        <5> QED BY <2>a, <2>3, <4>1, <5>1
      <4>2. CASE x # v.t[1].at
        <5>1. Seen(w)[x] = Seen(v)[x]
            BY <2>1, <2>2, <4>2, SeenAt
        <5> QED BY <5>1
      <4> QED BY <4>1, <4>2
    <3> QED BY <2>3, <3>1 DEF PutTables
  <2>6. ViewOwned(w, F) /\ GotRight(w, F)
      BY <1>2, <2>1, <2>2, <2>3, <2>4, <2>5, PutOwned DEF WalkInv
  <2>7. OthersKept(w, F, dk)
      BY <2>2 DEF WalkInv, OthersKept, SameMaps
  <2>8. DiskBehind(w)
    <3>1. ASSUME NEW k \in 1 .. 2, w.t[k].at # NoBlock, NEW i \in Entries
          PROVE  w.disk[w.t[k].at].table[i] \in {NoBlock, w.t[k].table[i]}
      <4>1. k = 1
          BY <1>2, <2>2, <3>1
      <4>2. v.disk[v.t[1].at].table[i] \in {NoBlock, v.t[1].table[i]}
          BY <1>2, Behind1
      <4> QED BY <1>2, <2>2, <2>a, <4>1, <4>2
    <3>2. DiskBehind(v)
        BY DEF WalkInv
    <3> QED BY <2>2, <3>1, <3>2 DEF DiskBehind
  <2>9. LoadsRight(w)
      BY <1>2, <2>2 DEF WalkInv, LoadsRight
  <2> QED BY <2>2, <2>6, <2>7, <2>8, <2>9 DEF WalkInv, SameEnd
<1> QED BY <1>1, <1>2

(* The new block as an entry of the inner table. *)
LEMMA AsEntry2Inv ==
    ASSUME NEW v, NEW F, NEW dk, WalkInv(v, F, dk), ~v.done => Fresh(v, F), NEW j \in Entries,
           ~v.done => v.t[2].at # NoBlock /\ v.t[2].table[j] = NoBlock,
           NEW w, w = AsEntry(v, 2, j)
    PROVE  /\ WalkInv(w, F, dk) /\ w.done = v.done /\ w.node = v.node
<1>1. CASE v.done
    BY <1>1 DEF AsEntry
<1>2. CASE ~v.done
  <2>1. v \in Visits /\ v.new \in Blocks
      BY <1>2 DEF WalkInv, Fresh
  <2>2. /\ w \in Visits /\ SameMaps(v, w) /\ SameEnd(v, w)
        /\ w.kept = v.kept /\ w.node = v.node /\ w.new = v.new /\ w.got = v.got
        /\ w.disk = v.disk
        /\ w.t[2].at = v.t[2].at /\ EntrySet(v.t[2].table, w.t[2].table, j, v.new)
        /\ w.t[1] = v.t[1]
      BY <1>2, <2>1, AsEntryParts
  <2>a. \A i \in Entries : w.t[2].table[i] = IF i = j THEN v.new ELSE v.t[2].table[i]
      BY <2>2 DEF EntrySet
  <2>b. v.t[2].at # v.t[1].at
      BY <1>2, LoadsInView
  <2>c. PICK a \in Entries : LeadsOnly(v.node, Seen(v), v.t[2].at, j, <<"e2", a, j>>)
      BY <1>2, EntrySlots
  <2> DEFINE s0 == <<"e2", a, j>>
  <2>3. s0 \in Slots /\ ~IsIndex(s0) /\ LeadsOnly(v.node, Seen(v), v.t[2].at, j, s0)
      BY <2>c, SlotsOf DEF IsIndex
  <2> HIDE DEF s0
  <2>4. PutNode(v.node, w.node, s0, v.new)
      BY <2>2 DEF PutNode
  <2>5. PutTables(v.node, Seen(v), Seen(w), s0, v.new)
    <3>1. ASSUME NEW x \in Blocks, NEW i \in Entries
          PROVE  \/ Seen(w)[x][i] \in {NoBlock, Seen(v)[x][i]}
                 \/ Seen(w)[x][i] = v.new /\ LeadsOnly(v.node, Seen(v), x, i, s0)
      <4>1. CASE x = v.t[2].at
        <5>1. Seen(w)[x] = w.t[2].table /\ Seen(v)[x] = v.t[2].table
            BY <2>1, <2>2, <2>b, <4>1, SeenAt
        <5> QED BY <2>a, <2>3, <4>1, <5>1
      <4>2. CASE x # v.t[2].at
        <5>1. Seen(w)[x] = Seen(v)[x]
            BY <2>1, <2>2, <4>2, SeenAt
        <5> QED BY <5>1
      <4> QED BY <4>1, <4>2
    <3> QED BY <2>3, <3>1 DEF PutTables
  <2>6. ViewOwned(w, F) /\ GotRight(w, F)
      BY <1>2, <2>1, <2>2, <2>3, <2>4, <2>5, PutOwned DEF WalkInv
  <2>7. OthersKept(w, F, dk)
      BY <2>2 DEF WalkInv, OthersKept, SameMaps
  <2>8. DiskBehind(w)
    <3>1. ASSUME NEW k \in 1 .. 2, w.t[k].at # NoBlock, NEW i \in Entries
          PROVE  w.disk[w.t[k].at].table[i] \in {NoBlock, w.t[k].table[i]}
      <4>0. k = 1 \/ k = 2
          OBVIOUS
      <4>1. w.t[k].at = v.t[k].at
          BY <2>2, <4>0
      <4>2. v.disk[v.t[k].at].table[i] \in {NoBlock, v.t[k].table[i]}
          BY <3>1, <4>1, TableBehind
      <4>3. CASE k = 1
          BY <2>2, <4>2, <4>3
      <4>4. CASE k = 2
          BY <1>2, <2>2, <2>a, <4>2, <4>4
      <4> QED BY <4>0, <4>3, <4>4
    <3>2. DiskBehind(v)
        BY DEF WalkInv
    <3> QED BY <2>2, <3>1, <3>2 DEF DiskBehind
  <2>9. LoadsRight(w)
      BY <1>2, <2>2 DEF WalkInv, LoadsRight
  <2> QED BY <2>2, <2>6, <2>7, <2>8, <2>9 DEF WalkInv, SameEnd
<1> QED BY <1>1, <1>2

(* The new block as an inner table; entries of the table loaded before it  *)
(* may be lost, and the blocks they had are then in no view.               *)
LEMMA AsTableInv ==
    ASSUME NEW v, NEW F, NEW dk, WalkInv(v, F, dk), ~v.done => Fresh(v, F), NEW j \in Entries,
           ~v.done => /\ v.t[1].at = v.node.l2 /\ v.node.l2 # NoBlock
                      /\ v.t[1].table[j] = NoBlock,
           NEW w, w = AsTable(v, j)
    PROVE  /\ WalkInv(w, F, dk) /\ w.done = v.done /\ w.node = v.node
           /\ ~v.done => w.t[2].at # NoBlock /\ w.t[2].table = Zeros
<1>1. CASE v.done
    BY <1>1 DEF AsTable
<1>2. CASE ~v.done
  <2> DEFINE s0 == <<"o", j, 0>>
  <2>1. v \in Visits /\ v.new \in Blocks /\ v.new # NoBlock
      BY <1>2 DEF WalkInv, Fresh, Blocks, NoBlock
  <2>2. /\ w \in Visits /\ SameMaps(v, w) /\ SameEnd(v, w)
        /\ w.kept = v.kept /\ w.node = v.node /\ w.new = v.new /\ w.got = v.got
        /\ ZeroedAt(v.disk, w.disk, v.new)
        /\ w.t[1].at = v.t[1].at /\ EntrySet(v.t[1].table, w.t[1].table, j, v.new)
        /\ w.t[2].at = v.new /\ w.t[2].table = Zeros
      BY <1>2, <2>1, AsTableParts
  <2>a. \A i \in Entries : w.t[1].table[i] = IF i = j THEN v.new ELSE v.t[1].table[i]
      BY <2>2 DEF EntrySet
  <2>b. v.t[1].at # v.new /\ v.t[1].at # NoBlock /\ v.t[1].at \in Blocks
    <3>1. v.t[1].at # NoBlock /\ v.t[1].at \in Blocks
        BY <1>2, LoadsInView
    <3>2. \E s \in Slots : At(v.node, Seen(v), s) = v.t[1].at
        BY <3>1, LoadsInView
    <3> QED BY <1>2, <3>1, <3>2 DEF Fresh
  <2>3. s0 \in Slots /\ LeadsOnly(v.node, Seen(v), v.t[1].at, j, s0)
    <3>1. s0 \in Slots
        BY SlotsOf
    <3>2. LeadsOnly(v.node, Seen(v), v.t[1].at, j, s0)
        BY <1>2, EntrySlots
    <3> QED BY <3>1, <3>2
  <2> HIDE DEF s0
  <2>4. PutNode(v.node, w.node, s0, v.new)
      BY <2>2 DEF PutNode
  <2>5. PutTables(v.node, Seen(v), Seen(w), s0, v.new)
    <3>1. ASSUME NEW x \in Blocks, x # v.new, NEW i \in Entries
          PROVE  \/ Seen(w)[x][i] \in {NoBlock, Seen(v)[x][i]}
                 \/ Seen(w)[x][i] = v.new /\ LeadsOnly(v.node, Seen(v), x, i, s0)
      <4>0. x # NoBlock
          BY DEF Blocks, NoBlock
      <4>1. CASE x = v.t[1].at
        <5>1. Seen(w)[x] = w.t[1].table /\ Seen(v)[x] = v.t[1].table
            BY <2>1, <2>2, <4>1, SeenAt
        <5> QED BY <2>a, <2>3, <4>1, <5>1
      <4>2. CASE x # v.t[1].at
        <5>1. Seen(w)[x] = v.disk[x].table
            BY <2>1, <2>2, <3>1, <4>2, SeenAt DEF ZeroedAt
        <5>2. CASE x = v.t[2].at
          <6>1. v.disk[v.t[2].at].table[i] \in {NoBlock, v.t[2].table[i]}
              BY <4>0, <5>2, Behind2
          <6> QED BY <2>1, <4>2, <5>1, <5>2, <6>1, SeenAt
        <5>3. CASE x # v.t[2].at
            BY <2>1, <4>2, <5>1, <5>3, SeenAt
        <5> QED BY <5>2, <5>3
      <4> QED BY <4>1, <4>2
    <3>2. Seen(w)[v.new] = Zeros
        BY <2>1, <2>2, <2>b, SeenAt
    <3> QED BY <3>1, <3>2 DEF PutTables
  <2>6. ViewOwned(w, F) /\ GotRight(w, F)
      BY <1>2, <2>1, <2>2, <2>3, <2>4, <2>5, PutOwned DEF WalkInv
  <2>7. OthersKept(w, F, dk)
    <3>1. F \subseteq Blocks
        BY <2>1, VisitParts DEF WalkInv, OthersKept
    <3> QED BY <1>2, <2>2, <3>1 DEF WalkInv, OthersKept, SameMaps, ZeroedAt, Fresh
  <2>8. DiskBehind(w)
    <3>1. ASSUME NEW k \in 1 .. 2, w.t[k].at # NoBlock, NEW i \in Entries
          PROVE  w.disk[w.t[k].at].table[i] \in {NoBlock, w.t[k].table[i]}
      <4>0. k = 1 \/ k = 2
          OBVIOUS
      <4>1. CASE k = 1
        <5>1. v.disk[v.t[1].at].table[i] \in {NoBlock, v.t[1].table[i]}
            BY <2>b, Behind1
        <5>2. w.disk[v.t[1].at] = v.disk[v.t[1].at]
            BY <2>2, <2>b DEF ZeroedAt
        <5>3. v.disk[v.t[1].at].table[i] \in {NoBlock, w.t[1].table[i]}
            BY <1>2, <2>a, <5>1
        <5> QED BY <2>2, <4>1, <5>2, <5>3
      <4>2. CASE k = 2
          BY <2>2, <4>2 DEF ZeroedAt
      <4> QED BY <4>0, <4>1, <4>2
    <3>2. DiskBehind(v)
        BY DEF WalkInv
    <3> QED BY <2>2, <3>1, <3>2 DEF DiskBehind
  <2>9. LoadsRight(w)
    <3>1. w.t[2].at = w.t[1].table[j]
        BY <2>2, <2>a
    <3> QED BY <1>2, <2>1, <2>2, <3>1 DEF LoadsRight
  <2> QED BY <2>1, <2>2, <2>6, <2>7, <2>8, <2>9 DEF WalkInv, SameEnd
<1> QED BY <1>1, <1>2

-----------------------------------------------------------------------------
(* The steps of a walk keep its invariant.                                 *)

\* The block b is missing, or is a data block of the view.
IsData(v, b) ==
    \/ b = NoBlock
    \/ \E s \in Slots : ~IsIndex(s) /\ At(v.node, Seen(v), s) = b

(* A block that is met is a data block. *)
LEMMA MetInv ==
    ASSUME NEW v, NEW F, NEW dk, WalkInv(v, F, dk), NEW b, ~v.done => IsData(v, b),
           NEW w, w = Met(v, b)
    PROVE  WalkInv(w, F, dk) /\ w.done = v.done /\ w.node = v.node /\ w.kept = v.kept /\ w.t = v.t
<1>1. CASE v.done
    BY <1>1 DEF Met
<1>2. CASE ~v.done
  <2>1. v \in Visits /\ v.got \in Seq(Known) /\ v.node \in Nodes /\ Seen(v) \in [Blocks -> Tables]
      BY VisitParts, SeenAt DEF WalkInv
  <2>2. b \in Known /\ (b # NoBlock => b \in v.map \ F)
    <3>1. \A s \in Slots : /\ At(v.node, Seen(v), s) \in Known
                           /\ At(v.node, Seen(v), s) \in ((v.map \cap v.saved) \ F) \cup {NoBlock}
        BY <2>1, AtKnown DEF WalkInv, ViewOwned
    <3> QED BY <1>2, <3>1 DEF IsData, Known
  <2>3. b # NoBlock => \A s \in Slots : IsIndex(s) => At(v.node, Seen(v), s) # b
    <3>1. \A s, u \in Slots : At(v.node, Seen(v), s) # NoBlock /\ s # u =>
                                At(v.node, Seen(v), u) # At(v.node, Seen(v), s)
        BY DEF WalkInv, ViewOwned, OnePlace
    <3> QED BY <1>2, <3>1 DEF IsData
  <2>4. w = [v EXCEPT !.got = Append(v.got, b)]
      BY <1>2 DEF Met
  <2>5. Append(v.got, b) \in Seq(Known)
      BY <2>1, <2>2
  <2>6. /\ w \in Visits /\ w.got = Append(v.got, b) /\ SameMaps(v, w) /\ SameEnd(v, w)
        /\ w.disk = v.disk /\ w.kept = v.kept /\ w.node = v.node /\ w.t = v.t
      BY <2>1, <2>4, <2>5 DEF Visits, SameMaps, SameEnd
  <2>7. Seen(w) = Seen(v) /\ DiskBehind(w) /\ LoadsRight(w)
      BY <2>6, SameParts
  <2>8. ViewOwned(w, F) /\ OthersKept(w, F, dk)
      BY <2>6, SameOwned
  <2>9. GotRight(w, F)
    <3> SUFFICES ASSUME NEW n \in 1 .. Len(w.got), w.got[n] # NoBlock
                 PROVE  /\ w.got[n] \in w.map \ F
                        /\ \A s \in Slots : IsIndex(s) => At(w.node, Seen(w), s) # w.got[n]
        BY DEF GotRight
    <3>1. CASE n \in 1 .. Len(v.got)
      <4>1. w.got[n] = v.got[n]
          BY <2>1, <2>2, <2>6, <3>1
      <4> QED BY <2>6, <2>7, <3>1, <4>1 DEF WalkInv, GotRight, SameMaps
    <3>2. CASE n \notin 1 .. Len(v.got)
      <4>1. w.got[n] = b
          BY <2>1, <2>2, <2>6, <3>2
      <4> QED BY <2>2, <2>3, <2>6, <2>7, <4>1 DEF SameMaps
    <3> QED BY <3>1, <3>2
  <2> QED BY <2>6, <2>7, <2>8, <2>9 DEF WalkInv, SameEnd
<1> QED BY <1>1, <1>2

(* The disk stays behind when the node is saved. *)
LEMMA StillBehind ==
    ASSUME NEW v, NEW w, DiskBehind(v), w.disk = v.disk, w.node = v.node, w.t = v.t,
           w.kept \in {v.kept, v.node}
    PROVE  DiskBehind(w)
BY DEF DiskBehind

(* A walk may end anywhere, with the node saved or not. *)
LEMMA DoneInv ==
    ASSUME NEW v, NEW F, NEW dk, WalkInv(v, F, dk), NEW x, x \in {v.kept, v.node}, NEW w,
           w = Done([v EXCEPT !.kept = x])
    PROVE  WalkInv(w, F, dk) /\ w.done /\ w.t = v.t
<1>1. v \in Visits /\ v.kept \in Nodes /\ v.node \in Nodes
    BY VisitParts DEF WalkInv
<1>2. /\ w \in Visits /\ SameMaps(v, w) /\ w.got = v.got /\ w.kept = x /\ w.done
      /\ w.disk = v.disk /\ w.node = v.node /\ w.t = v.t
    BY <1>1 DEF Done, Visits, SameMaps
<1>3. Seen(w) = Seen(v)
    BY <1>2 DEF Seen
<1>4. ViewOwned(w, F) /\ OthersKept(w, F, dk) /\ LoadsRight(w) /\ GotRight(w, F)
    BY <1>2, <1>3 DEF WalkInv, ViewOwned, OthersKept, LoadsRight, GotRight, SameMaps
<1>5. DiskBehind(w)
    BY <1>2, StillBehind DEF WalkInv
<1> QED BY <1>2, <1>4, <1>5 DEF WalkInv

\* No table of the inner layer is loaded yet.
BeforeLayer2(v) == ~v.done => v.t[2].at = NoBlock

(* A step over a direct block. *)
LEMMA DirectStepInv ==
    ASSUME NEW v, NEW F, NEW dk, WalkInv(v, F, dk), BeforeLayer2(v), NEW i \in Directs,
           NEW kind, NEW last, NEW w, w = DirectStep(v, i, kind, last)
    PROVE  WalkInv(w, F, dk) /\ BeforeLayer2(w)
<1> DEFINE u == IF Grows(v, v.node.direct[i], kind) THEN AsDirect(Allocate(v), i) ELSE v
<1>1. WalkInv(u, F, dk) /\ u.t = v.t /\ (~u.done => ~v.done)
  <2>1. CASE Grows(v, v.node.direct[i], kind)
    <3> DEFINE a == Allocate(v)
    <3>1. /\ WalkInv(a, F, dk) /\ (~a.done => Fresh(a, F) /\ ~v.done)
          /\ a.node = v.node /\ a.t = v.t
        BY AllocateInv
    <3>2. v.node.direct[i] = NoBlock /\ u = AsDirect(a, i)
        BY <2>1 DEF Grows
    <3> HIDE DEF a, u
    <3>3. WalkInv(u, F, dk) /\ u.done = a.done /\ u.t = a.t
        BY <3>1, <3>2, AsDirectInv
    <3> QED BY <3>1, <3>3
  <2>2. CASE ~Grows(v, v.node.direct[i], kind)
      BY <2>2
  <2> QED BY <2>1, <2>2
<1>2. w = DirectEnd(u, i, kind, last)
    BY DEF DirectStep
<1> HIDE DEF u
<1> DEFINE b == u.node.direct[i]
           m == Met(u, b)
<1>3. IsData(u, b)
  <2>1. <<"d", i, 0>> \in Slots /\ At(u.node, Seen(u), <<"d", i, 0>>) = b
        /\ ~IsIndex(<<"d", i, 0>>)
      BY SlotsOf DEF IsIndex
  <2> QED BY <2>1 DEF IsData
<1>4. WalkInv(m, F, dk) /\ m.done = u.done /\ m.node = u.node /\ m.kept = u.kept /\ m.t = u.t
    BY <1>1, <1>3, MetInv
<1>5. CASE Ends(u, b, i, kind, last)
  <2> DEFINE x == IF u.dirty THEN u.node ELSE m.kept
  <2>1. w = Done([m EXCEPT !.kept = x])
      BY <1>2, <1>5 DEF DirectEnd
  <2>2. x \in {m.kept, m.node}
      BY <1>4
  <2> HIDE DEF m, x
  <2>3. WalkInv(w, F, dk) /\ w.done
      BY <1>4, <2>1, <2>2, DoneInv
  <2> QED BY <2>3 DEF BeforeLayer2
<1>6. CASE ~Ends(u, b, i, kind, last)
  <2>1. w = m
      BY <1>2, <1>6 DEF DirectEnd
  <2> QED BY <1>1, <1>4, <2>1 DEF BeforeLayer2
<1> QED BY <1>5, <1>6

(* The end of a step through a table. *)
LEMMA TableEndInv ==
    ASSUME NEW v, NEW F, NEW dk, WalkInv(v, F, dk), NEW l \in 1 .. 2, NEW j, NEW i,
           NEW kind, NEW last, ~v.done => IsData(v, v.t[l].table[j]),
           NEW w, w = TableEnd(v, l, j, i, kind, last)
    PROVE  WalkInv(w, F, dk) /\ (~w.done => ~v.done /\ w.t = v.t)
<1> DEFINE b == v.t[l].table[j]
           m == Met(v, b)
<1>1. WalkInv(m, F, dk) /\ m.done = v.done /\ m.t = v.t
    BY MetInv
<1>2. CASE Ends(v, b, i, kind, last)
  <2> DEFINE d1 == Dump(m, 1)
             d2 == Dump(d1, l)
  <2>1. WalkInv(d1, F, dk)
      BY <1>1, DumpInv
  <2>2. WalkInv(d2, F, dk)
    <3> HIDE DEF d1
    <3> QED BY <2>1, DumpInv
  <2>3. w = Done(d2)
      BY <1>2 DEF TableEnd
  <2> HIDE DEF d2
  <2>4. d2 = [d2 EXCEPT !.kept = d2.kept]
      BY <2>2 DEF WalkInv, Visits
  <2>5. w = Done([d2 EXCEPT !.kept = d2.kept])
      BY <2>3, <2>4
  <2> QED BY <2>2, <2>5, DoneInv
<1>3. CASE ~Ends(v, b, i, kind, last)
  <2>1. w = m
      BY <1>3 DEF TableEnd
  <2> QED BY <1>1, <2>1
<1> QED BY <1>2, <1>3

(* A step through the first layer. *)
LEMMA Layer1StepInv ==
    ASSUME NEW v, NEW F, NEW dk, WalkInv(v, F, dk), BeforeLayer2(v), NEW i \in Int,
           i - Th0 \in Entries, NEW kind, NEW last, NEW w, w = Layer1Step(v, i, kind, last)
    PROVE  WalkInv(w, F, dk) /\ BeforeLayer2(w)
<1> DEFINE j == i - Th0
           u1 == IF v.node.l1 = NoBlock THEN AsLayer1(Allocate(v)) ELSE v
           u2 == Layer1Load(u1)
           u3 == Layer1Grow(u2, j, kind)
<1>1. WalkInv(u1, F, dk) /\ BeforeLayer2(u1) /\ (~u1.done => u1.node.l1 # NoBlock)
  <2>1. CASE v.node.l1 = NoBlock
    <3> DEFINE a == Allocate(v)
    <3>1. /\ WalkInv(a, F, dk) /\ (~a.done => Fresh(a, F) /\ ~v.done)
          /\ a.node = v.node /\ a.t = v.t
        BY AllocateInv
    <3>2. u1 = AsLayer1(a)
        BY <2>1
    <3>3. ~a.done => a.node.l1 = NoBlock /\ a.t[2].at = NoBlock
        BY <2>1, <3>1 DEF BeforeLayer2
    <3> HIDE DEF a, u1
    <3>4. /\ WalkInv(u1, F, dk) /\ u1.done = a.done /\ u1.t[2] = a.t[2]
          /\ ~a.done => u1.node.l1 # NoBlock
        BY <3>1, <3>2, <3>3, AsLayer1Inv
    <3> QED BY <3>3, <3>4 DEF BeforeLayer2
  <2>2. CASE v.node.l1 # NoBlock
      BY <2>2
  <2> QED BY <2>1, <2>2
<1> HIDE DEF u1
<1>2. /\ WalkInv(u2, F, dk) /\ BeforeLayer2(u2)
      /\ ~u2.done => u2.node.l1 # NoBlock /\ u2.t[1].at = u2.node.l1
  <2>1. CASE u1.done
    <3>1. u2 = u1
        BY <2>1 DEF Layer1Load, Load
    <3> QED BY <1>1, <2>1, <3>1
  <2>2. CASE ~u1.done
    <3>1. /\ WalkInv(u2, F, dk) /\ u2.done = u1.done /\ u2.node = u1.node
          /\ u2.t[2].at = u1.t[2].at /\ u2.t[1].at = u1.node.l1
        BY <1>1, <2>2, LoadInv1 DEF Layer1Load, BeforeLayer2
    <3> QED BY <1>1, <2>2, <3>1 DEF BeforeLayer2
  <2> QED BY <2>1, <2>2
<1> HIDE DEF u2
<1>3. /\ WalkInv(u3, F, dk) /\ BeforeLayer2(u3)
      /\ ~u3.done => u3.node.l1 # NoBlock /\ u3.t[1].at = u3.node.l1
  <2>1. CASE Grows(u2, u2.t[1].table[j], kind)
    <3> DEFINE a == Allocate(u2)
    <3>1. /\ WalkInv(a, F, dk) /\ (~a.done => Fresh(a, F) /\ ~u2.done)
          /\ a.node = u2.node /\ a.t = u2.t
        BY <1>2, AllocateInv
    <3>2. u3 = AsEntry(a, 1, j)
        BY <2>1 DEF Layer1Grow
    <3>3. ~a.done => /\ a.t[1].at # NoBlock /\ a.t[1].at = a.node.l1 /\ a.t[2].at = NoBlock
                     /\ a.t[1].table[j] = NoBlock
        BY <1>2, <2>1, <3>1 DEF BeforeLayer2, Grows
    <3> HIDE DEF a, u3, j
    <3>4. /\ WalkInv(u3, F, dk) /\ u3.done = a.done /\ u3.node = a.node
          /\ u3.t[1].at = a.t[1].at /\ u3.t[2] = a.t[2]
        BY <3>1, <3>2, <3>3, AsEntry1Inv DEF j
    <3> QED BY <3>3, <3>4 DEF BeforeLayer2
  <2>2. CASE ~Grows(u2, u2.t[1].table[j], kind)
      BY <1>2, <2>2 DEF Layer1Grow
  <2> QED BY <2>1, <2>2
<1>4. w = TableEnd(u3, 1, j, i, kind, last)
    BY DEF Layer1Step, u1, u2
<1> HIDE DEF u3
<1>5. ~u3.done => IsData(u3, u3.t[1].table[j])
  <2>1. <<"e1", j, 0>> \in Slots /\ ~IsIndex(<<"e1", j, 0>>)
      BY SlotsOf DEF IsIndex
  <2>2. ~u3.done => At(u3.node, Seen(u3), <<"e1", j, 0>>) = u3.t[1].table[j]
      BY <1>3, EntrySlots
  <2> QED BY <2>1, <2>2 DEF IsData
<1>6. WalkInv(w, F, dk) /\ (~w.done => ~u3.done /\ w.t = u3.t)
    BY <1>3, <1>4, <1>5, TableEndInv
<1> QED BY <1>3, <1>6 DEF BeforeLayer2

(* A step through the second layer. *)
LEMMA Layer2StepInv ==
    ASSUME NEW v, NEW F, NEW dk, WalkInv(v, F, dk), NEW i \in Int,
           Outer(i) \in Entries, Inner(i) \in Entries, NEW kind, NEW last,
           NEW w, w = Layer2Step(v, i, kind, last)
    PROVE  WalkInv(w, F, dk)
<1> DEFINE o == Outer(i)
           j == Inner(i)
           u1 == IF v.node.l2 = NoBlock THEN AsLayer2(Allocate(v)) ELSE v
           u2 == Layer2Load(u1)
           u3 == Layer2Inner(u2, i)
           u4 == Layer2Grow(u3, i, kind)
<1>1. WalkInv(u1, F, dk) /\ (~u1.done => u1.node.l2 # NoBlock)
  <2>1. CASE v.node.l2 = NoBlock
    <3> DEFINE a == Allocate(v)
    <3>1. /\ WalkInv(a, F, dk) /\ (~a.done => Fresh(a, F) /\ ~v.done)
          /\ a.node = v.node /\ a.t = v.t
        BY AllocateInv
    <3>2. u1 = AsLayer2(a)
        BY <2>1
    <3>3. ~a.done => a.node.l2 = NoBlock
        BY <2>1, <3>1
    <3> HIDE DEF a, u1
    <3> QED BY <3>1, <3>2, <3>3, AsLayer2Inv
  <2>2. CASE v.node.l2 # NoBlock
      BY <2>2
  <2> QED BY <2>1, <2>2
<1> HIDE DEF u1
<1>2. /\ WalkInv(u2, F, dk)
      /\ ~u2.done => u2.node.l2 # NoBlock /\ u2.t[1].at = u2.node.l2
  <2>1. CASE u1.done
    <3>1. u2 = u1
        BY <2>1 DEF Layer2Load, Load
    <3> QED BY <1>1, <2>1, <3>1
  <2>2. CASE ~u1.done
    <3>1. u1.t[2].at = NoBlock \/ u1.t[1].at = u1.node.l2
        BY <1>1 DEF WalkInv, LoadsRight
    <3>2. /\ WalkInv(u2, F, dk) /\ u2.done = u1.done /\ u2.node = u1.node
          /\ u2.t[1].at = u1.node.l2
        BY <1>1, <2>2, <3>1, LoadInv1 DEF Layer2Load
    <3> QED BY <1>1, <2>2, <3>2
  <2> QED BY <2>1, <2>2
<1> HIDE DEF u2
<1>3. /\ WalkInv(u3, F, dk)
      /\ ~u3.done => /\ u3.node.l2 # NoBlock /\ u3.t[1].at = u3.node.l2
                     /\ u3.t[1].table[o] # NoBlock => u3.t[2].at # NoBlock
  <2>1. /\ WalkInv(u3, F, dk) /\ u3.done = u2.done /\ u3.node = u2.node
        /\ u3.t[1].at = u2.t[1].at /\ u3.t[1].table = u2.t[1].table
        /\ ~u2.done /\ u2.t[1].table[o] # NoBlock => u3.t[2].at # NoBlock
      BY <1>2, LoadInv2 DEF Layer2Inner
  <2> HIDE DEF u3, o
  <2> QED BY <1>2, <2>1
<1> HIDE DEF u3
<1>4. WalkInv(u4, F, dk)
  <2>1. CASE Grows(u3, u3.t[2].table[j], kind)
    <3> DEFINE g == Layer2Table(u3, i, kind)
               a == Allocate(g)
    <3>1. /\ WalkInv(g, F, dk)
          /\ ~g.done => g.t[2].at # NoBlock /\ g.t[2].table[j] = NoBlock
      <4>1. CASE u3.t[1].table[o] = NoBlock
        <5> DEFINE b == Allocate(u3)
        <5>1. /\ WalkInv(b, F, dk) /\ (~b.done => Fresh(b, F) /\ ~u3.done)
              /\ b.node = u3.node /\ b.t = u3.t
            BY <1>3, AllocateInv
        <5>2. g = AsTable(b, o)
            BY <2>1, <4>1 DEF Layer2Table
        <5>3. ~b.done => /\ b.t[1].at = b.node.l2 /\ b.node.l2 # NoBlock
                         /\ b.t[1].table[o] = NoBlock
            BY <1>3, <4>1, <5>1
        <5> HIDE DEF b, g, o
        <5>4. /\ WalkInv(g, F, dk) /\ g.done = b.done
              /\ ~b.done => g.t[2].at # NoBlock /\ g.t[2].table = Zeros
            BY <5>1, <5>2, <5>3, AsTableInv DEF o
        <5>5. Zeros[j] = NoBlock
            BY DEF Zeros, Entries
        <5> QED BY <5>4, <5>5
      <4>2. CASE u3.t[1].table[o] # NoBlock
        <5>1. g = u3
            BY <4>2 DEF Layer2Table
        <5> QED BY <1>3, <2>1, <4>2, <5>1 DEF Grows
      <4> QED BY <4>1, <4>2
    <3>2. u4 = AsEntry(a, 2, j)
        BY <2>1 DEF Layer2Grow
    <3> HIDE DEF g
    <3>3. /\ WalkInv(a, F, dk) /\ (~a.done => Fresh(a, F) /\ ~g.done)
          /\ a.node = g.node /\ a.t = g.t
        BY <3>1, AllocateInv
    <3> HIDE DEF a, u4, j
    <3>4. ~a.done => a.t[2].at # NoBlock /\ a.t[2].table[j] = NoBlock
        BY <3>1, <3>3
    <3> QED BY <3>2, <3>3, <3>4, AsEntry2Inv DEF j
  <2>2. CASE ~Grows(u3, u3.t[2].table[j], kind)
      BY <1>3, <2>2 DEF Layer2Grow
  <2> QED BY <2>1, <2>2
<1>5. w = TableEnd(u4, 2, j, i, kind, last)
    BY DEF Layer2Step, u1, u2, u3
<1> HIDE DEF u4
<1>6. IsData(u4, u4.t[2].table[j])
  <2>1. CASE u4.t[2].at = NoBlock
    <3>1. u4.t[2].table = Zeros
        BY <1>4, <2>1 DEF WalkInv, LoadsRight
    <3> QED BY <3>1 DEF IsData, Zeros, Entries
  <2>2. CASE u4.t[2].at # NoBlock
    <3>1. PICK a \in Entries : At(u4.node, Seen(u4), <<"e2", a, j>>) = u4.t[2].table[j]
        BY <1>4, <2>2, EntrySlots
    <3>2. <<"e2", a, j>> \in Slots /\ ~IsIndex(<<"e2", a, j>>)
        BY SlotsOf DEF IsIndex
    <3> QED BY <3>1, <3>2 DEF IsData
  <2> QED BY <2>1, <2>2
<1> QED BY <1>4, <1>5, <1>6, TableEndInv

(* The places of an index in the second layer. *)
LEMMA Layer2Places ==
    ASSUME NEW i \in Int, i >= Th1, i < Th2
    PROVE  Outer(i) \in Entries /\ Inner(i) \in Entries
<1>1. Direct \in Nat /\ Layer \in Nat /\ Layer > 0
    BY ExtAssumption
<1> DEFINE k == i - Th1
<1>2. k \in Nat /\ k < Layer * Layer /\ i - Th0 \in Nat
    BY <1>1 DEF Th0, Th1, Th2
<1>3. \A n \in Nat : n < Layer * Layer => n \div Layer \in 0 .. Layer - 1
    BY <1>1
<1>4. \A n \in Nat : n % Layer \in 0 .. Layer - 1
    BY <1>1
<1> QED BY <1>2, <1>3, <1>4 DEF Outer, Inner, Entries

(* A step of a walk.  The walk comes to the second layer from the first,   *)
(* or starts in it, with no table of the inner layer loaded.               *)
LEMMA VisitStepInv ==
    ASSUME NEW v, NEW F, NEW dk, WalkInv(v, F, dk), NEW i \in Nat, i < Th2,
           i < Th1 => BeforeLayer2(v),
           NEW kind, NEW first, NEW last, NEW w, w = VisitStep(v, i, kind, first, last)
    PROVE  WalkInv(w, F, dk) /\ (i < Th1 => BeforeLayer2(w))
<1>0. Direct \in Nat /\ Layer \in Nat /\ Layer > 0
    BY ExtAssumption
<1>1. CASE v.done
    BY <1>1 DEF VisitStep
<1>2. CASE ~v.done /\ i < Th0
  <2>1. i \in Directs /\ i < Th1 /\ ~(i \in Th0 .. Th1 - 1) /\ ~(i >= Th1)
      BY <1>0, <1>2 DEF Directs, Th0, Th1
  <2>2. w = DirectStep(v, i, kind, last)
      BY <1>2, <2>1 DEF VisitStep
  <2> QED BY <2>1, <2>2, DirectStepInv
<1>3. CASE ~v.done /\ i \in Th0 .. Th1 - 1
  <2>1. i - Th0 \in Entries /\ i < Th1 /\ ~(i < Th0) /\ ~(i >= Th1)
      BY <1>0, <1>3 DEF Entries, Th0, Th1
  <2>2. w = Layer1Step(v, i, kind, last)
      BY <1>3, <2>1 DEF VisitStep
  <2> QED BY <2>1, <2>2, Layer1StepInv
<1>4. CASE ~v.done /\ i >= Th1
  <2> DEFINE u == IF i = Th1 \/ i = first THEN Dump(v, 1) ELSE v
  <2>1. Outer(i) \in Entries /\ Inner(i) \in Entries
      BY <1>4, Layer2Places
  <2>2. ~(i < Th0) /\ ~(i < Th1) /\ ~(i \in Th0 .. Th1 - 1)
      BY <1>0, <1>4 DEF Th0, Th1
  <2>3. w = Layer2Step(u, i, kind, last)
      BY <1>4, <2>2 DEF VisitStep
  <2>4. WalkInv(u, F, dk)
      BY DumpInv
  <2> HIDE DEF u
  <2> QED BY <2>1, <2>2, <2>3, <2>4, Layer2StepInv
<1>5. Th0 \in Int /\ Th1 \in Int /\ i \in Int
    BY <1>0 DEF Th0, Th1
<1> QED BY <1>1, <1>2, <1>3, <1>4, <1>5

-----------------------------------------------------------------------------
(* Whole walks.                                                            *)

(* Induction over the naturals, for the elements of a set. *)
LEMMA Induction ==
    ASSUME NEW S, 0 \in S, \A n \in Nat : n \in S => n + 1 \in S
    PROVE  \A n \in Nat : n \in S
<1> DEFINE T == Nat \ S
<1> SUFFICES ASSUME T # {} PROVE FALSE
    OBVIOUS
<1>1. Min(T) \in T /\ \A y \in T : Min(T) <= y
    BY LeastNatural
<1> DEFINE x == Min(T)
<1>2. x \in T /\ \A y \in T : x <= y
    BY <1>1
<1> HIDE DEF x
<1>3. x \in Nat /\ x # 0 /\ x - 1 \in Nat /\ x - 1 \notin T
    BY <1>2
<1>4. x - 1 \in S /\ (x - 1) + 1 = x
    BY <1>3
<1> QED BY <1>2, <1>3, <1>4

\* Walk as the fixpoint of its loop.
WalkStep(ino, first, last, kind, g, k) ==
    IF k = 0 THEN Visit0(ino) ELSE VisitStep(g[k - 1], first + k - 1, kind, first, last)
WalkFun(ino, first, last, kind) ==
    CHOOSE g : g = [k \in 0 .. Th2 - first |-> WalkStep(ino, first, last, kind, g, k)]

(* Walk is defined by that fixpoint. *)
LEMMA WalkIsFun ==
    ASSUME NEW ino, NEW first, NEW last, NEW kind, NEW n
    PROVE  Walk(ino, first, last, kind, n) = WalkFun(ino, first, last, kind)[n]
BY Zenon DEF Walk, WalkFun, WalkStep

(* The fixpoint exists: it is built one index at a time. *)
LEMMA WalkAt ==
    ASSUME NEW ino, NEW first, NEW last, NEW kind, Th2 - first \in Nat
    PROVE  \A k \in 0 .. Th2 - first :
             WalkFun(ino, first, last, kind)[k] =
               WalkStep(ino, first, last, kind, WalkFun(ino, first, last, kind), k)
<1> DEFINE L == Th2 - first
           D == 0 .. L
           W(g, k) == WalkStep(ino, first, last, kind, g, k)
           Good(g, n) == \A k \in D : k <= n => g[k] = W(g, k)
           S == {n \in Nat : \E g : g = [k \in D |-> g[k]] /\ Good(g, n)}
<1>0. L \in Nat
    OBVIOUS
<1> HIDE DEF L
<1>1. 0 \in S
  <2> DEFINE g == [k \in D |-> Visit0(ino)]
  <2>1. Good(g, 0)
    <3>1. \A k \in D : k <= 0 => k = 0
        BY <1>0
    <3>2. g[0] = Visit0(ino)
        BY <1>0
    <3> QED BY <3>1, <3>2 DEF WalkStep
  <2>2. g = [k \in D |-> g[k]]
      OBVIOUS
  <2>3. \E u : u = [k \in D |-> u[k]] /\ Good(u, 0)
    <3> HIDE DEF g, Good
    <3> QED BY <2>1, <2>2, Zenon
  <2> HIDE DEF Good
  <2> QED BY <2>3
<1>2. ASSUME NEW n \in Nat, n \in S PROVE n + 1 \in S
  <2>1. PICK g : g = [k \in D |-> g[k]] /\ Good(g, n)
      BY <1>2
  <2> DEFINE h == [k \in D |-> W(g, k)]
  <2>2. ASSUME NEW k \in D, k <= n + 1 PROVE h[k] = W(h, k)
    <3>1. CASE k = 0
        BY <3>1 DEF WalkStep
    <3>2. CASE k # 0
      <4>1. k - 1 \in D /\ k - 1 <= n
          BY <1>0, <2>2, <3>2
      <4>2. h[k - 1] = g[k - 1]
          BY <2>1, <4>1
      <4>3. h[k] = W(g, k)
          OBVIOUS
      <4> HIDE DEF h
      <4> QED BY <3>2, <4>2, <4>3 DEF WalkStep
    <3> QED BY <3>1, <3>2
  <2>3. Good(h, n + 1) /\ h = [k \in D |-> h[k]]
      BY <2>2
  <2>4. \E u : u = [k \in D |-> u[k]] /\ Good(u, n + 1)
    <3> HIDE DEF h, Good
    <3> QED BY <2>3, Zenon
  <2>5. n + 1 \in Nat
      OBVIOUS
  <2> HIDE DEF Good, D
  <2> QED BY <2>4, <2>5, Zenon
<1>3. L \in S
  <2> HIDE DEF S
  <2> QED BY <1>0, <1>1, <1>2, Induction
<1>4. PICK g : g = [k \in D |-> g[k]] /\ Good(g, L)
    BY <1>3
<1>5. g = [k \in 0 .. Th2 - first |-> WalkStep(ino, first, last, kind, g, k)]
    BY <1>0, <1>4 DEF L
<1>6. WalkFun(ino, first, last, kind) =
        [k \in 0 .. Th2 - first |->
           WalkStep(ino, first, last, kind, WalkFun(ino, first, last, kind), k)]
    BY <1>5 DEF WalkFun
<1> QED BY <1>6

(* A walk that starts with its invariant keeps it to its end. *)
LEMMA VisitInv ==
    ASSUME NEW ino, NEW F, WalkInv(Visit0(ino), F, disk), NEW first \in 0 .. Th2,
           NEW last, NEW kind
    PROVE  WalkInv(Visit(ino, first, last, kind), F, disk)
<1> DEFINE L == Th2 - first
           G == WalkFun(ino, first, last, kind)
           Fine(k) == WalkInv(G[k], F, disk) /\ (first + k <= Th1 => BeforeLayer2(G[k]))
           S == {k \in Nat : k <= L => Fine(k)}
<1>0. Th1 \in Nat /\ Th2 \in Nat /\ L \in Nat /\ first \in Nat
  <2>1. Direct \in Nat /\ Layer \in Nat
      BY ExtAssumption
  <2> DEFINE Q == Layer * Layer
  <2>2. Q \in Nat
      BY <2>1
  <2>3. Th1 = Direct + Layer /\ Th2 = Direct + Layer + Q
      BY DEF Th1, Th2
  <2> HIDE DEF Q
  <2>4. Th1 \in Nat /\ Th2 \in Nat
      BY <2>1, <2>2, <2>3
  <2> QED BY <2>4
<1>1. \A k \in 0 .. L : G[k] = WalkStep(ino, first, last, kind, G, k)
    BY <1>0, WalkAt
<1> HIDE DEF G
<1>2. 0 \in S
  <2>1. G[0] = Visit0(ino)
      BY <1>0, <1>1 DEF WalkStep
  <2>2. BeforeLayer2(Visit0(ino))
      BY DEF BeforeLayer2, Visit0, NotLoaded
  <2> QED BY <2>1, <2>2
<1>3. ASSUME NEW k \in Nat, k \in S PROVE k + 1 \in S
  <2> SUFFICES ASSUME k + 1 <= L PROVE Fine(k + 1)
      OBVIOUS
  <2>1. Fine(k)
      BY <1>0, <1>3
  <2>2. k + 1 \in 0 .. L /\ k + 1 # 0 /\ (k + 1) - 1 = k /\ first + (k + 1) - 1 = first + k
      BY <1>0
  <2>3. G[k + 1] = VisitStep(G[k], first + k, kind, first, last)
      BY <1>1, <2>2 DEF WalkStep
  <2> DEFINE i == first + k
  <2>4. i \in Nat /\ i < Th2 /\ (i < Th1 => first + k <= Th1) /\ (first + (k + 1) <= Th1 => i < Th1)
      BY <1>0
  <2>5. G[k + 1] = VisitStep(G[k], i, kind, first, last)
      BY <2>3
  <2>6. WalkInv(G[k], F, disk) /\ (i < Th1 => BeforeLayer2(G[k]))
      BY <2>1, <2>4
  <2> HIDE DEF i
  <2>7. WalkInv(G[k + 1], F, disk) /\ (i < Th1 => BeforeLayer2(G[k + 1]))
      BY <2>4, <2>5, <2>6, VisitStepInv
  <2> QED BY <2>4, <2>7
<1>4. Fine(L)
  <2>1. L \in S
    <3> HIDE DEF S, L
    <3> QED BY <1>0, <1>2, <1>3, Induction
  <2> HIDE DEF Fine
  <2> QED BY <1>0, <2>1
<1> DEFINE u == Walk(ino, first, last, kind, Th2 - first)
           d == Dump(u, 1)
<1>5. WalkInv(u, F, disk)
    BY <1>4, WalkIsFun DEF G
<1> HIDE DEF u
<1>6. WalkInv(d, F, disk)
    BY <1>5, DumpInv
<1>7. Visit(ino, first, last, kind) = Dump(d, 2)
    BY DEF Visit, u
<1> HIDE DEF d
<1> QED BY <1>6, <1>7, DumpInv

-----------------------------------------------------------------------------
(* The files of a state.                                                   *)

\* An inode may hold the text of a link.
RawNodes == [type : Types, direct : [Directs -> Known \cup {LinkText}], l1 : Known, l2 : Known]

StateTypes(nodes, dk, bm, sv, ct) ==
    /\ nodes \in [Inos -> RawNodes]
    /\ \A ino \in Inos : nodes[ino].type # "link" => nodes[ino] \in Nodes
    /\ dk \in Disks
    /\ bm \subseteq Blocks /\ sv \subseteq Blocks
    /\ ct \in [ops : Nat, crashes : Nat]

\* The block at a slot of a file, on disk.
Holds(nodes, dk, ino, s) == At(nodes[ino], OnDisk(dk), s)

\* The blocks of the files lv are marked in bm and sv and have one place.
FilesOwned(nodes, dk, lv, bm, sv) ==
    \A ino \in lv : nodes[ino].type # "link" =>
      /\ OnePlace(nodes[ino], OnDisk(dk))
      /\ \A s \in Slots : Holds(nodes, dk, ino, s) \in (bm \cap sv) \cup {NoBlock}
      /\ \A other \in lv : other # ino /\ nodes[other].type # "link" =>
           \A s, u \in Slots : Holds(nodes, dk, ino, s) # NoBlock =>
             Holds(nodes, dk, other, u) # Holds(nodes, dk, ino, s)

\* The blocks of the files lv other than ino.
OtherBlocks(nodes, dk, lv, ino) ==
    {b \in Blocks : \E o \in lv : /\ o # ino /\ nodes[o].type # "link"
                                  /\ \E s \in Slots : Holds(nodes, dk, o, s) = b}

(* Fewer files, or more blocks marked. *)
LEMMA OwnedMonotone ==
    ASSUME NEW nodes, NEW dk, NEW lv, NEW bm, NEW sv, FilesOwned(nodes, dk, lv, bm, sv),
           NEW nodes2, NEW lv2, NEW bm2, NEW sv2, lv2 \subseteq lv,
           \A o \in lv2 : nodes2[o] = nodes[o], bm \cap sv \subseteq bm2 \cap sv2
    PROVE  FilesOwned(nodes2, dk, lv2, bm2, sv2)
BY DEF FilesOwned, Holds

(* A view depends on the tables of its index blocks alone. *)
LEMMA SameView ==
    ASSUME NEW nd, NEW tb, NEW tb2,
           \A s \in Slots : IsIndex(s) /\ At(nd, tb, s) # NoBlock =>
             tb2[At(nd, tb, s)] = tb[At(nd, tb, s)]
    PROVE  \A s \in Slots : At(nd, tb2, s) = At(nd, tb, s)
<1> DEFINE O(tt, i) == Entry(tt, nd.l2, i)
<1>1. nd.l1 # NoBlock => tb2[nd.l1] = tb[nd.l1]
  <2>1. <<"l1", 0, 0>> \in Slots /\ IsIndex(<<"l1", 0, 0>>) /\ At(nd, tb, <<"l1", 0, 0>>) = nd.l1
      BY SlotsOf DEF IsIndex
  <2> QED BY <2>1
<1>2. nd.l2 # NoBlock => tb2[nd.l2] = tb[nd.l2]
  <2>1. <<"l2", 0, 0>> \in Slots /\ IsIndex(<<"l2", 0, 0>>) /\ At(nd, tb, <<"l2", 0, 0>>) = nd.l2
      BY SlotsOf DEF IsIndex
  <2> QED BY <2>1
<1>3. \A i \in Entries : O(tb2, i) = O(tb, i)
    BY <1>2 DEF Entry
<1>4. ASSUME NEW i \in Entries, O(tb, i) # NoBlock PROVE tb2[O(tb, i)] = tb[O(tb, i)]
  <2>1. <<"o", i, 0>> \in Slots /\ IsIndex(<<"o", i, 0>>) /\ At(nd, tb, <<"o", i, 0>>) = O(tb, i)
      BY SlotsOf DEF IsIndex
  <2> HIDE DEF O
  <2> QED BY <1>4, <2>1
<1> SUFFICES ASSUME NEW s \in Slots PROVE At(nd, tb2, s) = At(nd, tb, s)
    OBVIOUS
<1>5. CASE s[1] = "e2"
  <2>1. s[2] \in Entries
      BY <1>5, SlotKinds
  <2>2. At(nd, tb2, s) = Entry(tb2, O(tb2, s[2]), s[3]) /\ At(nd, tb, s) = Entry(tb, O(tb, s[2]), s[3])
      BY <1>5 DEF At
  <2> HIDE DEF O
  <2> QED BY <1>3, <1>4, <2>1, <2>2 DEF Entry
<1>6. CASE s[1] = "o"
  <2>1. s[2] \in Entries
      BY <1>6, SlotKinds
  <2>2. At(nd, tb2, s) = O(tb2, s[2]) /\ At(nd, tb, s) = O(tb, s[2])
      BY <1>6 DEF At
  <2> HIDE DEF O
  <2> QED BY <1>3, <2>1, <2>2
<1>7. CASE s[1] = "e1"
    BY <1>1, <1>7 DEF At, Entry
<1>8. CASE s[1] = "d" \/ s[1] = "l1" \/ s[1] = "l2"
    BY <1>8 DEF At
<1> QED BY <1>5, <1>6, <1>7, <1>8, SlotKinds

(* Another file is as it was when its blocks are. *)
LEMMA OtherView ==
    ASSUME NEW nodes, NEW dk \in Disks, NEW dk2 \in Disks, NEW ino,
           nodes[ino] \in Nodes, NEW X,
           \A s \in Slots : Holds(nodes, dk, ino, s) \in X \cup {NoBlock},
           \A b \in Blocks : b \in X => dk2[b].table = dk[b].table
    PROVE  \A s \in Slots : At(nodes[ino], OnDisk(dk2), s) = At(nodes[ino], OnDisk(dk), s)
<1>1. OnDisk(dk) \in [Blocks -> Tables]
    BY DEF OnDisk, Disks, Contents
<1>2. ASSUME NEW s \in Slots, At(nodes[ino], OnDisk(dk), s) # NoBlock
      PROVE  OnDisk(dk2)[At(nodes[ino], OnDisk(dk), s)] = OnDisk(dk)[At(nodes[ino], OnDisk(dk), s)]
  <2> DEFINE b == At(nodes[ino], OnDisk(dk), s)
  <2>1. b \in Known
      BY <1>1, AtKnown
  <2>2. b \in Blocks /\ b \in X
      BY <1>2, <2>1 DEF Known, Holds
  <2> HIDE DEF b
  <2>3. dk2[b].table = dk[b].table
      BY <2>2
  <2> QED BY <2>2, <2>3 DEF OnDisk, b
<1> QED BY <1>2, SameView

(* A walk of a file starts with its invariant. *)
LEMMA StartInv ==
    ASSUME StateTypes(inode, disk, bitmapData, savedData, count), NEW lv,
           FilesOwned(inode, disk, lv, bitmapData, savedData),
           NEW ino \in Inos, ino \in lv, inode[ino].type # "link", lv \subseteq Inos
    PROVE  WalkInv(Visit0(ino), OtherBlocks(inode, disk, lv, ino), disk)
<1> DEFINE v == Visit0(ino)
           F == OtherBlocks(inode, disk, lv, ino)
<1>1. /\ v.map = bitmapData /\ v.saved = savedData /\ v.disk = disk
      /\ v.kept = inode[ino] /\ v.node = inode[ino] /\ v.t = <<NotLoaded, NotLoaded>>
      /\ v.got = <<>>
    BY DEF Visit0
<1>2. v \in Visits
  <2>1. inode[ino] \in Nodes /\ disk \in Disks /\ bitmapData \subseteq Blocks
        /\ savedData \subseteq Blocks
      BY DEF StateTypes
  <2>2. Zeros \in Tables
      BY DEF Zeros, Tables, Known, Entries
  <2>3. NotLoaded \in Loads
      BY <2>2 DEF NotLoaded, Loads, Known
  <2>4. <<NotLoaded, NotLoaded>> \in [1 .. 2 -> Loads]
    <3> HIDE DEF NotLoaded
    <3> QED BY <2>3
  <2>5. <<>> \in Seq(Known) /\ NoBlock \in Known
      BY DEF Known
  <2> QED BY <2>1, <2>4, <2>5 DEF Visit0, Visits
<1>3. v.t[1].at = NoBlock /\ v.t[2].at = NoBlock /\ v.t[2].table = Zeros
    BY <1>1 DEF NotLoaded
<1>4. Seen(v) = OnDisk(disk)
  <2>1. \A b \in Blocks : b # NoBlock
      BY DEF Blocks, NoBlock
  <2> HIDE DEF v
  <2> QED BY <1>1, <1>3, <2>1 DEF Seen, OnDisk
<1>5. Len(v.got) = 0
    BY <1>1
<1> HIDE DEF v
<1>6. \A s \in Slots : Holds(inode, disk, ino, s) \in ((bitmapData \cap savedData) \ F) \cup {NoBlock}
  <2>1. ASSUME NEW s \in Slots, Holds(inode, disk, ino, s) # NoBlock,
               Holds(inode, disk, ino, s) \in F
        PROVE  FALSE
    <3>1. PICK o \in lv : /\ o # ino /\ inode[o].type # "link"
                          /\ \E u \in Slots : Holds(inode, disk, o, u) = Holds(inode, disk, ino, s)
        BY <2>1 DEF OtherBlocks
    <3> QED BY <2>1, <3>1 DEF FilesOwned
  <2>2. \A s \in Slots : Holds(inode, disk, ino, s) \in (bitmapData \cap savedData) \cup {NoBlock}
      BY DEF FilesOwned
  <2> HIDE DEF F
  <2> QED BY <2>1, <2>2
<1>7. ViewOwned(v, F)
  <2>1. OnePlace(inode[ino], OnDisk(disk))
      BY DEF FilesOwned
  <2> QED BY <1>1, <1>4, <1>6, <2>1 DEF ViewOwned, Holds
<1>8. OthersKept(v, F, disk)
  <2>1. ASSUME NEW b \in F PROVE b \in bitmapData \cap savedData
    <3>1. b \in Blocks /\ b # NoBlock
        BY DEF OtherBlocks, Blocks, NoBlock
    <3>2. PICK o \in lv : inode[o].type # "link" /\ \E s \in Slots : Holds(inode, disk, o, s) = b
        BY DEF OtherBlocks
    <3>3. \A s \in Slots : Holds(inode, disk, o, s) \in (bitmapData \cap savedData) \cup {NoBlock}
        BY <3>2 DEF FilesOwned
    <3> QED BY <3>1, <3>2, <3>3
  <2> QED BY <1>1, <2>1 DEF OthersKept
<1>9. DiskBehind(v)
  <2>1. \A l \in 1 .. 2 : v.t[l].at = NoBlock
      BY <1>3
  <2> QED BY <1>1, <2>1 DEF DiskBehind
<1>10. LoadsRight(v)
    BY <1>3 DEF LoadsRight
<1>11. GotRight(v, F)
    BY <1>5 DEF GotRight
<1> QED BY <1>2, <1>7, <1>8, <1>9, <1>10, <1>11 DEF WalkInv, v

(* What a walk leaves on disk shows no more than the walk saw. *)
LEMMA DiskShows ==
    ASSUME NEW v, NEW F, NEW dk, WalkInv(v, F, dk)
    PROVE  \A s \in Slots : At(v.kept, OnDisk(v.disk), s) \in {NoBlock, At(v.node, Seen(v), s)}
<1>1. v \in Visits /\ v.node \in Nodes /\ Seen(v) \in [Blocks -> Tables]
    BY VisitParts, SeenAt DEF WalkInv
<1>2. ASSUME NEW x \in Blocks, NEW i \in Entries
      PROVE  OnDisk(v.disk)[x][i] \in {NoBlock, Seen(v)[x][i]}
  <2>1. OnDisk(v.disk)[x] = v.disk[x].table /\ x # NoBlock
      BY DEF OnDisk, Blocks, NoBlock
  <2>2. CASE x = v.t[1].at
    <3>1. v.disk[v.t[1].at].table[i] \in {NoBlock, v.t[1].table[i]}
      <4>1. v.t[1].at # NoBlock /\ 1 \in 1 .. 2
          BY <2>1, <2>2
      <4> QED BY <4>1, Behind1
    <3> QED BY <1>1, <2>1, <2>2, <3>1, SeenAt
  <2>3. CASE x # v.t[1].at /\ x = v.t[2].at
    <3>1. v.disk[v.t[2].at].table[i] \in {NoBlock, v.t[2].table[i]}
      <4>1. v.t[2].at # NoBlock /\ 2 \in 1 .. 2
          BY <2>1, <2>3
      <4> QED BY <4>1, Behind2
    <3> QED BY <1>1, <2>1, <2>3, <3>1, SeenAt
  <2>4. CASE x # v.t[1].at /\ x # v.t[2].at
      BY <1>1, <2>1, <2>4, SeenAt
  <2> QED BY <2>2, <2>3, <2>4
<1>3. /\ \A i \in Directs : v.kept.direct[i] \in {NoBlock, v.node.direct[i]}
      /\ v.kept.l1 \in {NoBlock, v.node.l1} /\ v.kept.l2 \in {NoBlock, v.node.l2}
    BY DEF WalkInv, DiskBehind
<1> QED BY <1>1, <1>2, <1>3, BehindShows

(* The blocks met are marked, and belong to no other file. *)
LEMMA GotBlocks ==
    ASSUME NEW v, NEW F, NEW dk, WalkInv(v, F, dk)
    PROVE  /\ Got(v) \subseteq v.map \ F
           /\ \A s \in Slots : IsIndex(s) => At(v.node, Seen(v), s) \notin Got(v)
BY DEF Got, WalkInv, GotRight

(* The files after a walk of one of them, when what it met may have been   *)
(* overwritten.                                                            *)
LEMMA WalkedOwned ==
    ASSUME NEW nodes \in [Inos -> RawNodes], NEW dk \in Disks, NEW lv, lv \subseteq Inos,
           NEW bm, NEW sv, \A o \in Inos : nodes[o].type # "link" => nodes[o] \in Nodes,
           FilesOwned(nodes, dk, lv, bm, sv), NEW ino \in Inos,
           NEW v, WalkInv(v, OtherBlocks(nodes, dk, lv, ino), dk),
           NEW nodes2, \A o \in lv : o # ino => nodes2[o] = nodes[o], nodes2[ino] = v.kept,
           NEW dk2 \in Disks, \A b \in Blocks : b \notin Got(v) => dk2[b].table = v.disk[b].table,
           NEW lv2, lv2 \subseteq lv, NEW bm2, NEW sv2,
           OtherBlocks(nodes, dk, lv, ino) \subseteq bm2 \cap sv2,
           ino \in lv2 => v.map \cap v.saved \subseteq bm2 \cap sv2
    PROVE  FilesOwned(nodes2, dk2, lv2, bm2, sv2)
<1> DEFINE F == OtherBlocks(nodes, dk, lv, ino)
           H(o, s) == Holds(nodes, dk, o, s)
           H2(o, s) == Holds(nodes2, dk2, o, s)
           M(s) == At(v.node, Seen(v), s)
<1>1. Got(v) \subseteq v.map \ F /\ \A s \in Slots : IsIndex(s) => M(s) \notin Got(v)
    BY GotBlocks
<1>2. ASSUME NEW o \in lv, o # ino, nodes[o].type # "link"
      PROVE  /\ \A s \in Slots : H(o, s) \in F \cup {NoBlock}
             /\ \A s \in Slots : At(nodes[o], OnDisk(dk2), s) = At(nodes[o], OnDisk(dk), s)
  <2>1. nodes[o] \in Nodes /\ OnDisk(dk) \in [Blocks -> Tables]
      BY <1>2 DEF OnDisk, Disks, Contents
  <2>2. ASSUME NEW s \in Slots PROVE H(o, s) \in F \cup {NoBlock}
    <3>1. H(o, s) \in Known
        BY <2>1, AtKnown DEF Holds
    <3>2. H(o, s) # NoBlock => H(o, s) \in Blocks
        BY <3>1 DEF Known
    <3>3. H(o, s) \in Blocks => H(o, s) \in F
        BY <1>2 DEF OtherBlocks
    <3> QED BY <3>2, <3>3
  <2>3. ASSUME NEW b \in Blocks, b \in F PROVE dk2[b].table = dk[b].table
    <3>1. b \notin Got(v) /\ v.disk[b] = dk[b]
      <4>1. OthersKept(v, F, dk)
          BY DEF WalkInv
      <4> HIDE DEF F
      <4> QED BY <1>1, <2>3, <4>1 DEF OthersKept
    <3> QED BY <3>1
  <2>4. \A s \in Slots : Holds(nodes, dk, o, s) \in F \cup {NoBlock}
      BY <2>2
  <2>5. \A b \in Blocks : b \in F => dk2[b].table = dk[b].table
      BY <2>3
  <2> HIDE DEF F
  <2>6. \A s \in Slots : At(nodes[o], OnDisk(dk2), s) = At(nodes[o], OnDisk(dk), s)
      BY <2>1, <2>4, <2>5, OtherView
  <2> QED BY <2>4, <2>6
<1>3. \A o \in lv2 : o # ino => nodes2[o] = nodes[o]
    OBVIOUS
<1>4. ASSUME NEW o \in lv2, o # ino, nodes2[o].type # "link", NEW s \in Slots
      PROVE  H2(o, s) = H(o, s) /\ H2(o, s) \in F \cup {NoBlock}
  <2>1. H2(o, s) = H(o, s)
      BY <1>2, <1>3, <1>4 DEF Holds
  <2> HIDE DEF H2
  <2> QED BY <1>2, <1>3, <1>4, <2>1
<1>5. ASSUME NEW s \in Slots PROVE H2(ino, s) \in {NoBlock, M(s)}
  <2>1. \A u \in Slots : At(v.kept, OnDisk(v.disk), u) \in {NoBlock, M(u)}
      BY DiskShows
  <2>2. v \in Visits /\ v.kept \in Nodes /\ v.disk \in Disks
      BY VisitParts DEF WalkInv
  <2>3. OnDisk(v.disk) \in [Blocks -> Tables]
      BY <2>2 DEF OnDisk, Disks, Contents
  <2>4. ASSUME NEW u \in Slots, IsIndex(u), At(v.kept, OnDisk(v.disk), u) # NoBlock
        PROVE  OnDisk(dk2)[At(v.kept, OnDisk(v.disk), u)]
                 = OnDisk(v.disk)[At(v.kept, OnDisk(v.disk), u)]
    <3> DEFINE b == At(v.kept, OnDisk(v.disk), u)
    <3>1. b \in Known
        BY <2>2, <2>3, AtKnown
    <3>2. b \in Blocks /\ b \notin Got(v)
        BY <1>1, <2>1, <2>4, <3>1 DEF Known
    <3> HIDE DEF b
    <3>3. dk2[b].table = v.disk[b].table
        BY <3>2
    <3> QED BY <3>2, <3>3 DEF OnDisk, b
  <2>5. At(v.kept, OnDisk(dk2), s) = At(v.kept, OnDisk(v.disk), s)
      BY <2>4, SameView
  <2> QED BY <2>1, <2>5 DEF Holds
<1>6. \A s \in Slots : M(s) \in ((v.map \cap v.saved) \ F) \cup {NoBlock}
    BY DEF WalkInv, ViewOwned
<1>7. \A s, u \in Slots : M(s) # NoBlock /\ s # u => M(u) # M(s)
    BY DEF WalkInv, ViewOwned, OnePlace
<1>8. ASSUME NEW o \in lv2, nodes2[o].type # "link"
      PROVE  /\ OnePlace(nodes2[o], OnDisk(dk2))
             /\ \A s \in Slots : H2(o, s) \in (bm2 \cap sv2) \cup {NoBlock}
             /\ \A other \in lv2 : other # o /\ nodes2[other].type # "link" =>
                  \A s, u \in Slots : H2(o, s) # NoBlock => H2(other, u) # H2(o, s)
  <2>1. CASE o = ino
    <3>1. \A s, u \in Slots : H2(o, s) # NoBlock /\ s # u => H2(o, u) # H2(o, s)
      <4> HIDE DEF H2, M
      <4> QED BY <1>5, <1>7, <2>1
    <3>2. OnePlace(nodes2[o], OnDisk(dk2))
        BY <3>1 DEF OnePlace, Holds
    <3>3. \A s \in Slots : H2(o, s) \in ((v.map \cap v.saved) \ F) \cup {NoBlock}
      <4> HIDE DEF H2, M, F
      <4> QED BY <1>5, <1>6, <2>1
    <3>4. \A s \in Slots : H2(o, s) \in (bm2 \cap sv2) \cup {NoBlock}
      <4> HIDE DEF H2, F
      <4> QED BY <2>1, <3>3
    <3>5. ASSUME NEW other \in lv2, other # o, nodes2[other].type # "link",
                 NEW s \in Slots, NEW u \in Slots, H2(o, s) # NoBlock
          PROVE  H2(other, u) # H2(o, s)
      <4>1. H2(other, u) \in F \cup {NoBlock}
          BY <1>4, <2>1, <3>5
      <4> HIDE DEF H2, F
      <4> QED BY <3>3, <3>5, <4>1
    <3> QED BY <3>2, <3>4, <3>5
  <2>2. CASE o # ino
    <3>0. o \in lv /\ nodes[o].type # "link" /\ nodes2[o] = nodes[o]
        BY <1>8, <2>2
    <3>1. \A s \in Slots : H2(o, s) = H(o, s) /\ H2(o, s) \in F \cup {NoBlock}
        BY <1>4, <1>8, <2>2
    <3>2. \A s, u \in Slots : H(o, s) # NoBlock /\ s # u => H(o, u) # H(o, s)
        BY <3>0 DEF FilesOwned, OnePlace, Holds
    <3>3. OnePlace(nodes2[o], OnDisk(dk2))
      <4>1. \A s, u \in Slots : H2(o, s) # NoBlock /\ s # u => H2(o, u) # H2(o, s)
        <5> HIDE DEF H2, H
        <5> QED BY <3>1, <3>2
      <4> QED BY <4>1 DEF OnePlace, Holds
    <3>4. \A s \in Slots : H2(o, s) \in (bm2 \cap sv2) \cup {NoBlock}
      <4> HIDE DEF H2, H
      <4> QED BY <3>1
    <3>5. ASSUME NEW other \in lv2, other # o, nodes2[other].type # "link",
                 NEW s \in Slots, NEW u \in Slots, H2(o, s) # NoBlock
          PROVE  H2(other, u) # H2(o, s)
      <4>1. CASE other = ino
        <5>1. H2(ino, u) \in ((v.map \cap v.saved) \ F) \cup {NoBlock}
          <6> HIDE DEF H2, M, F
          <6> QED BY <1>5, <1>6
        <5> HIDE DEF H2, F
        <5> QED BY <3>1, <3>5, <4>1, <5>1
      <4>2. CASE other # ino
        <5>1. H2(other, u) = H(other, u) /\ other \in lv /\ nodes[other].type # "link"
            BY <1>4, <3>5, <4>2
        <5>2. H(o, s) # NoBlock => H(other, u) # H(o, s)
            BY <3>0, <3>5, <5>1 DEF FilesOwned
        <5> HIDE DEF H2, H
        <5> QED BY <3>1, <3>5, <5>1, <5>2
      <4> QED BY <4>1, <4>2
    <3> QED BY <3>3, <3>4, <3>5
  <2> QED BY <2>1, <2>2
<1> QED BY <1>8 DEF FilesOwned

\* A node with one direct block.
OneBlock(ty, b) == [Blank EXCEPT !.type = ty, !.direct[0] = b]

(* The parts of such a node. *)
LEMMA OneBlockParts ==
    ASSUME NEW ty \in Types, NEW b \in Known \cup {LinkText}
    PROVE  /\ OneBlock(ty, b) \in RawNodes /\ OneBlock(ty, b).type = ty
           /\ b \in Known => OneBlock(ty, b) \in Nodes
           /\ OneBlock(ty, b).l1 = NoBlock /\ OneBlock(ty, b).l2 = NoBlock
           /\ OneBlock(ty, b).direct[0] = b
           /\ \A i \in Directs : i # 0 => OneBlock(ty, b).direct[i] = NoBlock
<1> DEFINE dd == [[i \in 0 .. Direct - 1 |-> NoBlock] EXCEPT ![0] = b]
<1>0. 0 \in Directs
    BY ExtAssumption DEF Directs
<1>1. OneBlock(ty, b) = [type |-> ty, direct |-> dd, l1 |-> NoBlock, l2 |-> NoBlock]
  <2> DEFINE d0 == [i \in 0 .. Direct - 1 |-> NoBlock]
  <2>1. Blank = [type |-> "none", direct |-> d0, l1 |-> NoBlock, l2 |-> NoBlock]
      BY DEF Blank
  <2>2. OneBlock(ty, b) = [[Blank EXCEPT !.type = ty] EXCEPT !.direct[0] = b]
      BY DEF OneBlock
  <2>3. [Blank EXCEPT !.type = ty] = [type |-> ty, direct |-> d0, l1 |-> NoBlock, l2 |-> NoBlock]
    <3> HIDE DEF d0
    <3> QED BY <2>1
  <2>4. dd = [d0 EXCEPT ![0] = b]
      OBVIOUS
  <2> HIDE DEF d0, dd
  <2> QED BY <2>2, <2>3, <2>4
<1>2. /\ dd \in [Directs -> Known \cup {LinkText}] /\ (b \in Known => dd \in [Directs -> Known])
      /\ dd[0] = b /\ \A i \in Directs : i # 0 => dd[i] = NoBlock
  <2>1. NoBlock \in Known
      BY DEF Known
  <2> QED BY <1>0, <2>1 DEF Directs
<1>3. NoBlock \in Known
    BY DEF Known
<1> HIDE DEF dd
<1> QED BY <1>1, <1>2, <1>3 DEF RawNodes, Nodes

(* The files after a node with one new block was added. *)
LEMMA NewOwned ==
    ASSUME NEW nodes \in [Inos -> RawNodes], NEW dk \in Disks, NEW lv, lv \subseteq Inos,
           NEW bm, NEW sv, \A o \in Inos : nodes[o].type # "link" => nodes[o] \in Nodes,
           FilesOwned(nodes, dk, lv, bm, sv), NEW ni \in Inos, ni \notin lv,
           NEW b \in Blocks, b \notin bm, NEW ty \in Types,
           NEW nodes2, \A o \in lv : nodes2[o] = nodes[o], nodes2[ni] = OneBlock(ty, b),
           NEW dk2 \in Disks, \A x \in Blocks : x # b => dk2[x].table = dk[x].table,
           NEW lv2, lv2 \subseteq lv \cup {ni}
    PROVE  FilesOwned(nodes2, dk2, lv2, bm \cup {b}, bm \cup {b})
<1> DEFINE nd == OneBlock(ty, b)
           H(o, s) == Holds(nodes, dk, o, s)
           H2(o, s) == Holds(nodes2, dk2, o, s)
           s0 == <<"d", 0, 0>>
<1>0. b \in Known /\ b # NoBlock /\ 0 \in Directs
    BY ExtAssumption DEF Known, Blocks, NoBlock, Directs
<1>1. nd.l1 = NoBlock /\ nd.l2 = NoBlock /\ nd.direct[0] = b
      /\ \A i \in Directs : i # 0 => nd.direct[i] = NoBlock
    BY <1>0, OneBlockParts
<1> HIDE DEF nd
<1>2. ASSUME NEW s \in Slots PROVE H2(ni, s) = NoBlock \/ (s = s0 /\ H2(ni, s) = b)
  <2>1. At(nd, OnDisk(dk2), s) = NoBlock \/ (s = s0 /\ At(nd, OnDisk(dk2), s) = b)
    <3>1. CASE s[1] = "d"
        BY <1>1, <3>1, SlotKinds DEF At
    <3>2. CASE s[1] # "d"
        BY <1>1, <3>2 DEF At, Entry
    <3> QED BY <3>1, <3>2
  <2>2. nodes2[ni] = nd
      BY DEF nd
  <2> QED BY <2>1, <2>2 DEF Holds
<1>3. ASSUME NEW o \in lv, nodes[o].type # "link", NEW s \in Slots
      PROVE  H2(o, s) = H(o, s) /\ H2(o, s) # b
  <2>1. \A u \in Slots : H(o, u) \in bm \cup {NoBlock}
      BY <1>3 DEF FilesOwned
  <2>2. \A x \in Blocks : x \in bm => dk2[x].table = dk[x].table
      OBVIOUS
  <2>3. nodes[o] \in Nodes
      BY <1>3
  <2>4. \A u \in Slots : At(nodes[o], OnDisk(dk2), u) = At(nodes[o], OnDisk(dk), u)
      BY <2>1, <2>2, <2>3, OtherView
  <2>5. H2(o, s) = H(o, s)
      BY <2>4 DEF Holds
  <2> HIDE DEF H, H2
  <2> QED BY <1>0, <2>1, <2>5
<1>4. ASSUME NEW o \in lv2, nodes2[o].type # "link"
      PROVE  /\ OnePlace(nodes2[o], OnDisk(dk2))
             /\ \A s \in Slots : H2(o, s) \in (bm \cup {b}) \cup {NoBlock}
             /\ \A other \in lv2 : other # o /\ nodes2[other].type # "link" =>
                  \A s, u \in Slots : H2(o, s) # NoBlock => H2(other, u) # H2(o, s)
  <2>1. CASE o = ni
    <3>1. \A s, u \in Slots : H2(o, s) # NoBlock /\ s # u => H2(o, u) # H2(o, s)
      <4> HIDE DEF H2, s0
      <4> QED BY <1>0, <1>2, <2>1
    <3>2. OnePlace(nodes2[o], OnDisk(dk2))
        BY <3>1 DEF OnePlace, Holds
    <3>3. \A s \in Slots : H2(o, s) \in {b, NoBlock}
      <4> HIDE DEF H2, s0
      <4> QED BY <1>2, <2>1
    <3>4. ASSUME NEW other \in lv2, other # o, nodes2[other].type # "link",
                 NEW s \in Slots, NEW u \in Slots, H2(o, s) # NoBlock
          PROVE  H2(other, u) # H2(o, s)
      <4>1. other \in lv /\ nodes2[other] = nodes[other]
          BY <2>1, <3>4
      <4>2. H2(other, u) # b
          BY <1>3, <3>4, <4>1
      <4> HIDE DEF H2
      <4> QED BY <3>3, <3>4, <4>2
    <3> HIDE DEF H2
    <3> QED BY <3>2, <3>3, <3>4
  <2>2. CASE o # ni
    <3>0. o \in lv /\ nodes[o].type # "link" /\ nodes2[o] = nodes[o]
        BY <1>4, <2>2
    <3>1. \A s \in Slots : H2(o, s) = H(o, s) /\ H2(o, s) # b
        BY <1>3, <3>0
    <3>2. /\ \A s, u \in Slots : H(o, s) # NoBlock /\ s # u => H(o, u) # H(o, s)
          /\ \A s \in Slots : H(o, s) \in (bm \cap sv) \cup {NoBlock}
        BY <3>0 DEF FilesOwned, OnePlace, Holds
    <3>3. OnePlace(nodes2[o], OnDisk(dk2))
      <4>1. \A s, u \in Slots : H2(o, s) # NoBlock /\ s # u => H2(o, u) # H2(o, s)
        <5> HIDE DEF H2, H
        <5> QED BY <3>1, <3>2
      <4> QED BY <4>1 DEF OnePlace, Holds
    <3>4. \A s \in Slots : H2(o, s) \in (bm \cup {b}) \cup {NoBlock}
      <4> HIDE DEF H2, H
      <4> QED BY <3>1, <3>2
    <3>5. ASSUME NEW other \in lv2, other # o, nodes2[other].type # "link",
                 NEW s \in Slots, NEW u \in Slots, H2(o, s) # NoBlock
          PROVE  H2(other, u) # H2(o, s)
      <4>1. CASE other = ni
        <5>1. H2(other, u) \in {b, NoBlock}
          <6> HIDE DEF H2, s0
          <6> QED BY <1>2, <4>1
        <5> HIDE DEF H2, H
        <5> QED BY <3>1, <3>5, <5>1
      <4>2. CASE other # ni
        <5>0. other \in lv /\ nodes[other].type # "link"
            BY <3>5, <4>2
        <5>1. H2(other, u) = H(other, u)
            BY <1>3, <5>0
        <5>2. H(o, s) # NoBlock => H(other, u) # H(o, s)
            BY <3>0, <3>5, <5>0 DEF FilesOwned
        <5> HIDE DEF H2, H
        <5> QED BY <3>1, <3>5, <5>1, <5>2
      <4> QED BY <4>1, <4>2
    <3> QED BY <3>3, <3>4, <3>5
  <2> QED BY <2>1, <2>2
<1>5. (bm \cup {b}) \cap (bm \cup {b}) = bm \cup {b}
    OBVIOUS
<1> QED BY <1>4, <1>5 DEF FilesOwned

(* What the call that makes a node gets from the bitmap. *)
LEMMA AllocateNew ==
    ASSUME NEW ino, NEW w, w = Allocate(Visit0(ino))
    PROVE  \/ w.err /\ w.map = bitmapData /\ w.saved = savedData
           \/ /\ ~w.err /\ w.new \in Blocks /\ w.new \notin bitmapData
              /\ w.map = bitmapData \cup {w.new} /\ w.saved = bitmapData \cup {w.new}
<1> DEFINE v == Visit0(ino)
<1>1. v.map = bitmapData /\ v.saved = savedData /\ ~v.done /\ ~v.err
    BY DEF Visit0
<1>2. CASE Blocks \subseteq bitmapData
  <2>1. w = [v EXCEPT !.done = TRUE, !.err = TRUE]
      BY <1>1, <1>2 DEF Allocate
  <2> QED BY <2>1 DEF Visit0
<1>3. CASE ~(Blocks \subseteq bitmapData)
  <2> DEFINE b == Search(Blocks \ bitmapData)
  <2>1. w = Take(v, b)
      BY <1>1, <1>3 DEF Allocate
  <2>2. b \in Blocks /\ b \notin bitmapData
    <3>1. Blocks \ bitmapData \subseteq Nat /\ Blocks \ bitmapData # {}
        BY <1>3 DEF Blocks
    <3>2. Min(Blocks \ bitmapData) \in Blocks \ bitmapData
        BY <3>1, LeastNatural
    <3> QED BY <3>2 DEF Search
  <2> HIDE DEF b
  <2> QED BY <2>1, <2>2 DEF Take, Visit0
<1> QED BY <1>2, <1>3

-----------------------------------------------------------------------------
(* The inductive invariant of the blocks.                                  *)

BlocksInv ==
    /\ StateTypes(inode, disk, bitmapData, savedData, count)
    /\ ~exposed => FilesOwned(inode, disk, Live, bitmapData, savedData)

(* The new inode has no name. *)
LEMMA NewInoNotLive ==
    ASSUME InodeInv, ~exposed, FreeInos # {}
    PROVE  NewIno \in Inos /\ NewIno \notin Live /\ Live \subseteq Inos
<1>1. NewIno \in Inos /\ NewIno \notin bitmapInode
    BY NewInoFree
<1>2. NewIno # NoIno
    BY <1>1 DEF Inos, NoIno
<1> QED BY <1>1, <1>2 DEF InodeInv, Live

(* A name that is given an inode makes this one live, and no other. *)
LEMMA NamedLive ==
    ASSUME InodeInv, NEW n \in Names, dir' = [dir EXCEPT ![n] = NewIno]
    PROVE  Live' \subseteq Live \cup {NewIno}
<1>1. DOMAIN dir = Names
    BY DEF InodeInv, InodeTypes
<1>2. \A m \in Names : dir'[m] = dir[m] \/ dir'[m] = NewIno
    BY <1>1
<1> QED BY <1>2 DEF Live

(* The number of a call. *)
LEMMA CallNumber ==
    ASSUME count \in [ops : Nat, crashes : Nat], Called
    PROVE  count' \in [ops : Nat, crashes : Nat] /\ count'.ops \in Nat
BY DEF Called

(* A file system with nothing in it. *)
LEMMA InitBlocksInv == Init => BlocksInv
<1> SUFFICES ASSUME Init PROVE BlocksInv
    OBVIOUS
<1>1. NoBlock \in Known /\ "none" \in Types
    BY DEF Known, Types
<1>2. Blank \in Nodes /\ Blank \in RawNodes
  <2>1. [i \in 0 .. Direct - 1 |-> NoBlock] \in [Directs -> Known]
        /\ [i \in 0 .. Direct - 1 |-> NoBlock] \in [Directs -> Known \cup {LinkText}]
      BY <1>1 DEF Directs
  <2> QED BY <1>1, <2>1 DEF Blank, Nodes, RawNodes
<1>3. Bytes(0) \in Contents
  <2>1. Zeros \in Tables
      BY DEF Zeros, Tables, Known, Entries
  <2> QED BY <2>1 DEF Bytes, Contents
<1>4. inode \in [Inos -> RawNodes] /\ \A ino \in Inos : inode[ino] \in Nodes
    BY <1>2 DEF Init
<1>5. disk \in Disks
    BY <1>3 DEF Init, Disks
<1>6. count \in [ops : Nat, crashes : Nat]
    BY DEF Init
<1>7. Live = {}
    BY DEF Init, Live, Inos, NoIno
<1> QED BY <1>4, <1>5, <1>6, <1>7 DEF BlocksInv, StateTypes, FilesOwned, Init

(* Create takes an inode and a block that no file has. *)
LEMMA CreateBlocksInv ==
    ASSUME InodeInv, BlocksInv, NEW n \in Names, Create(n)
    PROVE  BlocksInv'
<1>1. PICK v \in {Allocate(Visit0(NewIno))} :
        /\ bitmapData' = v.map /\ savedData' = v.saved
        /\ IF v.err THEN UNCHANGED <<inode, dir, written>>
           ELSE Named(n, [Blank EXCEPT !.type = "file", !.direct[0] = v.new])
    BY DEF Create
<1>2. Called /\ TakeInode /\ disk' = disk /\ exposed' = exposed /\ ~exposed /\ FreeInos # {}
    BY DEF Create, Called, TakeInode
<1>3. StateTypes(inode, disk, bitmapData, savedData, count)
      /\ FilesOwned(inode, disk, Live, bitmapData, savedData)
    BY <1>2 DEF BlocksInv
<1>4. count' \in [ops : Nat, crashes : Nat]
    BY <1>2, <1>3, CallNumber DEF StateTypes
<1>5. NewIno \in Inos /\ NewIno \notin Live /\ Live \subseteq Inos
    BY <1>2, NewInoNotLive
<1>6. CASE v.err
  <2>1. v.map = bitmapData /\ v.saved = savedData
      BY <1>1, <1>6, AllocateNew
  <2>2. /\ inode' = inode /\ disk' = disk /\ bitmapData' = bitmapData /\ savedData' = savedData
        /\ Live' = Live
      BY <1>1, <1>2, <1>6, <2>1 DEF Live
  <2> QED BY <1>3, <1>4, <2>2 DEF BlocksInv, StateTypes
<1>7. CASE ~v.err
  <2> DEFINE b == v.new
  <2>1. /\ b \in Blocks /\ b \notin bitmapData
        /\ v.map = bitmapData \cup {b} /\ v.saved = bitmapData \cup {b}
      BY <1>1, <1>7, AllocateNew
  <2>2. inode' = [inode EXCEPT ![NewIno] = OneBlock("file", b)]
        /\ dir' = [dir EXCEPT ![n] = NewIno]
      BY <1>1, <1>7 DEF Named, OneBlock
  <2>3. bitmapData' = bitmapData \cup {b} /\ savedData' = bitmapData \cup {b}
      BY <1>1, <2>1
  <2> HIDE DEF b
  <2>4. "file" \in Types /\ b \in Known
      BY <2>1 DEF Types, Known
  <2>5. OneBlock("file", b) \in RawNodes /\ OneBlock("file", b) \in Nodes
      BY <2>4, OneBlockParts
  <2>6. /\ inode \in [Inos -> RawNodes] /\ disk \in Disks /\ bitmapData \subseteq Blocks
        /\ \A o \in Inos : inode[o].type # "link" => inode[o] \in Nodes
      BY <1>3 DEF StateTypes
  <2>7. /\ inode' \in [Inos -> RawNodes] /\ inode'[NewIno] = OneBlock("file", b)
        /\ \A o \in Inos : o # NewIno => inode'[o] = inode[o]
      BY <1>5, <2>2, <2>5, <2>6
  <2>8. StateTypes(inode', disk', bitmapData', savedData', count')
    <3>1. \A o \in Inos : inode'[o].type # "link" => inode'[o] \in Nodes
        BY <2>5, <2>6, <2>7
    <3>2. bitmapData' \subseteq Blocks /\ savedData' \subseteq Blocks
        BY <2>1, <2>3, <2>6
    <3> QED BY <1>2, <1>4, <2>6, <2>7, <3>1, <3>2 DEF StateTypes
  <2>9. Live' \subseteq Live \cup {NewIno}
      BY <2>2, NamedLive
  <2>10. \A o \in Live : inode'[o] = inode[o]
      BY <1>5, <2>7
  <2>11. FilesOwned(inode', disk, Live', bitmapData \cup {b}, bitmapData \cup {b})
      BY <1>3, <1>5, <2>1, <2>4, <2>6, <2>7, <2>9, <2>10, NewOwned
  <2> QED BY <1>2, <2>3, <2>8, <2>11 DEF BlocksInv
<1> QED BY <1>6, <1>7

(* Mkdir takes a new block, or reuses one that is not marked. *)
LEMMA MkdirBlocksInv ==
    ASSUME InodeInv, BlocksInv, NEW n \in Names, Mkdir(n)
    PROVE  BlocksInv'
<1> DEFINE old == inode[NewIno].direct[0]
<1>1. PICK v \in {IF old = NoBlock THEN Allocate(Visit0(NewIno))
                  ELSE [Visit0(NewIno) EXCEPT !.new = old]} :
        /\ bitmapData' = v.map /\ savedData' = v.saved
        /\ IF v.err \/ old = LinkText
           THEN UNCHANGED <<inode, disk, dir, written, exposed>>
           ELSE /\ disk' = [disk EXCEPT ![v.new] = Bytes(0)]
                /\ Named(n, [Blank EXCEPT !.type = "dir", !.direct[0] = v.new])
                /\ exposed' = (old # NoBlock)
    BY DEF Mkdir
<1>2. Called /\ TakeInode /\ ~exposed /\ FreeInos # {}
    BY DEF Mkdir, Called, TakeInode
<1>3. StateTypes(inode, disk, bitmapData, savedData, count)
      /\ FilesOwned(inode, disk, Live, bitmapData, savedData)
    BY <1>2 DEF BlocksInv
<1>4. count' \in [ops : Nat, crashes : Nat]
    BY <1>2, <1>3, CallNumber DEF StateTypes
<1>5. NewIno \in Inos /\ NewIno \notin Live /\ Live \subseteq Inos
    BY <1>2, NewInoNotLive
<1>6. /\ inode \in [Inos -> RawNodes] /\ disk \in Disks /\ bitmapData \subseteq Blocks
      /\ savedData \subseteq Blocks
      /\ \A o \in Inos : inode[o].type # "link" => inode[o] \in Nodes
    BY <1>3 DEF StateTypes
<1>7. old \in Known \cup {LinkText} /\ LinkText # NoBlock /\ LinkText \notin Known
  <2>1. 0 \in Directs
      BY ExtAssumption DEF Directs
  <2>2. inode[NewIno].direct \in [Directs -> Known \cup {LinkText}]
      BY <1>5, <1>6 DEF RawNodes
  <2>3. LinkText # NoBlock /\ LinkText \notin Known
      BY ExtAssumption DEF LinkText, NoBlock, Known, Blocks
  <2> QED BY <2>1, <2>2, <2>3
<1>8. \/ /\ old = NoBlock /\ v.err /\ v.map = bitmapData /\ v.saved = savedData
      \/ /\ old = NoBlock /\ ~v.err /\ v.new \in Blocks /\ v.new \notin bitmapData
         /\ v.map = bitmapData \cup {v.new} /\ v.saved = bitmapData \cup {v.new}
      \/ /\ old # NoBlock /\ ~v.err /\ v.new = old /\ v.map = bitmapData /\ v.saved = savedData
  <2>1. CASE old = NoBlock
    <3>1. v = Allocate(Visit0(NewIno))
        BY <1>1, <2>1
    <3> QED BY <2>1, <3>1, AllocateNew
  <2>2. CASE old # NoBlock
    <3>1. v = [Visit0(NewIno) EXCEPT !.new = old]
        BY <1>1, <2>2
    <3> HIDE DEF old
    <3>2. v.new = old /\ v.map = bitmapData /\ v.saved = savedData /\ ~v.err
        BY <3>1 DEF Visit0
    <3> QED BY <2>2, <3>2
  <2> QED BY <2>1, <2>2
<1> HIDE DEF old
<1>9. CASE v.err \/ old = LinkText
  <2>1. v.map = bitmapData /\ v.saved = savedData
      BY <1>7, <1>8, <1>9
  <2>2. /\ inode' = inode /\ disk' = disk /\ bitmapData' = bitmapData /\ savedData' = savedData
        /\ Live' = Live /\ exposed' = exposed
      BY <1>1, <1>9, <2>1 DEF Live
  <2> QED BY <1>3, <1>4, <2>2 DEF BlocksInv, StateTypes
<1>10. CASE ~(v.err \/ old = LinkText)
  <2> DEFINE b == v.new
  <2>1. b \in Blocks
      BY <1>7, <1>8, <1>10 DEF Known
  <2>2. /\ inode' = [inode EXCEPT ![NewIno] = OneBlock("dir", b)]
        /\ dir' = [dir EXCEPT ![n] = NewIno] /\ disk' = [disk EXCEPT ![b] = Bytes(0)]
        /\ exposed' = (old # NoBlock)
      BY <1>1, <1>10 DEF Named, OneBlock
  <2>3. bitmapData' = v.map /\ savedData' = v.saved
      BY <1>1
  <2>a. \/ old # NoBlock /\ v.map = bitmapData /\ v.saved = savedData
        \/ /\ old = NoBlock /\ b \notin bitmapData
           /\ v.map = bitmapData \cup {b} /\ v.saved = bitmapData \cup {b}
      BY <1>8, <1>10
  <2> HIDE DEF b
  <2>4. "dir" \in Types /\ b \in Known
      BY <2>1 DEF Types, Known
  <2>5. OneBlock("dir", b) \in RawNodes /\ OneBlock("dir", b) \in Nodes
      BY <2>4, OneBlockParts
  <2>6. Bytes(0) \in Contents
    <3>1. Zeros \in Tables
        BY DEF Zeros, Tables, Known, Entries
    <3> QED BY <3>1 DEF Bytes, Contents
  <2>7. /\ inode' \in [Inos -> RawNodes] /\ inode'[NewIno] = OneBlock("dir", b)
        /\ \A o \in Inos : o # NewIno => inode'[o] = inode[o]
      BY <1>5, <1>6, <2>2, <2>5
  <2>8. disk' \in Disks /\ \A x \in Blocks : x # b => disk'[x].table = disk[x].table
      BY <1>6, <2>1, <2>2, <2>6 DEF Disks
  <2>9. StateTypes(inode', disk', bitmapData', savedData', count')
    <3>1. \A o \in Inos : inode'[o].type # "link" => inode'[o] \in Nodes
        BY <1>6, <2>5, <2>7
    <3>2. bitmapData' \subseteq Blocks /\ savedData' \subseteq Blocks
        BY <1>6, <2>1, <2>3, <2>a
    <3> QED BY <1>4, <2>7, <2>8, <3>1, <3>2 DEF StateTypes
  <2>10. ASSUME ~exposed'
         PROVE  FilesOwned(inode', disk', Live', bitmapData', savedData')
    <3>1. /\ b \notin bitmapData
          /\ bitmapData' = bitmapData \cup {b} /\ savedData' = bitmapData \cup {b}
        BY <2>2, <2>3, <2>a, <2>10
    <3>2. Live' \subseteq Live \cup {NewIno}
        BY <2>2, NamedLive
    <3>3. \A o \in Live : inode'[o] = inode[o]
        BY <1>5, <2>7
    <3>4. FilesOwned(inode', disk', Live', bitmapData \cup {b}, bitmapData \cup {b})
        BY <1>3, <1>5, <1>6, <2>1, <2>4, <2>7, <2>8, <3>1, <3>2, <3>3, NewOwned
    <3> QED BY <3>1, <3>4
  <2> QED BY <2>9, <2>10 DEF BlocksInv
<1> QED BY <1>9, <1>10

(* A link has no blocks. *)
LEMMA SymlinkBlocksInv ==
    ASSUME InodeInv, BlocksInv, NEW n \in Names, Symlink(n)
    PROVE  BlocksInv'
<1>1. /\ Called /\ TakeInode /\ disk' = disk /\ exposed' = exposed /\ ~exposed /\ FreeInos # {}
      /\ bitmapData' = bitmapData /\ savedData' = savedData
    BY DEF Symlink, Called, TakeInode
<1>2. /\ inode' = [inode EXCEPT ![NewIno] = OneBlock("link", LinkText)]
      /\ dir' = [dir EXCEPT ![n] = NewIno]
    BY DEF Symlink, Named, OneBlock
<1>3. StateTypes(inode, disk, bitmapData, savedData, count)
      /\ FilesOwned(inode, disk, Live, bitmapData, savedData)
    BY <1>1 DEF BlocksInv
<1>4. count' \in [ops : Nat, crashes : Nat]
    BY <1>1, <1>3, CallNumber DEF StateTypes
<1>5. NewIno \in Inos /\ NewIno \notin Live /\ Live \subseteq Inos
    BY <1>1, NewInoNotLive
<1>6. OneBlock("link", LinkText) \in RawNodes /\ OneBlock("link", LinkText).type = "link"
    BY OneBlockParts DEF Types
<1>7. /\ inode' \in [Inos -> RawNodes] /\ inode'[NewIno].type = "link"
      /\ \A o \in Inos : o # NewIno => inode'[o] = inode[o]
    BY <1>2, <1>3, <1>5, <1>6 DEF StateTypes
<1>8. StateTypes(inode', disk', bitmapData', savedData', count')
  <2>1. \A o \in Inos : inode'[o].type # "link" => inode'[o] \in Nodes
      BY <1>3, <1>7 DEF StateTypes
  <2> QED BY <1>1, <1>3, <1>4, <1>7, <2>1 DEF StateTypes
<1>9. Live' \subseteq Live \cup {NewIno}
    BY <1>2, NamedLive
<1>10. ASSUME NEW o \in Live', inode'[o].type # "link" PROVE o \in Live /\ inode'[o] = inode[o]
    BY <1>5, <1>7, <1>9, <1>10
<1>11. FilesOwned(inode', disk, Live', bitmapData, savedData)
    BY <1>3, <1>10 DEF FilesOwned, Holds
<1> QED BY <1>1, <1>8, <1>11 DEF BlocksInv

(* The inode of a name is live. *)
LEMMA NameLive ==
    ASSUME InodeInv, NEW n \in Names, dir[n] # NoIno
    PROVE  dir[n] \in Inos /\ dir[n] \in Live /\ Live \subseteq Inos
BY DEF InodeInv, InodeTypes, Live

(* The types after a walk. *)
LEMMA WalkedTypes ==
    ASSUME NEW nodes \in [Inos -> RawNodes],
           \A o \in Inos : nodes[o].type # "link" => nodes[o] \in Nodes,
           NEW ino \in Inos, NEW nd \in Nodes, NEW nodes2, nodes2 = [nodes EXCEPT ![ino] = nd]
    PROVE  /\ nodes2 \in [Inos -> RawNodes] /\ nodes2[ino] = nd
           /\ \A o \in Inos : nodes2[o].type # "link" => nodes2[o] \in Nodes
           /\ \A o \in Inos : o # ino => nodes2[o] = nodes[o]
<1>1. nd \in RawNodes
    BY DEF Nodes, RawNodes
<1> QED BY <1>1

(* A removal that got through gives back the blocks of one file; one that  *)
(* did not leaves the file.  A rename that got through exposes it.         *)
LEMMA UnlinkedBlocksInv ==
    ASSUME InodeInv, BlocksInv, ~exposed, Called, NEW n \in Names, dir[n] # NoIno,
           NEW v, v = RemoveVisit(dir[n]), Unlinked(v, dir[n]),
           v.err => dir' = dir,
           ~v.err /\ ~exposed' => \A m \in Names : dir'[m] \in {NoIno, dir[m]} /\ dir'[m] # dir[n]
    PROVE  BlocksInv'
<1> DEFINE ino == dir[n]
           F == OtherBlocks(inode, disk, Live, ino)
<1>1. StateTypes(inode, disk, bitmapData, savedData, count)
      /\ FilesOwned(inode, disk, Live, bitmapData, savedData)
    BY DEF BlocksInv
<1>2. count' \in [ops : Nat, crashes : Nat]
    BY <1>1, CallNumber DEF StateTypes
<1>3. ino \in Inos /\ ino \in Live /\ Live \subseteq Inos
    BY NameLive
<1>4. /\ inode \in [Inos -> RawNodes] /\ disk \in Disks
      /\ bitmapData \subseteq Blocks /\ savedData \subseteq Blocks
      /\ \A o \in Inos : inode[o].type # "link" => inode[o] \in Nodes
    BY <1>1 DEF StateTypes
<1>5. /\ bitmapData' = IF v.err THEN v.map ELSE v.map \ Got(v)
      /\ savedData' = v.saved /\ inode' = [inode EXCEPT ![ino] = v.kept] /\ disk' = v.disk
    BY DEF Unlinked, Remaining
<1>6. Live' \subseteq Live \/ exposed'
  <2>1. CASE v.err
      BY <2>1 DEF Live
  <2>2. CASE ~v.err /\ ~exposed'
    <3>1. \A m \in Names : dir'[m] \in {NoIno, dir[m]}
        BY <2>2
    <3>2. \A o \in Inos : o # NoIno
        BY DEF Inos, NoIno
    <3> QED BY <3>1, <3>2 DEF Live
  <2> QED BY <2>1, <2>2
<1>7. ~v.err /\ ~exposed' => ino \notin Live'
    BY DEF Live
<1> HIDE DEF ino
<1>8. CASE inode[ino].type = "link"
  <2>1. v = Visit0(ino)
      BY <1>8 DEF RemoveVisit, ino
  <2>2. /\ v.map = bitmapData /\ v.saved = savedData /\ v.kept = inode[ino] /\ v.disk = disk
        /\ v.got = <<>>
      BY <2>1 DEF Visit0
  <2>3. Got(v) = {}
      BY <2>2 DEF Got
  <2>4. inode' = inode /\ disk' = disk /\ bitmapData' = bitmapData /\ savedData' = savedData
    <3>1. [inode EXCEPT ![ino] = inode[ino]] = inode
        BY <1>3, <1>4
    <3> QED BY <1>5, <2>2, <2>3, <3>1
  <2>5. StateTypes(inode', disk', bitmapData', savedData', count')
      BY <1>1, <1>2, <2>4 DEF StateTypes
  <2>6. ~exposed' => FilesOwned(inode', disk', Live', bitmapData', savedData')
    <3>1. ASSUME ~exposed'
          PROVE  FilesOwned(inode, disk, Live', bitmapData, savedData)
        BY <1>1, <1>6, <3>1, OwnedMonotone
    <3> QED BY <2>4, <3>1
  <2> QED BY <2>5, <2>6 DEF BlocksInv
<1>9. CASE inode[ino].type # "link"
  <2>1. v = Visit(ino, 0, Th2, "free")
      BY <1>9 DEF RemoveVisit, ino
  <2>2. WalkInv(Visit0(ino), F, disk)
      BY <1>1, <1>3, <1>9, StartInv
  <2>3. 0 \in 0 .. Th2
    <3>1. Direct \in Nat /\ Layer \in Nat
        BY ExtAssumption
    <3>2. Layer * Layer \in Nat
        BY <3>1
    <3> QED BY <3>1, <3>2 DEF Th2
  <2> HIDE DEF F
  <2>4. WalkInv(v, F, disk)
      BY <2>1, <2>2, <2>3, VisitInv
  <2>5. v \in Visits /\ v.kept \in Nodes /\ v.disk \in Disks /\ v.map \subseteq Blocks
        /\ v.saved \subseteq Blocks
      BY <2>4, VisitParts DEF WalkInv
  <2>6. /\ inode' \in [Inos -> RawNodes] /\ inode'[ino] = v.kept
        /\ \A o \in Inos : inode'[o].type # "link" => inode'[o] \in Nodes
        /\ \A o \in Inos : o # ino => inode'[o] = inode[o]
      BY <1>3, <1>4, <1>5, <2>5, WalkedTypes
  <2>7. StateTypes(inode', disk', bitmapData', savedData', count')
      BY <1>2, <1>5, <2>5, <2>6 DEF StateTypes
  <2>8. ASSUME ~exposed' PROVE FilesOwned(inode', disk', Live', bitmapData', savedData')
    <3>1. Got(v) \subseteq v.map \ F /\ F \subseteq v.map \cap v.saved
        BY <2>4, GotBlocks DEF WalkInv, OthersKept
    <3>2. F \subseteq bitmapData' \cap savedData'
        BY <1>5, <3>1
    <3>3. ino \in Live' => v.map \cap v.saved \subseteq bitmapData' \cap savedData'
        BY <1>5, <1>7, <2>8
    <3>4. \A o \in Live : o # ino => inode'[o] = inode[o]
        BY <1>3, <2>6
    <3>5. disk' \in Disks /\ \A b \in Blocks : b \notin Got(v) => disk'[b].table = v.disk[b].table
        BY <1>5, <2>5
    <3>6. Live' \subseteq Live
        BY <1>6, <2>8
    <3> QED BY <1>1, <1>3, <1>4, <2>4, <2>6, <3>2, <3>3, <3>4, <3>5, <3>6, WalkedOwned DEF F
  <2> QED BY <2>7, <2>8 DEF BlocksInv
<1> QED BY <1>8, <1>9

(* Unlink removes every name of the inode. *)
LEMMA UnlinkBlocksInv ==
    ASSUME InodeInv, BlocksInv, NEW n \in Names, Unlink(n)
    PROVE  BlocksInv'
<1>1. PICK v \in {RemoveVisit(dir[n])} :
        /\ Unlinked(v, dir[n])
        /\ dir' = IF v.err THEN dir
                  ELSE [m \in Names |-> IF dir[m] = dir[n] THEN NoIno ELSE dir[m]]
    BY DEF Unlink
<1>2. Called /\ ~exposed /\ dir[n] # NoIno /\ v = RemoveVisit(dir[n])
    BY <1>1 DEF Unlink, Called
<1>3. v.err => dir' = dir
    BY <1>1
<1>4. ~v.err => \A m \in Names : dir'[m] \in {NoIno, dir[m]} /\ dir'[m] # dir[n]
    BY <1>1, <1>2
<1> QED BY <1>1, <1>2, <1>3, <1>4, UnlinkedBlocksInv

(* Rename leaves the file exposed, or nothing changed. *)
LEMMA RenameBlocksInv ==
    ASSUME InodeInv, BlocksInv, NEW n \in Names, NEW m \in Names, Rename(n, m)
    PROVE  BlocksInv'
<1>1. PICK v \in {RemoveVisit(dir[n])} :
        /\ Unlinked(v, dir[n])
        /\ dir' = IF v.err THEN dir ELSE [dir EXCEPT ![n] = NoIno, ![m] = dir[n]]
        /\ exposed' = ~v.err
    BY DEF Rename
<1>2. Called /\ ~exposed /\ dir[n] # NoIno /\ v = RemoveVisit(dir[n])
    BY <1>1 DEF Rename, Called
<1>3. v.err => dir' = dir
    BY <1>1
<1>4. v.err \/ exposed'
    BY <1>1
<1> QED BY <1>1, <1>2, <1>3, <1>4, UnlinkedBlocksInv

(* A walk of a live file, when the blocks met may have been overwritten. *)
LEMMA WalkedBlocksInv ==
    ASSUME InodeInv, BlocksInv, ~exposed, Called, NEW ino \in Inos, OpenFile(ino),
           NEW first \in Indexes, NEW last, NEW kind, NEW v, v = Visit(ino, first, last, kind),
           Walked(v, ino), v.disk \in Disks => disk' \in Disks,
           \A b \in Blocks : b \notin Got(v) => disk'[b] = v.disk[b]
    PROVE  BlocksInv'
<1> DEFINE F == OtherBlocks(inode, disk, Live, ino)
<1>1. StateTypes(inode, disk, bitmapData, savedData, count)
      /\ FilesOwned(inode, disk, Live, bitmapData, savedData)
    BY DEF BlocksInv
<1>2. count' \in [ops : Nat, crashes : Nat]
    BY <1>1, CallNumber DEF StateTypes
<1>3. ino \in Live /\ Live \subseteq Inos /\ inode[ino].type # "link"
    BY DEF Live, OpenFile
<1>4. /\ inode \in [Inos -> RawNodes] /\ disk \in Disks
      /\ \A o \in Inos : inode[o].type # "link" => inode[o] \in Nodes
    BY <1>1 DEF StateTypes
<1>5. /\ bitmapData' = v.map /\ savedData' = v.saved /\ inode' = [inode EXCEPT ![ino] = v.kept]
      /\ Live' = Live
    BY DEF Walked, Live
<1>6. WalkInv(Visit0(ino), F, disk)
    BY <1>1, <1>3, StartInv
<1>7. first \in 0 .. Th2
  <2>1. Direct \in Nat /\ Layer \in Nat
      BY ExtAssumption
  <2>2. Layer * Layer \in Nat
      BY <2>1
  <2>3. Th2 \in Nat
      BY <2>1, <2>2 DEF Th2
  <2> QED BY <2>3 DEF Indexes
<1> HIDE DEF F
<1>8. WalkInv(v, F, disk)
    BY <1>6, <1>7, VisitInv
<1>9. v \in Visits /\ v.kept \in Nodes /\ v.disk \in Disks /\ v.map \subseteq Blocks
      /\ v.saved \subseteq Blocks /\ disk' \in Disks
    BY <1>8, VisitParts DEF WalkInv
<1>10. /\ inode' \in [Inos -> RawNodes] /\ inode'[ino] = v.kept
       /\ \A o \in Inos : inode'[o].type # "link" => inode'[o] \in Nodes
       /\ \A o \in Inos : o # ino => inode'[o] = inode[o]
    BY <1>4, <1>5, <1>9, WalkedTypes
<1>11. StateTypes(inode', disk', bitmapData', savedData', count')
    BY <1>2, <1>5, <1>9, <1>10 DEF StateTypes
<1>12. F \subseteq bitmapData' \cap savedData'
    BY <1>5, <1>8 DEF WalkInv, OthersKept
<1>13. \A o \in Live : o # ino => inode'[o] = inode[o]
    BY <1>3, <1>10
<1>14. \A b \in Blocks : b \notin Got(v) => disk'[b].table = v.disk[b].table
    OBVIOUS
<1>15. Live' \subseteq Live /\ v.map \cap v.saved \subseteq bitmapData' \cap savedData'
    BY <1>5
<1>16. FilesOwned(inode', disk', Live', bitmapData', savedData')
    BY <1>1, <1>3, <1>4, <1>8, <1>9, <1>10, <1>12, <1>13, <1>14, <1>15, WalkedOwned DEF F
<1> QED BY <1>11, <1>16 DEF BlocksInv

(* Every step keeps the blocks owned. *)
LEMMA NextBlocksInv == InodeInv /\ BlocksInv /\ [Next]_vars => BlocksInv'
<1> SUFFICES ASSUME InodeInv, BlocksInv, [Next]_vars PROVE BlocksInv'
    OBVIOUS
<1>1. ASSUME NEW ino \in Inos, NEW i \in Indexes, NEW j \in Indexes, Write(ino, i, j)
      PROVE  BlocksInv'
  <2>1. PICK v \in {Visit(ino, i, j, "write")} :
          /\ Walked(v, ino)
          /\ disk' = IF v.err THEN v.disk ELSE WriteData(v, count'.ops)
      BY <1>1 DEF Write
  <2>2. Called /\ ~exposed /\ OpenFile(ino) /\ v = Visit(ino, i, j, "write")
      BY <1>1 DEF Write, Called
  <2>3. count'.ops \in Nat
      BY <2>2, CallNumber DEF BlocksInv, StateTypes
  <2>4. Bytes(count'.ops) \in Contents
    <3>1. Zeros \in Tables
        BY DEF Zeros, Tables, Known, Entries
    <3> QED BY <2>3, <3>1 DEF Bytes, Contents
  <2>5. v.disk \in Disks => disk' \in Disks
      BY <2>1, <2>4 DEF Disks, WriteData
  <2>6. \A b \in Blocks : b \notin Got(v) => disk'[b] = v.disk[b]
      BY <2>1 DEF WriteData
  <2> QED BY <2>1, <2>2, <2>5, <2>6, WalkedBlocksInv
<1>2. ASSUME NEW ino \in Inos, NEW i \in Indexes, NEW j \in Indexes, Read(ino, i, j)
      PROVE  BlocksInv'
  <2>1. PICK v \in {Visit(ino, i, j, "read")} : Walked(v, ino) /\ disk' = v.disk
      BY <1>2 DEF Read
  <2>2. Called /\ ~exposed /\ OpenFile(ino) /\ v = Visit(ino, i, j, "read")
      BY <1>2 DEF Read, Called
  <2> QED BY <2>1, <2>2, WalkedBlocksInv
<1>3. CASE Remount
  <2>1. /\ savedData' = bitmapData /\ bitmapData' = bitmapData /\ inode' = inode /\ disk' = disk
        /\ count' = count /\ exposed' = exposed /\ Live' = Live
      BY <1>3 DEF Remount, Live
  <2>2. ~exposed => FilesOwned(inode, disk, Live, bitmapData, bitmapData)
      BY OwnedMonotone DEF BlocksInv
  <2> QED BY <2>1, <2>2 DEF BlocksInv, StateTypes
<1>4. CASE Crash
  <2>1. /\ savedData' = savedData /\ bitmapData' = savedData /\ inode' = inode /\ disk' = disk
        /\ exposed' = exposed /\ Live' = Live
        /\ count' = [count EXCEPT !.crashes = @ + 1]
      BY <1>4 DEF Crash, Live
  <2>2. ~exposed => FilesOwned(inode, disk, Live, savedData, savedData)
      BY OwnedMonotone DEF BlocksInv
  <2>3. count' \in [ops : Nat, crashes : Nat]
      BY <2>1 DEF BlocksInv, StateTypes
  <2> QED BY <2>1, <2>2, <2>3 DEF BlocksInv, StateTypes
<1>5. CASE UNCHANGED vars
    BY <1>5 DEF vars, BlocksInv, StateTypes, Live
<1> QED BY <1>1, <1>2, <1>3, <1>4, <1>5, CreateBlocksInv, MkdirBlocksInv, SymlinkBlocksInv,
       UnlinkBlocksInv, RenameBlocksInv DEF Next

-----------------------------------------------------------------------------
(* What the invariant gives.                                               *)

(* The types of the inodes, the blocks and the bitmaps. *)
LEMMA InvGivesTypes == InodeInv /\ BlocksInv => TypeOK
<1> SUFFICES ASSUME InodeInv, BlocksInv PROVE TypeOK
    OBVIOUS
<1>1. ASSUME NEW ino \in Inos
      PROVE  /\ inode[ino].type \in Types
             /\ inode[ino].type # "link" => inode[ino].direct \in [Directs -> Known]
             /\ inode[ino].l1 \in Known /\ inode[ino].l2 \in Known
  <2>1. inode[ino] \in RawNodes
      BY DEF BlocksInv, StateTypes
  <2>2. inode[ino].type # "link" => inode[ino] \in Nodes
      BY DEF BlocksInv, StateTypes
  <2> QED BY <2>1, <2>2 DEF RawNodes, Nodes
<1>2. ASSUME NEW b \in Blocks PROVE disk[b].table \in [Entries -> Known]
    BY DEF BlocksInv, StateTypes, Disks, Contents, Tables
<1>3. bitmapData \subseteq Blocks /\ savedData \subseteq Blocks
    BY DEF BlocksInv, StateTypes
<1> QED BY <1>1, <1>2, <1>3 DEF TypeOK, InodeInv, InodeTypes, Types, Entries, Directs

\* The place that BlocksOwned gives to the block at a slot.
PlaceOf(ino, s) ==
    IF s[1] = "d" THEN <<ino, "d", s[2], Holds(inode, disk, ino, s)>>
    ELSE IF IsIndex(s)
    THEN <<ino, "b", Holds(inode, disk, ino, s), Holds(inode, disk, ino, s)>>
    ELSE IF s[1] = "e1"
    THEN <<ino, "1", <<inode[ino].l1, s[2]>>, Holds(inode, disk, ino, s)>>
    ELSE <<ino, "3", <<Holds(inode, disk, ino, <<"o", s[2], 0>>), s[3]>>,
           Holds(inode, disk, ino, s)>>

(* The places of the direct blocks. *)
LEMMA DirectPlaceSlot ==
    ASSUME NEW ino, NEW p \in DirectPlaces(ino)
    PROVE  \E s \in Slots : p = PlaceOf(ino, s) /\ p[4] = Holds(inode, disk, ino, s)
<1>1. PICK i \in Directs : p = <<ino, "d", i, inode[ino].direct[i]>>
    BY DEF DirectPlaces, Directs
<1>2. <<"d", i, 0>> \in Slots
    BY DEF Slots
<1>3. Holds(inode, disk, ino, <<"d", i, 0>>) = inode[ino].direct[i]
    BY DEF Holds, At
<1>4. PlaceOf(ino, <<"d", i, 0>>) = p
    BY <1>1, <1>3 DEF PlaceOf
<1> QED BY <1>1, <1>2, <1>3, <1>4

\* A place is that of the index block b, or of an entry of it.
IsTablePlace(ino, kind, b, p) ==
    \/ p = <<ino, "b", b, b>>
    \/ b # NoBlock /\ \E i \in Entries : p = <<ino, kind, <<b, i>>, disk[b].table[i]>>

(* The places of an index block and of its entries. *)
LEMMA TablePlace ==
    ASSUME NEW ino, NEW kind, NEW b, NEW p \in TablePlaces(ino, kind, b)
    PROVE  IsTablePlace(ino, kind, b, p)
BY DEF TablePlaces, Entries, IsTablePlace

(* A place in the first layer. *)
LEMMA Layer1PlaceSlot ==
    ASSUME BlocksInv, NEW ino \in Inos, NEW p \in TablePlaces(ino, "1", inode[ino].l1)
    PROVE  \E s \in Slots : p = PlaceOf(ino, s) /\ p[4] = Holds(inode, disk, ino, s)
<1> DEFINE b == inode[ino].l1
<1>1. b \in Known
    BY DEF BlocksInv, StateTypes, RawNodes
<1>2. CASE p = <<ino, "b", b, b>>
  <2>1. <<"l1", 0, 0>> \in Slots
      BY DEF Slots
  <2>2. Holds(inode, disk, ino, <<"l1", 0, 0>>) = b
      BY DEF Holds, At
  <2>3. PlaceOf(ino, <<"l1", 0, 0>>) = p
      BY <1>2, <2>2 DEF PlaceOf, IsIndex
  <2> QED BY <1>2, <2>1, <2>2, <2>3
<1>3. ASSUME b # NoBlock, NEW i \in Entries, p = <<ino, "1", <<b, i>>, disk[b].table[i]>>
      PROVE  \E s \in Slots : p = PlaceOf(ino, s) /\ p[4] = Holds(inode, disk, ino, s)
  <2>1. <<"e1", i, 0>> \in Slots
      BY DEF Slots
  <2>2. Holds(inode, disk, ino, <<"e1", i, 0>>) = disk[b].table[i]
      BY <1>1, <1>3 DEF Holds, At, Entry, OnDisk, Known
  <2>3. PlaceOf(ino, <<"e1", i, 0>>) = p
      BY <1>3, <2>2 DEF PlaceOf, IsIndex
  <2> QED BY <1>3, <2>1, <2>2, <2>3
<1>4. IsTablePlace(ino, "1", b, p)
    BY TablePlace
<1> HIDE DEF b
<1> QED BY <1>2, <1>3, <1>4 DEF IsTablePlace

(* A place in the second layer, below its own index block. *)
LEMMA Layer2PlaceSlot ==
    ASSUME BlocksInv, NEW ino \in Inos, inode[ino].l2 # NoBlock, NEW i \in Entries,
           NEW p \in TablePlaces(ino, "3", disk[inode[ino].l2].table[i])
    PROVE  \E s \in Slots : p = PlaceOf(ino, s) /\ p[4] = Holds(inode, disk, ino, s)
<1> DEFINE b == disk[inode[ino].l2].table[i]
<1>1. inode[ino].l2 \in Blocks
    BY DEF BlocksInv, StateTypes, RawNodes, Known
<1>2. b \in Known
    BY <1>1 DEF BlocksInv, StateTypes, Disks, Contents, Tables
<1>3. <<"o", i, 0>> \in Slots
    BY DEF Slots
<1>4. Holds(inode, disk, ino, <<"o", i, 0>>) = b
    BY <1>1 DEF Holds, At, Entry, OnDisk
<1>5. CASE p = <<ino, "b", b, b>>
  <2>1. PlaceOf(ino, <<"o", i, 0>>) = p
      BY <1>4, <1>5 DEF PlaceOf, IsIndex
  <2>2. p[4] = b
      BY <1>5
  <2> HIDE DEF b
  <2> QED BY <1>3, <1>4, <2>1, <2>2
<1>6. ASSUME b # NoBlock, NEW j \in Entries, p = <<ino, "3", <<b, j>>, disk[b].table[j]>>
      PROVE  \E s \in Slots : p = PlaceOf(ino, s) /\ p[4] = Holds(inode, disk, ino, s)
  <2>1. <<"e2", i, j>> \in Slots
      BY DEF Slots
  <2>2. Holds(inode, disk, ino, <<"e2", i, j>>) = disk[b].table[j]
      BY <1>1, <1>2, <1>6 DEF Holds, At, Entry, OnDisk, Known
  <2>3. PlaceOf(ino, <<"e2", i, j>>) = p
      BY <1>4, <1>6, <2>2 DEF PlaceOf, IsIndex
  <2>4. p[4] = disk[b].table[j]
      BY <1>6
  <2> HIDE DEF b
  <2> QED BY <2>1, <2>2, <2>3, <2>4
<1>7. IsTablePlace(ino, "3", b, p)
    BY TablePlace
<1> HIDE DEF b
<1> QED BY <1>5, <1>6, <1>7 DEF IsTablePlace

(* Every place of a file is the place of a slot. *)
LEMMA PlaceSlot ==
    ASSUME BlocksInv, NEW ino \in Inos, NEW p \in Places(ino)
    PROVE  /\ inode[ino].type # "link"
           /\ \E s \in Slots : p = PlaceOf(ino, s) /\ p[4] = Holds(inode, disk, ino, s)
<1>1. p \in AllPlaces(ino) /\ inode[ino].type # "link"
    BY DEF Places, AllPlaces
<1>2. CASE p \in DirectPlaces(ino)
    BY <1>1, <1>2, DirectPlaceSlot
<1>3. CASE p \in TablePlaces(ino, "1", inode[ino].l1)
    BY <1>1, <1>3, Layer1PlaceSlot
<1>4. CASE p \in TablePlaces(ino, "2", inode[ino].l2) /\ p[2] = "b"
  <2>1. p = <<ino, "b", inode[ino].l2, inode[ino].l2>>
    <3>1. IsTablePlace(ino, "2", inode[ino].l2, p)
        BY <1>4, TablePlace
    <3> QED BY <1>4, <3>1 DEF IsTablePlace
  <2>2. <<"l2", 0, 0>> \in Slots
      BY DEF Slots
  <2>3. Holds(inode, disk, ino, <<"l2", 0, 0>>) = inode[ino].l2
      BY DEF Holds, At
  <2>4. PlaceOf(ino, <<"l2", 0, 0>>) = p
      BY <2>1, <2>3 DEF PlaceOf, IsIndex
  <2> QED BY <1>1, <2>1, <2>2, <2>3, <2>4
<1>5. ASSUME inode[ino].l2 # NoBlock, NEW i \in Entries,
             p \in TablePlaces(ino, "3", disk[inode[ino].l2].table[i])
      PROVE  \E s \in Slots : p = PlaceOf(ino, s) /\ p[4] = Holds(inode, disk, ino, s)
    BY <1>5, Layer2PlaceSlot
<1>6. \/ p \in DirectPlaces(ino)
      \/ p \in TablePlaces(ino, "1", inode[ino].l1)
      \/ p \in TablePlaces(ino, "2", inode[ino].l2) /\ p[2] = "b"
      \/ inode[ino].l2 # NoBlock /\ \E i \in Entries :
           p \in TablePlaces(ino, "3", disk[inode[ino].l2].table[i])
    BY <1>1, Zenon DEF AllPlaces, Entries
<1> QED BY <1>1, <1>2, <1>3, <1>4, <1>5, <1>6

(* The invariant says more than the property: two places with one block    *)
(* are those of one slot of one file.                                      *)
LEMMA InvGivesBlocksOwned == BlocksInv => BlocksOwned
<1> SUFFICES ASSUME BlocksInv, ~exposed, NEW ino \in Live, NEW p \in Places(ino)
             PROVE  /\ p[4] \in bitmapData \cap savedData
                    /\ \A other \in Live : \A q \in Places(other) : q # p => q[4] # p[4]
    BY DEF BlocksOwned
<1>1. ino \in Inos /\ Live \subseteq Inos
    BY DEF Live
<1>2. FilesOwned(inode, disk, Live, bitmapData, savedData)
    BY DEF BlocksInv
<1>3. PICK s \in Slots : p = PlaceOf(ino, s) /\ p[4] = Holds(inode, disk, ino, s)
    BY <1>1, PlaceSlot
<1>4. p[4] # NoBlock /\ inode[ino].type # "link"
    BY <1>1, PlaceSlot DEF Places
<1>5. p[4] \in bitmapData \cap savedData
    BY <1>2, <1>3, <1>4 DEF FilesOwned
<1>6. ASSUME NEW other \in Live, NEW q \in Places(other), q[4] = p[4] PROVE q = p
  <2>1. other \in Inos
      BY <1>1
  <2>2. PICK u \in Slots : q = PlaceOf(other, u) /\ q[4] = Holds(inode, disk, other, u)
      BY <2>1, PlaceSlot
  <2>3. inode[other].type # "link"
      BY <2>1, PlaceSlot
  <2>4. other = ino
      BY <1>2, <1>3, <1>4, <1>6, <2>2, <2>3 DEF FilesOwned
  <2>5. s = u
    <3>1. OnePlace(inode[ino], OnDisk(disk))
        BY <1>2, <1>4 DEF FilesOwned
    <3> QED BY <3>1, <2>4, <1>3, <1>4, <1>6, <2>2 DEF OnePlace, Holds
  <2> QED BY <1>3, <2>2, <2>4, <2>5
<1> QED BY <1>5, <1>6

(* Every call keeps the bitmaps within the inodes and the blocks, and what *)
(* the inodes, the index blocks and the root directory name are blocks and *)
(* inodes; the text of a link, which the inode keeps where the numbers of  *)
(* its blocks are, is never taken for one.                                 *)
THEOREM ExtTypes == Spec => []TypeOK
<1>1. Init => InodeInv /\ BlocksInv
    BY InitInodeInv, InitBlocksInv
<1>2. InodeInv /\ BlocksInv /\ [Next]_vars => (InodeInv /\ BlocksInv)'
    BY NextInodeInv, NextBlocksInv
<1>3. InodeInv /\ BlocksInv => TypeOK
    BY InvGivesTypes
<1> QED BY <1>1, <1>2, <1>3, PTL DEF Spec

(* A block of a live file or directory, reached through any layer, is      *)
(* marked in the bitmap in memory and on disk and has one owner and one    *)
(* place: visit_blocks_inode never allocates a block in use, whatever it   *)
(* keeps in memory of the inode and of the index blocks when the disk      *)
(* fills up half way, when the table of the outer layer changes under it,  *)
(* or when a crash follows.  The states after a block in use was freed are *)
(* excepted, as in the property.                                           *)
THEOREM BlocksStayOwned == Spec => []BlocksOwned
<1>1. Init => InodeInv /\ BlocksInv
    BY InitInodeInv, InitBlocksInv
<1>2. InodeInv /\ BlocksInv /\ [Next]_vars => (InodeInv /\ BlocksInv)'
    BY NextInodeInv, NextBlocksInv
<1>3. InodeInv /\ BlocksInv => BlocksOwned
    BY InvGivesBlocksOwned
<1> QED BY <1>1, <1>2, <1>3, PTL DEF Spec
=============================================================================
