-------------------------------- MODULE ExtFs --------------------------------
(***************************************************************************)
(* The file system of ExtFS (ExtFS/src/rfs_lib/mod.rs): bitmaps of inodes  *)
(* and blocks, inodes with direct blocks and two layers of index blocks,   *)
(* and the root directory.  FUSE calls it with `&mut self', so a call is a *)
(* step.  The driver writes through; the bitmaps are kept in memory, and   *)
(* saved when something is allocated and when the file system is dumped.   *)
(*                                                                         *)
(* Only visit_blocks_inode knows how a file is laid out.  It walks over    *)
(* the indexes of a file, carrying the index blocks it has loaded, and is  *)
(* a function of the indexes here.  The third layer is not implemented by  *)
(* the program.                                                            *)
(***************************************************************************)
EXTENDS Integers, Sequences, FiniteSets, FiniteSetsExt, SequencesExt

CONSTANTS
    Names,      \* names in the root directory
    NInodes,    \* inodes that can be allocated
    NBlocks,    \* data blocks
    Direct,     \* direct blocks of an inode (12)
    Layer,      \* entries of an index block (block size / 4)
    Straddle,   \* whether a call may cross from one second-layer index block
                \* to the next
    MaxRun,     \* bound: blocks of a write or a read
    MaxOps,     \* bound: calls
    MaxCrashes  \* bound: crashes

Inos == 1 .. NInodes
Blocks == 1 .. NBlocks
NoIno == 0
NoBlock == 0
LinkText == NBlocks + 1     \* bytes of a link, taken as a block number

(* threshold *)
Th0 == Direct
Th1 == Direct + Layer
Th2 == Direct + Layer + Layer * Layer
Indexes == 0 .. Th2 - 1

ASSUME ExtAssumption ==
    /\ NInodes \in Nat \ {0} /\ NBlocks \in Nat \ {0}
    /\ Direct \in Nat \ {0} /\ Layer \in Nat \ {0}
    /\ Straddle \in BOOLEAN

VARIABLES
    bitmapInode,    \* inodes marked, in memory
    bitmapData,     \* blocks marked, in memory
    savedInode,     \* the same on disk
    savedData,
    inode,          \* the inode table
    disk,           \* block -> its content
    dir,            \* entries of the root directory: name -> inode
    written,        \* history: inode -> index -> tag of the last write
    exposed,        \* history: a block or an inode in use was freed
    count           \* counters for the bounds and the tags

vars == <<bitmapInode, bitmapData, savedInode, savedData, inode, disk, dir,
          written, exposed, count>>

Zeros == [i \in 0 .. Layer - 1 |-> NoBlock]
Bytes(n) == [tag |-> n, table |-> Zeros]        \* file data; 0 is zeros
Table(t) == [tag |-> 0, table |-> t]            \* an index block
Blank == [type |-> "none", direct |-> [i \in 0 .. Direct - 1 |-> NoBlock],
          l1 |-> NoBlock, l2 |-> NoBlock]
NotWritten == [i \in Indexes |-> 0]

Init ==
    /\ bitmapInode = {} /\ savedInode = {}
    /\ bitmapData = {} /\ savedData = {}
    /\ inode = [n \in Inos |-> Blank]
    /\ disk = [b \in Blocks |-> Bytes(0)]
    /\ dir = [n \in Names |-> NoIno]
    /\ written = [n \in Inos |-> NotWritten]
    /\ exposed = FALSE
    /\ count = [ops |-> 0, crashes |-> 0]

-----------------------------------------------------------------------------
(* visit_blocks_inode.  The record of a visit v:                           *)
(*   map, saved  the block bitmap in memory and on disk                    *)
(*   disk, kept  the blocks and the inode on disk                          *)
(*   node, dirty the inode in memory, and whether a direct block is new    *)
(*   t           the index blocks loaded for the two layers                *)
(*   new         the block allocated last                                  *)
(*   got         the blocks met, in order                                  *)
(*   done, err   the walk is over; for want of a free block                *)
(* Every stage of a step leaves a walk that is over as it is.              *)

NotLoaded == [at |-> NoBlock, table |-> Zeros, mod |-> FALSE]

Visit0(ino) ==
    [map |-> bitmapData, saved |-> savedData, disk |-> disk,
     kept |-> inode[ino], node |-> inode[ino], dirty |-> FALSE,
     t |-> <<NotLoaded, NotLoaded>>, new |-> NoBlock,
     got |-> <<>>, done |-> FALSE, err |-> FALSE]

\* Mutant of Search: the number is one too small.
SearchZeroBased(free) == Min(free) - 1

(* bitmap_search: the first free block. *)
Search(free) == Min(free)

\* Mutant of Take: the bitmap is not saved.
TakeUnsaved(v, b) == [v EXCEPT !.map = @ \cup {b}, !.new = b]

Take(v, b) ==
    [v EXCEPT !.map = @ \cup {b}, !.saved = v.map \cup {b}, !.new = b]

(* allocate_block: the bitmap is saved.  The search of the code ends with  *)
(* the bits of the bitmap block: Blocks is the disk that block describes.  *)
Allocate(v) ==
    IF v.done THEN v
    ELSE IF Blocks \subseteq v.map THEN [v EXCEPT !.done = TRUE, !.err = TRUE]
    ELSE Take(v, Search(Blocks \ v.map))

\* Mutant of Dump: the index block is not saved.
DumpInode(v, l) == [v EXCEPT !.kept = v.node]

(* dump_index_table: the inode is saved, and the index block if modified.  *)
Dump(v, l) ==
    IF v.done THEN v
    ELSE IF v.t[l].mod /\ v.t[l].at # NoBlock
    THEN [v EXCEPT !.kept = v.node, !.t[l].mod = FALSE,
                   !.disk[v.t[l].at] = Table(v.t[l].table)]
    ELSE [v EXCEPT !.kept = v.node]

Loaded(v, l, b) == [v EXCEPT !.t[l].at = b, !.t[l].table = v.disk[b].table]
Load(v, l, b) ==
    IF v.done \/ b = NoBlock \/ v.t[l].at = b THEN v ELSE Loaded(Dump(v, l), l, b)

(* The new block becomes the index block of a layer, with zeros. *)
AsLayer1(v) ==
    IF v.done THEN v
    ELSE [v EXCEPT !.node.l1 = v.new, !.disk[v.new] = Table(Zeros),
                   !.t[1].at = NoBlock]
AsLayer2(v) ==
    IF v.done THEN v
    ELSE [v EXCEPT !.node.l2 = v.new, !.disk[v.new] = Table(Zeros),
                   !.t[1].at = NoBlock]

(* The new block becomes entry j of the table of layer l. *)
AsEntry(v, l, j) ==
    IF v.done THEN v ELSE [v EXCEPT !.t[l].table[j] = v.new, !.t[l].mod = TRUE]
AsDirect(v, i) ==
    IF v.done THEN v ELSE [v EXCEPT !.node.direct[i] = v.new, !.dirty = TRUE]

(* The new block becomes the table that entry j leads to.  What the table  *)
(* loaded before it has to save is not saved.                              *)
AsTable(v, j) ==
    IF v.done THEN v
    ELSE [v EXCEPT !.t[1].table[j] = v.new, !.t[1].mod = TRUE,
                   !.disk[v.new] = Table(Zeros),
                   !.t[2].at = v.new, !.t[2].table = Zeros]

(* The callers: a write allocates what is missing; a removal stops at the  *)
(* first missing block; a read goes on.  Other than in a removal the walk  *)
(* ends with the last index asked for.                                     *)
Grows(v, b, kind) == ~v.done /\ b = NoBlock /\ kind = "write"
Ends(v, b, i, kind, last) ==
    ~v.done /\ IF kind = "free" THEN b = NoBlock ELSE i = last
Met(v, b) == IF v.done THEN v ELSE [v EXCEPT !.got = Append(@, b)]
Done(v) == [v EXCEPT !.done = TRUE]

DirectEnd(v, i, kind, last) ==
    IF Ends(v, v.node.direct[i], i, kind, last)
    THEN Done([Met(v, v.node.direct[i]) EXCEPT !.kept = IF v.dirty THEN v.node ELSE @])
    ELSE Met(v, v.node.direct[i])
DirectStep(v, i, kind, last) ==
    DirectEnd(IF Grows(v, v.node.direct[i], kind) THEN AsDirect(Allocate(v), i) ELSE v,
              i, kind, last)

(* The end of a step through the table of layer l. *)
TableEnd(v, l, j, i, kind, last) ==
    IF Ends(v, v.t[l].table[j], i, kind, last)
    THEN Done(Dump(Dump(Met(v, v.t[l].table[j]), 1), l))
    ELSE Met(v, v.t[l].table[j])

(* The first layer: an index block is allocated whatever the caller does.  *)
Layer1Grow(v, j, kind) ==
    IF Grows(v, v.t[1].table[j], kind) THEN AsEntry(Allocate(v), 1, j) ELSE v
Layer1Load(v) == Load(v, 1, v.node.l1)
Layer1Step(v, i, kind, last) ==
    TableEnd(Layer1Grow(Layer1Load(IF v.node.l1 = NoBlock THEN AsLayer1(Allocate(v))
                                   ELSE v), i - Th0, kind),
             1, i - Th0, i, kind, last)

(* The second layer.  The table of the inner layer that is loaded stays    *)
(* when the next one is missing.                                           *)
Outer(i) == (i - Th1) \div Layer
Inner(i) == (i - Th0) % Layer
Layer2Load(v) == Load(v, 1, v.node.l2)
Layer2Inner(v, i) == Load(v, 2, v.t[1].table[Outer(i)])
Layer2Table(v, i, kind) ==
    IF Grows(v, v.t[2].table[Inner(i)], kind) /\ v.t[1].table[Outer(i)] = NoBlock
    THEN AsTable(Allocate(v), Outer(i)) ELSE v
Layer2Grow(v, i, kind) ==
    IF Grows(v, v.t[2].table[Inner(i)], kind)
    THEN AsEntry(Allocate(Layer2Table(v, i, kind)), 2, Inner(i)) ELSE v
Layer2Step(v, i, kind, last) ==
    TableEnd(Layer2Grow(Layer2Inner(Layer2Load(
               IF v.node.l2 = NoBlock THEN AsLayer2(Allocate(v)) ELSE v), i), i, kind),
             2, Inner(i), i, kind, last)

VisitStep(v, i, kind, first, last) ==
    CASE v.done -> v
      [] ~v.done /\ i < Th0 -> DirectStep(v, i, kind, last)
      [] ~v.done /\ i \in Th0 .. Th1 - 1 -> Layer1Step(v, i, kind, last)
      [] ~v.done /\ i >= Th1 ->
           Layer2Step(IF i = Th1 \/ i = first THEN Dump(v, 1) ELSE v, i, kind, last)

(* The walk over the first n indexes. *)
Walk(ino, first, last, kind, n) ==
    LET upTo[k \in 0 .. Th2 - first] ==
          IF k = 0 THEN Visit0(ino)
          ELSE VisitStep(upTo[k - 1], first + k - 1, kind, first, last)
    IN  upTo[n]

(* The tables are dumped at the end of the second layer. *)
Visit(ino, first, last, kind) ==
    Dump(Dump(Walk(ino, first, last, kind, Th2 - first), 1), 2)

Got(v) == {v.got[n] : n \in 1 .. Len(v.got)} \ {NoBlock}

-----------------------------------------------------------------------------
(* Operations                                                              *)

Called ==
    /\ ~exposed     \* what follows a broken bitmap is not explored
    /\ count.ops < MaxOps
    /\ count' = [count EXCEPT !.ops = @ + 1]

FreeInos == Inos \ bitmapInode
NewIno == Min(FreeInos)

\* Mutant of TakeInode: the bitmap is not saved.
TakeInodeUnsaved ==
    /\ FreeInos # {}
    /\ bitmapInode' = bitmapInode \cup {NewIno}
    /\ UNCHANGED savedInode

(* allocate_inode *)
TakeInode ==
    /\ FreeInos # {}
    /\ bitmapInode' = bitmapInode \cup {NewIno}
    /\ savedInode' = bitmapInode'

(* The new inode is written, and its entry in the root directory. *)
Named(n, node) ==
    /\ inode' = [inode EXCEPT ![NewIno] = node]
    /\ dir' = [dir EXCEPT ![n] = NewIno]
    /\ written' = [written EXCEPT ![NewIno] = NotWritten]

(* make_node of a regular file: a block is allocated at once, and its      *)
(* content is left as it is.  Without one, the inode stays marked.         *)
Create(n) ==
    /\ Called /\ dir[n] = NoIno
    /\ TakeInode
    /\ \E v \in {Allocate(Visit0(NewIno))} :
         /\ bitmapData' = v.map
         /\ savedData' = v.saved
         /\ IF v.err THEN UNCHANGED <<inode, dir, written>>
            ELSE Named(n, [Blank EXCEPT !.type = "file", !.direct[0] = v.new])
    /\ UNCHANGED <<disk, exposed>>

(* make_node of a directory: the entries go to the first block of the old  *)
(* inode of that number, if it has one, which is not marked.  A link text  *)
(* there is no block, and the write fails.                                 *)
Mkdir(n) ==
    /\ Called /\ dir[n] = NoIno
    /\ TakeInode
    /\ LET old == inode[NewIno].direct[0]
       IN \E v \in {IF old = NoBlock THEN Allocate(Visit0(NewIno))
                    ELSE [Visit0(NewIno) EXCEPT !.new = old]} :
            /\ bitmapData' = v.map
            /\ savedData' = v.saved
            /\ IF v.err \/ old = LinkText
               THEN UNCHANGED <<inode, disk, dir, written, exposed>>
               ELSE /\ disk' = [disk EXCEPT ![v.new] = Bytes(0)]
                    /\ Named(n, [Blank EXCEPT !.type = "dir", !.direct[0] = v.new])
                    /\ exposed' = (old # NoBlock)

(* rfs_symlink: the text is kept in the inode. *)
Symlink(n) ==
    /\ Called /\ dir[n] = NoIno
    /\ TakeInode
    /\ Named(n, [Blank EXCEPT !.type = "link", !.direct[0] = LinkText])
    /\ UNCHANGED <<bitmapData, savedData, disk, exposed>>

(* rfs_unlink and rfs_rmdir: the blocks up to the first missing one and    *)
(* the inode are given back in memory; a walk past the direct blocks takes *)
(* an index block if there is none.  The blocks of a link are its text.    *)
RemoveVisit(ino) ==
    IF inode[ino].type = "link" THEN Visit0(ino) ELSE Visit(ino, 0, Th2, "free")
Remaining(v) == v.map \ Got(v)

Unlinked(v, ino) ==
    /\ bitmapData' = IF v.err THEN v.map ELSE Remaining(v)
    /\ savedData' = v.saved
    /\ inode' = [inode EXCEPT ![ino] = v.kept]
    /\ disk' = v.disk
    /\ bitmapInode' = IF v.err THEN bitmapInode ELSE bitmapInode \ {ino}
    /\ UNCHANGED savedInode

Unlink(n) ==
    /\ Called /\ dir[n] # NoIno
    /\ \E v \in {RemoveVisit(dir[n])} :
         /\ Unlinked(v, dir[n])
         /\ dir' = IF v.err THEN dir
                   ELSE [m \in Names |-> IF dir[m] = dir[n] THEN NoIno ELSE dir[m]]
    /\ UNCHANGED <<written, exposed>>

(* rfs_rename: unlink, with all that it frees, then the entry again.       *)
Rename(n, m) ==
    /\ Called /\ dir[n] # NoIno /\ dir[m] = NoIno
    /\ \E v \in {RemoveVisit(dir[n])} :
         /\ Unlinked(v, dir[n])
         /\ dir' = IF v.err THEN dir
                   ELSE [dir EXCEPT ![n] = NoIno, ![m] = dir[n]]
         /\ exposed' = ~v.err
    /\ UNCHANGED written

(* Whether a call on the indexes crosses between second-layer tables.      *)
Straddles(first, last) ==
    /\ last >= Th1
    /\ (last - Th1) \div Layer > (IF first < Th1 THEN 0 ELSE (first - Th1) \div Layer)

Run(first, last) ==
    /\ first <= last /\ last - first < MaxRun
    /\ ~Straddle => ~Straddles(first, last)

OpenFile(ino) == inode[ino].type = "file" /\ \E n \in Names : dir[n] = ino

(* What a walk of a live file leaves behind. *)
Walked(v, ino) ==
    /\ bitmapData' = v.map
    /\ savedData' = v.saved
    /\ inode' = [inode EXCEPT ![ino] = v.kept]
    /\ UNCHANGED <<bitmapInode, savedInode, dir, exposed>>

(* rfs_write of whole blocks; the tag is the number of the call. *)
WriteData(v, tag) ==
    [b \in Blocks |-> IF b \in Got(v) THEN Bytes(tag) ELSE v.disk[b]]

Write(ino, first, last) ==
    /\ Called /\ OpenFile(ino) /\ Run(first, last)
    /\ \E v \in {Visit(ino, first, last, "write")} :
         /\ Walked(v, ino)
         /\ disk' = IF v.err THEN v.disk ELSE WriteData(v, count'.ops)
         /\ written' = IF v.err THEN written
                       ELSE [written EXCEPT ![ino] =
                              [i \in Indexes |-> IF i \in first .. last
                                                 THEN count'.ops ELSE @[i]]]

(* rfs_read may take an index block. *)
Read(ino, first, last) ==
    /\ Called /\ OpenFile(ino) /\ Run(first, last)
    /\ \E v \in {Visit(ino, first, last, "read")} :
         Walked(v, ino) /\ disk' = v.disk
    /\ UNCHANGED written

(* rfs_destroy dumps the bitmaps, rfs_init reads them. *)
Remount ==
    /\ ~exposed
    /\ <<savedInode, savedData>> # <<bitmapInode, bitmapData>>
    /\ savedInode' = bitmapInode
    /\ savedData' = bitmapData
    /\ UNCHANGED <<bitmapInode, bitmapData, inode, disk, dir, written, exposed,
                   count>>

(* The process dies between two calls; rfs_init reads the saved bitmaps.   *)
Crash ==
    /\ ~exposed /\ count.crashes < MaxCrashes
    /\ count' = [count EXCEPT !.crashes = @ + 1]
    /\ bitmapInode' = savedInode
    /\ bitmapData' = savedData
    /\ UNCHANGED <<savedInode, savedData, inode, disk, dir, written, exposed>>

Next ==
    \/ \E n \in Names : Create(n)
    \/ \E n \in Names : Mkdir(n)
    \/ \E n \in Names : Symlink(n)
    \/ \E n \in Names : Unlink(n)
    \/ \E n, m \in Names : Rename(n, m)
    \/ \E ino \in Inos : \E i, j \in Indexes : Write(ino, i, j)
    \/ \E ino \in Inos : \E i, j \in Indexes : Read(ino, i, j)
    \/ Remount
    \/ Crash

Spec == Init /\ [][Next]_vars

-----------------------------------------------------------------------------
(* Properties                                                              *)

Live == {ino \in Inos : \E n \in Names : dir[n] = ino}
Known == Blocks \cup {NoBlock}

(* The blocks that belong to a node, with their places in it. *)
DirectPlaces(ino) == {<<ino, "d", i, inode[ino].direct[i]>> : i \in 0 .. Direct - 1}
TablePlaces(ino, kind, b) ==
    {<<ino, "b", b, b>>}
      \cup IF b = NoBlock THEN {}
           ELSE {<<ino, kind, <<b, i>>, disk[b].table[i]>> : i \in 0 .. Layer - 1}
AllPlaces(ino) ==
    IF inode[ino].type = "link" THEN {}
    ELSE DirectPlaces(ino)
         \cup TablePlaces(ino, "1", inode[ino].l1)
         \cup {p \in TablePlaces(ino, "2", inode[ino].l2) : p[2] = "b"}
         \cup (IF inode[ino].l2 = NoBlock THEN {}
               ELSE UNION {TablePlaces(ino, "3", disk[inode[ino].l2].table[i]) :
                             i \in 0 .. Layer - 1})
Places(ino) == {p \in AllPlaces(ino) : p[4] # NoBlock}

(* The state has its types; what the walks met are blocks.                 *)
TypeOK ==
    /\ bitmapInode \subseteq Inos /\ savedInode \subseteq Inos
    /\ bitmapData \subseteq Blocks /\ savedData \subseteq Blocks
    /\ \A ino \in Inos :
         /\ inode[ino].type \in {"none", "file", "dir", "link"}
         /\ inode[ino].type # "link" => inode[ino].direct \in [0 .. Direct - 1 -> Known]
         /\ inode[ino].l1 \in Known /\ inode[ino].l2 \in Known
    /\ \A b \in Blocks : disk[b].table \in [0 .. Layer - 1 -> Known]
    /\ dir \in [Names -> Inos \cup {NoIno}]

(* Until a rename or a reused directory breaks the bitmaps, a block of a   *)
(* live node is marked in memory and on disk, so that neither a later call *)
(* nor a crash lets it be given away, and it has one owner and one place.  *)
BlocksOwned ==
    exposed \/
      \A ino \in Live : \A p \in Places(ino) :
        /\ p[4] \in bitmapData \cap savedData
        /\ \A other \in Live : \A q \in Places(other) : q # p => q[4] # p[4]

(* A named inode is marked in memory and on disk, and has one name.        *)
InodesOwned ==
    exposed \/
      /\ Live \subseteq bitmapInode \cap savedInode
      /\ \A n, m \in Names : dir[n] # NoIno /\ n # m => dir[n] # dir[m]

(* A read of one block returns what was written to it last, through all    *)
(* layers, after crashes and calls that found no free block.               *)
ReadBack ==
    exposed \/
      \A ino \in Live : \A i \in Indexes :
        written[ino][i] # 0 =>
          LET v == Visit(ino, i, i, "read")
          IN ~v.err /\ v.got[1] # NoBlock /\ disk[v.got[1]].tag = written[ino][i]
=============================================================================
