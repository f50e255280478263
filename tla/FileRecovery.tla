---------------------------- MODULE FileRecovery ----------------------------
(***************************************************************************)
(* The bytes of one file (ZoneFile and ZonedWritableFile, io_aquafs.cc):   *)
(* the three ways to append, the syncs, the close, and what Recover makes  *)
(* of the metadata and the write pointers after a crash.                   *)
(*                                                                         *)
(* A byte of the program is a unit here; a block has B units and the       *)
(* header of a sparse extent is one.  The file has one writer; another     *)
(* file takes blocks of the zones this one does not hold.                  *)
(***************************************************************************)
EXTENDS Integers, Sequences, SequencesExt

CONSTANTS
    Zones,      \* io zones
    NoZone,     \* none of them
    B,          \* units of a block
    ZoneBlocks, \* blocks of a zone that can be written
    ZoneSize,   \* units from the start of a zone to that of the next
    Following,  \* zone -> the io zone at the next addresses, if there is one
    BufBlocks,  \* blocks of the writer's buffer
    Modes,      \* ways of writing: "sparse", "buffered", "direct"
    TornModes,  \* those where a device write may stop between two blocks
    Faults,     \* calls that may fail: "write", "persist"
    MaxUnits,   \* bound: units appended through the buffer
    MaxDirect,  \* bound: units appended without it
    MaxOther,   \* bound: blocks of the other file
    MaxCrashes, \* bound: crashes
    MaxFails    \* bound: failed calls

ASSUME FileAssumption ==
    /\ NoZone \notin Zones
    /\ {B, ZoneBlocks, BufBlocks} \subseteq Nat \ {0} /\ B > 1
    /\ ZoneSize \in Nat /\ ZoneSize >= B * ZoneBlocks
    /\ Following \in [Zones -> Zones \cup {NoZone}]
    /\ TornModes \subseteq Modes
    /\ Modes \subseteq {"sparse", "buffered", "direct"}

VARIABLES
    mode,       \* how the file is written
    dev,        \* zone -> the units written; its length is the write pointer
    meta,       \* metadata of the file in the log
    f,          \* metadata in memory
    active,     \* active_zone_
    open,       \* whether the file is open for writing
    closing,    \* whether Close was called
    buffer,     \* the first buffer_pos units of the buffer
    op,         \* the call under way: "append", "sync", "fsync", "close"
    left,       \* what it has yet to write
    pc,         \* where it is
    want,       \* history: the units given to append, or recovered
    synced,     \* history: how many of them a sync has returned for
    failed,     \* history: whether a call has failed since the mount
    mishap,     \* history: "cut", a crash has cut a sparse extent short; "gap",
                \* a failed write has; "hole", recovery came after either;
                \* "astray", it has looked at a foreign zone
    count       \* counters for the bounds

vars == <<mode, dev, meta, f, active, open, closing, buffer, op, left, pc,
          want, synced, failed, mishap, count>>

NoExtent == [z |-> NoZone, off |-> 0]   \* NO_EXTENT
Data(i) == [k |-> "data", v |-> i]
Pad == [k |-> "pad", v |-> 0]
Header(n) == [k |-> "len", v |-> n]
Other == [k |-> "other", v |-> 0]
Unwritten == [k |-> "none", v |-> 0]
HeaderSize == 1

ZoneCap == B * ZoneBlocks
Wp(z) == Len(dev[z])
Capacity(z) == ZoneCap - Wp(z)
Sparse == mode = "sparse"
BufferSize == IF Sparse THEN B * BufBlocks - HeaderSize ELSE B * BufBlocks
Blocks(n) == (n + B - 1) \div B
Padding(n) == [i \in 1 .. B * Blocks(n) - n |-> Pad]
First(s, n) == SubSeq(s, 1, n)

-----------------------------------------------------------------------------
(* Reading.  PositionedRead follows the extents up to the file size.       *)

At(z, off) ==
    IF z \in Zones /\ off < Wp(z) THEN dev[z][off + 1] ELSE Unwritten
ExtentUnits(e) == [i \in 1 .. e.len |-> At(e.z, e.off + i - 1)]
Content(es) == FlattenSeq([i \in 1 .. Len(es) |-> ExtentUnits(es[i])])
Size(es) == FoldLeft(LAMBDA n, e : n + e.len, 0, es)
Readable(g) ==
    LET c == Content(g.extents) IN IF g.size < Len(c) THEN First(c, g.size) ELSE c

-----------------------------------------------------------------------------
(* Recover and RecoverSparseExtents                                        *)

(* The extents found by following the headers from `off' up to the write   *)
(* pointer.                                                                *)
SparseExtents(z, start) ==
    LET walk[off \in 0 .. 2 * ZoneCap] ==
          IF off >= Wp(z) THEN [ok |-> TRUE, extents |-> <<>>]
          ELSE LET h == At(z, off)
                   rest == walk[off + B * Blocks(h.v + HeaderSize)]
               IN IF h.k # "len" \/ h.v = 0 THEN [ok |-> FALSE, extents |-> <<>>]
                  ELSE [ok |-> rest.ok,
                        extents |-> <<[z |-> z, off |-> off + HeaderSize,
                                       len |-> h.v]>> \o rest.extents]
    IN walk[start]

TailWhole(z, start) ==
    [ok |-> TRUE, extents |-> <<[z |-> z, off |-> start, len |-> Wp(z) - start]>>]

RecoverTail(z, start) ==
    IF Sparse THEN SparseExtents(z, start) ELSE TailWhole(z, start)

(* GetIOZone: the io zone at an address and the offset in it, or NoExtent. *)
(* The address after the last one of a zone is in the zone that follows.   *)
GetIOZone(s) ==
    IF s.off < ZoneSize THEN s
    ELSE IF Following[s.z] # NoZone THEN [z |-> Following[s.z], off |-> 0]
    ELSE NoExtent

(* Only headers of this file are lengths: a block of another file that is  *)
(* taken for a header ends the recovery with an error.                     *)
Recover(m) ==
    IF m.start = NoExtent THEN [ok |-> TRUE, file |-> m]
    ELSE LET z == GetIOZone(m.start).z
             off == GetIOZone(m.start).off
             t == RecoverTail(z, off)
             es == m.extents \o t.extents
         IN IF z = NoZone \/ Wp(z) < off THEN [ok |-> FALSE, file |-> m]
            ELSE IF Wp(z) = off
                 THEN [ok |-> TRUE, file |-> [m EXCEPT !.start = NoExtent]]
            ELSE [ok |-> t.ok,
                  file |-> [extents |-> es, start |-> NoExtent,
                            filepos |-> 0, size |-> Size(es)]]

(* The place where recovery begins is the end of a full zone and GetIOZone *)
(* finds no zone there, or one with data, which are not of this extent.    *)
Misled(m) ==
    /\ m.start # NoExtent /\ m.start.off >= ZoneSize
    /\ Following[m.start.z] = NoZone \/ Wp(Following[m.start.z]) > 0

-----------------------------------------------------------------------------
Empty == [extents |-> <<>>, start |-> NoExtent, filepos |-> 0, size |-> 0]

Init ==
    /\ mode \in Modes
    /\ dev = [z \in Zones |-> <<>>]
    /\ meta = Empty
    /\ f = Empty
    /\ active = NoZone
    /\ open = TRUE
    /\ closing = FALSE
    /\ buffer = <<>>
    /\ op = "none"
    /\ left = <<>>
    /\ pc = "idle"
    /\ want = <<>>
    /\ synced = 0
    /\ failed = FALSE
    /\ mishap = {}
    /\ count = [units |-> 0, other |-> 0, crashes |-> 0, fails |-> 0]

(* PersistMetadata: the record holds the extents and the active extent.    *)
Saved(g) == [g EXCEPT !.filepos = 0]
Persist(g) == meta' = Saved(g)

(* The call returns an error; the buffer keeps its length.                 *)
Fails ==
    /\ count.fails < MaxFails
    /\ count' = [count EXCEPT !.fails = @ + 1]
    /\ pc' = "idle"
    /\ op' = "none"
    /\ left' = <<>>
    /\ failed' = TRUE

Started(o, units) ==
    /\ op' = o
    /\ left' = units
    /\ pc' = IF units = <<>> THEN "flushed"
             ELSE IF active = NoZone THEN "alloc" ELSE "write"

-----------------------------------------------------------------------------
(* ZonedWritableFile::Append of one unit: BufferedWrite.                   *)
BufferedWrite ==
    /\ pc = "idle" /\ open /\ ~closing /\ mode # "direct"
    /\ count.units < MaxUnits
    /\ \/ /\ Len(buffer) < BufferSize
          /\ buffer' = Append(buffer, Data(count.units + 1))
          /\ want' = Append(want, Data(count.units + 1))
          /\ count' = [count EXCEPT !.units = @ + 1]
          /\ UNCHANGED <<op, left, pc>>
       \/ /\ Len(buffer) = BufferSize
          /\ Started("append", buffer)
          /\ UNCHANGED <<buffer, want, count>>
    /\ UNCHANGED <<mode, dev, meta, f, active, open, closing, synced, failed,
                   mishap>>

(* ZoneFile::Append of n blocks. *)
DirectAppend(n) ==
    /\ pc = "idle" /\ open /\ ~closing /\ mode = "direct"
    /\ count.units + n * B <= MaxDirect
    /\ LET units == [i \in 1 .. n * B |-> Data(count.units + i)]
       IN Started("append", units) /\ want' = want \o units
    /\ count' = [count EXCEPT !.units = @ + n * B]
    /\ UNCHANGED <<mode, dev, meta, f, active, open, closing, buffer, synced,
                   failed, mishap>>

(* Sync, RangeSync, Fsync and Close begin with DataSync. *)
DataSync(o) ==
    /\ pc = "idle" /\ open
    /\ closing => o = "close"
    /\ Started(o, buffer)
    /\ closing' = (o = "close")
    /\ UNCHANGED <<mode, dev, meta, f, active, open, buffer, want, synced,
                   failed, mishap, count>>

(* AllocateNewZone: some zone with capacity that no other writer holds;    *)
(* the start of the extent is persisted before anything is written.        *)
NewExtent(z) ==
    [f EXCEPT !.start = [z |-> z, off |-> Wp(z)], !.filepos = f.size]

\* Mutant of PersistNewExtent: nothing is persisted.
PersistNewExtentNot(g) == UNCHANGED meta

PersistNewExtent(g) == Persist(g)

AllocateNewZone ==
    /\ pc = "alloc"
    /\ \/ \E z \in Zones :
            /\ Capacity(z) > 0
            /\ active' = z
            /\ f' = NewExtent(z)
            /\ \/ /\ PersistNewExtent(NewExtent(z))
                  /\ pc' = IF left = <<>> THEN "flushed" ELSE "write"
                  /\ UNCHANGED <<op, left, failed, count>>
               \/ "persist" \in Faults /\ Fails /\ UNCHANGED meta
       \/ /\ \A z \in Zones : Capacity(z) = 0
          /\ Fails
          /\ UNCHANGED <<active, f, meta>>
    /\ UNCHANGED <<mode, dev, open, closing, buffer, want, synced, mishap>>

(* PushExtent *)
Pushed(g) ==
    IF active = NoZone \/ g.size = g.filepos THEN g
    ELSE [g EXCEPT !.extents = Append(@, [z |-> g.start.z, off |-> g.start.off,
                                          len |-> g.size - g.filepos]),
                   !.start = [z |-> active, off |-> Wp(active)],
                   !.filepos = g.size]

-----------------------------------------------------------------------------
(* One turn of the loop of BufferedAppend or SparseAppend.                 *)

Reserved == IF Sparse THEN HeaderSize ELSE 0

\* Mutant of PieceLen: the capacity of the zone is not looked at.
PieceLenWhole == Len(left)

(* The units of the file that fit in the active zone. *)
PieceLen ==
    IF Len(left) + Reserved > Capacity(active) THEN Capacity(active) - Reserved
    ELSE Len(left)

\* Mutant of HeaderOfPiece: the header has the length of all that is left.
HeaderOfAll == <<Header(Len(left))>>

(* What is written for them: the header, the data, zeros up to a block.    *)
HeaderOfPiece == <<Header(PieceLen)>>
PieceUnits ==
    LET data == (IF Sparse THEN HeaderOfPiece ELSE <<>>) \o First(left, PieceLen)
    IN data \o Padding(Len(data))

\* Mutant of PieceExtent: the extent begins with the header.
PieceExtentWithHeader == [z |-> f.start.z, off |-> f.start.off, len |-> PieceLen]

(* The extent that is pushed begins after the header. *)
PieceExtent == [z |-> f.start.z, off |-> f.start.off + Reserved, len |-> PieceLen]

AppendPiece ==
    /\ pc = "write" /\ mode # "direct"
    /\ LET units == PieceUnits
           wp == Wp(active) + Len(units)
           rest == SubSeq(left, PieceLen + 1, Len(left))
           full == wp = ZoneCap
       IN /\ dev' = [dev EXCEPT ![active] = @ \o units]
          /\ f' = [f EXCEPT !.extents = Append(@, PieceExtent),
                            !.start = [z |-> active, off |-> wp],
                            !.size = @ + PieceLen]
          /\ left' = rest
          \* memmove of what is left to the front of the buffer
          /\ buffer' = rest \o SubSeq(buffer, Len(rest) + 1, Len(buffer))
          \* a full zone is closed and another one taken at once
          /\ active' = IF full THEN NoZone ELSE active
          /\ pc' = IF full THEN "alloc" ELSE "flushed"
    /\ UNCHANGED <<mode, meta, open, closing, op, want, synced, failed, mishap,
                   count>>

(* One turn of the loop of ZoneFile::Append. *)
DirectFull ==
    /\ pc = "write" /\ mode = "direct"
    /\ Capacity(active) = 0
    /\ f' = Pushed(f)
    /\ active' = NoZone
    /\ pc' = "alloc"
    /\ UNCHANGED <<mode, dev, meta, open, closing, buffer, op, left, want,
                   synced, failed, mishap, count>>

DirectLen == IF Len(left) > Capacity(active) THEN Capacity(active) ELSE Len(left)

DirectWrite ==
    /\ pc = "write" /\ mode = "direct"
    /\ Capacity(active) > 0
    /\ dev' = [dev EXCEPT ![active] = @ \o First(left, DirectLen)]
    /\ f' = [f EXCEPT !.size = @ + DirectLen]
    /\ left' = SubSeq(left, DirectLen + 1, Len(left))
    /\ pc' = IF left' = <<>> THEN "flushed" ELSE "write"
    /\ UNCHANGED <<mode, meta, active, open, closing, buffer, op, want, synced,
                   failed, mishap, count>>

(* Zone::Append stops after n blocks of the piece, with an error.          *)
Partial(n) ==
    LET units == IF mode = "direct" THEN First(left, DirectLen) ELSE PieceUnits
    IN /\ n * B < Len(units)
       /\ n > 0 => mode \in TornModes
       /\ dev' = [dev EXCEPT ![active] = @ \o First(units, n * B)]

WriteFails(n) ==
    /\ pc = "write" /\ "write" \in Faults
    /\ Capacity(active) > 0
    /\ Partial(n)
    /\ Fails
    /\ mishap' = IF Sparse /\ n > 0 THEN mishap \cup {"gap"} ELSE mishap
    /\ UNCHANGED <<mode, meta, f, active, open, closing, buffer, want, synced>>

-----------------------------------------------------------------------------
(* The end of the call.                                                    *)

Returns ==
    /\ pc' = "idle"
    /\ op' = "none"
    /\ synced' = IF failed THEN synced ELSE Len(want)
    /\ UNCHANGED <<failed, count>>

(* BufferedWrite goes on with the empty buffer; a direct append is done.   *)
AppendEnds ==
    /\ pc = "flushed" /\ op = "append"
    /\ pc' = "idle"
    /\ op' = "none"
    /\ IF mode = "direct" THEN UNCHANGED <<buffer, want, count>>
       ELSE /\ buffer' = <<Data(count.units + 1)>>
            /\ want' = Append(want, Data(count.units + 1))
            /\ count' = [count EXCEPT !.units = @ + 1]
    /\ UNCHANGED <<mode, dev, meta, f, active, open, closing, left, synced,
                   failed, mishap>>

(* The rest of DataSync: a file that is written through the buffer without *)
(* headers persists its extents, a direct one pushes its extent.           *)
AfterData == CASE op = "sync" -> "idle"
               [] op = "fsync" -> IF mode = "buffered" THEN "idle" ELSE "persist"
               [] op = "close" -> "close"

Acknowledged ==
    IF AfterData = "idle" THEN Returns
    ELSE pc' = AfterData /\ UNCHANGED <<op, synced, failed, count>>

DataSyncPersists == IF mode = "buffered" THEN Persist(f) ELSE UNCHANGED meta

DataSyncEnds ==
    /\ pc = "flushed" /\ op # "append"
    /\ buffer' = <<>>
    /\ f' = IF mode = "direct" THEN Pushed(f) ELSE f
    /\ \/ DataSyncPersists /\ Acknowledged /\ UNCHANGED left
       \/ /\ mode = "buffered" /\ "persist" \in Faults
          /\ Fails
          /\ UNCHANGED <<meta, synced>>
    /\ UNCHANGED <<mode, dev, active, open, closing, want, mishap>>

(* Fsync persists the metadata. *)
FsyncPersists ==
    /\ pc = "persist"
    /\ \/ Persist(f) /\ Returns /\ UNCHANGED left
       \/ "persist" \in Faults /\ Fails /\ UNCHANGED <<meta, synced>>
    /\ UNCHANGED <<mode, dev, f, active, open, closing, buffer, want, mishap>>

(* CloseWR: there is no active extent any more, and then the zone is given *)
(* back.                                                                   *)
CloseWR ==
    /\ pc = "close"
    /\ f' = [f EXCEPT !.start = NoExtent]
    /\ \/ /\ Persist(f')
          /\ Returns
          /\ active' = NoZone
          /\ open' = FALSE
          /\ closing' = FALSE
          /\ UNCHANGED left
       \/ /\ "persist" \in Faults
          /\ Fails
          /\ UNCHANGED <<meta, synced, active, open, closing>>
    /\ UNCHANGED <<mode, dev, buffer, want, mishap>>

(* ReopenWritableFile *)
Reopen ==
    /\ pc = "idle" /\ ~open
    /\ open' = TRUE
    /\ UNCHANGED <<mode, dev, meta, f, active, closing, buffer, op, left, pc,
                   want, synced, failed, mishap, count>>

-----------------------------------------------------------------------------
(* The environment                                                         *)

(* The other file writes a block to a zone that this one does not hold. *)
OtherWrites(z) ==
    /\ pc # "down" /\ z # active
    /\ count.other < MaxOther
    /\ Capacity(z) > 0
    /\ dev' = [dev EXCEPT ![z] = @ \o [i \in 1 .. B |-> Other]]
    /\ count' = [count EXCEPT !.other = @ + 1]
    /\ UNCHANGED <<mode, meta, f, active, open, closing, buffer, op, left, pc,
                   want, synced, failed, mishap>>

(* ResetUnusedIOZones *)
Unused(g, a) ==
    {z \in Zones \ {a} :
       /\ \A i \in 1 .. Len(g.extents) : g.extents[i].z # z
       /\ \A i \in 1 .. Wp(z) : dev[z][i] # Other}
Emptied(zs) == [z \in Zones |-> IF z \in zs THEN <<>> ELSE dev[z]]

ResetUnusedIOZones ==
    /\ pc # "down"
    /\ \E z \in Unused(f, active) : Wp(z) > 0
    /\ dev' = Emptied(Unused(f, active))
    /\ UNCHANGED <<mode, meta, f, active, open, closing, buffer, op, left, pc,
                   want, synced, failed, mishap, count>>

(* The machine stops, if it was writing then perhaps between two blocks.   *)
Crash ==
    /\ pc # "down" /\ count.crashes < MaxCrashes
    /\ count' = [count EXCEPT !.crashes = @ + 1]
    /\ \/ UNCHANGED <<dev, mishap>>
       \/ /\ pc = "write" /\ Capacity(active) > 0
          /\ \E n \in 1 .. ZoneBlocks : Partial(n)
          /\ mishap' = IF Sparse THEN mishap \cup {"cut"} ELSE mishap
    /\ pc' = "down"
    /\ f' = Empty
    /\ active' = NoZone
    /\ open' = FALSE
    /\ closing' = FALSE
    /\ buffer' = <<>>
    /\ op' = "none"
    /\ left' = <<>>
    /\ UNCHANGED <<mode, meta, want, synced, failed>>

(* Mount: Repair recovers the file, the metadata log is rolled, which      *)
(* saves it, and unused zones are reset.                                   *)
Mount ==
    /\ pc = "down"
    /\ LET r == Recover(meta)
       IN /\ r.ok
          /\ f' = r.file
          /\ meta' = r.file
          /\ dev' = Emptied(Unused(r.file, NoZone))
          /\ want' = Readable(r.file)
          /\ synced' = Len(Readable(r.file))
    /\ failed' = FALSE
    /\ mishap' = (mishap \ {"cut"})
                 \cup (IF mishap \cap {"cut", "gap"} # {} THEN {"hole"} ELSE {})
                 \cup (IF Misled(meta) THEN {"astray"} ELSE {})
    /\ pc' = "idle"
    /\ UNCHANGED <<mode, active, open, closing, buffer, op, left, count>>

Next ==
    \/ BufferedWrite
    \/ \E n \in 1 .. BufBlocks : DirectAppend(n)
    \/ \E o \in {"sync", "fsync", "close"} : DataSync(o)
    \/ AllocateNewZone
    \/ AppendPiece
    \/ DirectFull
    \/ DirectWrite
    \/ \E n \in 0 .. ZoneBlocks : WriteFails(n)
    \/ AppendEnds
    \/ DataSyncEnds
    \/ FsyncPersists
    \/ CloseWR
    \/ Reopen
    \/ \E z \in Zones : OtherWrites(z)
    \/ ResetUnusedIOZones
    \/ Crash
    \/ Mount

Spec == Init /\ [][Next]_vars

-----------------------------------------------------------------------------
(* Properties                                                              *)

Extent == [z : Zones, off : 0 .. ZoneCap, len : 1 .. ZoneCap]
FileOK(g) ==
    /\ \A i \in 1 .. Len(g.extents) : g.extents[i] \in Extent
    /\ g.start = NoExtent \/ g.start \in [z : Zones, off : 0 .. ZoneCap]
    /\ g.filepos <= g.size

(* The state has its types, no zone is written past its end, and the       *)
(* extents of an idle file that has met no error add up to its size.       *)
TypeOK ==
    /\ mode \in Modes
    /\ \A z \in Zones : Wp(z) <= ZoneCap /\ Wp(z) % B = 0
    /\ FileOK(f) /\ FileOK(meta)
    /\ active \in Zones \cup {NoZone}
    /\ open \in BOOLEAN /\ closing \in BOOLEAN /\ failed \in BOOLEAN
    /\ Len(buffer) <= BufferSize
    /\ pc \in {"idle", "alloc", "write", "flushed", "persist", "close", "down"}
    /\ synced <= Len(want)
    /\ mode # "direct" /\ ~failed => f.size = Size(f.extents)

(* Readers of the running file see the units that were appended, in their  *)
(* order, and nothing of padding, headers or other files; what was synced  *)
(* before a failed call stays readable whatever the caller does after it.  *)
(* Only what a recovery has made of a sparse extent that was cut short is  *)
(* not fixed: the zone may be written there.                               *)
ReadsWritten ==
    pc # "down" /\ "hole" \notin mishap =>
      LET c == Readable(f)
      IN /\ ~failed => IsPrefix(c, want)
         /\ Len(c) >= synced
         /\ First(c, synced) = First(want, synced)

(* No sparse extent that was cut short has been written behind or has been *)
(* recovered, and no zone the file was not writing to.                     *)
Sound == mishap \cap {"gap", "hole", "astray"} = {}

RecoversSynced ==
    LET r == Recover(meta)
        c == Readable(r.file)
    IN r.ok /\ Len(c) >= synced /\ First(c, synced) = First(want, synced)

RecoversOnlyAppended ==
    LET c == Readable(Recover(meta).file)
    IN ~failed =>
         \E n \in 0 .. Len(c) :
           /\ IsPrefix(First(c, n), want)
           /\ \A i \in n + 1 .. Len(c) : c[i] = Pad
           /\ Len(c) - n < IF mode = "buffered" THEN B ELSE 1

(* A crash at this point can be recovered from: Recover succeeds, finds    *)
(* all the units a sync has returned for, and, if no call has failed, only *)
(* units that were appended, followed by padding of the last block if the  *)
(* extents of the file do not say how long it is.  "Persist metadata so we *)
(* can recover the active extent using the zone write pointer in case      *)
(* there is a crash before syncing" (io_aquafs.cc:485).                    *)
Recoverable == RecoversSynced /\ RecoversOnlyAppended

(* What of that holds on any device: a crash can be recovered from if      *)
(* GetIOZone finds the zone of the active extent, and if no sparse write   *)
(* has failed half way and no earlier recovery has met one; a sparse write *)
(* that this crash cuts short adds units that were not written to the      *)
(* file, but none that a sync has returned for is lost.                    *)
CrashSafe ==
    Sound /\ ~Misled(meta) =>
      RecoversSynced /\ ("cut" \notin mishap => RecoversOnlyAppended)

(* The extents of the file, recovered ones too, lie below the write        *)
(* pointers of their zones, so that no other file is written over them.    *)
(* A sparse extent that was cut short reaches past it once it is recovered *)
(* (RecoverTorn.cfg).                                                      *)
ExtentsWritten ==
    Sound => \A i \in 1 .. Len(f.extents) :
               f.extents[i].off + f.extents[i].len <= Wp(f.extents[i].z)
=============================================================================
