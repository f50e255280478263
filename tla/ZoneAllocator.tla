--------------------------- MODULE ZoneAllocator ---------------------------
(***************************************************************************)
(* Zone allocation in ZonedBlockDevice (aquafs-plugin/fs/zbd_aquafs.cc) as *)
(* the writers of files (ZoneFile, io_aquafs.cc), the deletion of files    *)
(* and the garbage collector (AquaFS::MigrateFileExtents) drive it, all    *)
(* concurrently.                                                           *)
(*                                                                         *)
(* A thread owns a zone while it has won the compare-and-swap on the busy  *)
(* flag.  Every scan over the io zones takes the flag of each zone in turn *)
(* and gives it back, so other scans see zones as busy for a moment: the   *)
(* acquisition and the examination of a zone are separate steps here.      *)
(* Tokens are counted under a mutex: each change of a counter is a step.   *)
(*                                                                         *)
(* Data are counted in blocks.  Each file is used by one thread, and the   *)
(* file names that thread.                                                 *)
(***************************************************************************)
EXTENDS Integers, FiniteSets, FiniteSetsExt

CONSTANTS
  Files,            \* files, each with the thread that uses it
  Wal,              \* those written with IOType::kWAL
  Direct,           \* those opened with use_direct_writes
  Hint,             \* Hint[f]: write lifetime hint of file f
  GC,               \* the garbage collection thread
  GCEnabled,        \* whether Mount started it
  NZones,           \* number of io zones
  MaxCap,           \* capacity of a zone, in blocks
  MaxOpen,          \* max_nr_open_io_zones_
  MaxActive,        \* max_nr_active_io_zones_
  FinishThreshold,  \* finish_threshold_, in percent
  MaxWrite,         \* bound: largest append, in blocks
  Faults,           \* calls that may fail
  InitExt,          \* InitExt[f][z]: blocks file f has in zone z at mount
  InitCapacity      \* InitCapacity[z]: capacity left in zone z at mount

Zones == 1..NZones
NoZone == 0
Threads == Files \cup {GC}
Hints == 0..5       \* WLTH_NOT_SET, NONE, SHORT, MEDIUM, LONG, EXTREME
NotSet == 0

\* Blocks that a family of extents e[f][z] has in zone z.
Blocks(e, z) == Cardinality(UNION {{f} \X (1..e[f][z]) : f \in Files})

ASSUME AllocatorAssumption ==
  /\ IsFiniteSet(Files) /\ GC \notin Files
  /\ GCEnabled \in BOOLEAN
  /\ Wal \subseteq Files /\ Direct \subseteq Files
  /\ Hint \in [Files -> Hints]
  /\ NZones \in Nat \ {0} /\ MaxCap \in Nat \ {0}
  /\ MaxOpen \in Nat \ {0} /\ MaxActive \in Nat \ {0}
  /\ FinishThreshold \in 0..100
  /\ MaxWrite \in Nat \ {0}
  /\ Faults \subseteq {"close", "finish", "reset", "write", "persist", "migrate"}

\* What Mount leaves: no more active zones than the device allows, and the
\* zones without live data have been reset.
ASSUME MountAssumption ==
  /\ InitExt \in [Files -> [Zones -> 0..MaxCap]]
  /\ InitCapacity \in [Zones -> 0..MaxCap]
  /\ \A z \in Zones : Blocks(InitExt, z) <= MaxCap - InitCapacity[z]
  /\ \A z \in Zones : Blocks(InitExt, z) = 0 => InitCapacity[z] = MaxCap
  /\ Cardinality({z \in Zones : InitCapacity[z] \in 1..(MaxCap-1)}) <= MaxActive

VARIABLES
  capacity, used, lifetime, busy,  \* per zone: capacity_, used_capacity_,
                                   \* lifetime_, busy_
  open_io_zones, active_io_zones,
  pc,                              \* per thread: where it stands
  idx, cur,                        \* its scan: next zone, zone it examines
  zone,                            \* the zone it keeps: allocated_zone and
                                   \* then active_zone_, finish_victim,
                                   \* target_zone
  got,                             \* it has an active token without a zone
  owe,                             \* it returns an active token before it
                                   \* goes on
  ext, pend, left,                 \* per file: blocks in extents_, blocks
                                   \* written and not pushed, blocks the
                                   \* append still has to write
  ret, wr,                         \* per file: what a closed zone is for;
                                   \* open_for_wr_mtx_ is locked
  gc, orphan,                      \* the migration; the extents of a file
                                   \* deleted meanwhile
  lost,                            \* history: blocks of extents that no list
                                   \* holds and nobody has released
  missing,                         \* history: blocks of copies that the
                                   \* device has not written
  deferred                         \* zone_deferred_status_

zoneVars == <<capacity, used, lifetime, busy>>
tokenVars == <<open_io_zones, active_io_zones>>
scanVars == <<idx, cur>>
fileVars == <<ext, pend, left, ret, wr>>
gcVars == <<gc, orphan, lost, missing>>
vars == <<zoneVars, tokenVars, pc, scanVars, zone, got, owe, fileVars,
          gcVars, deferred>>

-----------------------------------------------------------------------------
IsEmpty(z) == capacity[z] = MaxCap
IsFull(z) == capacity[z] = 0
Partial(z) == ~IsEmpty(z) /\ ~IsFull(z)

NotGood == 100
CouldBeWorse == 50

GetLifeTimeDiff(zl, fl) ==
  CASE fl < 2 -> IF zl = fl THEN 0 ELSE NotGood
    [] fl >= 2 /\ zl > fl -> zl - fl
    [] fl >= 2 /\ zl = fl -> CouldBeWorse
    [] fl >= 2 /\ zl < fl -> NotGood

\* The lifetime difference of the zone a match has kept so far.
BestDiff(t, hint) ==
  IF zone[t] = NoZone THEN NotGood ELSE GetLifeTimeDiff(lifetime[zone[t]], hint)

Limit(f) == IF f \in Wal THEN MaxOpen ELSE MaxOpen - 1

NoExtents == [z \in Zones |-> 0]
NoMigration ==
  [file |-> GC, src |-> NoZone, dst |-> NoZone, n |-> 0, copy |-> NoExtents,
   lock |-> FALSE, moved |-> FALSE, gone |-> FALSE]

\* The file is in files_; the collector works on it.
Exists(f) == pc[f] \notin {"none", "reset"}
Migrating(f) == gc.lock /\ ~gc.gone /\ gc.file = f

\* The write lock of a file is a plain mutex: ReleaseWRLock unlocks it for
\* whoever has it.
AcquireWRLock(f) == ~wr[f] /\ wr' = [wr EXCEPT ![f] = TRUE]
ReleaseWRLock(f) == wr' = [wr EXCEPT ![f] = FALSE]

GoTo(t, stage) == pc' = [pc EXCEPT ![t] = stage]

\* Starts a scan over the io zones.
Scan(t, stage) ==
  /\ GoTo(t, stage)
  /\ idx' = [idx EXCEPT ![t] = 1]

\* A stage whose thread has nothing to do first: no token to return.
On(t, stage) == pc[t] = stage /\ ~owe[t]

\* The scan in this stage looks at a zone; it has seen them all.
Examines(t, stage) == On(t, stage) /\ cur[t] # NoZone
Exhausted(t, stage) == On(t, stage) /\ cur[t] = NoZone /\ idx[t] > NZones

\* The end of a scan.
EndScan(t) ==
  /\ idx' = [idx EXCEPT ![t] = 1]
  /\ UNCHANGED cur

\* Zone::Release of zone z, nothing if z is NoZone.
Released(z) == [y \in Zones |-> busy[y] /\ y # z]

\* A scan is through with the zone it examines: it gives the zone back, or
\* keeps it in place of the one it had kept.
GiveBack(t) ==
  /\ busy' = Released(cur[t])
  /\ cur' = [cur EXCEPT ![t] = NoZone]
  /\ idx' = [idx EXCEPT ![t] = @ + 1]
  /\ UNCHANGED zone

\* Mutant of Keep: the zone kept so far stays flagged.
KeepBoth(t) ==
  /\ UNCHANGED busy
  /\ zone' = [zone EXCEPT ![t] = cur[t]]
  /\ cur' = [cur EXCEPT ![t] = NoZone]
  /\ idx' = [idx EXCEPT ![t] = @ + 1]

Keep(t) ==
  /\ busy' = Released(zone[t])
  /\ zone' = [zone EXCEPT ![t] = cur[t]]
  /\ cur' = [cur EXCEPT ![t] = NoZone]
  /\ idx' = [idx EXCEPT ![t] = @ + 1]

\* Mutant of LetGo: the thread forgets the zone without releasing it.
LetGoFlagged(t) ==
  /\ UNCHANGED busy
  /\ zone' = [zone EXCEPT ![t] = NoZone]

\* The thread releases the zone it has kept.
LetGo(t) ==
  /\ busy' = Released(zone[t])
  /\ zone' = [zone EXCEPT ![t] = NoZone]

\* Mutant of AppendTo: capacity_ is not updated.
AppendToUncounted(z, n) == UNCHANGED capacity

\* Zone::Append of n blocks.
AppendTo(z, n) == capacity' = [capacity EXCEPT ![z] = @ - n]

\* Zone::Finish and Zone::Reset of a zone that is not offline.
Finish(z) == capacity' = [capacity EXCEPT ![z] = 0]
Reset(z) ==
  /\ capacity' = [capacity EXCEPT ![z] = MaxCap]
  /\ lifetime' = [lifetime EXCEPT ![z] = NotSet]
  /\ missing' = [missing EXCEPT ![z] = 0]

ScanStages == {"threshold", "match", "finish", "empty", "reset", "gcmatch"}

-----------------------------------------------------------------------------
Init ==
  /\ capacity = InitCapacity
  /\ used = [z \in Zones |-> Blocks(InitExt, z)]
  /\ lifetime = [z \in Zones |-> NotSet]
  /\ busy = [z \in Zones |-> FALSE]
  /\ open_io_zones = 0
  /\ active_io_zones = Cardinality({z \in Zones : Partial(z)})
  /\ pc = [t \in Threads |->
             IF t = GC THEN "gcidle"
             ELSE IF InitExt[t] = NoExtents THEN "none" ELSE "closed"]
  /\ idx = [t \in Threads |-> 1]
  /\ cur = [t \in Threads |-> NoZone]
  /\ zone = [t \in Threads |-> NoZone]
  /\ got = [t \in Threads |-> FALSE]
  /\ owe = [t \in Threads |-> FALSE]
  /\ ext = InitExt
  /\ pend = [f \in Files |-> 0]
  /\ left = [f \in Files |-> 0]
  /\ ret = [f \in Files |-> "seal"]
  /\ wr = [f \in Files |-> FALSE]
  /\ gc = NoMigration
  /\ orphan = NoExtents
  /\ lost = NoExtents
  /\ missing = NoExtents
  /\ deferred = "OK"

-----------------------------------------------------------------------------
(* Steps shared by all scans.                                              *)

\* for (const auto z : io_zones) if (z->Acquire()) ...
AcquireNext(t) ==
  /\ pc[t] \in ScanStages /\ ~owe[t]
  /\ cur[t] = NoZone /\ idx[t] <= NZones
  /\ \/ /\ ~busy[idx[t]]
        /\ busy' = [busy EXCEPT ![idx[t]] = TRUE]
        /\ cur' = [cur EXCEPT ![t] = idx[t]]
        /\ UNCHANGED idx
     \/ /\ busy[idx[t]]
        /\ idx' = [idx EXCEPT ![t] = @ + 1]
        /\ UNCHANGED <<busy, cur>>
  /\ UNCHANGED <<capacity, used, lifetime, tokenVars, pc, zone, got, owe,
                 fileVars, gcVars, deferred>>

PutActiveIOZoneToken(t) ==
  /\ owe[t]
  /\ active_io_zones' = active_io_zones - 1
  /\ owe' = [owe EXCEPT ![t] = FALSE]
  /\ UNCHANGED <<zoneVars, open_io_zones, pc, scanVars, zone, got, fileVars,
                 gcVars, deferred>>

-----------------------------------------------------------------------------
(* The user of a file.                                                     *)

OpenWritableFile(f) ==
  /\ On(f, "none")
  /\ AcquireWRLock(f)
  /\ GoTo(f, "open")
  /\ ret' = [ret EXCEPT ![f] = "roll"]
  /\ UNCHANGED <<zoneVars, tokenVars, scanVars, zone, got, owe, ext, pend, left,
                 gcVars, deferred>>

\* ReopenWritableFile waits for the write lock of the file.
ReopenWritableFile(f) ==
  /\ On(f, "closed")
  /\ AcquireWRLock(f)
  /\ GoTo(f, "open")
  /\ ret' = [ret EXCEPT ![f] = "roll"]
  /\ UNCHANGED <<zoneVars, tokenVars, scanVars, zone, got, owe, ext, pend, left,
                 gcVars, deferred>>

\* An append, or the flush of the buffer of a buffered file.
Write(f) ==
  /\ On(f, "open") \/ On(f, "failed")
  /\ \E n \in 1..MaxWrite : left' = [left EXCEPT ![f] = n]
  /\ GoTo(f, "append")
  /\ UNCHANGED <<zoneVars, tokenVars, scanVars, zone, got, owe, ext, pend, ret,
                 wr, gcVars, deferred>>

\* The extents and the used capacity after PushExtent: the blocks written to
\* the active zone since the last push.
Pushed(f) == [ext EXCEPT ![f] =
                [z \in Zones |-> @[z] + (IF z = zone[f] THEN pend[f] ELSE 0)]]

UsedPushed(f) ==
  [z \in Zones |-> used[z] + (IF z = zone[f] THEN pend[f] ELSE 0)]

PushExtent(f) ==
  /\ ext' = Pushed(f)
  /\ used' = UsedPushed(f)
  /\ pend' = [pend EXCEPT ![f] = 0]

\* DataSync of a file with direct writes.
DataSync(f) ==
  /\ On(f, "open") \/ On(f, "failed")
  /\ f \in Direct /\ pend[f] > 0
  /\ PushExtent(f)
  /\ UNCHANGED <<capacity, lifetime, busy, tokenVars, pc, scanVars, zone, got,
                 owe, left, ret, wr, gcVars, deferred>>

\* CloseInternal: DataSync and CloseWR, which gives the write lock up before it
\* closes the active zone.  After a failed flush a buffered file must flush
\* again first, which is a Write.
CloseWR(f) ==
  /\ On(f, "open") \/ (On(f, "failed") /\ f \in Direct)
  /\ PushExtent(f)
  /\ ReleaseWRLock(f)
  /\ ret' = [ret EXCEPT ![f] = "seal"]
  /\ GoTo(f, IF zone[f] = NoZone THEN "closed" ELSE "closing")
  /\ UNCHANGED <<capacity, lifetime, busy, tokenVars, scanVars, zone, got, owe,
                 left, gcVars, deferred>>

\* Only a status that is already an error is ever replaced.
SetZoneDeferredStatus(s) == deferred' = IF deferred = "OK" THEN deferred ELSE s

\* CloseInternal keeps failing until the destructor of ZonedWritableFile gives
\* up: the flush of a buffered file finds no zone, or CloseWR cannot persist
\* the metadata.  The write lock and the zone are never given back.
Abandon(f) ==
  /\ \/ On(f, "failed") /\ f \notin Direct
     \/ (On(f, "open") \/ On(f, "failed")) /\ "persist" \in Faults
  /\ PushExtent(f)
  /\ GoTo(f, "dead")
  /\ SetZoneDeferredStatus("IOError")
  /\ UNCHANGED <<capacity, lifetime, busy, tokenVars, scanVars, zone, got, owe,
                 left, ret, wr, gcVars>>

\* After a close that failed at the active zone, which is gone now, the
\* destructor closes again.  Nothing is left to write; unless the metadata
\* cannot be persisted the write lock is released a second time.
CloseAgain(f) ==
  /\ On(f, "unclosed")
  /\ \/ ReleaseWRLock(f) /\ UNCHANGED deferred
     \/ /\ "persist" \in Faults
        /\ SetZoneDeferredStatus("IOError")
        /\ UNCHANGED wr
  /\ GoTo(f, "closed")
  /\ UNCHANGED <<zoneVars, tokenVars, scanVars, zone, got, owe, ext, pend, left,
                 ret, gcVars>>

\* used_capacity_ without the extents e of a destroyed ZoneFile.
ClearExtents(e) == [z \in Zones |-> used[z] - e[z]]

\* DeleteFile: ~ZoneFile gives the extents up unless the collector still
\* refers to the file; then ResetUnusedIOZones.
DeleteFile(f) ==
  /\ On(f, "closed")
  /\ IF Migrating(f)
     THEN /\ gc' = [gc EXCEPT !.gone = TRUE]
          /\ orphan' = ext[f]
          /\ UNCHANGED <<used, lost, missing>>
     ELSE /\ used' = ClearExtents(ext[f])
          /\ UNCHANGED gcVars
  /\ ext' = [ext EXCEPT ![f] = NoExtents]
  /\ ReleaseWRLock(f)
  /\ Scan(f, "reset")
  /\ UNCHANGED <<capacity, lifetime, busy, tokenVars, cur, zone, got, owe, pend,
                 left, ret, deferred>>

-----------------------------------------------------------------------------
(* ResetUnusedIOZones, after a deletion and after a migration.             *)

AfterReset(t) == GoTo(t, IF t = GC THEN "gcidle" ELSE "none")

\* Mutant of Unused: IsUsed is not asked.
UnusedUnchecked(z) == ~IsEmpty(z)

Unused(z) == ~IsEmpty(z) /\ used[z] = 0

\* Mutant of HoldsActiveToken: a reset returns a token always.
HoldsAlways(z) == TRUE

\* Whether the reset of zone z returns an active token.
HoldsActiveToken(z) == ~IsFull(z)

ResetUnusedIOZones(t) ==
  /\ \/ /\ Examines(t, "reset") /\ Unused(cur[t])
        /\ owe' = [owe EXCEPT ![t] = HoldsActiveToken(cur[t])]
        /\ Reset(cur[t])
        /\ GiveBack(t)
        /\ UNCHANGED pc
     \/ /\ Examines(t, "reset") /\ Unused(cur[t])
        /\ "reset" \in Faults
        /\ GiveBack(t)
        /\ AfterReset(t)
        /\ UNCHANGED <<capacity, lifetime, missing, owe>>
     \/ /\ Examines(t, "reset") /\ ~Unused(cur[t])
        /\ GiveBack(t)
        /\ UNCHANGED <<capacity, lifetime, missing, owe, pc>>
     \/ /\ Exhausted(t, "reset")
        /\ EndScan(t)
        /\ AfterReset(t)
        /\ UNCHANGED <<capacity, lifetime, missing, busy, zone, owe>>
  /\ UNCHANGED <<used, tokenVars, got, fileVars, gc, orphan, lost, deferred>>

-----------------------------------------------------------------------------
(* ZoneFile::Append, BufferedAppend, SparseAppend.                         *)

\* Mutant of Chunk: the write is not cut at the end of the zone.
ChunkUncut(f) == left[f]

\* What the next write to the active zone takes.
Chunk(f) == Min({left[f], capacity[zone[f]]})

\* A direct append that finds its zone full pushes its extent and rolls on.
RollZone(f) ==
  /\ On(f, "append") /\ zone[f] # NoZone /\ left[f] > 0
  /\ f \in Direct /\ IsFull(zone[f])
  /\ PushExtent(f)
  /\ GoTo(f, "closing")
  /\ UNCHANGED <<capacity, lifetime, busy, tokenVars, scanVars, zone, got, owe,
                 left, ret, wr, gcVars, deferred>>

Append(f) ==
  /\ On(f, "append") /\ zone[f] # NoZone /\ left[f] > 0
  /\ f \in Direct /\ ~IsFull(zone[f])
  /\ AppendTo(zone[f], Chunk(f))
  /\ pend' = [pend EXCEPT ![f] = @ + Chunk(f)]
  /\ left' = [left EXCEPT ![f] = @ - Chunk(f)]
  /\ UNCHANGED <<used, lifetime, busy, tokenVars, pc, scanVars, zone, got, owe,
                 ext, ret, wr, gcVars, deferred>>

\* A buffered append records an extent per write; when that fills the zone it
\* closes it and allocates the next one, even if nothing is left to write.
BufferedAppend(f) ==
  /\ On(f, "append") /\ zone[f] # NoZone /\ left[f] > 0
  /\ f \notin Direct
  /\ AppendTo(zone[f], Chunk(f))
  /\ ext' = [ext EXCEPT ![f][zone[f]] = @ + Chunk(f)]
  /\ used' = [used EXCEPT ![zone[f]] = @ + Chunk(f)]
  /\ left' = [left EXCEPT ![f] = @ - Chunk(f)]
  /\ GoTo(f, IF capacity'[zone[f]] = 0 THEN "closing" ELSE "append")
  /\ UNCHANGED <<lifetime, busy, tokenVars, scanVars, zone, got, owe, pend, ret,
                 wr, gcVars, deferred>>

\* The device fails after part of the write: the write pointer has moved and
\* no extent records it.
AppendFails(f) ==
  /\ On(f, "append") /\ zone[f] # NoZone /\ left[f] > 0
  /\ "write" \in Faults /\ ~IsFull(zone[f])
  /\ \E n \in 0..(Chunk(f) - 1) : AppendTo(zone[f], n)
  /\ left' = [left EXCEPT ![f] = 0]
  /\ GoTo(f, "failed")
  /\ UNCHANGED <<used, lifetime, busy, tokenVars, scanVars, zone, got, owe, ext,
                 pend, ret, wr, gcVars, deferred>>

AppendDone(f) ==
  /\ On(f, "append") /\ zone[f] # NoZone /\ left[f] = 0
  /\ GoTo(f, "open")
  /\ UNCHANGED <<zoneVars, tokenVars, scanVars, zone, got, owe, fileVars, gcVars,
                 deferred>>

\* CloseActiveZone.  If the device fails to close a zone that is neither empty
\* nor full, the zone is released and no token is returned.
CloseActiveZone(f) ==
  /\ On(f, "closing")
  /\ LetGo(f)
  /\ \/ /\ got' = [got EXCEPT ![f] = IsFull(zone[f])]
        /\ GoTo(f, "putopen")
        /\ UNCHANGED left
     \/ /\ Partial(zone[f]) /\ "close" \in Faults
        /\ GoTo(f, IF ret[f] = "seal" THEN "unclosed" ELSE "failed")
        /\ left' = [left EXCEPT ![f] = 0]
        /\ UNCHANGED got
  /\ UNCHANGED <<capacity, used, lifetime, tokenVars, scanVars, owe, ext, pend,
                 ret, wr, gcVars, deferred>>

\* PutOpenIOZoneToken at the end of CloseActiveZone or of an allocation that
\* failed; a zone that was full owes its active token next.
PutOpenIOZoneToken(f) ==
  /\ On(f, "putopen")
  /\ open_io_zones' = open_io_zones - 1
  /\ owe' = [owe EXCEPT ![f] = got[f]]
  /\ got' = [got EXCEPT ![f] = FALSE]
  /\ \/ /\ ret[f] = "seal"
        /\ GoTo(f, "closed")
        /\ UNCHANGED <<left, ret>>
     \/ /\ ret[f] = "roll"
        /\ GoTo(f, "append")
        /\ UNCHANGED <<left, ret>>
     \/ /\ ret[f] = "fail"
        /\ GoTo(f, "failed")
        /\ left' = [left EXCEPT ![f] = 0]
        /\ ret' = [ret EXCEPT ![f] = "roll"]
  /\ UNCHANGED <<zoneVars, active_io_zones, scanVars, zone, ext, pend, wr,
                 gcVars, deferred>>

-----------------------------------------------------------------------------
(* AllocateIOZone.                                                         *)

\* The append goes on in the zone it has got, once the metadata that names the
\* zone are persisted; if that fails the append does.
SetActiveZone(f) ==
  \/ GoTo(f, "append") /\ UNCHANGED left
  \/ /\ "persist" \in Faults
     /\ GoTo(f, "failed") /\ left' = [left EXCEPT ![f] = 0]

\* The append has no zone: AllocateNewZone.  WAL files skip the threshold.
AllocateIOZone(f) ==
  /\ On(f, "append") /\ zone[f] = NoZone
  /\ Scan(f, IF deferred # "OK" THEN "failed"
             ELSE IF f \in Wal \/ FinishThreshold = 0 THEN "token"
             ELSE "threshold")
  /\ UNCHANGED <<zoneVars, tokenVars, cur, zone, got, owe, fileVars, gcVars,
                 deferred>>

WithinFinishThreshold(z) ==
  Partial(z) /\ capacity[z] < (MaxCap * FinishThreshold) \div 100

ApplyFinishThreshold(f) ==
  /\ \/ /\ Examines(f, "threshold") /\ WithinFinishThreshold(cur[f])
        /\ Finish(cur[f])
        /\ owe' = [owe EXCEPT ![f] = TRUE]
        /\ GiveBack(f)
        /\ UNCHANGED <<pc, left>>
     \/ /\ Examines(f, "threshold") /\ WithinFinishThreshold(cur[f])
        /\ "finish" \in Faults
        /\ GiveBack(f)
        /\ GoTo(f, "failed")
        /\ left' = [left EXCEPT ![f] = 0]
        /\ UNCHANGED <<capacity, owe>>
     \/ /\ Examines(f, "threshold") /\ ~WithinFinishThreshold(cur[f])
        /\ GiveBack(f)
        /\ UNCHANGED <<capacity, owe, pc, left>>
     \/ /\ Exhausted(f, "threshold")
        /\ EndScan(f)
        /\ GoTo(f, "token")
        /\ UNCHANGED <<capacity, busy, zone, owe, left>>
  /\ UNCHANGED <<used, lifetime, tokenVars, got, ext, pend, ret, wr, gcVars,
                 deferred>>

\* Mutant of WaitForOpenIOZoneToken: the token is not counted.
WaitUncounted(f) ==
  /\ On(f, "token")
  /\ open_io_zones < Limit(f)
  /\ Scan(f, "match")
  /\ UNCHANGED <<zoneVars, tokenVars, cur, zone, got, owe, fileVars, gcVars,
                 deferred>>

\* The wait itself is the subject of ZoneTokens.
WaitForOpenIOZoneToken(f) ==
  /\ On(f, "token")
  /\ open_io_zones < Limit(f)
  /\ open_io_zones' = open_io_zones + 1
  /\ Scan(f, "match")
  /\ UNCHANGED <<zoneVars, active_io_zones, cur, zone, got, owe, fileVars, gcVars,
                 deferred>>

\* The zone under examination is at least as good as the one kept.
Matches(t, hint, min_capacity) ==
  /\ used[cur[t]] > 0 /\ ~IsFull(cur[t])
  /\ capacity[cur[t]] >= min_capacity
  /\ GetLifeTimeDiff(lifetime[cur[t]], hint) <= BestDiff(t, hint)

GetBestOpenZoneMatch(f) ==
  /\ \/ /\ Examines(f, "match") /\ Matches(f, Hint[f], 0)
        /\ Keep(f)
        /\ UNCHANGED <<pc, left>>
     \/ /\ Examines(f, "match") /\ ~Matches(f, Hint[f], 0)
        /\ GiveBack(f)
        /\ UNCHANGED <<pc, left>>
     \/ /\ Exhausted(f, "match")
        /\ EndScan(f)
        /\ BestDiff(f, Hint[f]) < CouldBeWorse
        /\ SetActiveZone(f)
        /\ UNCHANGED <<busy, zone>>
     \/ /\ Exhausted(f, "match")
        /\ EndScan(f)
        /\ BestDiff(f, Hint[f]) >= CouldBeWorse
        /\ GoTo(f, "active")
        /\ UNCHANGED <<busy, zone, left>>
  /\ UNCHANGED <<capacity, used, lifetime, tokenVars, got, owe, ext, pend, ret,
                 wr, gcVars, deferred>>

\* Takes an active token if there is one, for the first time ("active") or in
\* the loop that finishes zones until one is free ("retry").
GetActiveIOZoneTokenIfAvailable(f) ==
  /\ On(f, "active") \/ On(f, "retry")
  /\ \/ /\ active_io_zones < MaxActive
        /\ active_io_zones' = active_io_zones + 1
        /\ got' = [got EXCEPT ![f] = TRUE]
        /\ Scan(f, IF pc[f] = "active" THEN "drop" ELSE "empty")
     \/ /\ active_io_zones >= MaxActive
        /\ Scan(f, IF pc[f] = "active" THEN "drop" ELSE "finish")
        /\ UNCHANGED <<active_io_zones, got>>
  /\ UNCHANGED <<zoneVars, open_io_zones, cur, zone, owe, fileVars, gcVars,
                 deferred>>

\* Without a token the best match is used if it could be worse; otherwise it is
\* released for an empty zone.
RelaxOrDrop(f) ==
  /\ On(f, "drop")
  /\ IF ~got[f] /\ BestDiff(f, Hint[f]) = CouldBeWorse
     THEN SetActiveZone(f) /\ UNCHANGED <<busy, idx, zone>>
     ELSE LetGo(f) /\ Scan(f, IF got[f] THEN "empty" ELSE "retry")
          /\ UNCHANGED left
  /\ UNCHANGED <<capacity, used, lifetime, tokenVars, cur, got, owe, ext, pend,
                 ret, wr, gcVars, deferred>>

\* The cheapest zone to finish: the one with the least capacity left.
Cheaper(f) ==
  /\ Partial(cur[f])
  /\ zone[f] # NoZone => capacity[zone[f]] > capacity[cur[f]]

FinishCheapestIOZone(f) ==
  /\ \/ /\ Examines(f, "finish") /\ Cheaper(f)
        /\ Keep(f)
        /\ UNCHANGED <<capacity, pc, owe, ret>>
     \/ /\ Examines(f, "finish") /\ ~Cheaper(f)
        /\ GiveBack(f)
        /\ UNCHANGED <<capacity, pc, owe, ret>>
     \/ /\ Exhausted(f, "finish") /\ zone[f] = NoZone
        /\ EndScan(f)
        /\ GoTo(f, "retry")
        /\ UNCHANGED <<capacity, busy, zone, owe, ret>>
     \/ /\ Exhausted(f, "finish") /\ zone[f] # NoZone
        /\ EndScan(f)
        /\ Finish(zone[f])
        /\ LetGo(f)
        /\ owe' = [owe EXCEPT ![f] = TRUE]
        /\ GoTo(f, "retry")
        /\ UNCHANGED ret
     \/ /\ Exhausted(f, "finish") /\ zone[f] # NoZone
        /\ EndScan(f)
        /\ "finish" \in Faults
        /\ LetGo(f)
        /\ GoTo(f, "putopen")
        /\ ret' = [ret EXCEPT ![f] = "fail"]
        /\ UNCHANGED <<capacity, owe>>
  /\ UNCHANGED <<used, lifetime, tokenVars, got, ext, pend, left, wr, gcVars,
                 deferred>>

\* The first empty zone, which the active token is for; without one both
\* tokens go back and the append fails with NoSpace.
AllocateEmptyZone(f) ==
  /\ \/ /\ Examines(f, "empty") /\ IsEmpty(cur[f])
        /\ lifetime' = [lifetime EXCEPT ![cur[f]] = Hint[f]]
        /\ Keep(f)
        /\ got' = [got EXCEPT ![f] = FALSE]
        /\ SetActiveZone(f)
        /\ UNCHANGED <<owe, ret>>
     \/ /\ Examines(f, "empty") /\ ~IsEmpty(cur[f])
        /\ GiveBack(f)
        /\ UNCHANGED <<lifetime, pc, got, owe, left, ret>>
     \/ /\ Exhausted(f, "empty")
        /\ EndScan(f)
        /\ got' = [got EXCEPT ![f] = FALSE]
        /\ owe' = [owe EXCEPT ![f] = TRUE]
        /\ GoTo(f, "putopen")
        /\ ret' = [ret EXCEPT ![f] = "fail"]
        /\ UNCHANGED <<lifetime, busy, zone, left>>
  /\ UNCHANGED <<capacity, used, tokenVars, ext, pend, wr, gcVars, deferred>>

-----------------------------------------------------------------------------
(* The garbage collector.                                                  *)

\* GCWorker takes a snapshot and picks an extent in a full zone that holds
\* garbage; files that are open for writing are not in the snapshot.  Only
\* .sst files are migrated: WAL files, named .log, never are.
GCSnapshot ==
  /\ On(GC, "gcidle") /\ GCEnabled
  /\ \E f \in Files, z \in Zones :
       /\ Exists(f) /\ ~wr[f] /\ f \notin Wal
       /\ IsFull(z) /\ used[z] < MaxCap /\ ext[f][z] > 0
       /\ gc' = [NoMigration EXCEPT !.file = f, !.src = z, !.n = ext[f][z]]
  /\ GoTo(GC, "gclock")
  /\ UNCHANGED <<zoneVars, tokenVars, scanVars, zone, got, owe, fileVars, orphan,
                 lost, missing, deferred>>

\* MigrateFileExtents looks the file up again, tries its write lock and copies
\* the list of its extents; the extent of the snapshot may be gone by now.
TryAcquireWRLock ==
  /\ On(GC, "gclock")
  /\ \/ /\ ~Exists(gc.file) \/ wr[gc.file]
        /\ gc' = NoMigration
        /\ Scan(GC, "reset")
        /\ UNCHANGED wr
     \/ /\ Exists(gc.file)
        /\ AcquireWRLock(gc.file)
        /\ gc' = [gc EXCEPT !.lock = TRUE, !.copy = ext[gc.file]]
        /\ Scan(GC, IF ext[gc.file][gc.src] = gc.n THEN "gcmatch" ELSE "gcreplace")
  /\ UNCHANGED <<zoneVars, tokenVars, cur, zone, got, owe, ext, pend, left, ret,
                 orphan, lost, missing, deferred>>

TakeMigrateZone ==
  /\ \/ /\ Examines(GC, "gcmatch") /\ Matches(GC, Hint[gc.file], gc.n)
        /\ Keep(GC)
        /\ UNCHANGED pc
     \/ /\ Examines(GC, "gcmatch") /\ ~Matches(GC, Hint[gc.file], gc.n)
        /\ GiveBack(GC)
        /\ UNCHANGED pc
     \/ /\ Exhausted(GC, "gcmatch")
        /\ EndScan(GC)
        /\ GoTo(GC, IF zone[GC] = NoZone THEN "gcreplace" ELSE "gcmove")
        /\ UNCHANGED <<busy, zone>>
  /\ UNCHANGED <<capacity, used, lifetime, tokenVars, got, owe, fileVars, gcVars,
                 deferred>>

\* Nobody looks at the status of the copy: when the device fails, part of the
\* blocks are missing from it and the migration goes on.
MigrateData ==
  /\ On(GC, "gcmove")
  /\ \E n \in 0..gc.n :
       /\ n = gc.n \/ "migrate" \in Faults
       /\ AppendTo(zone[GC], n)
       /\ missing' = [missing EXCEPT ![zone[GC]] = @ + (gc.n - n)]
  /\ GoTo(GC, "gcswap")
  /\ UNCHANGED <<used, lifetime, busy, tokenVars, scanVars, zone, got, owe,
                 fileVars, gc, orphan, lost, deferred>>

\* If a file of that name still exists the copy becomes the extent; the target
\* zone is released in any case.
ReleaseMigrateZone ==
  /\ On(GC, "gcswap")
  /\ IF Exists(gc.file)
     THEN /\ used' = [used EXCEPT ![zone[GC]] = @ + gc.n]
          /\ gc' = [gc EXCEPT !.moved = TRUE, !.dst = zone[GC]]
     ELSE UNCHANGED <<used, gc>>
  /\ LetGo(GC)
  /\ GoTo(GC, "gcreplace")
  /\ UNCHANGED <<capacity, lifetime, tokenVars, scanVars, got, owe, fileVars,
                 orphan, lost, missing, deferred>>

\* Mutant of Moved: the old extent stays in the list.
MovedCopy(e) ==
  [z \in Zones |-> e[z] + (IF gc.moved /\ z = gc.dst THEN gc.n ELSE 0)]

\* The extents e with the migrated one replaced.
Moved(e) ==
  [z \in Zones |-> e[z] + (IF gc.moved /\ z = gc.dst THEN gc.n ELSE 0)
                        - (IF gc.moved /\ z = gc.src THEN gc.n ELSE 0)]

\* The extents of the file that is migrated, deleted meanwhile or not.
CurrentList == IF gc.gone THEN orphan ELSE ext[gc.file]

\* The list of the file is replaced by the changed copy.  What a writer has
\* pushed since the copy was made is in neither; that takes a write lock freed
\* by CloseAgain while the collector has it.
ReplaceExtentList ==
  /\ On(GC, "gcreplace")
  /\ IF gc.gone
     THEN orphan' = Moved(gc.copy) /\ UNCHANGED ext
     ELSE ext' = [ext EXCEPT ![gc.file] = Moved(gc.copy)] /\ UNCHANGED orphan
  /\ lost' = [z \in Zones |-> lost[z] + (CurrentList[z] - gc.copy[z])]
  /\ GoTo(GC, "gcsync")
  /\ UNCHANGED <<zoneVars, tokenVars, scanVars, zone, got, owe, pend, left, ret,
                 wr, gc, missing, deferred>>

OldExtent(z) == IF gc.moved /\ z = gc.src THEN gc.n ELSE 0

\* SyncFileMetadata and the release of the old extent, which is skipped if the
\* metadata cannot be persisted; then the write lock, the last reference to a
\* deleted file, and ResetUnusedIOZones.
SyncFileExtents ==
  /\ On(GC, "gcsync")
  /\ \/ /\ used' = [z \in Zones |-> ClearExtents(orphan)[z] - OldExtent(z)]
        /\ UNCHANGED lost
     \/ /\ "persist" \in Faults /\ ~gc.gone
        /\ lost' = [z \in Zones |-> lost[z] + OldExtent(z)]
        /\ UNCHANGED used
  /\ IF gc.gone THEN UNCHANGED wr ELSE ReleaseWRLock(gc.file)
  /\ orphan' = NoExtents
  /\ gc' = NoMigration
  /\ Scan(GC, "reset")
  /\ UNCHANGED <<capacity, lifetime, busy, tokenVars, cur, zone, got, owe, ext,
                 pend, left, ret, missing, deferred>>

-----------------------------------------------------------------------------
FileNext(f) ==
  \/ OpenWritableFile(f)
  \/ ReopenWritableFile(f)
  \/ Write(f)
  \/ DataSync(f)
  \/ CloseWR(f)
  \/ Abandon(f)
  \/ CloseAgain(f)
  \/ DeleteFile(f)
  \/ RollZone(f)
  \/ Append(f)
  \/ BufferedAppend(f)
  \/ AppendFails(f)
  \/ AppendDone(f)
  \/ CloseActiveZone(f)
  \/ PutOpenIOZoneToken(f)
  \/ AllocateIOZone(f)
  \/ ApplyFinishThreshold(f)
  \/ WaitForOpenIOZoneToken(f)
  \/ GetBestOpenZoneMatch(f)
  \/ GetActiveIOZoneTokenIfAvailable(f)
  \/ RelaxOrDrop(f)
  \/ FinishCheapestIOZone(f)
  \/ AllocateEmptyZone(f)

GCNext ==
  \/ GCSnapshot
  \/ TryAcquireWRLock
  \/ TakeMigrateZone
  \/ MigrateData
  \/ ReleaseMigrateZone
  \/ ReplaceExtentList
  \/ SyncFileExtents

Next ==
  \/ \E t \in Threads : \/ AcquireNext(t)
                        \/ PutActiveIOZoneToken(t)
                        \/ ResetUnusedIOZones(t)
  \/ \E f \in Files : FileNext(f)
  \/ GCNext

Spec == Init /\ [][Next]_vars

-----------------------------------------------------------------------------
FileStages ==
  {"none", "open", "failed", "append", "threshold", "token", "match", "active",
   "drop", "retry", "finish", "empty", "closing", "putopen", "unclosed",
   "closed", "reset", "dead"}
GCStages ==
  {"gcidle", "gclock", "gcmatch", "gcmove", "gcswap", "gcreplace", "gcsync",
   "reset"}

TypeOK ==
  /\ capacity \in [Zones -> 0..MaxCap]
  /\ used \in [Zones -> Nat]
  /\ lifetime \in [Zones -> Hints]
  /\ busy \in [Zones -> BOOLEAN]
  /\ open_io_zones \in 0..MaxOpen
  /\ active_io_zones \in 0..MaxActive
  /\ pc \in [Threads -> FileStages \cup GCStages]
  /\ \A f \in Files : pc[f] \in FileStages
  /\ pc[GC] \in GCStages
  /\ idx \in [Threads -> 1..(NZones + 1)]
  /\ cur \in [Threads -> Zones \cup {NoZone}]
  /\ zone \in [Threads -> Zones \cup {NoZone}]
  /\ got \in [Threads -> BOOLEAN]
  /\ owe \in [Threads -> BOOLEAN]
  /\ ext \in [Files -> [Zones -> Nat]]
  /\ pend \in [Files -> Nat]
  /\ left \in [Files -> 0..MaxWrite]
  /\ ret \in [Files -> {"seal", "roll", "fail"}]
  /\ wr \in [Files -> BOOLEAN]
  /\ gc \in [file : Threads, src : Zones \cup {NoZone}, dst : Zones \cup {NoZone},
             n : Nat, copy : [Zones -> Nat],
             lock : BOOLEAN, moved : BOOLEAN, gone : BOOLEAN]
  /\ orphan \in [Zones -> Nat]
  /\ lost \in [Zones -> Nat]
  /\ missing \in [Zones -> Nat]
  /\ deferred \in {"OK", "IOError"}

\* The busy flag is a lock: a zone is flagged exactly while one thread examines
\* it or keeps it, whatever scans overlap, and no path of the allocator, of
\* CloseActiveZone or of the migration releases a zone twice or leaves one
\* flagged (Zone::Acquire, Zone::Release, CheckRelease's assert(false)).
Slots == Threads \X {"cur", "zone"}
SlotZone(s) == IF s[2] = "cur" THEN cur[s[1]] ELSE zone[s[1]]

Owners(z) == {s \in Slots : SlotZone(s) = z}

BusyExclusive ==
  \A z \in Zones : /\ busy[z] <=> Owners(z) # {}
                   /\ \A s1, s2 \in Owners(z) : s1 = s2

\* Open tokens: the threads that allocate or write.
HasOpenToken(f) ==
  \/ pc[f] \in {"match", "active", "drop", "retry", "finish", "empty", "closing",
                "putopen"}
  \/ pc[f] \in {"open", "failed", "append", "dead"} /\ zone[f] # NoZone
OpenHolders == {f \in Files : HasOpenToken(f)}

\* No more zones are written to than the device may have open, and as long as
\* the device can close its zones every open token comes back: none is lost by
\* an allocation that fails on the way (AllocateIOZone's PutOpenIOZoneToken
\* calls, CloseActiveZone).
OpenTokensAccounted ==
  /\ Cardinality(OpenHolders) <= open_io_zones
  /\ "close" \notin Faults => Cardinality(OpenHolders) = open_io_zones

\* Zones the device counts as active, or that a writer has opened, and tokens
\* on their way to a zone or back.
ActiveZones ==
  {z \in Zones :
     \/ Partial(z)
     \/ \E t \in Threads :
          zone[t] = z /\ pc[t] \in {"open", "failed", "append", "closing", "dead",
                                    "gcmove", "gcswap"}}
TokensOut ==
  Cardinality(ActiveZones) + Cardinality({t \in Threads : got[t]})
                           + Cardinality({t \in Threads : owe[t]})

\* AquaFS never has more active zones than the limit of the device: the token
\* count covers them through every finish, reset and failed allocation.
ActiveLimit == TokensOut <= active_io_zones /\ active_io_zones <= MaxActive

\* The count is exact: an active token is returned for every one that is taken.
\* "The callee is responsible for calling a PutActiveIOZoneToken to return the
\* resource" (zbd_aquafs.cc:535).
ActiveTokensReturned == TokensOut = active_io_zones

\* Blocks of zone z that some ZoneFile refers to, or is about to.
InFlight(z) ==
  CASE gc.moved /\ pc[GC] = "gcreplace" /\ z = gc.dst -> gc.n
    [] gc.moved /\ pc[GC] = "gcsync" /\ z = gc.src -> gc.n
    [] OTHER -> 0
Live(z) == Blocks(ext, z) + orphan[z] + InFlight(z)

\* The extents as they will be when every writer has pushed.
Pushing ==
  [f \in Files |-> [z \in Zones |->
     ext[f][z] + (IF zone[f] = z THEN pend[f] ELSE 0)]]

\* used_capacity_ is exactly the number of blocks that files refer to, although
\* writers, deletions and a migration change it concurrently, so that zones
\* whose data are gone can be reset (PushExtent, ClearExtents,
\* SyncFileExtents).  Blocks stay counted for nothing in two cases: the old
\* extent of a migration whose metadata cannot be persisted, and extents that a
\* writer has pushed while the collector worked on its copy of the list.
UsedCapacityExact == \A z \in Zones : used[z] = Live(z) + lost[z]

\* A file that is open for writing is not being migrated.  "Don't migrate open
\* for write files and prevent write reopens while we migrate"
\* (fs_aquafs.cc:1918).
MigratedFileClosed == \A f \in Files : Migrating(f) => ret[f] = "seal"

\* Every block a file refers to, or has written and not pushed yet, lies below
\* the write pointer of its zone, except as many as the device failed to copy
\* in migrations whose status nobody looked at (Zone::Append, PushExtent,
\* MigrateData).
LiveDataWritten ==
  \A z \in Zones :
    Blocks(Pushing, z) + orphan[z] + InFlight(z) <= MaxCap - capacity[z] + missing[z]

\* A zone is reset only when no file, no writer and no migration refers to it
\* (ResetUnusedIOZones against a direct writer whose blocks are not pushed, and
\* against a collector that has copied but not yet swapped an extent).
ResetOnlyDead ==
  [][\A z \in Zones :
       capacity'[z] > capacity[z] =>
         /\ Live(z) = 0
         /\ \A t \in Threads : zone[t] # z]_vars
=============================================================================
