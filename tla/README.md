# Verification of AquaFS

AquaFS (`src/aquafs-plugin/`) is a file system for zoned SSDs that RocksDB uses
through its `FileSystem` interface.  A zoned device is written sequentially
zone by zone, and bounds how many zones may be *open* and how many *active*
(partly written) at a time.  The repository also has ExtFS (`src/ExtFS/`), an
Ext2 file system over FUSE in Rust.  This directory has TLA+ models of the parts
that decide whether data are safe and calls return, TLC runs that check them on
small instances, and TLAPS proofs of the results that do not depend on the
instance.

## The system

| Part | State | Operations | Talks to |
|---|---|---|---|
| `ZonedBlockDevice`, `Zone` (`fs/zbd_aquafs.cc`) | per zone: capacity left, used capacity, lifetime, busy flag; counts of open and active zones; deferred status | allocate, finish, reset, append, close; take and return tokens | called by files, collector, metadata log |
| `ZoneFile`, `ZonedWritableFile` (`fs/io_aquafs.cc`) | extents, number of synced extents, links, active zone, write lock, buffer | append (direct, buffered, sparse), sync, close, push extent, merge and replace extents, recover | zones; metadata writer |
| `AquaFS` (`fs/fs_aquafs.cc`) | `files_`, next id, superblock sequence, current metadata log | create, reopen, delete, rename, link, sync of metadata, roll, mkfs, mount | files, metadata zones |
| Collector (`AquaFS::GCWorker`) | its snapshot | migrate extents out of zones that hold garbage | all of the above, concurrently |
| RAID back ends (`fs/raid/`) | zone map, per-device zones | read, write, reset, finish over several devices; offline handling | `Zone` above, zoned back ends below |
| Zoned back ends (`fs/zbdlib_aquafs.cc`, `fs/zonefs_aquafs.cc`) | descriptors | system calls | the device |
| Directory operations, auxiliary path | host file system | create, list, delete recursively | `files_` and the host |
| ExtFS (`ExtFS/src/rfs_lib/mod.rs`) | bitmaps, inodes, index blocks, directories | create, remove, rename, read, write, dump | its disk drivers |
| ExtFS disk drivers (`ExtFS/disk_driver/src/`) | LRU cache with dirty items, cursor | seek, read, write, flush, reset | a file |
| AquaZFS, FUSE, adapters, tools | | | ports and glue |

What is hard here:

* *Concurrency.*  Users' threads and the collector share the zones through
  compare-and-swap busy flags, the counters through a mutex and one condition
  variable, the files through `files_mtx_` and one write lock per file; much
  per-file state (extents, `nr_synced_extents_`, `active_zone_`) is protected by
  the write lock in some places and by `files_mtx_` in others.
* *Failure.*  The device may stop between any two writes, in the middle of one,
  and any call may return an error; tokens, locks, maps, caches and bitmaps have
  to be put right on each of these paths.  A RAID operation can fail on some of
  its devices.
* *Limits.*  Token counts at their limit, zones filled exactly, a metadata zone
  without room for the next record, a disk that fills up in the middle of a call.

The hazards are listed line by line in `PROJECT.json`, with the property that
watches each one or the reason why none does.

Correctness, part by part: a zone has one owner; tokens are neither lost nor
returned twice and never exceed the device's limits; no zone is reset while
somebody refers to its data; an acknowledged name space operation and a synced
extent survive any crash; recovery finds the bytes that were synced and no
others; a file has one writer and none during a migration; calls return; a RAID
zone returns the block that was written, or an error; a cached disk behaves as
the disk; a block of ExtFS has one owner, and a read returns the last write.

## Modules

| Module | Models | Used by |
|---|---|---|
| `ZoneTokens` | open and active tokens, the wait with its reserve for write-ahead logs, `notify_one` | `MCZoneTokens`, `ZoneTokensProofs` |
| `ZoneAllocator` | zones, allocation, writers, deletion and reset, migration, with faults | `MCZoneAllocator`, `ZoneAllocatorProofs` |
| `Namespace` | abstract: a name space that changes by whole operations | `MetaLog` |
| `MetaLog` | name space in memory, records, roll, crash, recovery | `MCMetaLog`, `MetaLogProofs` |
| `FileLocks` | `files_mtx_`, write locks and `active_zone_` over open, reopen, append, close, delete, migrate | `FileLocksProofs` |
| `FileRecovery` | the bytes of a file: three ways to append, syncs, close, crash, `Recover` | `MCFileRecovery`, `FileRecoveryProofs` |
| `Raid` | RAID0, RAID1, RAID-C and RAID-auto under `Zone` | `MCRaid`, `RaidProofs` |
| `BlockDevice` | abstract: a disk that only a crash or an error sets back | `BlockCache` |
| `BlockCache` | the write-back LRU cache of ExtFS | `BlockCacheProofs` |
| `ExtFs` | bitmaps, inodes, the walk over index blocks, operations of ExtFS | `ExtFsProofs` |

Operators whose comment begins "Mutant of" are deliberate errors.  They are not
part of any specification; each is substituted for the operator it names to see
that a property notices.

Some variables are history: the program has no such state.  They record what has
happened (`spoilt`, `unclosed`, `reopened`, `abandoned`, `suspect`, `losses`,
`failed`, `mishap`, `exposed`) so that a property can say after which events it no
longer holds, in one run that contains those events; they count what is gone for
good (`lost`, `missing`), or say what the caller was told (`synced`, `want`,
`acked`, `told`, `written`, `past`).

### ZoneTokens

`open_io_zones` and `active_io_zones` are the counters; `pc[t]` says what thread
`t` holds.  Evaluating the predicate of the wait, going to sleep and being
woken are separate steps, as `std::condition_variable` allows; `NotifyOne` wakes
any one sleeper.  Zones are counted: `empty`, `part` and `full` are those nobody
has acquired, and a scan finds a zone of a kind only if there is one.  Which one
it is, and that a scan may miss one that another scan examines, belongs to
`ZoneAllocator`; here a scan may always come back with nothing.

`CloseActiveZone` has the path on which the device refuses to close a zone: the
function returns before `PutOpenIOZoneToken`, and the open token is lost.  Two
paths lose an active token: a new zone whose first append fails is closed empty,
and the collector fills the zone it has taken.  `lost` counts both kinds (at most
`MaxLost`), and `OpenTokensOwed` and `ActiveTokensExact` say that nothing else is
missing and nothing is returned twice.  Lost tokens are never made up for: when as
many are gone as there are, every allocator sleeps or spins.

### ZoneAllocator

One thread per file, and the collector.  `capacity`, `used`, `lifetime` and
`busy` are the fields of each `Zone`.  A scan (`ApplyFinishThreshold`,
`GetBestOpenZoneMatch`, `FinishCheapestIOZone`, `AllocateEmptyZone`,
`ResetUnusedIOZones`, and the collector's match) acquires a zone (`AcquireNext`,
`cur`), examines it in the next step, and gives it back or keeps it (`zone`).
Each change of a counter is a step; `owe` marks a thread that returns an active
token before anything else.  `ext`, `pend` and `left` count the blocks a file
has in extents, has written but not pushed, and has yet to write.  Direct files
push an extent when the zone is full or at a sync; buffered ones after each
write, and those close a full zone and allocate the next at once.

`wr[f]` is the write lock, a plain mutex that `ReleaseWRLock` unlocks for whoever
has it.  After a close that failed behind `ReleaseWRLock` the destructor closes
again (`CloseAgain`) and so may free the lock that the collector has taken in
between.  A writer that gets in like this pushes extents which the collector's
copy of the list (`gc.copy`) does not have; `ReplaceExtentList` drops them.

Faults are a constant: close, finish, reset and write of the device, persisting
metadata, and the copying of a migration, whose status nobody looks at.  A failed
write moves the write pointer by any part of it.

`lost` are the blocks that stay counted although no list has them: the old extent
of a migration whose metadata could not be persisted, and the extents dropped by
`ReplaceExtentList`.  `missing` are the blocks that extents made by a failed copy
claim beyond the write pointer.

Abstractions: data are blocks; `migrating_` is left out, since a single thread
migrates; a file is deleted by the thread that uses it, after closing it; only
closed files that are not write-ahead logs are migrated, one extent at a time;
the unlocked lookup in `MigrateFileExtents` is an atomic one; zones do not go
offline when they are reset.

### MetaLog and Namespace

`log[z]` are the records of metadata zone `z`, `full[z]` whether it was
finished; `files` and `inode` are `files_` and the `ZoneFile` objects;
`inode[id].synced` is `nr_synced_extents_`.  An operation changes memory, then
`PersistRecord` writes its record or the log rolls step by step:
`AllocateMetaZone`, `WriteEndRecord`, `FinishOldZone`, `WriteSuperblock`,
`EncodeSnapshotTo`, `WriteSnapshotLocked`, `ResetOldZone`.  `Persisted` and
`Undone` are what the operation does afterwards.  Operations hold `files_mtx_`
throughout, so one is under way at a time; a writer's `PushExtent` and the
collector's `ReplaceExtentList` do not hold it and may come between.

`Recover` is the recovery of `Mount` as a function of the device's contents,
written with recursive functions: zones in order of sequence numbers, records
decoded one by one, `NotFound` going on to the previous zone and a corruption
ending the mount.  The auxiliary variable `found` is its value at present, so the
durability properties say in every state what a mount would find if the machine
stopped there.  `op.before` is the name space before the operation under way, and
`told` the one that the answers to the callers promise.  A rename or link that
could not be persisted is taken back and answers OK all the same; a rename onto
the same name deletes the file, as in the code, where the target goes first.

Faults are constants again: writes of records, the end record and the finish of
the old zone, the other steps of a roll; `Torn` makes writes of several blocks
divisible (superblocks and end records fit one block and never are).  `spoilt`
collects the events the log does not survive (`Marks`): a write cut short, a
roll given up half way, a creation that makes the log roll, a roll or a record
of the file in the middle of its migration, an extent pushed while a record of
its file is written.  `SurvivesFaults` says that nothing else loses anything.
The list owes two of its entries to the proofs: a rename or link of the file
under migration counts the new extents as synced also when it makes the log
roll and the collector replaces the extents behind the snapshot
(`MarkOvertaken` in `ResetOldZone`), and after a lost creation files and link
names need not agree either, since a record of a file that the log does not
have enters it under its first name only.  Both need more steps than the runs
have.

`Namespace` has one variable, and creates, deletes, renames onto a free name and
links.  `MetaLog` implements it under the mapping `ns <- found.st.files`: what a
mount would find changes only by such operations, and neither a roll nor a
crash nor a mount changes it.

### FileLocks

`files_mtx`, `wr[f]`, `exists[f]`, `active[f]` (whether `active_zone_` is set),
and the stage of each thread.  A critical section of `files_mtx_` that cannot
block is one step, enabled when the mutex is free; `OpenWritableFile` with reopen,
which waits for the write lock inside it, is three.  `active_zone_` is changed
where the code changes it, also outside the lock in `CloseWR`.  `reopened` and
`unclosed` are the files in use that were opened again, or of which a `Close`
has failed; the properties are per file and hold for the others beside them.
Closing the active zone and persisting the metadata may fail (`Faults`): an
append ends there, a close returns with the write lock taken and may be called
again, and `abandoned` are the files whose last close, that of the destructor,
has failed before `ReleaseWRLock`.

### FileRecovery

One file with its writer, and another file that takes blocks of the zones the
first does not hold.  A byte of the program is a unit, a block has `B` of them,
and the header of a sparse extent is one.  `dev[z]` is what was written to a
zone; its length is the write pointer.  `f` is the metadata in memory, `meta`
those in the log (`MetaLog` shows that the log returns them).  `AppendPiece` is
one turn of the loops of `BufferedAppend` and `SparseAppend`, with header,
padding, `memmove` and the zone that is taken as soon as one is full;
`DirectWrite` and `DirectFull` are the loop of `Append`.  `Recover` follows the
headers of a sparse file, or takes all up to the write pointer; `Mount` adds the
roll, which saves the result, and the reset of unused zones.

`GetIOZone` looks up the address where recovery begins.  Zones have `ZoneSize`
units, of which `ZoneCap` can be written, and `Following` says which io zone, if
any, begins where a zone ends.  If capacity and size are equal, the end of a zone
that was filled exactly is an address of the next one (`Misled`).

`ReadsWritten` and `CrashSafe` compare what a reader or a recovery finds with
what was appended (`want`) and acknowledged by a sync (`synced`).  `mishap`
records what the code does not get over: a sparse write that a crash has cut short
(`"cut"`), one that failed half way in a running system (`"gap"`), the recovery of
such an extent (`"hole"`), and a recovery that was misled (`"astray"`).
`Recoverable` is what the comments of the code promise, without exceptions.

Abstractions: lifetimes and tokens do not matter, so any zone with capacity may
be allocated; users append nothing after they have called `Close`; `Truncate`,
which only sets the size in memory, is left out; data that recovery would take
for a header (only after a write was cut short, or in a foreign zone) count as an
error of recovery.

### Raid

A device zone is the sequence of its blocks, and a block knows the logical
address it was written for, so that misplaced data are seen.  `Places` is the
address map of each back end, `DeviceWrites` the device writes of a request in
order, `ZoneWp` the write pointer that is computed after a restart from the
device zones.  Above it, `AppendTo`, `Finish` and `Reset` are those of `Zone`,
with its own write pointer and capacity, which stay where they were when the
back end fails; any device operation may fail after any number of others.
`map` and `inv` are the maps of RAID-auto's allocator; `DefaultMapping` makes
the two default layouts.  `ScanAndHandleOffline` replaces an offline zone after
a read error.

`suspect` are the zones one of whose device finishes or resets failed, and those
that share their address with another one; `losses` counts the device zones of
a zone that went offline.

Abstractions: blocks, one request at a time (the callers of a zone are
exclusive, see `ZoneAllocator`), devices of equal geometry as `Open` asserts,
and the build without io_uring.  `Usable` leaves out that `ZoneIsWritable` is
false for a full device zone as well: after a restart a zone may keep capacity
here that the code takes from it.

### BlockCache and BlockDevice

`inner` is the file, `cached`, `dirty`, `copy` the items, `older` the order of
their last use.  Requests of several units are loops over single ones in the
code; a unit is a step.  `BlockDevice` is what a user may rely on: a read
returns what was written last, a crash sets each block back to some value it had
at the last flush or was given since, and a call that reports an error may do so
to one other block.  `BlockCache` implements it with `content <- Seen`.

### ExtFs

FUSE calls the file system with exclusive access, so a call is a step.
`visit_blocks_inode`, which all calls share, is a recursive function of the
indexes of a file (`Walk`), one `VisitStep` for each.  Its value is what the code
keeps in its local variables (the tables loaded for each layer, whether they were
modified, the inode) and what is on disk; a walk that finds no free block stops
there, with what it has saved and nothing else.  The caller's closure is `kind`: a write allocates, a removal
stops at the first missing block, a read goes on.

`exposed` is set when a rename has freed a live inode, or a directory has been
given a block that is not marked: from there the bitmaps are wrong, and the
properties end.

Abstractions: the root directory is a map and fits one block; names are not
parsed; sizes in bytes, attributes and unaligned writes (a read followed by a
write) are left out; the driver writes through; renames go to free names.  The
bitmap describes the disk exactly; in the code its search ends with the bits of
the bitmap block, and on a smaller disk may pass the end.

## Runs

Passing runs:

| Run | Shows |
|---|---|
| `Tokens` | four allocators and the collector over three zones, with failing closes and one token lost: the others are accounted for, the reserve for write-ahead logs holds, and no allocator without priority is left asleep beside a token it may take |
| `AllocFaults` | a direct and a buffered writer, with failing writes, finishes and metadata records: exclusive zones, no open token lost, limits kept, no live data reset |
| `AllocMigrate` | the collector against reopens and deletions of the file it moves and the writes of a log, with failing writes, closes, resets, metadata records and copies: exclusive zones, exact used capacities, nothing above a write pointer but what a copy lacks, no live data reset |
| `MetaRoll` | rolls, failing records and two crashes: mount finds the name space and the synced extents, and `MetaLog` implements `Namespace` |
| `MetaFaults` | all operations, the collector, a crash and every failure of every write: files and link names agree between operations, and the log loses nothing beyond the cases of `Marks` |
| `Locks` | two users and the collector over two files: one writer, none during a migration; the assertions on `active_zone_`; no write lock is left behind, except by a close that failed for good |
| `FileRecovery` | three ways of writing, failing calls, writes cut short and two crashes: readers see what was written, recovery finds what was synced |
| `RaidModes` | five layouts, failures half way, restarts, a loss and its replacement: reads are right or fail, one loss of a mirror is survived, the reported write pointer is right, no device zone serves twice |
| `CacheDevice` | evictions, failures and crashes: `BlockCache` implements `BlockDevice`, and clean items equal the file |
| `ExtFiles` | files that grow through both layers, removal, a full disk and a crash: one owner for each block and inode, reads return the last write |

Runs that show a disagreement between the code and what it says of itself (the
quotations are in `PROJECT.json`, "findings"):

| Run | What happens |
|---|---|
| `MetaCreateLost` | a creation that makes the log roll is in neither the snapshot nor a record |
| `ExtLarge` | a write that crosses to a missing inner table of the second layer goes on with the one before it and overwrites earlier blocks of the file |

Further configurations document limits and can be run by hand (`tlc -config X.cfg
M`).  All but the last end in a counterexample:

| Configuration | Module | Property | What happens |
|---|---|---|---|
| `AllocTokenLeak.cfg` | `MCZoneAllocator` | `ActiveTokensReturned` | a buffered file that fills its zone exactly allocates an empty one; closed unwritten, its active token is lost ("The callee is responsible for calling a PutActiveIOZoneToken", zbd_aquafs.cc:535).  The collector, too, keeps the token of a target zone it has filled |
| `MetaMigrateRace.cfg` | `MCMetaLog` | `ExtentsDurable` | a roll in the middle of a migration marks the new extents synced; the replace record is empty and recovery clears the file |
| `AllocLockFreed.cfg` | `MCZoneAllocator` | `MigratedFileClosed` | the second close of a destructor frees the write lock that the collector has taken, and the file is reopened while it is migrated ("Don't migrate open for write files and prevent write reopens while we migrate", fs_aquafs.cc:1918) |
| `LocksDeadlock.cfg` | `FileLocks` | `MigrationEnds` | a reopen waits for the write lock with `files_mtx_` held (fs_aquafs.cc:888), the collector for `files_mtx_` with the write lock held: neither returns, and no later call either |
| `MetaRenameLost.cfg` | `MCMetaLog` | `AcknowledgedDone` | a rename whose record fails is taken back ("Failed to persist the rename, roll back", fs_aquafs.cc:1087), and the caller is told that it succeeded; links likewise |
| `RecoverAstray.cfg` | `MCFileRecovery` | `Recoverable` | a direct file that has just filled its zone is synced; recovery looks up the end of that zone ("Figure out which zone we were writing to", io_aquafs.cc:692) and takes the data of the one that follows |
| `RecoverTorn.cfg` | `MCFileRecovery` | `Recoverable` | a sparse write cut short between two blocks is recovered with the length of its header, past the write pointer |
| `AllocReopen.cfg` | `MCZoneAllocator` | `UsedCapacityExact`, `ResetOnlyDead` | passes: the collector against the writer of the very file it moves, let in as in `AllocLockFreed.cfg`; the used capacity is exact with what the replaced list has dropped, and no zone is reset under the writer |

### What the properties leave out

Each of these is a limit of the code that the models show when it is crossed:

* `WaitersAreServed` is stated for allocators without priority.  For the WAL ones
  it fails: `notify_one` may wake a waiter that may not take the reserved token.
* `SetZoneDeferredStatus` replaces only a status that is already an error, so the
  check at the head of `AllocateIOZone` never fires; no property depends on it.
* `SurvivesFaults` claims nothing of the name space after a torn snapshot (a
  corruption, where `Mount` goes to the previous log only after `NotFound`), a
  roll given up half way (records follow in a zone without a superblock), or a
  creation that makes the log roll; nor of extents after a roll or another
  record of the file in the middle of its migration, or a push while a record of
  the file is written, which counts as synced.
* `NamespaceDurable` is about what a mount finds, which is what memory has; that
  the callers of renames and links were told so is `AcknowledgedDone`, which does
  not hold.
* `WriterExclusive` leaves out files of which a `Close` has failed: `CloseInternal`
  leaves `open` set after an error behind `ReleaseWRLock`, and the destructor
  unlocks a second time.
* `ActiveZoneAsserts` leaves out reopened files: a thread that reopens a file can
  meet the zone its last writer is still closing, since `CloseWR` gives the lock
  up first.
* `FileRecovery`: after a failed call only what was synced before it is claimed,
  since a retry appends again what the failed call has written in part.
  `CrashSafe`, `ExtentsWritten` and the types after a recovery are claimed up to
  the events of `mishap`.  A
  buffered file that is not sparse may be recovered with padding of its last
  block.
* `Raid`: with a second loss, `ScanAndHandleOffline` finds a copy that was made
  from the zone number of the new mirror, not of the good one, and the two
  mirrors of a sub zone may be on one device.  The map it makes is not persisted
  (a restart brings back the default one), and with no free zone left an
  assertion fails.  RAID1 writes and reads stop at the first device that
  succeeds, so there is no second copy.  RAID-C reports zone starts relative to
  the device, so that zones of different devices share their addresses.  A reset
  of RAID0 answers for the last device only.  `flush_zone_info` counts the first
  device zone of a striped RAID-auto zone several times: right only if the
  device zones are level.
* `ExtFs`: a rename frees the inode and the blocks of the file and keeps the
  name; a directory on a reused inode number takes over its old first block
  unmarked; blocks behind a hole, and index blocks, are not freed; calls that
  cross between inner tables of the second layer are excluded from `ExtFiles`
  (`Straddle`).
* `BlockCache`: `ioctl` reaches the file past the cache.

### Bounds

* Tokens: three open tokens and two active ones over three zones, one allocator
  for a log and three others, so that sleepers of both kinds exist together, the
  reserve is reached, and one token of either kind may be lost before it.
* Allocator: two zones of two blocks and two tokens of each kind.  Two zones are
  enough for a scan to keep one and exchange it, for a zone to be full, partial
  or empty, and for two threads to meet on each; writes of two blocks fill a zone
  exactly and cross it.  `AllocMigrate` starts from a mounted file system with
  garbage, since to build one up would take most of the state space, and has one
  token of each kind, so that the log competes with the collector for zones and
  the data file is opened, waits for a token, is migrated and deleted, but is not
  written again.  In `AllocReopen` there is no log but a token for the data file,
  which is written while it is migrated.
* Log: three metadata zones as `MkFS` uses at least; zones of four records so
  that rolls happen within the operations (four, or two with all faults); two
  crashes, which allows one inside the roll of a mount that follows another, and
  one with all faults.
* Locks: two users, two files and the collector, so that two threads meet on one
  file beside another one.
* FileRecovery: three zones of two blocks of two units and a buffer of two
  blocks; five units, or eight direct ones, fill zones exactly and cross them;
  two crashes, one failed call, one block of the other file.  Zones are larger
  than their capacity, as on a ZNS device; `RecoverAstray` has zones of equal size
  and capacity in a row.  (The run's properties hold for those too, by a check of
  13 million states that is not among the runs.)
* Raid: two devices of six zones of two blocks, which gives RAID-auto one meta
  zone and one data zone with two mirrors, and spare zones; requests of up to two
  blocks cross stripes and device zones; one reset and one loss.  The zones in
  play include the two that share an address in RAID-C.
* Cache: three units over a capacity of two, so that evictions happen.
* ExtFs: one direct block and tables of two entries, so that seven indexes reach
  every layer; eight blocks, so that the disk fills up; five calls of up to two
  blocks and a crash.

### Fairness

`ZoneTokens`: weak fairness for each thread's own steps (`WF_vars(Allocate(t))`):
the operating system runs threads that can run.  Requests and closes are the
user's and have none, and so have the collector and the resets.  `FileLocks`
(`LocksDeadlock`): weak fairness for a call that was made and for the collector.
The counterexample does not depend on it: both threads wait for a mutex that the
other one holds.

## Proofs

* `ZoneTokensProofs`: for any finite sets of threads, zones and positive limits,
  `TypeOK` (`TokenTypes`), `OpenTokensOwed` (`TokensAccounted`),
  `ActiveTokensExact` (`ActiveExact`) and `ReservedForWal` (`WalReserve`) are
  invariants.  Their conjunction `TokenInv` is inductive: `OpenTokensOwed` gives
  the upper bound of the reserve from the guard on the counter (a non-WAL thread
  takes a token only below `MaxOpen - 1` tokens out, of which the non-WAL ones
  are a part), and `ActiveTokensExact` keeps the count from going below zero.
  The lemmas `MoveIn`, `MoveOut` and `MoveInside` say how the cardinality of a
  set of stages changes when one thread moves and at most one sleeper is woken.
* `FileLocksProofs`: for any users and files, with reopens and with failing closes
  and metadata records, `TypeOK` (`LockTypes`), `WriterExclusive`
  (`WritersExcluded`), `ActiveZoneAsserts` (`ActiveZoneSafe`) and `LocksReturned`
  (`LocksGivenBack`).  The invariant adds where a call returns to, since the same
  code closes a zone with the lock and without, and, for the assertions, that a
  file that is not reopened is used by one user.
* `BlockCacheProofs`: for any size of disk and cache and any values, `TypeOK`
  (`CacheTypes`), `Coherent` (`CacheCoherent`), and that `BlockCache` implements
  `BlockDevice` (`CacheImplementsDevice`).  The inductive invariant is the
  types, the bound on the number of items, which needs cardinality arguments
  for an eviction (`PushBounded`), and `Coherent`, without which an eviction of
  a clean item or a crash would show a value that was never written.  Each step
  maps to one of the device or to a stutter (`NextRefines`).

* `ZoneAllocatorProofs`: for any files, zones, limits and faults, `BusyExclusive`
  (`BusyFlagIsLock`) and `OpenTokensAccounted` (`OpenTokensKept`).
  `BusyExclusive` is not inductive: whether a step that clears a flag clears that
  of its own zone depends on where the thread is.  `BusyInv` adds for each stage
  which zones a thread may examine and keep (`Place`).  Every action is a move of
  one thread from one place to another (`ThreadStep`), and such a move keeps the
  flags a lock whatever the others do (`GoesPreserves`).  The open tokens follow
  the same moves.
  The second part has `UsedCapacityExact` (`UsedCapacityIsExact`), `LiveDataWritten`
  (`DataBelowWritePointer`) and the action property `ResetOnlyDead`
  (`ResetsOnlyDeadZones`).  A migration subtracts the length it has read before
  it copied, so the count is exact only if that extent is still in the list when
  it is replaced.  The write lock does not see to that, since `CloseAgain` may free
  it; what does is that the list of a file only grows until it is deleted.
  `SpaceInv` therefore says that the copy stays below the list, which goes to
  `orphan` when the file is deleted (`SourceInv`), which stage a migration is in
  (`MigrationInv`), that the copy fits the target (`RoomInv`), and that what is
  written and not yet referred to lies below the write pointer, but for what is
  `missing` (`WrittenInv`).  That a reset hits no live data follows from the busy
  flag, the exact count and the guard of `ResetUnusedIOZones` together.
  The third part has `ActiveLimit` (`ActiveZonesLimited`) and `TypeOK`
  (`AllocatorTypes`).  Active tokens are counted, not attached to zones.
  `ActiveInv` adds that a zone kept by a match is partly written, which is why it
  may be written without a token (`KeptInv`); that a zone with used capacity has
  been written to (`LostInv` and `SpaceInv`); and that only a thread with a token
  looks for an empty zone (`GotInv`).
* `MetaLogProofs`: for any names, zones and records, any number of operations
  and crashes and all faults, `TypeOK` (`MetaLogTypes`), `NamesMatchLinks`
  (`MetaLogNames`) and `SurvivesFaults` (`MetaLogSurvives`).  The inductive
  invariant has four layers, each claimed while the history is free of the
  events that break it.  `Types` and `FoundInv`, always: which records a zone
  can have at each step of a roll, and that `found` is what a mount would
  recover.  `NameInv`, while no creation was lost: every log that can be read
  stands for a name space whose names and links agree, the current log for the
  one before the operation under way, and its record says what it has done in
  memory (`OpInv`, `RecLinks`).  `DiskInv`, while in addition no write was cut
  short and no roll given up: a mount recovers from the current zone, or from
  the old one until the new one has its snapshot, and newer zones have no more
  than a superblock (`Main`).  `ExtInv`, while `spoilt` is empty: that log has
  the extents that count as synced, and those before a migration under way.
  `MetaLogMarks` says which of these events the parameters allow; with it follows,
  when records are written in one piece, the steps of a roll succeed and nothing
  is created, that `MetaLog` implements `Namespace` (`MetaLogImplements`), for any
  sizes.  `MetaLogRefines` states the
  refinement for all parameters, for behaviours without those events.  The
  recursion of `RecoverFrom` and `Mount` is met by induction: one record more is
  decoded in the state that the others have left (`ReplayAppend`), a log with a
  snapshot in second place does not depend on what was decoded before, and mount
  tries each zone in use, the newer ones first.
* `FileRecoveryProofs`: for any sizes of blocks, zones and buffer, any layout of
  the zones, and failures, cut writes and crashes of every kind, `ExtentsWritten`
  (`ExtentsStayWritten`), `TypeOK` until one of the events that end `Sound`
  (`RecoveryTypes`), and that until then a crash at any point can be recovered
  from, unless the log names the end of a full zone (`RecoverySucceeds`, the first
  part of `CrashSafe`).  What recovery finds depends on what is on the device, so
  the invariant (`FileInv`) has two cases.  While no sparse write has been cut
  short (`Whole`), the sparse extents behind the place the log names form a chain
  up to the write pointer (`Chained`), nobody else writes to or resets a zone of it
  (`Held`) or of an extent of the log (`MetaKept`), and what a direct writer has
  written and not pushed is below the write pointer (`Pending`).  After a crash
  that has cut one short and before the next mount (`CutInv`) the chain is whole
  up to the last extent, which begins below the write pointer.  `WalkSound` shows
  what the recursion of `RecoverSparseExtents` returns over such a chain.
  `StartInv` adds that the zone where recovery begins keeps its contents until the
  log names another place.  The types need three more invariants: what is synced
  has been written (`HistoryInv`), the buffer and the units left of a call fit
  (`BufferInv`), and the extents of a file written through the buffer add up to
  its size (`SizeInv`), also when recovery has rebuilt them.
* `RaidProofs`: in every mode, for any number of devices, zones and blocks and
  any faults and losses, `TypeOK` (`RaidTypes`), `MapInjective`
  (`RaidMapInjective`), `ReadNeverWrong` (`RaidReadNeverWrong`) and
  `OneLossSurvived` (`RaidOneLossSurvived`).  `MapInv` says how the map in use
  differs from the default layout: only in mirrors, and by device zones that the
  default layout does not use.  That the default layouts are injective, and that
  there are device zones enough for them, goes by induction over the zones
  (`ZoneMapped`, `RoomForZone`): the n-th free device zone exists and no two
  ranks give the same one (`NthIsFree`).  `Typed` adds the types.  `ReadInv` is
  about the default layout, which a restart brings back: every acknowledged
  block is on each of its default device zones that is not lost (`Kept`), and a
  zone with one loss at most has in its map the default mirrors or the one that
  is left, in front (`LossOK`).  An append therefore writes to every default
  device zone that is online (`HomeWritten`), a reset or a loss of another zone
  meets none of them (`ZonesApart`), and a repair writes elsewhere.  `PlacesAre`
  takes the address arithmetic of the five modes to device zones and offsets,
  `WritesAre` the pieces and mirrors of a request to the set of its writes.
* `ExtFsProofs`: for any disk, names and calls, `InodesOwned` (`InodesStayOwned`),
  with the types of bitmaps and directory, and that the first free bit is free;
  `TypeOK` (`ExtTypes`) and `BlocksOwned` (`BlocksStayOwned`).  For the blocks a
  node is seen as the blocks at its slots (direct blocks, the two index blocks,
  and what is reached through them).  `BlocksInv` says of the state between two
  calls that no block is at two slots or in two files, and that all are marked
  in both bitmaps.  A call is a walk, and `WalkInv` is the invariant of the walk:
  its view, with the tables it has loaded in place of those on disk, has one
  place for every block and none of the blocks `F` of the other files; those are
  marked and not written; and the disk is behind, each slot there being empty or
  as in memory.  The last part is why a walk may stop anywhere, for want of a
  block or because it is done, and why a table that is dropped unsaved when the
  walk moves to the next inner one loses blocks of this file only: what is on
  disk then shows fewer blocks and no other ones (`DiskShows`).  Every stage of a
  step keeps `WalkInv`, and `VisitInv` is the induction over the indexes.  The
  theorem covers calls that cross between inner tables (`Straddle`), for which
  `ReadBack` fails.

The assumptions are those named in the modules: finiteness and non-emptiness of
the constants, and in `MountAssumption` that the mounted file system the
allocator starts from is one: its extents lie in written blocks, zones without
data have been reset, and the active limit covers the partly written zones.
`FileAssumption` has a block hold more than the header of a sparse extent (8 bytes
in the code, a unit here).

Data are reached by induction where it is needed: `LeastNatural` takes the least
element of a set of naturals from the well-foundedness of `<`, which gives
induction for sets; with it the functions that a fold (`Size`, `FlattenSeq`) and a
recursive definition (`SparseExtents`, `Walk`) choose are shown to exist, so that their
equations can be used.  The same goes for the default layout, the series of
device writes and the sums of `Raid`.

Only model-checked:

* liveness (`WaitersAreServed`) and freedom from deadlock: the
  provers do not handle fairness and `ENABLED`;
* `NamespaceDurable` and `ExtentsDurable` by themselves; `SurvivesFaults`, which
  says when they hold, is proved;
* `TypeOK` of `FileRecovery` after a recovery of cut or foreign extents;
* `ReadsWritten` of `FileRecovery`, and `CrashSafe` beyond its first part: they
  speak of the contents of all extents in a row, for which the invariant has to
  follow the bytes and not only their places;
* `ReadBack` of `ExtFs`: the slot that a read finds has to be the one that the
  last write of this index filled, which holds only of calls that do not cross
  between inner tables, so that the invariant of the walk has to follow, for
  each index, which tables are loaded and modified;
* `ReportedWpRight` of `Raid`: it is about sums of lengths of striped device
  zones after writes that stopped half way.

## Not modelled

The zoned back ends as such (their failures are the faults of the models),
directory operations and the auxiliary path, read-only mounts, RAID records of
the log, the thresholds of `GCWorker`, statistics, FUSE and database glue, tools,
the in-memory structures of ExtFS; `PROJECT.json` has the reasons.

In lines most of the repository is none of this program's own logic: hash and
compression utilities, ported RocksDB environments (`port/`, `base/`, `util/`),
and AquaZFS, which is a second copy of the modelled files without RocksDB.
The models are of `fs/zbd_aquafs.cc`, `fs/io_aquafs.cc`, `fs/fs_aquafs.cc`,
`fs/raid/` and the file system and cache of ExtFS; what is left of these files is
listing, formatting, statistics, option parsing and logging.

## Plan

Done: tokens, allocator, metadata log, locks, file recovery, RAID, the cache and
the file system of ExtFS; the proofs above, which cover all safety properties of
tokens, allocator, metadata log, locks and cache, and all but one of RAID and of
ExtFS.  Left, in this order:

1. `ReadBack` of `ExtFs` along the walk; `ReportedWpRight` of `Raid`.
2. `ReadsWritten` and the contents of `CrashSafe`, following the bytes from the
   buffer through the zones to what recovery reads.
3. Directory operations above `Namespace`.
4. Liveness of `AllocateIOZone`'s loop with lost tokens.
