------------------------------ MODULE MetaLog ------------------------------
(***************************************************************************)
(* The metadata log of AquaFS (aquafs-plugin/fs/fs_aquafs.cc).  The name   *)
(* space is kept in memory (files_, ZoneFile) and persisted as a log of    *)
(* records in one of the metadata zones; when the zone is full the log     *)
(* rolls to another zone, which starts with a superblock of a higher       *)
(* sequence number and a snapshot of all files.  Mount recovers the name   *)
(* space from the zones.                                                   *)
(*                                                                         *)
(* Operations on the name space hold files_mtx_ from start to end, so one  *)
(* is under way at a time; each of its writes to the device is a step of   *)
(* its own and a crash may come between any two.  The migration of a file  *)
(* replaces its extents without that mutex.                                *)
(***************************************************************************)
EXTENDS Integers, FiniteSets, Sequences, SequencesExt

CONSTANTS
  Names,      \* file names
  MaxId,      \* bound: file ids are 1..MaxId
  MetaZones,  \* number of metadata zones
  MetaCap,    \* records that fit in a metadata zone
  MaxExt,     \* bound: extents of a file
  MaxOps,     \* bound: operations and changes of extents
  MaxCrash,   \* bound: crashes
  Ops,        \* the operations users and the collector perform
  Faults,     \* what may fail: the writes of records ("append"), the end and
              \* the finish of the old zone ("end"), the other steps of a roll
              \* ("roll")
  Torn,       \* whether records span blocks, so that a write that a crash or
              \* an error cuts short leaves part of one
  Overlap,    \* whether writers push extents while another thread's operation
              \* is under way
  InitFiles   \* the files of the first snapshot: InitFiles[n] an id, or 0

OpKinds == {"create", "sync", "delete", "rename", "link", "migrate"}
Ids == 1..MaxId
NoFile == 0
MZones == 1..MetaZones

ASSUME MetaLogAssumption ==
  /\ MaxId \in Nat \ {0} /\ MetaZones \in Nat /\ MetaZones >= 3
  /\ MetaCap \in Nat /\ MetaCap >= 3
  /\ MaxExt \in Nat /\ MaxOps \in Nat /\ MaxCrash \in Nat
  /\ Ops \subseteq OpKinds /\ Faults \subseteq {"append", "end", "roll"}
  /\ Torn \in BOOLEAN /\ Overlap \in BOOLEAN
  /\ InitFiles \in [Names -> {NoFile} \cup Ids] /\ IsFiniteSet(Names)

VARIABLES
  log, full,   \* per metadata zone: its records; whether it was finished
  cur, old,    \* zone of meta_log_; zone of old_meta_log while rolling
  seq,         \* superblock_->sequence_
  files,       \* files_: the id each name stands for
  inode,       \* the ZoneFile of each id: links, extents, synced extents
  next_id,     \* next_file_id_
  pc, op, rec, \* step of the operation, the operation, its record
  mig,         \* the migration: file and its extents before
  nops, ncrash,\* operations and crashes so far
  spoilt,      \* history: what has happened that the log does not survive
  told,        \* history: the name space that the answers so far promise
  found        \* auxiliary: what a mount would recover now

vars == <<log, full, cur, old, seq, files, inode, next_id, pc, op, rec, mig,
          nops, ncrash, spoilt, told, found>>

(***************************************************************************)
(* Steps of the operation under way: "down" (crashed or failed to mount),  *)
(* "idle", "persist" (PersistRecord's first attempt), and the steps of     *)
(* RollMetaZoneLocked.                                                     *)
(***************************************************************************)
Steps == {"down", "idle", "persist", "alloc", "end", "finish", "super", "snap",
          "write", "reset"}

NoOp == [kind |-> "none", name |-> "-", to |-> "-", id |-> NoFile,
         phase |-> 2, before |-> files]
NoRec == [type |-> "none"]
Invalid == [type |-> "invalid"]  \* what is not a record: ReadRecord fails
NoMig == [id |-> NoFile, ext |-> <<>>]
NoInode == [links |-> <<>>, ext |-> <<>>, synced |-> 0]

\* Mutant of Capacity: one record too many.
CapacityOffByOne(z) == IF full[z] THEN 0 ELSE MetaCap + 1 - Len(log[z])

Capacity(z) == IF full[z] THEN 0 ELSE MetaCap - Len(log[z])

\* ZoneFile::EncodeTo from extent number k on.
Encoded(id, k) ==
  [id |-> id, links |-> inode[id].links,
   ext |-> SubSeq(inode[id].ext, k + 1, Len(inode[id].ext))]

\* EncodeSnapshotTo: the files that have a name.
Snapshot == [type |-> "snapshot",
             files |-> {Encoded(files[n], 0) : n \in {m \in Names : files[m] # NoFile}}]
FileUpdate(id) ==
  [type |-> "update", file |-> Encoded(id, inode[id].synced)]

\* Mutant of FileReplace: the record is merged instead of replacing.
FileReplaceMerged(id) ==
  [type |-> "update", file |-> Encoded(id, inode[id].synced)]

FileReplace(id) ==
  [type |-> "replace", file |-> Encoded(id, inode[id].synced)]
FileDeletion(id, n) == [type |-> "deletion", id |-> id, name |-> n]

-----------------------------------------------------------------------------
(* Recovery.  A recovery state has the files_ map, the files and a status. *)

Empty == [files |-> [n \in Names |-> NoFile],
          inode |-> [id \in Ids |-> NoInode],
          snapshot |-> FALSE, status |-> "OK"]

Corrupt(st) == [st EXCEPT !.status = "Corruption"]

\* The files of a record set f of names to id; insert keeps what is there.
Insert(fs, names, id) ==
  [n \in Names |-> IF n \in names /\ fs[n] = NoFile THEN id ELSE fs[n]]

DecodeSnapshotFrom(st, r) ==
  [files |-> [n \in Names |->
      IF \E f \in r.files : n \in Range(f.links)
      THEN (CHOOSE f \in r.files : n \in Range(f.links)).id ELSE NoFile],
   inode |-> [id \in Ids |->
      IF \E f \in r.files : f.id = id
      THEN LET f == CHOOSE g \in r.files : g.id = id
           IN  [links |-> f.links, ext |-> f.ext, synced |-> Len(f.ext)]
      ELSE NoInode],
   snapshot |-> TRUE, status |-> "OK"]

\* An update of a file that some name stands for takes its old names away and
\* merges it; an update of any other file makes a new one, under its first
\* name only.
DecodeFileUpdateFrom(st, r) ==
  LET f     == r.file
      known == \E n \in Names : st.files[n] = f.id
      names == IF known THEN Range(st.inode[f.id].links) ELSE {}
      gone  == [n \in Names |-> IF n \in names THEN NoFile ELSE st.files[n]]
      ext   == IF known /\ r.type = "update" THEN st.inode[f.id].ext \o f.ext
               ELSE f.ext
      new   == [links |-> f.links, ext |-> ext, synced |-> Len(ext)]
  IN  IF \E n \in names : st.files[n] = NoFile
      THEN Corrupt(st)
      ELSE [st EXCEPT
              !.files = IF known THEN Insert(gone, Range(f.links), f.id)
                        ELSE Insert(gone, {f.links[1]}, f.id),
              !.inode[f.id] = new]

DecodeFileDeletionFrom(st, r) ==
  IF \/ st.files[r.name] # r.id
     \/ r.name \notin Range(st.inode[r.id].links)
  THEN Corrupt(st)
  ELSE [st EXCEPT !.files[r.name] = NoFile,
                  !.inode[r.id].links = RemoveFirst(@, r.name)]

Decode(st, r) ==
  CASE st.status # "OK" -> st
    [] st.status = "OK" /\ r.type = "snapshot" -> DecodeSnapshotFrom(st, r)
    [] st.status = "OK" /\ r.type \in {"update", "replace"} ->
         DecodeFileUpdateFrom(st, r)
    [] st.status = "OK" /\ r.type = "deletion" -> DecodeFileDeletionFrom(st, r)
    [] st.status = "OK" /\ r.type = "invalid" -> Corrupt(st)
    [] OTHER -> st

\* The loop of RecoverFrom over a log l: the records after the superblock, up to
\* an end record or to the write pointer.
Replay(st, l) ==
  LET after[i \in 1..Len(l)] ==
        IF i = 1 THEN [st EXCEPT !.snapshot = FALSE, !.status = "OK"]
        ELSE Decode(after[i - 1], l[i])
  IN  after[Len(l)]

\* Mutant of RecoverFrom: a log without a snapshot is corrupt.
RecoverFromStrict(st, l) ==
  LET s == Replay(st, l)
  IN  IF s.status = "OK" /\ ~s.snapshot THEN Corrupt(s) ELSE s

\* RecoverFrom a log l.  Files decoded in vain are still there afterwards.
RecoverFrom(st, l) ==
  LET s == Replay(st, l)
  IN  IF s.status = "OK" /\ ~s.snapshot THEN [s EXCEPT !.status = "NotFound"]
      ELSE s

\* The zones of the device contents d that are in use, and their order: the
\* highest sequence number first, among equal ones the last zone first.
Valid(d) == {z \in MZones : d[z] # <<>> /\ d[z][1] # Invalid}
Newer(d, y, z) == \/ d[y][1].seq > d[z][1].seq
                  \/ d[y][1].seq = d[z][1].seq /\ y > z
SeqMap(d) ==
  [i \in 1..Cardinality(Valid(d)) |->
     CHOOSE z \in Valid(d) :
       Cardinality({y \in Valid(d) : Newer(d, y, z)}) = i - 1]

\* Mount tries zone z after t: the zone recovered from (0 if none so far) and
\* what was recovered.  A corrupt log ends the mount; a log without a snapshot
\* sends it on to the next.
TryZone(t, d, z) ==
  LET s == RecoverFrom(t.st, d[z])
  IN  IF t.zone # 0 \/ t.st.status = "Corruption" THEN t
      ELSE [zone |-> IF s.status = "OK" THEN z ELSE 0, st |-> s]
TryZones(d, order) ==
  LET tried[i \in 0..Len(order)] ==
        IF i = 0 THEN [zone |-> 0, st |-> Empty]
        ELSE TryZone(tried[i - 1], d, order[i])
  IN  tried[Len(order)]

\* Mount up to the choice of the log.  A zone that does not start with a
\* superblock ends it.
Recover(d) ==
  IF \E z \in Valid(d) : d[z][1].type # "super"
  THEN [zone |-> 0, st |-> Corrupt(Empty)]
  ELSE TryZones(d, SeqMap(d))

\* File ids that a mount from zone z has decoded.
IdsOf(r) == CASE r.type = "snapshot" -> {f.id : f \in r.files}
              [] r.type \in {"update", "replace"} -> {r.file.id}
              [] OTHER -> {}
DecodedIds(z) ==
  UNION {UNION {IdsOf(r) : r \in Range(log[y])} :
           y \in {x \in Valid(log) : x = z \/ Newer(log, x, z)}}

-----------------------------------------------------------------------------
(* What MkFS and earlier use left: one log with a snapshot.                *)

InitLinks(id) == SetToSeq({n \in Names : InitFiles[n] = id})
InitIds == {InitFiles[n] : n \in Names} \ {NoFile}

Init ==
  /\ log = [z \in MZones |->
       IF z = 1
       THEN << [type |-> "super", seq |-> 1],
               [type |-> "snapshot",
                files |-> {[id |-> id, links |-> InitLinks(id), ext |-> <<"d">>]
                             : id \in InitIds}] >>
       ELSE <<>>]
  /\ full = [z \in MZones |-> FALSE]
  /\ cur = 0 /\ old = 0 /\ seq = 0
  /\ files = InitFiles
  /\ inode = [id \in Ids |->
       IF id \in InitIds
       THEN [links |-> InitLinks(id), ext |-> <<"d">>, synced |-> 1] ELSE NoInode]
  /\ next_id = 1
  /\ pc = "down"
  /\ op = NoOp /\ rec = NoRec /\ mig = NoMig
  /\ nops = 0 /\ ncrash = 0 /\ spoilt = {} /\ told = InitFiles
  /\ found = Recover(log)

-----------------------------------------------------------------------------
(* Operations.  An operation that first removes an existing file persists  *)
(* that deletion in phase 1 and itself in phase 2.                         *)

memVars == <<files, inode, next_id>>
diskVars == <<log, full, cur, old, seq, found>>

\* The contents of the metadata zones become d.
Contents(d) == log' = d /\ found' = Recover(d)
Untouched == UNCHANGED <<log, found>>

\* Marks in the history: "torn", a write cut short; "roll", a roll given up;
\* "create", a creation that makes the log roll and so is in no snapshot;
\* "migrate", a migration that was not persisted, or one whose new extents are
\* in a record or a snapshot of another operation; "overlap", an extent pushed
\* during an operation.
Marks == {"torn", "roll", "create", "migrate", "overlap"}
Mark(cond, what) == spoilt' = IF cond THEN spoilt \cup {what} ELSE spoilt

\* A rename or link of the file under migration counts its extents as synced.
MarkOvertaken ==
  Mark(op.kind \in {"rename", "link"} /\ op.phase = 2 /\ op.id = mig.id, "migrate")

\* DeleteFileNoLock up to PersistRecord.
Unlinked(fs, n) == [fs EXCEPT ![n] = NoFile]

DropLink(ino, id, n) == [ino EXCEPT ![id].links = RemoveFirst(@, n)]
AddLink(ino, id, n) == [ino EXCEPT ![id].links = Append(@, n)]

RenameLink(ino, id, n, m) == [ino EXCEPT ![id].links = Append(RemoveFirst(@, n), m)]

\* Mutant of MetadataSynced: nr_synced_extents_ is not advanced.
MetadataNotSynced(ino, id) == ino

MetadataSynced(ino, id) == [ino EXCEPT ![id].synced = Len(ino[id].ext)]

\* An operation starts: it may run, it has the mutex, it is counted.
Start(kind) ==
  /\ pc = "idle" /\ kind \in Ops
  /\ nops < MaxOps /\ nops' = nops + 1
  /\ pc' = "persist"
  /\ UNCHANGED <<diskVars, mig, ncrash, spoilt, told>>

\* Phase 1 of an operation on name n: the deletion of what n stands for.
StartDeletion(n, o) ==
  /\ files' = Unlinked(files, n)
  /\ inode' = DropLink(inode, files[n], n)
  /\ rec' = FileDeletion(files[n], n)
  /\ op' = [o EXCEPT !.id = files[n], !.before = files]

Operation(kind, n, m, id, phase) ==
  [kind |-> kind, name |-> n, to |-> m, id |-> id, phase |-> phase,
   before |-> files]

\* Phase 2 of OpenWritableFile: a new ZoneFile, which enters files_ only after
\* its creation is persisted.
MainCreate(n, fs, ino) ==
  /\ next_id \in Ids
  /\ next_id' = next_id + 1
  /\ files' = fs
  /\ inode' = [ino EXCEPT ![next_id] = [NoInode EXCEPT !.links = <<n>>]]
  /\ op' = [kind |-> "create", name |-> n, to |-> n, id |-> next_id, phase |-> 2,
            before |-> fs]
  /\ rec' = [type |-> "update",
             file |-> [id |-> next_id, links |-> <<n>>, ext |-> <<>>]]

\* Phase 2 of RenameFileNoLock.
MainRename(n, m, fs, ino) ==
  LET id  == fs[n]
      new == RenameLink(ino, id, n, m)
  IN  /\ files' = [fs EXCEPT ![n] = NoFile, ![m] = id]
      /\ inode' = new
      /\ op' = [kind |-> "rename", name |-> n, to |-> m, id |-> id, phase |-> 2,
                before |-> fs]
      /\ rec' = [type |-> "update",
                 file |-> [id |-> id, links |-> new[id].links,
                           ext |-> SubSeq(ino[id].ext, ino[id].synced + 1,
                                          Len(ino[id].ext))]]
      /\ UNCHANGED next_id

OpenWritableFile(n) ==
  /\ Start("create") /\ next_id \in Ids
  /\ IF files[n] = NoFile
     THEN MainCreate(n, files, inode)
     ELSE /\ StartDeletion(n, Operation("create", n, n, NoFile, 1))
          /\ UNCHANGED next_id

\* By the writer of the file, whom a migration excludes.
SyncFileMetadata(n) ==
  /\ Start("sync") /\ files[n] # NoFile /\ files[n] # mig.id
  /\ op' = Operation("sync", n, n, files[n], 2)
  /\ rec' = FileUpdate(files[n])
  /\ UNCHANGED memVars

DeleteFile(n) ==
  /\ Start("delete") /\ files[n] # NoFile
  /\ StartDeletion(n, Operation("delete", n, n, NoFile, 2))
  /\ UNCHANGED next_id

\* A rename onto the same name deletes the file like any other that is in the
\* way; then RenameLink does not find the name and the call ends with an error.
RenameFile(n, m) ==
  /\ Start("rename") /\ files[n] # NoFile
  /\ \/ /\ files[m] = NoFile
        /\ MainRename(n, m, files, inode)
     \/ /\ files[m] # NoFile /\ n # m
        /\ StartDeletion(m, Operation("rename", n, m, NoFile, 1))
        /\ UNCHANGED next_id
     \/ /\ n = m
        /\ StartDeletion(m, Operation("delete", n, m, NoFile, 2))
        /\ UNCHANGED next_id

LinkFile(n, m) ==
  /\ Start("link") /\ files[n] # NoFile /\ files[m] = NoFile
  /\ files' = [files EXCEPT ![m] = files[n]]
  /\ inode' = AddLink(inode, files[n], m)
  /\ op' = Operation("link", n, m, files[n], 2)
  /\ rec' = [type |-> "update",
             file |-> [FileUpdate(files[n]).file EXCEPT !.links = Append(@, m)]]
  /\ UNCHANGED next_id

\* A writer of the file pushes an extent: nothing is persisted.  It does not
\* hold files_mtx_, but its own syncs are not under way.
PushExtent(id) ==
  /\ pc # "down" /\ op.kind # "mount"
  /\ pc = "idle" \/ (Overlap /\ ~(op.kind = "sync" /\ op.id = id))
  /\ nops < MaxOps /\ nops' = nops + 1
  /\ "sync" \in Ops /\ mig.id # id
  /\ \E n \in Names : files[n] = id
  /\ Len(inode[id].ext) < MaxExt
  /\ inode' = [inode EXCEPT ![id].ext = Append(@, "d")]
  /\ Mark(pc # "idle", "overlap")
  /\ UNCHANGED <<diskVars, files, next_id, pc, op, rec, mig, ncrash, told>>

\* SyncFileExtents before it takes files_mtx_: ReplaceExtentList and
\* MetadataUnsynced.  The file is closed, so all its extents were synced and
\* no writer syncs it.
ReplaceExtentList(id) ==
  /\ pc # "down" /\ op.kind # "mount"
  /\ ~(op.kind = "sync" /\ op.id = id)
  /\ nops < MaxOps /\ nops' = nops + 1
  /\ "migrate" \in Ops /\ mig = NoMig
  /\ \E n \in Names : files[n] = id
  /\ inode[id].ext # <<>> /\ inode[id].synced = Len(inode[id].ext)
  /\ mig' = [id |-> id, ext |-> inode[id].ext]
  /\ inode' = [inode EXCEPT ![id] =
                 [links |-> @.links, ext |-> [i \in DOMAIN @.ext |-> "m"], synced |-> 0]]
  /\ UNCHANGED <<diskVars, files, next_id, pc, op, rec, ncrash, spoilt, told>>

\* SyncFileMetadata(replace) of the migrated file; a deleted one is skipped.
SyncFileExtents ==
  /\ pc = "idle" /\ mig # NoMig
  /\ IF inode[mig.id].links = <<>>
     THEN mig' = NoMig /\ UNCHANGED <<pc, op, rec>>
     ELSE /\ pc' = "persist"
          /\ op' = Operation("migrate", "-", "-", mig.id, 2)
          /\ rec' = FileReplace(mig.id)
          /\ UNCHANGED mig
  /\ UNCHANGED <<diskVars, memVars, nops, ncrash, spoilt, told>>

-----------------------------------------------------------------------------
(* What follows PersistRecord, given the files in memory.                  *)

Return == pc' = "idle" /\ op' = [NoOp EXCEPT !.before = files'] /\ rec' = NoRec

\* What the caller is told: an error says that memory is as it is now, OK that
\* the operation was done.
Answer(fs) == told' = fs

\* The record, or a snapshot, is on the device.
Persisted(ino) ==
  CASE op.phase = 1 /\ op.kind = "create" ->
         /\ MainCreate(op.name, files, ino) /\ pc' = "persist"
         /\ UNCHANGED <<mig, told>>
    [] op.phase = 1 /\ op.kind = "rename" ->
         /\ MainRename(op.name, op.to, files, ino) /\ pc' = "persist"
         /\ UNCHANGED <<mig, told>>
    [] op.phase = 2 /\ op.kind = "create" ->
         /\ files' = [files EXCEPT ![op.name] = op.id]
         /\ inode' = MetadataSynced(ino, op.id)
         /\ Return /\ Answer(files') /\ UNCHANGED <<next_id, mig>>
    [] op.phase = 2 /\ op.kind \in {"sync", "rename", "link"} ->
         /\ inode' = MetadataSynced(ino, op.id)
         /\ UNCHANGED <<files, next_id, mig>> /\ Return /\ Answer(files')
    [] op.phase = 2 /\ op.kind = "migrate" ->
         /\ inode' = MetadataSynced(ino, op.id)
         /\ mig' = NoMig
         /\ UNCHANGED <<files, next_id>> /\ Return /\ Answer(files')
    [] op.phase = 2 /\ op.kind \in {"delete", "mount"} ->
         /\ inode' = ino
         /\ UNCHANGED <<files, next_id, mig>> /\ Return /\ Answer(files')

\* Mutant of RestoreName: the link name is not added again.
RestoreNameOnly(n) ==
  /\ files' = [files EXCEPT ![n] = op.id]
  /\ UNCHANGED inode

\* DeleteFileNoLock takes back the removal of name n.
RestoreName(n) ==
  /\ files' = [files EXCEPT ![n] = op.id]
  /\ inode' = AddLink(inode, op.id, n)

\* It is not: the operation takes back what it did in memory.  A rename and a
\* link overwrite the error with the outcome of the undo, which is OK: the
\* caller is told that the name space is as it was before the undo.
Undone ==
  CASE op.phase = 1 \/ op.kind = "delete" ->
         /\ RestoreName(IF op.kind = "rename" THEN op.to ELSE op.name)
         /\ UNCHANGED <<next_id, mig>> /\ Return /\ Answer(files')
    [] op.phase = 2 /\ op.kind = "rename" ->
         /\ files' = [files EXCEPT ![op.to] = NoFile, ![op.name] = op.id]
         /\ inode' = RenameLink(inode, op.id, op.to, op.name)
         /\ UNCHANGED <<next_id, mig>> /\ Return /\ Answer(files)
    [] op.phase = 2 /\ op.kind = "link" ->
         /\ files' = [files EXCEPT ![op.to] = NoFile]
         /\ inode' = DropLink(inode, op.id, op.to)
         /\ UNCHANGED <<next_id, mig>> /\ Return /\ Answer(files)
    [] op.phase = 2 /\ op.kind = "create" ->
         /\ inode' = [inode EXCEPT ![op.id] = NoInode]
         /\ UNCHANGED <<files, next_id, mig>> /\ Return /\ Answer(files)
    [] op.phase = 2 /\ op.kind = "sync" ->
         UNCHANGED <<memVars, mig>> /\ Return /\ Answer(files)
    [] op.phase = 2 /\ op.kind = "migrate" ->
         mig' = NoMig /\ UNCHANGED memVars /\ Return /\ Answer(files)
    [] op.phase = 2 /\ op.kind = "mount" ->
         pc' = "down" /\ UNCHANGED <<memVars, mig, op, rec, told>>

-----------------------------------------------------------------------------
(* AquaMetaLog::AddRecord, PersistRecord and RollMetaZoneLocked.           *)

Write(z, r) == Contents([log EXCEPT ![z] = Append(@, r)])

\* A record cannot be written, or only some blocks of it.
WriteFails(z) ==
  /\ "append" \in Faults
  /\ \/ Untouched /\ Mark(op.kind = "migrate", "migrate")
     \/ Torn /\ Write(z, Invalid) /\ Mark(TRUE, "torn")

\* The log has room: the record is written, or the write fails.
PersistRecord ==
  /\ pc = "persist" /\ Capacity(cur) > 0
  /\ \/ /\ Write(cur, rec) /\ Persisted(inode)
        /\ MarkOvertaken
     \/ WriteFails(cur) /\ Undone
  /\ UNCHANGED <<full, cur, old, seq, nops, ncrash>>

\* NoSpace: the log rolls.
NoSpace ==
  /\ pc = "persist" /\ Capacity(cur) = 0
  /\ pc' = "alloc"
  /\ Mark(op.kind = "create" /\ op.phase = 2, "create")
  /\ UNCHANGED <<diskVars, memVars, op, rec, mig, nops, ncrash, told>>

\* The first zone that no log owns, reset if it has been written; meta_log_
\* is the log of that zone from here on.  A zone that cannot be reset is
\* passed over.
AllocateMetaZone ==
  /\ pc = "alloc"
  /\ LET free == MZones \ {cur}
         passed == {y \in free : "roll" \in Faults /\ log[y] # <<>>}
     IN  \/ \E z \in free :
              /\ \A y \in free \ passed : z <= y
              /\ Contents([log EXCEPT ![z] = <<>>])
              /\ full' = [full EXCEPT ![z] = FALSE]
              /\ cur' = z
              /\ old' = cur
              /\ pc' = "end"
              /\ UNCHANGED <<memVars, op, rec, mig, spoilt, told>>
         \/ /\ free = passed
            /\ Undone
            /\ Mark(TRUE, "roll")
            /\ UNCHANGED <<log, found, full, cur, old>>
  /\ UNCHANGED <<seq, nops, ncrash>>

\* Nobody looks at the outcome of the end record and of the finish.
WriteEndRecord ==
  /\ pc = "end"
  /\ \/ Capacity(old) > 0 /\ Write(old, [type |-> "end"])
     \/ (Capacity(old) > 0 => "end" \in Faults) /\ Untouched
  /\ pc' = "finish"
  /\ UNCHANGED <<full, cur, old, seq, memVars, op, rec, mig, nops, ncrash, spoilt,
                 told>>

\* Mutant of FinishOldZone: the old zone is reset before the new one has a
\* snapshot.
FinishResetsEarly ==
  /\ pc = "finish"
  /\ Contents([log EXCEPT ![old] = <<>>])
  /\ pc' = "super"
  /\ UNCHANGED <<full, cur, old, seq, memVars, op, rec, mig, nops, ncrash, spoilt,
                 told>>

\* Behind the records of a finished zone are blocks that were never written,
\* which nobody reads if there is an end record.
FinishOldZone ==
  /\ pc = "finish"
  /\ \/ /\ full' = [full EXCEPT ![old] = TRUE]
        /\ IF Capacity(old) > 0 /\ Last(log[old]).type # "end"
           THEN Write(old, Invalid) /\ Mark(TRUE, "torn")
           ELSE Untouched /\ UNCHANGED spoilt
     \/ "end" \in Faults /\ Untouched /\ UNCHANGED <<full, spoilt>>
  /\ pc' = "super"
  /\ UNCHANGED <<cur, old, seq, memVars, op, rec, mig, nops, ncrash, told>>

\* If the superblock or the snapshot cannot be written the roll fails, and
\* old_meta_log gives the old zone up.
WriteSuperblock ==
  /\ pc = "super"
  /\ seq' = seq + 1
  /\ \/ /\ Write(cur, [type |-> "super", seq |-> seq'])
        /\ pc' = "snap"
        /\ UNCHANGED <<old, memVars, op, rec, mig, spoilt, told>>
     \/ /\ "roll" \in Faults /\ Untouched /\ Undone
        /\ old' = 0
        /\ Mark(TRUE, "roll")
  /\ UNCHANGED <<full, cur, nops, ncrash>>

SyncedAll ==
  [id \in Ids |-> IF \E n \in Names : files[n] = id
                  THEN [inode[id] EXCEPT !.synced = Len(inode[id].ext)]
                  ELSE inode[id]]

EncodeSnapshotTo ==
  /\ pc = "snap"
  /\ rec' = Snapshot
  /\ pc' = "write"
  /\ UNCHANGED <<diskVars, memVars, op, mig, nops, ncrash, spoilt, told>>

\* The rest of WriteSnapshotLocked: all files count as synced.
WriteSnapshotLocked ==
  /\ pc = "write"
  /\ \/ /\ Write(cur, rec)
        /\ inode' = SyncedAll
        /\ pc' = "reset"
        /\ Mark(mig # NoMig /\ op.kind # "migrate", "migrate")
        /\ UNCHANGED <<old, files, next_id, op, rec, mig, told>>
     \/ /\ "roll" \in Faults /\ Undone
        /\ Untouched \/ (Torn /\ Write(cur, Invalid))
        /\ old' = 0
        /\ Mark(TRUE, "roll")
  /\ UNCHANGED <<full, cur, seq, nops, ncrash>>

\* The old zone is reset; the record itself need not be written any more.
ResetOldZone ==
  /\ pc = "reset"
  /\ \/ /\ Contents([log EXCEPT ![old] = <<>>])
        /\ full' = [full EXCEPT ![old] = FALSE]
     \/ "roll" \in Faults /\ Untouched /\ UNCHANGED full
  /\ old' = 0
  /\ Persisted(inode)
  /\ MarkOvertaken
  /\ UNCHANGED <<cur, seq, nops, ncrash>>

-----------------------------------------------------------------------------
\* Everything in memory is lost.  The variables keep what users were promised
\* until the next mount.  The record that is being written may be cut short.
Crash ==
  /\ pc # "down" /\ ncrash < MaxCrash
  /\ pc' = "down"
  /\ ncrash' = ncrash + 1
  /\ \/ Untouched /\ UNCHANGED spoilt
     \/ /\ Mark(TRUE, "torn")
        /\ Torn /\ pc \in {"persist", "write"} /\ Capacity(cur) > 0
        /\ Write(cur, Invalid)
  /\ UNCHANGED <<full, cur, old, seq, memVars, op, rec, mig, nops, told>>

\* Mount: recovery, then a roll to a fresh zone.
Mount ==
  /\ pc = "down" /\ found.zone # 0
  /\ LET st == found.st
     IN  /\ files' = st.files
         /\ told' = st.files
         /\ inode' = st.inode
         /\ next_id' = 1 + Max({0} \cup DecodedIds(found.zone))
         /\ op' = [NoOp EXCEPT !.kind = "mount", !.before = st.files]
  /\ cur' = found.zone
  /\ seq' = log[found.zone][1].seq
  /\ old' = 0
  /\ mig' = NoMig /\ rec' = NoRec
  /\ pc' = "alloc"
  /\ UNCHANGED <<log, found, full, nops, ncrash, spoilt>>

Next ==
  \/ \E n \in Names : OpenWritableFile(n) \/ SyncFileMetadata(n) \/ DeleteFile(n)
  \/ \E n, m \in Names : RenameFile(n, m) \/ LinkFile(n, m)
  \/ \E id \in Ids : PushExtent(id) \/ ReplaceExtentList(id)
  \/ SyncFileExtents
  \/ PersistRecord \/ NoSpace
  \/ AllocateMetaZone \/ WriteEndRecord \/ FinishOldZone
  \/ WriteSuperblock \/ EncodeSnapshotTo \/ WriteSnapshotLocked \/ ResetOldZone
  \/ Crash \/ Mount

Spec == Init /\ [][Next]_vars

-----------------------------------------------------------------------------
TypeOK ==
  /\ \A z \in MZones : Len(log[z]) <= MetaCap
  /\ full \in [MZones -> BOOLEAN]
  /\ cur \in 0..MetaZones /\ old \in 0..MetaZones
  /\ seq \in Nat
  /\ files \in [Names -> {NoFile} \cup Ids]
  /\ \A id \in Ids : /\ Range(inode[id].links) \subseteq Names
                     /\ Range(inode[id].ext) \subseteq {"d", "m"}
                     /\ inode[id].synced \in 0..Len(inode[id].ext)
  /\ next_id \in 1..(MaxId + 1)
  /\ pc \in Steps
  /\ mig.id \in {NoFile} \cup Ids
  /\ spoilt \subseteq Marks

\* The name space as the operation under way will leave it.
After == IF op.kind = "create" /\ op.phase = 2
         THEN [files EXCEPT ![op.name] = op.id] ELSE files

\* A mount finds the name space whenever the machine stops.  "Recover from the
\* zone with the highest superblock sequence number.  If that fails go to the
\* previous as we might have crashed when rolling metadata zone"
\* (fs_aquafs.cc:1536).
MountSucceeds == found.zone # 0

\* What the operations did in memory and did not take back survives a crash at
\* any point of any later write or roll, and the operation under way is seen
\* entirely or not at all.  Whether the caller was told so is the subject of
\* AcknowledgedDone; a rename and a creation over an existing file are two
\* operations, the deletion first.  "After a successfull roll, a complete
\* snapshot has been persisted - no need to write the record update"
\* (fs_aquafs.cc:528).
NamespaceDurable == MountSucceeds /\ found.st.files \in {op.before, After}

\* An operation that returned OK was done: between operations the name space in
\* memory, which is the one that survives, is the one the answers promise.
\* "Failed to persist the rename, roll back" (fs_aquafs.cc:1087): after such a
\* roll-back the rename of a directory returns the error it kept
\* (`failed_rename`, fs_aquafs.cc:1041), the rename of a file the OK of the
\* roll-back.
AcknowledgedDone == pc = "idle" => files = told

\* The extents a mount finds are those synced, possibly with later ones that a
\* snapshot picked up, in order and once each; for a file under migration the
\* old list or the new one (nr_synced_extents_ against rolls and replacements).
\* The log holds "Incremental file system updates (new files, new extents,
\* deletes, renames etc)" (README.md:218).
ExtentsDurable ==
  \A id \in {found.st.files[n] : n \in Names} \ {NoFile} :
    LET onDisk == found.st.inode[id].ext
        file  == inode[id]
    IN  IF id = mig.id THEN onDisk \in {mig.ext, file.ext}
        ELSE /\ IsPrefix(SubSeq(file.ext, 1, file.synced), onDisk)
             /\ IsPrefix(onDisk, file.ext)

\* With all of the name space operations, the collector, crashes and every
\* failure of every write together, the log loses nothing but for what
\* Marks names: the name space is found unless a write was cut short, a roll
\* was given up or a creation made the log roll, and the extents unless, in
\* addition, a migration or a push came between (PersistRecord,
\* RollMetaZoneLocked, Mount).
SurvivesFaults ==
  /\ spoilt \cap {"torn", "roll", "create"} = {} => NamespaceDurable
  /\ spoilt = {} => ExtentsDurable

\* files_ and the link names of the files agree between operations, also after
\* operations that could not be persisted and took themselves back: "Failed to
\* persist the delete, return to a consistent state" (fs_aquafs.cc:628).  A
\* creation that was lost in a roll (MetaCreateLost) excepted: a later link
\* of the file writes a record with both names, of a file that the log does not
\* have, and the mount enters such a file in files_ under its first name only.
NamesMatchLinks ==
  pc = "idle" /\ "create" \notin spoilt =>
    \A id \in Ids :
      /\ {n \in Names : files[n] = id} = Range(inode[id].links)
      /\ IsInjective(inode[id].links)

\* What a mount would find changes by one operation of Namespace at a time,
\* and by nothing else: not by a roll, a crash or a mount.
NS == INSTANCE Namespace WITH ns <- found.st.files
NamespaceRefined == NS!Spec
=============================================================================
