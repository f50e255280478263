----------------------------- MODULE FileLocks -----------------------------
(***************************************************************************)
(* The locks of AquaFS (aquafs-plugin/fs): files_mtx_, which protects the  *)
(* name space and is taken to persist the metadata of a file, and the      *)
(* write lock open_for_wr_mtx_ of each ZoneFile, held from the opening of  *)
(* a file for writing to its close, and by the garbage collector while it  *)
(* migrates the file.  active_zone_ is what the write lock protects.       *)
(*                                                                         *)
(* A critical section of files_mtx_ that cannot block is one step, enabled *)
(* while the mutex is free.  The one that can is the opening of an         *)
(* existing file: it waits for the write lock with files_mtx_ held.        *)
(***************************************************************************)
EXTENDS Integers, FiniteSets

CONSTANTS
  Users,       \* threads that open, write, close and delete files
  GC,          \* the garbage collection thread
  None,        \* no thread, no file
  Files,       \* ZoneFile objects, each with its name
  Faults       \* what may fail: "persist" (a record), "close" (of a zone)

ASSUME LocksAssumption ==
  /\ GC \notin Users /\ None \notin Users \cup Files \cup {GC}
  /\ Faults \subseteq {"persist", "close"}

Threads == Users \cup {GC}

VARIABLES
  files_mtx,  \* holder of files_mtx_ between two steps
  wr,         \* wr[f]: holder of open_for_wr_mtx_
  exists,     \* exists[f]: f is in files_
  active,     \* active[f]: active_zone_ # nullptr
  pc, file,   \* where a thread stands, the file its call is about
  next,       \* where it goes on after the call it makes now
  reopened,   \* history: files in use that were opened again
  unclosed,   \* history: files in use of which a Close has failed
  abandoned   \* history: files left locked by a destructor whose Close failed

history == <<reopened, unclosed>>
vars == <<files_mtx, wr, exists, active, pc, file, next, reopened, unclosed,
          abandoned>>

(***************************************************************************)
(* Users: "idle"; "reopen", "wrwait" (OpenWritableFile with reopen: before *)
(* files_mtx_, before the write lock); "open" (between calls); "set"       *)
(* (SetActiveZone), "persist" (PersistMetadata), "write"; "unlock"         *)
(* (ReleaseWRLock), "close", "release" (CloseActiveZone and its            *)
(* ReleaseActiveZone); "failed" (Close returned an error).  The collector: *)
(* "gcidle", "gctry", "gcmove", "gcsync", "gcunlock".                      *)
(***************************************************************************)
UserStages == {"idle", "reopen", "wrwait", "open", "set", "persist", "write",
               "unlock", "close", "release", "failed"}
GCStages == {"gcidle", "gctry", "gcmove", "gcsync", "gcunlock"}

Init ==
  /\ files_mtx = None
  /\ wr = [f \in Files |-> None]
  /\ exists = [f \in Files |-> FALSE]
  /\ active = [f \in Files |-> FALSE]
  /\ pc = [t \in Threads |-> IF t = GC THEN "gcidle" ELSE "idle"]
  /\ file = [t \in Threads |-> None]
  /\ next = [t \in Threads |-> "idle"]
  /\ reopened = {} /\ unclosed = {} /\ abandoned = {}

GoTo(t, stage) == pc' = [pc EXCEPT ![t] = stage]

\* Calls PersistMetadata or CloseActiveZone, then goes on at stage after.
Call(t, stage, after) ==
  /\ GoTo(t, stage)
  /\ next' = [next EXCEPT ![t] = after]
Return(t, stage) == Call(t, stage, "idle")

\* Thread t has no file any more.  What happened to a file is forgotten when
\* nobody refers to it.
LetGo(t) ==
  LET used == {f \in Files : \E u \in Threads \ {t} : file[u] = f}
  IN  /\ file' = [file EXCEPT ![t] = None]
      /\ reopened' = reopened \cap used
      /\ unclosed' = unclosed \cap used

-----------------------------------------------------------------------------
(* Opening and deleting.                                                   *)

\* A file that is not there: a new ZoneFile, whose lock nobody else has seen.
OpenWritableFile(t, f) ==
  /\ pc[t] = "idle" /\ files_mtx = None
  /\ ~exists[f] /\ \A u \in Threads : file[u] # f
  /\ exists' = [exists EXCEPT ![f] = TRUE]
  /\ wr' = [wr EXCEPT ![f] = t]
  /\ active' = [active EXCEPT ![f] = FALSE]
  /\ file' = [file EXCEPT ![t] = f]
  /\ GoTo(t, "open")
  /\ abandoned' = abandoned \ {f}
  /\ UNCHANGED <<files_mtx, next, history>>

\* The caller chooses to reopen a file.
ReopenWritableFile(t, f) ==
  /\ pc[t] = "idle" /\ exists[f]
  /\ file' = [file EXCEPT ![t] = f]
  /\ GoTo(t, "reopen")
  /\ reopened' = reopened \cup {f}
  /\ UNCHANGED <<files_mtx, wr, exists, active, next, unclosed, abandoned>>

\* It finds the file and waits for the write lock, or the file is gone and the
\* call makes a new one, which is OpenWritableFile.
FindFile(t) ==
  /\ pc[t] = "reopen" /\ files_mtx = None
  /\ IF exists[file[t]]
     THEN /\ files_mtx' = t
          /\ GoTo(t, "wrwait")
          /\ UNCHANGED <<file, history>>
     ELSE /\ GoTo(t, "idle") /\ LetGo(t)
          /\ UNCHANGED files_mtx
  /\ UNCHANGED <<wr, exists, active, next, abandoned>>

AcquireWRLock(t) ==
  /\ pc[t] = "wrwait" /\ wr[file[t]] = None
  /\ wr' = [wr EXCEPT ![file[t]] = t]
  /\ files_mtx' = None
  /\ GoTo(t, "open")
  /\ UNCHANGED <<exists, active, file, next, history, abandoned>>

\* The object lives on as long as somebody refers to it.
DeleteFile(t, f) ==
  /\ pc[t] = "idle" /\ files_mtx = None
  /\ exists[f]
  /\ exists' = [exists EXCEPT ![f] = FALSE]
  /\ UNCHANGED <<files_mtx, wr, active, pc, file, next, history, abandoned>>

-----------------------------------------------------------------------------
(* Writing and closing.                                                    *)

\* ZoneFile::Append looks at active_zone_.
Append(t) ==
  /\ pc[t] = "open"
  /\ GoTo(t, IF active[file[t]] THEN "write" ELSE "set")
  /\ UNCHANGED <<files_mtx, wr, exists, active, file, next, history, abandoned>>

\* AllocateNewZone, once it has a zone.
SetActiveZone(t) ==
  /\ pc[t] = "set"
  /\ active' = [active EXCEPT ![file[t]] = TRUE]
  /\ Call(t, "persist", "write")
  /\ UNCHANGED <<files_mtx, wr, exists, file, history, abandoned>>

PersistMetadata(t) ==
  /\ pc[t] = "persist" /\ files_mtx = None
  /\ Return(t, next[t])
  /\ UNCHANGED <<files_mtx, wr, exists, active, file, history, abandoned>>

\* The record is not written.  An append ends there.  CloseWR returns before
\* ReleaseWRLock, and so does a Close whose DataSync fails: the caller may call
\* it again, and the destructor does; when that fails too, the lock stays taken.
PersistFails(t) ==
  /\ "persist" \in Faults
  /\ pc[t] = "persist" /\ files_mtx = None
  /\ \/ /\ next[t] = "write" /\ Return(t, "open")
        /\ UNCHANGED <<file, history, abandoned>>
     \/ /\ next[t] = "unlock" /\ Return(t, "failed")
        /\ UNCHANGED <<file, history, abandoned>>
     \/ /\ next[t] = "unlock" /\ Return(t, "idle")
        /\ abandoned' = abandoned \cup {f \in {file[t]} : wr[f] = t}
        /\ LetGo(t)
  /\ UNCHANGED <<files_mtx, wr, exists, active>>

\* The append is done, or its zone is full and it needs another one.
Write(t) ==
  /\ pc[t] = "write"
  /\ \/ GoTo(t, "open") /\ UNCHANGED next
     \/ Call(t, "close", "set")
  /\ UNCHANGED <<files_mtx, wr, exists, active, file, history, abandoned>>

\* Close: DataSync and PersistMetadata, ReleaseWRLock, CloseActiveZone.  After
\* an error the destructor calls it once more.
CloseWR(t) ==
  /\ pc[t] \in {"open", "failed"}
  /\ Call(t, "persist", "unlock")
  /\ UNCHANGED <<files_mtx, wr, exists, active, file, history, abandoned>>

\* std::mutex::unlock frees the mutex whoever holds it.
ReleaseWRLock(t) ==
  /\ pc[t] = "unlock"
  /\ wr' = [wr EXCEPT ![file[t]] = None]
  /\ abandoned' = abandoned \ {file[t]}
  /\ Call(t, "close", "idle")
  /\ UNCHANGED <<files_mtx, exists, active, file, history>>

\* Mutant of Leave: the file is not let go of.
LeaveHolding(t, stage) ==
  /\ Return(t, stage)
  /\ UNCHANGED <<file, history>>

\* The end of CloseActiveZone; the caller lets go of a file it has closed.
Leave(t, stage) ==
  /\ Return(t, stage)
  /\ IF stage = "idle" THEN LetGo(t) ELSE UNCHANGED <<file, history>>

\* if (active_zone_) ... Close()
CloseActiveZone(t) ==
  /\ pc[t] = "close"
  /\ IF active[file[t]] THEN GoTo(t, "release") /\ UNCHANGED <<file, next, history>>
     ELSE Leave(t, next[t])
  /\ UNCHANGED <<files_mtx, wr, exists, active, abandoned>>

\* Mutant of ReleaseActiveZone: active_zone_ is not cleared.
ReleaseKeepsPointer(t) ==
  /\ pc[t] = "release"
  /\ Leave(t, next[t])
  /\ UNCHANGED <<files_mtx, wr, exists, active, abandoned>>

\* The rest of it.  A zone that was not full may have failed to close: then
\* Close is called again, unless it was the destructor's call.
ReleaseActiveZone(t) ==
  /\ pc[t] = "release"
  /\ active' = [active EXCEPT ![file[t]] = FALSE]
  /\ \/ Leave(t, next[t])
     \/ /\ "close" \in Faults
        /\ next[t] = "idle" /\ Return(t, "failed")
        /\ unclosed' = unclosed \cup {file[t]}
        /\ UNCHANGED <<file, reopened>>
  /\ UNCHANGED <<files_mtx, wr, exists, abandoned>>

-----------------------------------------------------------------------------
(* MigrateFileExtents.                                                     *)

\* A file of the snapshot, looked up again.
GetFile(f) ==
  /\ pc[GC] = "gcidle" /\ files_mtx = None
  /\ exists[f]
  /\ file' = [file EXCEPT ![GC] = f]
  /\ GoTo(GC, "gctry")
  /\ UNCHANGED <<files_mtx, wr, exists, active, next, history, abandoned>>

\* Mutant of TryAcquireWRLock: the outcome of try_lock is ignored.
TryAcquireIgnored ==
  /\ pc[GC] = "gctry"
  /\ wr' = [wr EXCEPT ![file[GC]] = GC]
  /\ GoTo(GC, "gcmove")
  /\ UNCHANGED <<files_mtx, exists, active, file, next, history, abandoned>>

TryAcquireWRLock ==
  /\ pc[GC] = "gctry"
  /\ \/ /\ wr[file[GC]] = None
        /\ wr' = [wr EXCEPT ![file[GC]] = GC]
        /\ GoTo(GC, "gcmove")
        /\ UNCHANGED <<file, history>>
     \/ /\ wr[file[GC]] # None
        /\ GoTo(GC, "gcidle") /\ LetGo(GC)
        /\ UNCHANGED wr
  /\ UNCHANGED <<files_mtx, exists, active, next, abandoned>>

MigrateData ==
  /\ pc[GC] = "gcmove"
  /\ GoTo(GC, "gcsync")
  /\ UNCHANGED <<files_mtx, wr, exists, active, file, next, history, abandoned>>

SyncFileExtents ==
  /\ pc[GC] = "gcsync" /\ files_mtx = None
  /\ GoTo(GC, "gcunlock")
  /\ UNCHANGED <<files_mtx, wr, exists, active, file, next, history, abandoned>>

\* Mutant of EndMigration: the lock is not given back.
EndMigrationLocked ==
  /\ pc[GC] = "gcunlock"
  /\ GoTo(GC, "gcidle") /\ LetGo(GC)
  /\ UNCHANGED <<files_mtx, wr, exists, active, next, abandoned>>

EndMigration ==
  /\ pc[GC] = "gcunlock"
  /\ wr' = [wr EXCEPT ![file[GC]] = None]
  /\ abandoned' = abandoned \ {file[GC]}
  /\ GoTo(GC, "gcidle") /\ LetGo(GC)
  /\ UNCHANGED <<files_mtx, exists, active, next>>

-----------------------------------------------------------------------------
\* What a caller decides, and what a call does by itself once it is made.
Decide(t) ==
  \/ \E f \in Files : \/ OpenWritableFile(t, f)
                      \/ ReopenWritableFile(t, f)
                      \/ DeleteFile(t, f)
  \/ Append(t) \/ CloseWR(t)
Proceed(t) ==
  \/ FindFile(t) \/ AcquireWRLock(t)
  \/ SetActiveZone(t) \/ PersistMetadata(t) \/ PersistFails(t) \/ Write(t)
  \/ ReleaseWRLock(t) \/ CloseActiveZone(t) \/ ReleaseActiveZone(t)
Migrate ==
  TryAcquireWRLock \/ MigrateData \/ SyncFileExtents \/ EndMigration

Next ==
  \/ \E t \in Users : Decide(t) \/ Proceed(t)
  \/ \E f \in Files : GetFile(f)
  \/ Migrate

\* Threads run; callers decide at their leisure.
Fairness ==
  /\ \A t \in Users : WF_vars(Proceed(t))
  /\ WF_vars(Migrate)

Spec == Init /\ [][Next]_vars /\ Fairness

-----------------------------------------------------------------------------
TypeOK ==
  /\ files_mtx \in Users \cup {None}
  /\ wr \in [Files -> Threads \cup {None}]
  /\ exists \in [Files -> BOOLEAN]
  /\ active \in [Files -> BOOLEAN]
  /\ pc \in [Threads -> UserStages \cup GCStages]
  /\ \A t \in Users : pc[t] \in UserStages
  /\ pc[GC] \in GCStages
  /\ file \in [Threads -> Files \cup {None}]
  /\ \A t \in Threads : file[t] = None <=> pc[t] \in {"idle", "gcidle"}
  /\ next \in [Threads -> UserStages]
  /\ reopened \subseteq Files /\ unclosed \subseteq Files /\ abandoned \subseteq Files

\* Threads between the acquisition of a write lock and its release.
Writing(t) == \/ pc[t] \in {"open", "set", "persist", "write", "unlock"}
              \/ pc[t] \in {"close", "release"} /\ next[t] = "set"
Migrating == pc[GC] \in {"gcmove", "gcsync", "gcunlock"}

\* A file has one writer at a time, and none while the collector moves its
\* extents, however opens, reopens, deletions and migrations interleave: "Don't
\* migrate open for write files and prevent write reopens while we migrate"
\* (fs_aquafs.cc:1918).  A failed Close spoils the lock of its own file only,
\* whose destructor unlocks it a second time.
WriterExclusive ==
  /\ \A t \in Users :
       Writing(t) /\ file[t] \notin unclosed => wr[file[t]] = t
  /\ Migrating /\ file[GC] \notin unclosed => wr[file[GC]] = GC

\* The assertions of SetActiveZone (io_aquafs.cc:785) and ReleaseActiveZone
\* (io_aquafs.cc:777), for files that are not reopened: a writer sets a zone
\* where there is none and releases the one it found, also after a Close that
\* failed and with other files reopened beside it.
ActiveZoneAsserts ==
  \A t \in Users : file[t] \notin reopened =>
    /\ pc[t] = "set" => ~active[file[t]]
    /\ pc[t] = "release" => active[file[t]]

\* Every way out of a file gives its write lock back: a lock that is taken is
\* taken by a thread that still writes or migrates the file, or whose Close has
\* failed and will be repeated; only a file whose destructor's own Close failed
\* stays locked with nobody in it (io_aquafs.cc:304-313, fs_aquafs.cc:1913-1972).
LocksReturned ==
  \A f \in Files : wr[f] # None /\ f \notin abandoned =>
    LET t == wr[f]
    IN  /\ file[t] = f
        /\ IF t = GC THEN Migrating ELSE Writing(t) \/ pc[t] = "failed"

\* A migration ends, so that the reopens it holds up go on: "prevent write
\* reopens while we migrate" (fs_aquafs.cc:1918).
MigrationEnds == Migrating ~> ~Migrating
=============================================================================
