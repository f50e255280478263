-------------------------- MODULE FileLocksProofs --------------------------
(***************************************************************************)
(* The write lock of a file excludes other writers and the collector, for  *)
(* any threads and files, unless a Close of that file has failed: only     *)
(* then does a thread release a lock twice.  The assertions on             *)
(* active_zone_ hold for a file that is not reopened.                      *)
(***************************************************************************)
EXTENDS FileLocks, TLAPS

\* A call goes on where it was made from: persisting leads to the write or to
\* the release of the lock, closing a zone to the next zone or out; and whoever
\* repeats a Close does so on a file that is marked.
CallsNested ==
  \A t \in Users :
    /\ pc[t] = "persist" => next[t] \in {"write", "unlock"}
    /\ pc[t] \in {"close", "release"} => next[t] \in {"set", "idle"}
    /\ pc[t] = "failed" => file[t] \in unclosed \/ wr[file[t]] = t

\* The inductive invariant.  WriterExclusive needs CallsNested, which tells a
\* thread that closes a full zone in order to go on from one that has released
\* its lock.
LockInv == TypeOK /\ CallsNested /\ WriterExclusive /\ LocksReturned

USE DEF UserStages, GCStages, Threads

\* The initial states satisfy the inductive invariant.
LEMMA LockInit == Init => LockInv
  BY LocksAssumption
  DEF Init, LockInv, TypeOK, CallsNested, WriterExclusive, LocksReturned, Writing,
      Migrating

\* Every step of a user preserves it: a lock is taken only when it is free or
\* the file is new, and released only by the thread that holds it.
LEMMA LockUser ==
  ASSUME LockInv, NEW t \in Users, Decide(t) \/ Proceed(t)
  PROVE  LockInv'
<1> USE LocksAssumption DEF LockInv, TypeOK, CallsNested, WriterExclusive,
        LocksReturned, Writing, Migrating, GoTo, Call, Return, LetGo, Leave, history
<1>1. ASSUME NEW f \in Files, OpenWritableFile(t, f) PROVE LockInv'
  BY <1>1 DEF OpenWritableFile
<1>2. ASSUME NEW f \in Files, ReopenWritableFile(t, f) PROVE LockInv'
  BY <1>2 DEF ReopenWritableFile
<1>3. ASSUME NEW f \in Files, DeleteFile(t, f) PROVE LockInv'
  BY <1>3 DEF DeleteFile
<1>4. CASE Append(t) BY <1>4 DEF Append
<1>5. CASE CloseWR(t) BY <1>5 DEF CloseWR
<1>6. CASE FindFile(t) BY <1>6 DEF FindFile
<1>7. CASE AcquireWRLock(t) BY <1>7 DEF AcquireWRLock
<1>8. CASE SetActiveZone(t) BY <1>8 DEF SetActiveZone
<1>9. CASE PersistMetadata(t) BY <1>9 DEF PersistMetadata
<1>10. CASE Write(t) BY <1>10 DEF Write
<1>11. CASE ReleaseWRLock(t) BY <1>11 DEF ReleaseWRLock
<1>12. CASE CloseActiveZone(t) BY <1>12 DEF CloseActiveZone
<1>13. CASE ReleaseActiveZone(t) BY <1>13 DEF ReleaseActiveZone
<1>14. CASE PersistFails(t) BY <1>14 DEF PersistFails
<1>15. QED
  BY <1>1, <1>2, <1>3, <1>4, <1>5, <1>6, <1>7, <1>8, <1>9, <1>10, <1>11, <1>12,
     <1>13, <1>14 DEF Decide, Proceed

\* Every step of the collector preserves it.
LEMMA LockCollector ==
  ASSUME LockInv, Migrate \/ \E f \in Files : GetFile(f)
  PROVE  LockInv'
<1> USE LocksAssumption DEF LockInv, TypeOK, CallsNested, WriterExclusive,
        LocksReturned, Writing, Migrating, GoTo, LetGo, history
<1>1. ASSUME NEW f \in Files, GetFile(f) PROVE LockInv'
  BY <1>1 DEF GetFile
<1>2. CASE TryAcquireWRLock BY <1>2 DEF TryAcquireWRLock
<1>3. CASE MigrateData BY <1>3 DEF MigrateData
<1>4. CASE SyncFileExtents BY <1>4 DEF SyncFileExtents
<1>5. CASE EndMigration BY <1>5 DEF EndMigration
<1>6. QED BY <1>1, <1>2, <1>3, <1>4, <1>5 DEF Migrate

\* The inductive invariant holds throughout.
LEMMA LockHolds == Spec => []LockInv
<1>1. Init => LockInv BY LockInit
<1>2. LockInv /\ [Next]_vars => LockInv'
  <2> SUFFICES ASSUME LockInv, [Next]_vars PROVE LockInv' OBVIOUS
  <2>1. CASE \E t \in Users : Decide(t) \/ Proceed(t) BY <2>1, LockUser
  <2>2. CASE Migrate \/ \E f \in Files : GetFile(f) BY <2>2, LockCollector
  <2>3. CASE UNCHANGED vars
    BY <2>3 DEF vars, LockInv, TypeOK, CallsNested, WriterExclusive, LocksReturned,
                Writing, Migrating
  <2>4. QED BY <2>1, <2>2, <2>3 DEF Next
<1>3. QED BY <1>1, <1>2, PTL DEF Spec

\* The variables keep their types, and a thread has a file exactly while its
\* call is about one (OpenWritableFile, Close, MigrateFileExtents).
THEOREM LockTypes == Spec => []TypeOK
<1>1. LockInv => TypeOK BY DEF LockInv
<1>2. QED BY LockHolds, <1>1, PTL

\* A file never has two writers, nor a writer while it is migrated, for any
\* threads and files and with reopens and failing closes, unless a Close of that
\* very file has failed (open_for_wr_mtx_ in OpenWritableFile, CloseWR and
\* MigrateFileExtents).
THEOREM WritersExcluded == Spec => []WriterExclusive
<1>1. LockInv => WriterExclusive BY DEF LockInv
<1>2. QED BY LockHolds, <1>1, PTL

\* A write lock that is taken is taken by a thread that is still in the file,
\* unless the last Close of the file failed: for any threads and files no error
\* path of Append, Close or MigrateFileExtents keeps a lock but that one
\* (CloseWR, io_aquafs.cc:304-313).
THEOREM LocksGivenBack == Spec => []LocksReturned
<1>1. LockInv => LocksReturned BY DEF LockInv
<1>2. QED BY LockHolds, <1>1, PTL

-----------------------------------------------------------------------------
\* A file that is not reopened has one user from its opening to the end of its
\* close: the release of the write lock before CloseActiveZone is then harmless.
OneUser ==
  \A t, u \in Users :
    file[t] = file[u] /\ file[t] # None /\ file[t] \notin reopened => t = u

\* The inductive invariant for active_zone_.
ZoneInv ==
  /\ TypeOK /\ OneUser /\ ActiveZoneAsserts
  /\ \A t \in Users : /\ pc[t] \in {"reopen", "wrwait"} => file[t] \in reopened
                      /\ pc[t] = "persist" => next[t] \in {"write", "unlock"}
                      /\ pc[t] \in {"close", "release"} => next[t] \in {"set", "idle"}

\* Every step of a user preserves it.
LEMMA ZoneUser ==
  ASSUME ZoneInv, NEW t \in Users, Decide(t) \/ Proceed(t)
  PROVE  ZoneInv'
<1> USE LocksAssumption DEF ZoneInv, TypeOK, OneUser, ActiveZoneAsserts, GoTo,
        Call, Return, LetGo, Leave, history
<1>1. ASSUME NEW f \in Files, OpenWritableFile(t, f) PROVE ZoneInv'
  BY <1>1 DEF OpenWritableFile
<1>2. ASSUME NEW f \in Files, ReopenWritableFile(t, f) PROVE ZoneInv'
  BY <1>2 DEF ReopenWritableFile
<1>3. ASSUME NEW f \in Files, DeleteFile(t, f) PROVE ZoneInv'
  BY <1>3 DEF DeleteFile
<1>4. CASE Append(t) BY <1>4 DEF Append
<1>5. CASE CloseWR(t) BY <1>5 DEF CloseWR
<1>6. CASE FindFile(t) BY <1>6 DEF FindFile
<1>13. CASE AcquireWRLock(t) BY <1>13 DEF AcquireWRLock
<1>7. CASE SetActiveZone(t) BY <1>7 DEF SetActiveZone
<1>8. CASE PersistMetadata(t) BY <1>8 DEF PersistMetadata
<1>9. CASE Write(t) BY <1>9 DEF Write
<1>10. CASE ReleaseWRLock(t) BY <1>10 DEF ReleaseWRLock
<1>11. CASE CloseActiveZone(t) BY <1>11 DEF CloseActiveZone
<1>12. CASE ReleaseActiveZone(t) BY <1>12 DEF ReleaseActiveZone
<1>14. CASE PersistFails(t) BY <1>14 DEF PersistFails
<1>15. QED
  BY <1>1, <1>2, <1>3, <1>4, <1>5, <1>6, <1>7, <1>8, <1>9, <1>10, <1>11, <1>12,
     <1>13, <1>14
  DEF Decide, Proceed

\* The collector does not touch active_zone_.
LEMMA ZoneCollector ==
  ASSUME ZoneInv, Migrate \/ \E f \in Files : GetFile(f)
  PROVE  ZoneInv'
  BY LocksAssumption
  DEF ZoneInv, TypeOK, OneUser, ActiveZoneAsserts, GoTo, LetGo, history, GetFile, Migrate,
      TryAcquireWRLock, MigrateData, SyncFileExtents, EndMigration

\* The assertions of SetActiveZone and ReleaseActiveZone (io_aquafs.cc:785 and
\* 777) hold for any threads and files, and even if zones fail to close, for
\* every file that is not reopened.
THEOREM ActiveZoneSafe == Spec => []ActiveZoneAsserts
<1>1. Init => ZoneInv
  BY LocksAssumption DEF Init, ZoneInv, TypeOK, OneUser, ActiveZoneAsserts
<1>2. ZoneInv /\ [Next]_vars => ZoneInv'
  <2> SUFFICES ASSUME ZoneInv, [Next]_vars PROVE ZoneInv' OBVIOUS
  <2>1. CASE \E t \in Users : Decide(t) \/ Proceed(t) BY <2>1, ZoneUser
  <2>2. CASE Migrate \/ \E f \in Files : GetFile(f) BY <2>2, ZoneCollector
  <2>3. CASE UNCHANGED vars
    BY <2>3 DEF vars, ZoneInv, TypeOK, OneUser, ActiveZoneAsserts
  <2>4. QED BY <2>1, <2>2, <2>3 DEF Next
<1>3. ZoneInv => ActiveZoneAsserts BY DEF ZoneInv
<1>4. QED BY <1>1, <1>2, <1>3, PTL DEF Spec
=============================================================================
