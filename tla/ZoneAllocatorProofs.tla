------------------------ MODULE ZoneAllocatorProofs ------------------------
(***************************************************************************)
(* The busy flags, the open tokens, the space accounting and the active    *)
(* tokens of ZoneAllocator, for any number of files, zones and tokens: one *)
(* part each, every part on top of the ones before.                        *)
(*                                                                         *)
(* BusyExclusive speaks of slots and is not inductive: whether a step      *)
(* frees a zone that its thread really has depends on where the thread is. *)
(* BusyInv adds that (Place).  Every action is shown to be a move of one   *)
(* thread from one such place to another (ThreadStep), and the move alone  *)
(* to keep the flags a lock (GoesPreserves), so that the steps of all      *)
(* threads are reduced to one argument.  The open tokens follow the same   *)
(* moves.                                                                  *)
(***************************************************************************)
EXTENDS ZoneAllocator, FiniteSetTheorems, TLAPS

USE DEF NoZone, Threads

\* NoZone, which is 0, is not a zone.
LEMMA ZonesPositive == \A z \in Zones : z \in Nat /\ z # 0 /\ z <= NZones
BY AllocatorAssumption DEF Zones

-----------------------------------------------------------------------------
(* Where a thread stands decides what it may hold.                         *)

\* Stages in which a thread keeps no zone, and those in which it keeps one.
ZonelessStages ==
  {"none", "threshold", "token", "retry", "empty", "putopen", "unclosed", "closed",
   "reset", "gcidle", "gclock", "gcreplace", "gcsync"}
ZonedStages == {"closing", "gcmove", "gcswap"}

\* Thread t may be at stage s of its code with scan position i, examining zone
\* c and keeping zone k.  Only a scan examines a zone, the one it has reached.
Place(t, s, i, c, k) ==
  /\ t \in Files => s \in FileStages
  /\ t = GC => s \in GCStages
  /\ i \in 1..(NZones + 1)
  /\ c \in Zones \cup {NoZone}
  /\ k \in Zones \cup {NoZone}
  /\ c # NoZone => s \in ScanStages /\ i = c
  /\ s \in ZonelessStages => k = NoZone
  /\ s \in ZonedStages => k # NoZone

PlaceInv ==
  /\ pc \in [Threads -> FileStages \cup GCStages]
  /\ idx \in [Threads -> 1..(NZones + 1)]
  /\ cur \in [Threads -> Zones \cup {NoZone}]
  /\ zone \in [Threads -> Zones \cup {NoZone}]
  /\ \A t \in Threads : Place(t, pc[t], idx[t], cur[t], zone[t])

\* BusyExclusive without the slots.
Mutex(b, c, k) ==
  /\ b \in [Zones -> BOOLEAN]
  /\ \A z \in Zones : b[z] <=> \E t \in Threads : c[t] = z \/ k[t] = z
  /\ \A t, u \in Threads : c[t] # NoZone /\ c[t] = c[u] => t = u
  /\ \A t, u \in Threads : k[t] # NoZone /\ k[t] = k[u] => t = u
  /\ \A t, u \in Threads : c[t] # NoZone => c[t] # k[u]

BusyInv == PlaceInv /\ Mutex(busy, cur, zone)

\* A step moves thread t to that place ...
Moves(t, s, i, c, k) ==
  /\ pc' = [pc EXCEPT ![t] = s]
  /\ idx' = [idx EXCEPT ![t] = i]
  /\ cur' = [cur EXCEPT ![t] = c]
  /\ zone' = [zone EXCEPT ![t] = k]

\* ... and changes the flags of the zones that t had and has.
Flags(t, c, k) ==
  /\ busy' \in [Zones -> BOOLEAN]
  /\ \A z \in Zones :
       busy'[z] <=> z = c \/ z = k \/ (busy[z] /\ z # cur[t] /\ z # zone[t])
  /\ \A z \in Zones : z = c \/ z = k => ~busy[z] \/ z = cur[t] \/ z = zone[t]
  /\ c = k => c = NoZone

Goes(t, s, i, c, k) == Moves(t, s, i, c, k) /\ Place(t, s, i, c, k) /\ Flags(t, c, k)

\* A thread that moves to a place it may be at, and changes the flags of the zones
\* it had and has only, keeps the flags a lock.
LEMMA GoesPreserves ==
  ASSUME BusyInv, NEW t \in Threads, NEW s, NEW i, NEW c, NEW k, Goes(t, s, i, c, k)
  PROVE  BusyInv'
<1> USE DEF Goes, BusyInv
<1>1. Threads = Files \cup {GC} /\ GC \notin Files
  BY AllocatorAssumption
<1>2. s \in FileStages \cup GCStages
  BY <1>1 DEF Place
<1>3. /\ pc' \in [Threads -> FileStages \cup GCStages]
      /\ idx' \in [Threads -> 1..(NZones + 1)]
      /\ cur' \in [Threads -> Zones \cup {NoZone}]
      /\ zone' \in [Threads -> Zones \cup {NoZone}]
  BY <1>2 DEF PlaceInv, Moves, Place
<1>4. /\ pc'[t] = s /\ idx'[t] = i /\ cur'[t] = c /\ zone'[t] = k
      /\ \A u \in Threads \ {t} : /\ pc'[u] = pc[u] /\ idx'[u] = idx[u]
                                  /\ cur'[u] = cur[u] /\ zone'[u] = zone[u]
  BY DEF PlaceInv, Moves
<1>5. PlaceInv'
  <2>1. ASSUME NEW u \in Threads
        PROVE  Place(u, pc'[u], idx'[u], cur'[u], zone'[u])
    <3>1. CASE u = t
      BY <3>1, <1>4
    <3>2. CASE u # t
      <4>1. Place(u, pc[u], idx[u], cur[u], zone[u])
        BY DEF PlaceInv
      <4>2. QED
        BY <3>2, <4>1, <1>4
    <3>3. QED
      BY <3>1, <3>2
  <2>2. \A u \in Threads : Place(u, pc[u], idx[u], cur[u], zone[u])'
    BY <2>1 DEF Place
  <2>3. QED
    BY <1>3, <2>2 DEF PlaceInv
<1>6. Mutex(busy', cur', zone')
  <2>1. c \in Zones \cup {NoZone} /\ k \in Zones \cup {NoZone}
    BY DEF Place
  <2>2. \A u \in Threads : cur[u] \in Zones \cup {NoZone} /\ zone[u] \in Zones \cup {NoZone}
    BY DEF PlaceInv
  <2>3. \A u \in Threads \ {t} :
          /\ cur[u] # NoZone => cur[u] # c /\ cur[u] # k
          /\ zone[u] # NoZone => zone[u] # c /\ zone[u] # k
    BY <2>1, <2>2, ZonesPositive DEF Mutex, Flags
  <2>4. \A z \in Zones : busy'[z] <=> \E u \in Threads : cur'[u] = z \/ zone'[u] = z
    BY <1>4, <2>2, ZonesPositive DEF Mutex, Flags
  <2>5. QED
    BY <1>4, <2>1, <2>2, <2>3, <2>4, ZonesPositive DEF Mutex, Flags
<1>7. QED
  BY <1>5, <1>6 DEF Mutex

-----------------------------------------------------------------------------
(* The ways in which the steps change the flags.                           *)

\* What the invariant says of one thread, in the form the lemmas on its moves use.
LEMMA Standing ==
  ASSUME BusyInv, NEW t \in Threads
  PROVE  /\ Place(t, pc[t], idx[t], cur[t], zone[t])
         /\ idx[t] \in 1..(NZones + 1)
         /\ cur[t] \in Zones \cup {NoZone}
         /\ zone[t] \in Zones \cup {NoZone}
         /\ pc = [pc EXCEPT ![t] = pc[t]]
         /\ idx = [idx EXCEPT ![t] = idx[t]]
         /\ cur = [cur EXCEPT ![t] = cur[t]]
         /\ zone = [zone EXCEPT ![t] = zone[t]]
BY DEF BusyInv, PlaceInv

\* The thread moves on and keeps what it has.
LEMMA StayGoes ==
  ASSUME BusyInv, NEW t \in Threads, NEW s, NEW i,
         Place(t, s, i, cur[t], zone[t]),
         pc' = [pc EXCEPT ![t] = s], idx' = [idx EXCEPT ![t] = i],
         UNCHANGED <<busy, cur, zone>>
  PROVE  Goes(t, s, i, cur[t], zone[t])
<1>1. Moves(t, s, i, cur[t], zone[t])
  BY Standing DEF Moves
<1>2. Flags(t, cur[t], zone[t])
  BY Standing, ZonesPositive DEF Flags, BusyInv, Mutex
<1>3. QED
  BY <1>1, <1>2 DEF Goes

\* A scan gives the examined zone back.
LEMMA GiveBackGoes ==
  ASSUME BusyInv, NEW t \in Threads, NEW s, cur[t] # NoZone, GiveBack(t),
         pc' = [pc EXCEPT ![t] = s],
         Place(t, s, 1, NoZone, zone[t])
  PROVE  Goes(t, s, idx[t] + 1, NoZone, zone[t])
<1>1. Moves(t, s, idx[t] + 1, NoZone, zone[t])
  BY Standing DEF Moves, GiveBack
<1>2. idx[t] = cur[t] /\ idx[t] + 1 \in 1..(NZones + 1)
  BY Standing, ZonesPositive, AllocatorAssumption DEF Place
<1>3. Place(t, s, idx[t] + 1, NoZone, zone[t])
  BY <1>2 DEF Place
<1>4. Flags(t, NoZone, zone[t])
  <2>1. busy' \in [Zones -> BOOLEAN] /\ \A z \in Zones : busy'[z] <=> busy[z] /\ z # cur[t]
    BY DEF GiveBack, Released, BusyInv, Mutex
  <2>2. QED
    BY <2>1, Standing, ZonesPositive DEF Flags, BusyInv, Mutex
<1>5. QED
  BY <1>1, <1>3, <1>4 DEF Goes

\* A scan keeps the examined zone instead of the one it kept before.
LEMMA KeepGoes ==
  ASSUME BusyInv, NEW t \in Threads, NEW s, cur[t] # NoZone, Keep(t),
         pc' = [pc EXCEPT ![t] = s],
         Place(t, s, 1, NoZone, cur[t])
  PROVE  Goes(t, s, idx[t] + 1, NoZone, cur[t])
<1>1. Moves(t, s, idx[t] + 1, NoZone, cur[t])
  BY Standing DEF Moves, Keep
<1>2. idx[t] = cur[t] /\ idx[t] + 1 \in 1..(NZones + 1)
  BY Standing, ZonesPositive, AllocatorAssumption DEF Place
<1>3. Place(t, s, idx[t] + 1, NoZone, cur[t])
  BY <1>2 DEF Place
<1>4. Flags(t, NoZone, cur[t])
  <2>1. busy' \in [Zones -> BOOLEAN] /\ \A z \in Zones : busy'[z] <=> busy[z] /\ z # zone[t]
    BY DEF Keep, Released, BusyInv, Mutex
  <2>2. QED
    BY <2>1, Standing, ZonesPositive DEF Flags, BusyInv, Mutex
<1>5. QED
  BY <1>1, <1>3, <1>4 DEF Goes

\* The thread releases the zone it keeps, outside the examination of another.
LEMMA LetGoGoes ==
  ASSUME BusyInv, NEW t \in Threads, NEW s, NEW i, cur[t] = NoZone, LetGo(t),
         pc' = [pc EXCEPT ![t] = s], idx' = [idx EXCEPT ![t] = i], UNCHANGED cur,
         Place(t, s, i, NoZone, NoZone)
  PROVE  Goes(t, s, i, NoZone, NoZone)
<1>1. Moves(t, s, i, NoZone, NoZone)
  BY Standing DEF Moves, LetGo
<1>2. Flags(t, NoZone, NoZone)
  <2>1. busy' \in [Zones -> BOOLEAN] /\ \A z \in Zones : busy'[z] <=> busy[z] /\ z # zone[t]
    BY DEF LetGo, Released, BusyInv, Mutex
  <2>2. QED
    BY <2>1, Standing, ZonesPositive DEF Flags, BusyInv, Mutex
<1>3. QED
  BY <1>1, <1>2 DEF Goes

\* A scan wins the flag of the zone it has reached, or passes it over.
LEMMA AcquireGoes ==
  ASSUME BusyInv, NEW t \in Threads, AcquireNext(t)
  PROVE  \/ Goes(t, pc[t], idx[t], idx[t], zone[t])
         \/ Goes(t, pc[t], idx[t] + 1, NoZone, zone[t])
<1>0. /\ pc[t] \in ScanStages /\ cur[t] = NoZone /\ idx[t] \in Zones
      /\ UNCHANGED <<pc, zone>>
  BY Standing, AllocatorAssumption DEF AcquireNext, Zones
<1>1. CASE /\ ~busy[idx[t]]
           /\ busy' = [busy EXCEPT ![idx[t]] = TRUE]
           /\ cur' = [cur EXCEPT ![t] = idx[t]]
           /\ UNCHANGED idx
  <2>1. Moves(t, pc[t], idx[t], idx[t], zone[t])
    BY <1>0, <1>1, Standing DEF Moves
  <2>2. Place(t, pc[t], idx[t], idx[t], zone[t])
    BY <1>0, Standing DEF Place
  <2>3. /\ busy' \in [Zones -> BOOLEAN]
        /\ \A z \in Zones : busy'[z] <=> busy[z] \/ z = idx[t]
    BY <1>0, <1>1 DEF BusyInv, Mutex
  <2>4. Flags(t, idx[t], zone[t])
    BY <1>0, <1>1, <2>3, Standing, ZonesPositive DEF Flags, BusyInv, Mutex
  <2>5. QED
    BY <2>1, <2>2, <2>4 DEF Goes
<1>2. CASE idx' = [idx EXCEPT ![t] = @ + 1] /\ UNCHANGED <<busy, cur>>
  <2>1. Place(t, pc[t], idx[t] + 1, cur[t], zone[t])
    BY <1>0, Standing, AllocatorAssumption DEF Place, Zones
  <2>2. pc' = [pc EXCEPT ![t] = pc[t]]
    BY <1>0, Standing
  <2>3. QED
    BY <1>0, <1>2, <2>1, <2>2, StayGoes
<1>3. QED
  BY <1>1, <1>2 DEF AcquireNext

-----------------------------------------------------------------------------
(* Every step is the step of one thread.                                   *)

\* HasOpenToken of a thread at stage s that keeps zone k.
HoldsOpen(s, k) ==
  \/ s \in {"match", "active", "drop", "retry", "finish", "empty", "closing",
            "putopen"}
  \/ s \in {"open", "failed", "append", "dead"} /\ k # NoZone

\* The counter of the open tokens follows thread t to stage s with zone k.
OpenCounted(t, s, k) ==
  \/ /\ HoldsOpen(pc[t], zone[t]) <=> HoldsOpen(s, k)
     /\ open_io_zones' = open_io_zones
  \/ /\ ~HoldsOpen(pc[t], zone[t]) /\ HoldsOpen(s, k)
     /\ open_io_zones < Limit(t)
     /\ open_io_zones' = open_io_zones + 1
  \/ /\ HoldsOpen(pc[t], zone[t]) /\ ~HoldsOpen(s, k)
     /\ open_io_zones' = open_io_zones - 1
  \/ /\ HoldsOpen(pc[t], zone[t]) /\ ~HoldsOpen(s, k)
     /\ "close" \in Faults
     /\ open_io_zones' = open_io_zones

ThreadStep(t) ==
  \E s, i, c, k : Goes(t, s, i, c, k) /\ OpenCounted(t, s, k)

\* A step that only takes file f from one stage to another.
LEMMA FileMoves ==
  ASSUME BusyInv, NEW f \in Files, NEW s \in FileStages, NEW i \in 1..(NZones + 1),
         pc' = [pc EXCEPT ![f] = s], idx' = [idx EXCEPT ![f] = i],
         UNCHANGED <<busy, cur, zone>>, cur[f] = NoZone,
         s \in ZonelessStages => zone[f] = NoZone,
         s \in ZonedStages => zone[f] # NoZone,
         OpenCounted(f, s, zone[f])
  PROVE  ThreadStep(f)
<1>1. Place(f, s, i, cur[f], zone[f])
  BY Standing, AllocatorAssumption DEF Place
<1>2. Goes(f, s, i, cur[f], zone[f])
  BY <1>1, StayGoes
<1>3. QED
  BY <1>2 DEF ThreadStep

\* What is known of a thread that is at a stage outside the scans.
LEMMA NotScanning ==
  ASSUME BusyInv, NEW t \in Threads, pc[t] \notin ScanStages
  PROVE  cur[t] = NoZone
BY Standing DEF Place

\* The steps of a writer outside the scans of the allocator.
LEMMA WriterSteps ==
  ASSUME BusyInv, NEW f \in Files,
         \/ OpenWritableFile(f) \/ ReopenWritableFile(f) \/ Write(f) \/ DataSync(f)
         \/ CloseWR(f) \/ Abandon(f) \/ CloseAgain(f) \/ DeleteFile(f) \/ RollZone(f)
         \/ Append(f) \/ BufferedAppend(f) \/ AppendFails(f) \/ AppendDone(f)
         \/ AllocateIOZone(f) \/ WaitForOpenIOZoneToken(f)
         \/ GetActiveIOZoneTokenIfAvailable(f)
  PROVE  ThreadStep(f)
<1> USE DEF On, GoTo, Scan, scanVars, zoneVars, tokenVars
<1>1. /\ pc[f] \notin ScanStages
      /\ UNCHANGED <<busy, cur, zone>>
  BY DEF OpenWritableFile, ReopenWritableFile, Write, DataSync, CloseWR, Abandon,
         CloseAgain, DeleteFile, RollZone, Append, BufferedAppend, AppendFails, AppendDone,
         AllocateIOZone, WaitForOpenIOZoneToken, GetActiveIOZoneTokenIfAvailable,
         ScanStages
<1>2. cur[f] = NoZone
  BY <1>1, NotScanning
<1>3. idx[f] \in 1..(NZones + 1) /\ idx = [idx EXCEPT ![f] = idx[f]]
      /\ 1 \in 1..(NZones + 1) /\ pc = [pc EXCEPT ![f] = pc[f]]
  BY Standing, AllocatorAssumption
<1>4. Place(f, pc[f], idx[f], cur[f], zone[f])
  BY Standing
<1> USE DEF FileStages, ZonelessStages, ZonedStages, OpenCounted, HoldsOpen, Place
<1>a. CASE OpenWritableFile(f)
  <2>1. /\ pc[f] = "none" /\ pc' = [pc EXCEPT ![f] = "open"]
        /\ idx' = [idx EXCEPT ![f] = idx[f]] /\ open_io_zones' = open_io_zones
    BY <1>a, <1>3 DEF OpenWritableFile
  <2>2. zone[f] = NoZone
    BY <1>4, <2>1
  <2>3. OpenCounted(f, "open", zone[f])
    BY <2>1, <2>2
  <2>4. QED
    BY <1>1, <1>2, <1>3, <2>1, <2>2, <2>3, FileMoves
<1>b. CASE ReopenWritableFile(f)
  <2>1. /\ pc[f] = "closed" /\ pc' = [pc EXCEPT ![f] = "open"]
        /\ idx' = [idx EXCEPT ![f] = idx[f]] /\ open_io_zones' = open_io_zones
    BY <1>b, <1>3 DEF ReopenWritableFile
  <2>2. zone[f] = NoZone
    BY <1>4, <2>1
  <2>3. OpenCounted(f, "open", zone[f])
    BY <2>1, <2>2
  <2>4. QED
    BY <1>1, <1>2, <1>3, <2>1, <2>2, <2>3, FileMoves
<1>c. CASE Write(f)
  <2>1. /\ pc[f] \in {"open", "failed"} /\ pc' = [pc EXCEPT ![f] = "append"]
        /\ idx' = [idx EXCEPT ![f] = idx[f]] /\ OpenCounted(f, "append", zone[f])
    BY <1>c, <1>3 DEF Write
  <2>2. QED
    BY <1>1, <1>2, <1>3, <1>4, <2>1, FileMoves
<1>d. CASE DataSync(f)
  <2>1. /\ pc[f] \in {"open", "failed"} /\ pc' = [pc EXCEPT ![f] = pc[f]]
        /\ idx' = [idx EXCEPT ![f] = idx[f]] /\ OpenCounted(f, pc[f], zone[f])
    BY <1>d, <1>3 DEF DataSync
  <2>2. QED
    BY <1>1, <1>2, <1>3, <1>4, <2>1, FileMoves
<1>e. CASE CloseWR(f)
  BY <1>e, <1>1, <1>2, <1>3, <1>4, FileMoves DEF CloseWR
<1>f. CASE Abandon(f)
  BY <1>f, <1>1, <1>2, <1>3, <1>4, FileMoves DEF Abandon
<1>g. CASE DeleteFile(f)
  BY <1>g, <1>1, <1>2, <1>3, <1>4, FileMoves DEF DeleteFile
<1>q. CASE CloseAgain(f)
  BY <1>q, <1>1, <1>2, <1>3, <1>4, FileMoves DEF CloseAgain
<1>h. CASE RollZone(f)
  BY <1>h, <1>1, <1>2, <1>3, <1>4, FileMoves DEF RollZone
<1>i. CASE Append(f)
  BY <1>i, <1>1, <1>2, <1>3, <1>4, FileMoves DEF Append
<1>j. CASE BufferedAppend(f)
  BY <1>j, <1>1, <1>2, <1>3, <1>4, FileMoves DEF BufferedAppend
<1>k. CASE AppendFails(f)
  BY <1>k, <1>1, <1>2, <1>3, <1>4, FileMoves DEF AppendFails
<1>l. CASE AppendDone(f)
  BY <1>l, <1>1, <1>2, <1>3, <1>4, FileMoves DEF AppendDone
<1>m. CASE AllocateIOZone(f)
  BY <1>m, <1>1, <1>2, <1>3, <1>4, FileMoves DEF AllocateIOZone
<1>n. CASE WaitForOpenIOZoneToken(f)
  BY <1>n, <1>1, <1>2, <1>3, <1>4, FileMoves DEF WaitForOpenIOZoneToken
<1>o. CASE GetActiveIOZoneTokenIfAvailable(f)
  BY <1>o, <1>1, <1>2, <1>3, <1>4, FileMoves DEF GetActiveIOZoneTokenIfAvailable
<1>p. QED
  BY <1>a, <1>b, <1>c, <1>d, <1>e, <1>f, <1>g, <1>h, <1>i, <1>j, <1>k, <1>l,
     <1>m, <1>n, <1>o, <1>q

\* A scan that gives the examined zone back.
LEMMA GiveBackMoves ==
  ASSUME BusyInv, NEW t \in Threads, NEW s, cur[t] # NoZone, GiveBack(t),
         pc' = [pc EXCEPT ![t] = s],
         t \in Files => s \in FileStages,
         t = GC => s \in GCStages,
         s \in ZonelessStages => zone[t] = NoZone,
         s \in ZonedStages => zone[t] # NoZone,
         OpenCounted(t, s, zone[t])
  PROVE  ThreadStep(t)
<1>1. Place(t, s, 1, NoZone, zone[t])
  BY Standing, AllocatorAssumption DEF Place
<1>2. Goes(t, s, idx[t] + 1, NoZone, zone[t])
  BY <1>1, GiveBackGoes
<1>3. QED
  BY <1>2 DEF ThreadStep

\* A scan that keeps the examined zone.
LEMMA KeepMoves ==
  ASSUME BusyInv, NEW t \in Threads, NEW s, cur[t] # NoZone, Keep(t),
         pc' = [pc EXCEPT ![t] = s],
         t \in Files => s \in FileStages,
         t = GC => s \in GCStages,
         s \notin ZonelessStages,
         OpenCounted(t, s, cur[t])
  PROVE  ThreadStep(t)
<1>1. Place(t, s, 1, NoZone, cur[t])
  BY Standing, AllocatorAssumption DEF Place
<1>2. Goes(t, s, idx[t] + 1, NoZone, cur[t])
  BY <1>1, KeepGoes
<1>3. QED
  BY <1>2 DEF ThreadStep

\* A step of thread t that releases the zone it keeps.
LEMMA ReleaseMoves ==
  ASSUME BusyInv, NEW t \in Threads, NEW s, NEW i \in 1..(NZones + 1),
         cur[t] = NoZone, LetGo(t),
         pc' = [pc EXCEPT ![t] = s], idx' = [idx EXCEPT ![t] = i], UNCHANGED cur,
         t \in Files => s \in FileStages,
         t = GC => s \in GCStages,
         s \notin ZonedStages,
         OpenCounted(t, s, NoZone)
  PROVE  ThreadStep(t)
<1>1. Place(t, s, i, NoZone, NoZone)
  BY Standing DEF Place
<1>2. Goes(t, s, i, NoZone, NoZone)
  BY <1>1, LetGoGoes
<1>3. QED
  BY <1>2 DEF ThreadStep

\* The steps that give a zone back at the end of a write or of an allocation.
LEMMA CloseSteps ==
  ASSUME BusyInv, NEW f \in Files,
         CloseActiveZone(f) \/ PutOpenIOZoneToken(f) \/ RelaxOrDrop(f)
  PROVE  ThreadStep(f)
<1> USE DEF On, GoTo, Scan, scanVars, zoneVars, tokenVars
<1>1. pc[f] \notin ScanStages /\ UNCHANGED cur
  BY DEF CloseActiveZone, PutOpenIOZoneToken, RelaxOrDrop, ScanStages
<1>2. cur[f] = NoZone
  BY <1>1, NotScanning
<1>3. idx[f] \in 1..(NZones + 1) /\ idx = [idx EXCEPT ![f] = idx[f]]
      /\ 1 \in 1..(NZones + 1) /\ f # GC
  BY Standing, AllocatorAssumption
<1>4. Place(f, pc[f], idx[f], cur[f], zone[f])
  BY Standing
<1> USE DEF FileStages, ZonelessStages, ZonedStages, OpenCounted, HoldsOpen, Place
<1>a. CASE CloseActiveZone(f)
  BY <1>a, <1>1, <1>2, <1>3, <1>4, ReleaseMoves DEF CloseActiveZone
<1>b. CASE PutOpenIOZoneToken(f)
  BY <1>b, <1>1, <1>2, <1>3, <1>4, FileMoves DEF PutOpenIOZoneToken
<1>c. CASE RelaxOrDrop(f)
  <2>1. CASE ~got[f] /\ BestDiff(f, Hint[f]) = CouldBeWorse
    <3>1. zone[f] # NoZone
      BY <2>1 DEF BestDiff, CouldBeWorse, NotGood
    <3>2. QED
      BY <1>c, <2>1, <3>1, <1>1, <1>2, <1>3, <1>4, FileMoves DEF RelaxOrDrop, SetActiveZone
  <2>2. CASE ~(~got[f] /\ BestDiff(f, Hint[f]) = CouldBeWorse)
    BY <1>c, <2>2, <1>1, <1>2, <1>3, <1>4, ReleaseMoves DEF RelaxOrDrop
  <2>3. QED
    BY <2>1, <2>2
<1>d. QED
  BY <1>a, <1>b, <1>c

\* The steps of the four loops of the allocator over io_zones.
LEMMA ScanSteps ==
  ASSUME BusyInv, NEW f \in Files,
         \/ ApplyFinishThreshold(f) \/ GetBestOpenZoneMatch(f)
         \/ FinishCheapestIOZone(f) \/ AllocateEmptyZone(f)
  PROVE  ThreadStep(f)
<1> USE DEF On, GoTo, Scan, scanVars, zoneVars, tokenVars, EndScan, Examines, Exhausted
<1>3. idx[f] \in 1..(NZones + 1) /\ 1 \in 1..(NZones + 1) /\ f # GC
      /\ pc = [pc EXCEPT ![f] = pc[f]] /\ f \in Threads
  BY Standing, AllocatorAssumption
<1>4. Place(f, pc[f], idx[f], cur[f], zone[f])
  BY Standing
<1> USE DEF FileStages, ZonelessStages, ZonedStages, OpenCounted, HoldsOpen, Place
<1>a. CASE ApplyFinishThreshold(f)
  <2>1. CASE cur[f] # NoZone
    BY <1>a, <2>1, <1>3, <1>4, GiveBackMoves DEF ApplyFinishThreshold
  <2>2. CASE cur[f] = NoZone
    BY <1>a, <2>2, <1>3, <1>4, FileMoves DEF ApplyFinishThreshold
  <2>3. QED
    BY <2>1, <2>2
<1>b. CASE GetBestOpenZoneMatch(f)
  <2>1. CASE cur[f] # NoZone
    BY <1>b, <2>1, <1>3, <1>4, GiveBackMoves, KeepMoves DEF GetBestOpenZoneMatch
  <2>2. CASE cur[f] = NoZone
    <3>1. BestDiff(f, Hint[f]) < CouldBeWorse => zone[f] # NoZone
      BY DEF BestDiff, CouldBeWorse, NotGood
    <3>2. QED
      BY <1>b, <2>2, <1>3, <1>4, <3>1, FileMoves DEF GetBestOpenZoneMatch, SetActiveZone
  <2>3. QED
    BY <2>1, <2>2
<1>c. CASE FinishCheapestIOZone(f)
  <2>1. CASE cur[f] # NoZone
    BY <1>c, <2>1, <1>3, <1>4, GiveBackMoves, KeepMoves DEF FinishCheapestIOZone
  <2>2. CASE cur[f] = NoZone /\ zone[f] = NoZone
    BY <1>c, <2>2, <1>3, <1>4, FileMoves DEF FinishCheapestIOZone
  <2>3. CASE cur[f] = NoZone /\ zone[f] # NoZone
    BY <1>c, <2>3, <1>3, <1>4, ReleaseMoves DEF FinishCheapestIOZone
  <2>4. QED
    BY <2>1, <2>2, <2>3
<1>d. CASE AllocateEmptyZone(f)
  <2>1. CASE cur[f] # NoZone
    BY <1>d, <2>1, <1>3, <1>4, GiveBackMoves, KeepMoves DEF AllocateEmptyZone, SetActiveZone
  <2>2. CASE cur[f] = NoZone
    BY <1>d, <2>2, <1>3, <1>4, FileMoves DEF AllocateEmptyZone
  <2>3. QED
    BY <2>1, <2>2
<1>e. QED
  BY <1>a, <1>b, <1>c, <1>d

\* The steps that writers and the collector share.
LEMMA SharedSteps ==
  ASSUME BusyInv, NEW t \in Threads,
         AcquireNext(t) \/ PutActiveIOZoneToken(t) \/ ResetUnusedIOZones(t)
  PROVE  ThreadStep(t)
<1> USE DEF GoTo, tokenVars, OpenCounted
<1>1. Place(t, pc[t], idx[t], cur[t], zone[t]) /\ 1 \in 1..(NZones + 1)
  BY Standing, AllocatorAssumption
<1>2. /\ pc = [pc EXCEPT ![t] = pc[t]] /\ idx = [idx EXCEPT ![t] = idx[t]]
      /\ t \in Files \/ t = GC
  BY Standing
<1>a. CASE AcquireNext(t)
  <2>1. /\ Goes(t, pc[t], idx[t], idx[t], zone[t]) \/
           Goes(t, pc[t], idx[t] + 1, NoZone, zone[t])
        /\ open_io_zones' = open_io_zones
    BY <1>a, AcquireGoes DEF AcquireNext
  <2>2. QED
    BY <2>1 DEF ThreadStep
<1>b. CASE PutActiveIOZoneToken(t)
  <2>1. Goes(t, pc[t], idx[t], cur[t], zone[t])
    BY <1>b, <1>1, <1>2, StayGoes DEF PutActiveIOZoneToken, zoneVars, scanVars
  <2>2. open_io_zones' = open_io_zones
    BY <1>b DEF PutActiveIOZoneToken
  <2>3. QED
    BY <2>1, <2>2 DEF ThreadStep
<1>c. CASE ResetUnusedIOZones(t)
  <2>1. /\ pc[t] = "reset" /\ zone[t] = NoZone
        /\ open_io_zones' = open_io_zones
    BY <1>c, <1>1 DEF ResetUnusedIOZones, Examines, Exhausted, On, Place, ZonelessStages
  <2>2. CASE cur[t] # NoZone
    <3>1. GiveBack(t) /\ (pc' = pc \/ AfterReset(t))
      BY <1>c, <2>2 DEF ResetUnusedIOZones, Exhausted
    <3>2. QED
      BY <1>1, <1>2, <2>1, <2>2, <3>1, GiveBackMoves, AllocatorAssumption
      DEF AfterReset, FileStages, GCStages, ZonelessStages, ZonedStages, HoldsOpen
  <2>3. CASE cur[t] = NoZone
    <3>1. AfterReset(t) /\ EndScan(t) /\ UNCHANGED <<busy, zone>>
      BY <1>c, <2>3 DEF ResetUnusedIOZones, Examines
    <3>2. Goes(t, IF t = GC THEN "gcidle" ELSE "none", 1, cur[t], zone[t])
      BY <1>1, <2>1, <2>3, <3>1, StayGoes, AllocatorAssumption
      DEF AfterReset, EndScan, Place, FileStages, GCStages, ZonelessStages, ZonedStages
    <3>3. QED
      BY <2>1, <3>2 DEF ThreadStep, HoldsOpen
  <2>4. QED
    BY <2>2, <2>3
<1>d. QED
  BY <1>a, <1>b, <1>c

\* The collector holds no open token: its stages are not those of a writer.
LEMMA CollectorMoves ==
  ASSUME BusyInv, NEW s \in GCStages, NEW i, NEW c, NEW k, Goes(GC, s, i, c, k),
         open_io_zones' = open_io_zones
  PROVE  ThreadStep(GC)
<1>1. pc[GC] \in GCStages /\ GC \in Threads
  BY DEF BusyInv, PlaceInv, Place
<1>2. OpenCounted(GC, s, k)
  BY <1>1 DEF OpenCounted, HoldsOpen, GCStages
<1>3. QED
  BY <1>2 DEF ThreadStep

\* The steps of a migration.
LEMMA CollectorSteps ==
  ASSUME BusyInv, GCNext
  PROVE  ThreadStep(GC)
<1> USE DEF On, GoTo, Scan, scanVars, zoneVars, tokenVars
<1>1. /\ Place(GC, pc[GC], idx[GC], cur[GC], zone[GC]) /\ 1 \in 1..(NZones + 1)
      /\ pc = [pc EXCEPT ![GC] = pc[GC]] /\ idx = [idx EXCEPT ![GC] = idx[GC]]
      /\ GC \in Threads /\ GC \notin Files
  BY Standing, AllocatorAssumption
<1>2. pc[GC] \notin ScanStages => cur[GC] = NoZone
  BY <1>1 DEF Place
<1> USE DEF GCStages, ZonelessStages, ZonedStages, ScanStages
<1>a. CASE GCSnapshot
  <2>1. Goes(GC, "gclock", idx[GC], cur[GC], zone[GC])
    BY <1>a, <1>1, <1>2, StayGoes DEF GCSnapshot, Place
  <2>2. QED
    BY <1>a, <2>1, CollectorMoves DEF GCSnapshot
<1>b. CASE TryAcquireWRLock
  <2>1. PICK s \in {"reset", "gcmatch", "gcreplace"} :
          pc' = [pc EXCEPT ![GC] = s] /\ idx' = [idx EXCEPT ![GC] = 1]
    BY <1>b DEF TryAcquireWRLock
  <2>2. Goes(GC, s, 1, cur[GC], zone[GC])
    BY <1>b, <1>1, <1>2, <2>1, StayGoes DEF TryAcquireWRLock, Place
  <2>3. QED
    BY <1>b, <2>2, CollectorMoves DEF TryAcquireWRLock
<1>c. CASE TakeMigrateZone
  <2>0. pc[GC] = "gcmatch" /\ open_io_zones' = open_io_zones
    BY <1>c DEF TakeMigrateZone, Examines, Exhausted
  <2>1. CASE Keep(GC) /\ cur[GC] # NoZone /\ UNCHANGED pc
    <3>1. Goes(GC, "gcmatch", idx[GC] + 1, NoZone, cur[GC])
      BY <1>1, <2>0, <2>1, KeepGoes DEF Place
    <3>2. QED
      BY <2>0, <3>1, CollectorMoves
  <2>2. CASE GiveBack(GC) /\ cur[GC] # NoZone /\ UNCHANGED pc
    <3>1. Goes(GC, "gcmatch", idx[GC] + 1, NoZone, zone[GC])
      BY <1>1, <2>0, <2>2, GiveBackGoes DEF Place
    <3>2. QED
      BY <2>0, <3>1, CollectorMoves
  <2>3. CASE /\ cur[GC] = NoZone /\ EndScan(GC) /\ UNCHANGED <<busy, zone>>
             /\ GoTo(GC, IF zone[GC] = NoZone THEN "gcreplace" ELSE "gcmove")
    <3>1. Goes(GC, IF zone[GC] = NoZone THEN "gcreplace" ELSE "gcmove", 1, cur[GC], zone[GC])
      BY <1>1, <2>3, StayGoes DEF Place, EndScan
    <3>2. QED
      BY <2>0, <3>1, CollectorMoves
  <2>4. QED
    BY <1>c, <2>1, <2>2, <2>3 DEF TakeMigrateZone, Examines, Exhausted
<1>d. CASE MigrateData
  <2>1. Goes(GC, "gcswap", idx[GC], cur[GC], zone[GC])
    BY <1>d, <1>1, <1>2, StayGoes DEF MigrateData, Place
  <2>2. QED
    BY <1>d, <2>1, CollectorMoves DEF MigrateData
<1>e. CASE ReleaseMigrateZone
  <2>1. Goes(GC, "gcreplace", idx[GC], NoZone, NoZone)
    BY <1>e, <1>1, <1>2, LetGoGoes DEF ReleaseMigrateZone, Place
  <2>2. QED
    BY <1>e, <2>1, CollectorMoves DEF ReleaseMigrateZone
<1>f. CASE ReplaceExtentList
  <2>1. Goes(GC, "gcsync", idx[GC], cur[GC], zone[GC])
    BY <1>f, <1>1, <1>2, StayGoes DEF ReplaceExtentList, Place
  <2>2. QED
    BY <1>f, <2>1, CollectorMoves DEF ReplaceExtentList
<1>g. CASE SyncFileExtents
  <2>1. Goes(GC, "reset", 1, cur[GC], zone[GC])
    BY <1>g, <1>1, <1>2, StayGoes DEF SyncFileExtents, Place
  <2>2. QED
    BY <1>g, <2>1, CollectorMoves DEF SyncFileExtents
<1>h. QED
  BY <1>a, <1>b, <1>c, <1>d, <1>e, <1>f, <1>g DEF GCNext

\* Every step of the program moves one thread, hands zones over by the rules of
\* the busy flag and counts its open token.
LEMMA NextIsThreadStep ==
  ASSUME BusyInv, Next
  PROVE  \E t \in Threads : ThreadStep(t)
<1>1. CASE \E t \in Threads :
             AcquireNext(t) \/ PutActiveIOZoneToken(t) \/ ResetUnusedIOZones(t)
  BY <1>1, SharedSteps
<1>2. CASE \E f \in Files : FileNext(f)
  <2>1. PICK f \in Files : FileNext(f)
    BY <1>2
  <2>2. ThreadStep(f)
    BY <2>1, WriterSteps, CloseSteps, ScanSteps DEF FileNext
  <2>3. QED
    BY <2>2
<1>3. CASE GCNext
  BY <1>3, CollectorSteps
<1>4. QED
  BY <1>1, <1>2, <1>3 DEF Next

\* It leaves the other threads where they are.
LEMMA ThreadStepLocal ==
  ASSUME BusyInv, NEW t \in Threads, ThreadStep(t)
  PROVE  \A u \in Threads \ {t} :
           pc'[u] = pc[u] /\ zone'[u] = zone[u] /\ cur'[u] = cur[u]
<1>1. PICK s, i, c, k : Moves(t, s, i, c, k)
  BY DEF ThreadStep, Goes
<1>2. QED
  BY <1>1 DEF Moves, BusyInv, PlaceInv

-----------------------------------------------------------------------------
(* The busy flags.                                                         *)

\* At the start no flag is set and no thread has a zone.
LEMMA InitBusyInv == Init => BusyInv
<1> SUFFICES ASSUME Init PROVE BusyInv
  OBVIOUS
<1>1. 1 \in 1..(NZones + 1) /\ GC \notin Files
  BY AllocatorAssumption
<1>2. PlaceInv
  BY <1>1 DEF Init, PlaceInv, Place, FileStages, GCStages, ZonelessStages, ZonedStages
<1>3. Mutex(busy, cur, zone)
  BY ZonesPositive DEF Init, Mutex
<1>4. QED
  BY <1>2, <1>3 DEF BusyInv

\* Every step is one of a thread that moves as Goes allows.
LEMMA NextBusyInv == BusyInv /\ [Next]_vars => BusyInv'
<1> SUFFICES ASSUME BusyInv, [Next]_vars PROVE BusyInv'
  OBVIOUS
<1>1. CASE Next
  BY <1>1, NextIsThreadStep, GoesPreserves DEF ThreadStep
<1>2. CASE UNCHANGED vars
  BY <1>2 DEF vars, zoneVars, scanVars, BusyInv, PlaceInv, Place, Mutex
<1>3. QED
  BY <1>1, <1>2

\* The flags and the places of the threads are consistent in every state.
THEOREM BusyInvariant == Spec => []BusyInv
BY InitBusyInv, NextBusyInv, PTL DEF Spec

\* BusyExclusive says of slots what Mutex says of threads.
LEMMA MutexExclusive == BusyInv => BusyExclusive
<1> SUFFICES ASSUME BusyInv, NEW z \in Zones
             PROVE  /\ busy[z] <=> Owners(z) # {}
                    /\ \A s1, s2 \in Owners(z) : s1 = s2
  BY DEF BusyExclusive
<1>1. \A s \in Slots : s = <<s[1], s[2]>> /\ s[1] \in Threads /\ s[2] \in {"cur", "zone"}
  BY DEF Slots
<1>2. \A s \in Owners(z) : \/ s[2] = "cur" /\ cur[s[1]] = z
                           \/ s[2] = "zone" /\ zone[s[1]] = z
  BY <1>1 DEF Owners, SlotZone
<1>3. \A t \in Threads : cur[t] = z => <<t, "cur">> \in Owners(z)
  BY DEF Owners, SlotZone, Slots
<1>4. \A t \in Threads : zone[t] = z => <<t, "zone">> \in Owners(z)
  BY DEF Owners, SlotZone, Slots
<1>5. Owners(z) \subseteq Slots
  BY DEF Owners
<1>6. busy[z] <=> Owners(z) # {}
  <2>1. busy[z] <=> \E t \in Threads : cur[t] = z \/ zone[t] = z
    BY DEF BusyInv, Mutex
  <2>2. ASSUME NEW t \in Threads, cur[t] = z \/ zone[t] = z
        PROVE  Owners(z) # {}
    BY <1>3, <1>4, <2>2
  <2>3. ASSUME NEW s \in Owners(z)
        PROVE  \E t \in Threads : cur[t] = z \/ zone[t] = z
    <3>1. s[1] \in Threads
      BY <1>1, <1>5
    <3>2. QED
      BY <1>2, <3>1
  <2>4. QED
    BY <2>1, <2>2, <2>3
<1>7. ASSUME NEW s1 \in Owners(z), NEW s2 \in Owners(z)
      PROVE  s1 = s2
  <2>1. s1[1] = s2[1] /\ s1[2] = s2[2]
    BY <1>1, <1>2, <1>5, <1>7, ZonesPositive DEF BusyInv, Mutex
  <2>2. QED
    BY <1>1, <1>5, <2>1
<1>8. QED
  BY <1>6, <1>7

\* The busy flag is a lock: for any number of writers and zones, a zone is
\* flagged exactly while one thread examines or keeps it (Zone::Acquire,
\* Zone::Release and every path through the allocator between them).
THEOREM BusyFlagIsLock == Spec => []BusyExclusive
BY BusyInvariant, MutexExclusive, PTL

-----------------------------------------------------------------------------
(* The open tokens.                                                        *)

OpenInv ==
  /\ BusyInv
  /\ open_io_zones \in 0..MaxOpen
  /\ OpenTokensAccounted

\* The files that hold an open token can be counted.
LEMMA HoldersFinite ==
  /\ IsFiniteSet(OpenHolders) /\ Cardinality(OpenHolders) \in Nat
  /\ IsFiniteSet(OpenHolders') /\ Cardinality(OpenHolders') \in Nat
<1>1. OpenHolders \in SUBSET Files /\ OpenHolders' \in SUBSET Files
  BY DEF OpenHolders
<1>2. QED
  BY <1>1, AllocatorAssumption, FS_Subset, FS_CardinalityType

\* The number of holders after a step of thread t.
LEMMA HoldersStep ==
  ASSUME BusyInv, NEW t \in Threads, NEW s, NEW i, NEW c, NEW k, Goes(t, s, i, c, k)
  PROVE  Cardinality(OpenHolders') = 
           Cardinality(OpenHolders)
             + (IF ~HoldsOpen(pc[t], zone[t]) /\ HoldsOpen(s, k) THEN 1 ELSE 0)
             - (IF HoldsOpen(pc[t], zone[t]) /\ ~HoldsOpen(s, k) THEN 1 ELSE 0)
<1>1. /\ pc'[t] = s /\ zone'[t] = k
      /\ \A u \in Threads \ {t} : pc'[u] = pc[u] /\ zone'[u] = zone[u]
  BY DEF BusyInv, PlaceInv, Goes, Moves
<1>2. /\ OpenHolders = {f \in Files : HoldsOpen(pc[f], zone[f])}
      /\ OpenHolders' = {f \in Files : HoldsOpen(pc'[f], zone'[f])}
  BY DEF OpenHolders, HasOpenToken, HoldsOpen
<1>3. CASE HoldsOpen(pc[t], zone[t]) <=> HoldsOpen(s, k)
  <2>1. OpenHolders' = OpenHolders
    BY <1>1, <1>2, <1>3
  <2>2. QED
    BY <1>3, <2>1, HoldersFinite
<1>4. CASE ~(HoldsOpen(pc[t], zone[t]) <=> HoldsOpen(s, k))
  <2>0. t \in Files
    <3>1. t = GC => pc[t] \in GCStages /\ s \in GCStages
      BY DEF BusyInv, PlaceInv, Goes, Place
    <3>2. QED
      BY <1>4, <3>1 DEF HoldsOpen, GCStages
  <2>1. CASE HoldsOpen(s, k)
    <3>1. OpenHolders' = OpenHolders \cup {t} /\ t \notin OpenHolders
      BY <1>1, <1>2, <1>4, <2>0, <2>1
    <3>2. Cardinality(OpenHolders') = Cardinality(OpenHolders) + 1
      BY <3>1, HoldersFinite, FS_AddElement
    <3>3. QED
      BY <1>4, <2>1, <3>2, HoldersFinite
  <2>2. CASE ~HoldsOpen(s, k)
    <3>1. OpenHolders' = OpenHolders \ {t} /\ t \in OpenHolders
      BY <1>1, <1>2, <1>4, <2>0, <2>2
    <3>2. Cardinality(OpenHolders') = Cardinality(OpenHolders) - 1
      BY <3>1, HoldersFinite, FS_RemoveElement
    <3>3. QED
      BY <1>4, <2>2, <3>2, HoldersFinite
  <2>3. QED
    BY <2>1, <2>2
<1>5. QED
  BY <1>3, <1>4

\* At the start nobody holds an open token.
LEMMA InitOpenInv == Init => OpenInv
<1> SUFFICES ASSUME Init PROVE OpenInv
  OBVIOUS
<1>1. OpenHolders = {}
  BY AllocatorAssumption DEF Init, OpenHolders, HasOpenToken
<1>2. QED
  BY <1>1, InitBusyInv, FS_EmptySet, AllocatorAssumption
  DEF OpenInv, OpenTokensAccounted, Init

\* A step changes open_io_zones by as much as the number of its holders.
LEMMA NextOpenInv == OpenInv /\ [Next]_vars => OpenInv'
<1> SUFFICES ASSUME OpenInv, [Next]_vars PROVE OpenInv'
  OBVIOUS
<1>1. BusyInv'
  BY NextBusyInv DEF OpenInv
<1>2. CASE Next
  <2>0. PICK t \in Threads : ThreadStep(t)
    BY <1>2, NextIsThreadStep DEF OpenInv
  <2>1. PICK s, i, c, k : Goes(t, s, i, c, k) /\ OpenCounted(t, s, k)
    BY <2>0 DEF ThreadStep
  <2>2. Cardinality(OpenHolders') = 
           Cardinality(OpenHolders)
             + (IF ~HoldsOpen(pc[t], zone[t]) /\ HoldsOpen(s, k) THEN 1 ELSE 0)
             - (IF HoldsOpen(pc[t], zone[t]) /\ ~HoldsOpen(s, k) THEN 1 ELSE 0)
    BY <2>1, HoldersStep DEF OpenInv
  <2>3. /\ Limit(t) \in Int /\ Limit(t) <= MaxOpen /\ MaxOpen \in Nat
        /\ Cardinality(OpenHolders) \in Nat /\ Cardinality(OpenHolders') \in Nat
        /\ open_io_zones \in 0..MaxOpen
    BY HoldersFinite, AllocatorAssumption DEF Limit, OpenInv
  <2>4. open_io_zones' \in 0..MaxOpen /\ OpenTokensAccounted'
    BY <2>1, <2>2, <2>3 DEF OpenInv, OpenTokensAccounted, OpenCounted
  <2>5. QED
    BY <1>1, <2>4 DEF OpenInv
<1>3. CASE UNCHANGED vars
  <2>1. open_io_zones' = open_io_zones /\ OpenHolders' = OpenHolders
    BY <1>3 DEF vars, tokenVars, OpenHolders, HasOpenToken
  <2>2. QED
    BY <1>1, <2>1 DEF OpenInv, OpenTokensAccounted
<1>4. QED
  BY <1>2, <1>3

\* The count of the open tokens (open_io_zones_) is right in every state: it is the
\* number of files between WaitForOpenIOZoneToken and PutOpenIOZoneToken.
THEOREM OpenInvariant == Spec => []OpenInv
BY InitOpenInv, NextOpenInv, PTL DEF Spec

\* No more zones are written to than the device may have open, and while the
\* device can close its zones no failed allocation loses an open token
\* (WaitForOpenIOZoneToken, PutOpenIOZoneToken, CloseActiveZone).
THEOREM OpenTokensKept == Spec => []OpenTokensAccounted
<1>1. OpenInv => OpenTokensAccounted
  BY DEF OpenInv
<1>2. QED
  BY <1>1, OpenInvariant, PTL

-----------------------------------------------------------------------------
(***************************************************************************)
(* The space accounting of ZoneAllocator: used_capacity_, the write        *)
(* pointers and the resets, for any number of files and zones.             *)
(*                                                                         *)
(* UsedCapacityExact needs to know that the extent the collector replaces  *)
(* is still there.  The write lock does not guarantee it: the second close *)
(* of a destructor frees the lock under the collector.  The proof rests on *)
(* this instead: the list of a file only grows until it is deleted, so the *)
(* collector's copy stays below it (SourceInv), and the rest is counted as *)
(* lost.  MigrationInv and WriterInv say which file and stage a migration  *)
(* belongs to, RoomInv that the copy fits the target.  That a reset zone   *)
(* is dead follows from the busy flag, the exact count and WrittenInv      *)
(* together.                                                               *)
(***************************************************************************)

-----------------------------------------------------------------------------
(* Blocks counts: what a change of the extents of one file does to it.     *)

\* The blocks of the files of S in zone z.
BlockSet(S, e, z) == UNION {{f} \X (1..e[f][z]) : f \in S}

\* The blocks of a set of files in a zone can be counted.
LEMMA BlockSetFinite ==
  ASSUME NEW S \in SUBSET Files, NEW e, NEW z, \A f \in S : e[f][z] \in Nat
  PROVE  IsFiniteSet(BlockSet(S, e, z)) /\ Cardinality(BlockSet(S, e, z)) \in Nat
<1> DEFINE T == {{f} \X (1..e[f][z]) : f \in S}
           h == [f \in S |-> {f} \X (1..e[f][z])]
<1>1. IsFiniteSet(S)
  BY AllocatorAssumption, FS_Subset
<1>2. h \in Surjection(S, T)
  BY DEF Surjection
<1>3. IsFiniteSet(T)
  BY <1>1, <1>2, FS_Surjection
<1>4. ASSUME NEW f \in S
      PROVE  IsFiniteSet({f} \X (1..e[f][z]))
  <2>1. IsFiniteSet({f})
    BY FS_Singleton
  <2>2. IsFiniteSet(1..e[f][z])
    BY FS_Interval
  <2>3. QED
    BY <2>1, <2>2, FS_Product
<1>5. \A X \in T : IsFiniteSet(X)
  BY <1>4
<1>6. IsFiniteSet(UNION T)
  BY <1>3, <1>5, FS_UNION
<1>7. QED
  BY <1>6, FS_CardinalityType DEF BlockSet

\* A file with n blocks in a zone has n of them.
LEMMA BlocksOfOne ==
  ASSUME NEW f, NEW n \in Nat
  PROVE  IsFiniteSet({f} \X (1..n)) /\ Cardinality({f} \X (1..n)) = n
<1>1. IsFiniteSet({f}) /\ Cardinality({f}) = 1
  BY FS_Singleton
<1>2. IsFiniteSet(1..n) /\ Cardinality(1..n) = IF 1 > n THEN 0 ELSE n - 1 + 1
  BY FS_Interval
<1>3. Cardinality(1..n) = n
  BY <1>2
<1>4. IsFiniteSet({f} \X (1..n))
      /\ Cardinality({f} \X (1..n)) = Cardinality({f}) * Cardinality(1..n)
  BY <1>1, <1>2, FS_Product
<1>5. QED
  BY <1>1, <1>3, <1>4

\* The blocks of file f and those of the others.
LEMMA BlocksSplit ==
  ASSUME NEW e, NEW z, NEW f \in Files, \A g \in Files : e[g][z] \in Nat
  PROVE  /\ Blocks(e, z) = Cardinality(BlockSet(Files \ {f}, e, z)) + e[f][z]
         /\ Cardinality(BlockSet(Files \ {f}, e, z)) \in Nat
<1> DEFINE R == BlockSet(Files \ {f}, e, z)
           F == {f} \X (1..e[f][z])
<1>1. IsFiniteSet(R) /\ Cardinality(R) \in Nat
  BY BlockSetFinite
<1>2. IsFiniteSet(F) /\ Cardinality(F) = e[f][z]
  BY BlocksOfOne
<1>3. R \cap F = {}
  BY DEF BlockSet
<1>4. UNION {{g} \X (1..e[g][z]) : g \in Files} = R \cup F
  BY DEF BlockSet
<1>5. Cardinality(R \cup F) = Cardinality(R) + Cardinality(F) - Cardinality(R \cap F)
  BY <1>1, <1>2, FS_Union
<1>6. Cardinality(R \cap F) = 0
  BY <1>3, FS_EmptySet
<1>7. Blocks(e, z) = Cardinality(R \cup F)
  BY <1>4 DEF Blocks
<1> QED
  BY <1>1, <1>2, <1>5, <1>6, <1>7

\* The number of blocks is a natural number.
LEMMA BlocksNat ==
  ASSUME NEW e, NEW z, \A g \in Files : e[g][z] \in Nat
  PROVE  Blocks(e, z) \in Nat
<1>1. Cardinality(BlockSet(Files, e, z)) \in Nat
  BY BlockSetFinite
<1>2. QED
  BY <1>1 DEF Blocks, BlockSet

\* The number of blocks depends on the extents in this zone only.
LEMMA BlocksSame ==
  ASSUME NEW e, NEW d, NEW z, \A g \in Files : d[g][z] = e[g][z]
  PROVE  Blocks(d, z) = Blocks(e, z)
<1>1. {{g} \X (1..e[g][z]) : g \in Files} = {{g} \X (1..d[g][z]) : g \in Files}
  OBVIOUS
<1>2. QED
  BY <1>1 DEF Blocks

\* One file changes.
LEMMA BlocksUpdate ==
  ASSUME NEW e, NEW d, NEW z, NEW f \in Files,
         \A g \in Files : e[g][z] \in Nat /\ d[g][z] \in Nat,
         \A g \in Files \ {f} : d[g][z] = e[g][z]
  PROVE  Blocks(d, z) = Blocks(e, z) + d[f][z] - e[f][z]
<1>1. BlockSet(Files \ {f}, d, z) = BlockSet(Files \ {f}, e, z)
  <2>1. {{g} \X (1..e[g][z]) : g \in Files \ {f}} = {{g} \X (1..d[g][z]) : g \in Files \ {f}}
    OBVIOUS
  <2>2. QED
    BY <2>1 DEF BlockSet
<1>2. /\ Blocks(d, z) = Cardinality(BlockSet(Files \ {f}, d, z)) + d[f][z]
      /\ Blocks(e, z) = Cardinality(BlockSet(Files \ {f}, e, z)) + e[f][z]
      /\ Cardinality(BlockSet(Files \ {f}, e, z)) \in Nat
      /\ e[f][z] \in Nat /\ d[f][z] \in Nat
  BY BlocksSplit
<1>3. QED
  BY <1>1, <1>2

\* A zone without blocks holds none of any file.
LEMMA BlocksAtLeast ==
  ASSUME NEW e, NEW z, NEW f \in Files, \A g \in Files : e[g][z] \in Nat
  PROVE  e[f][z] <= Blocks(e, z) /\ Blocks(e, z) \in Nat
<1>1. /\ Blocks(e, z) = Cardinality(BlockSet(Files \ {f}, e, z)) + e[f][z]
      /\ Cardinality(BlockSet(Files \ {f}, e, z)) \in Nat
      /\ e[f][z] \in Nat
  BY BlocksSplit
<1>2. QED
  BY <1>1

-----------------------------------------------------------------------------
(***************************************************************************)
(* The inductive invariant of the space accounting.                        *)
(***************************************************************************)
SpaceType ==
  /\ capacity \in [Zones -> 0..MaxCap]
  /\ used \in [Zones -> Int]
  /\ ext \in [Files -> [Zones -> Nat]]
  /\ pend \in [Files -> Nat]
  /\ left \in [Files -> 0..MaxWrite]
  /\ gc \in [file : Threads, src : Zones \cup {NoZone}, dst : Zones \cup {NoZone},
             n : Nat, copy : [Zones -> Nat], lock : BOOLEAN, moved : BOOLEAN, gone : BOOLEAN]
  /\ orphan \in [Zones -> Nat]
  /\ lost \in [Zones -> Nat]
  /\ missing \in [Zones -> Nat]
  /\ ret \in [Files -> {"seal", "roll", "fail"}]

\* Blocks that are not pushed belong to a writer with a zone.
WriterInv ==
  \A f \in Files :
    pend[f] # 0 => /\ pc[f] \in {"open", "failed", "append"}
                   /\ zone[f] # NoZone /\ f \in Direct

LockedStages == {"gcmatch", "gcmove", "gcswap", "gcreplace", "gcsync"}

\* The collector works on a file from the moment it has its write lock until it
\* has swapped the extent.
MigrationInv ==
  /\ pc[GC] = "gclock" \/ pc[GC] \in LockedStages => gc.file \in Files /\ gc.src \in Zones
  /\ gc.lock <=> pc[GC] \in LockedStages
  /\ gc.moved => pc[GC] \in {"gcreplace", "gcsync"} /\ gc.dst \in Zones
  /\ gc.gone => gc.lock

CopyStages == {"gcmatch", "gcmove", "gcswap", "gcreplace"}
Copying == pc[GC] \in {"gcmatch", "gcmove", "gcswap"} \/ (pc[GC] = "gcreplace" /\ gc.moved)

\* The copy of the list holds the extent to migrate, and until it replaces the
\* list of the file it holds nothing that the list does not: the list only grows.
\* The extent fits the target.
SourceInv ==
  /\ ~gc.gone => orphan = NoExtents
  /\ Copying => gc.copy[gc.src] = gc.n
  /\ pc[GC] \in CopyStages => \A z \in Zones : gc.copy[z] <= CurrentList[z]
RoomInv ==
  pc[GC] \in {"gcmatch", "gcmove"} /\ zone[GC] # NoZone => capacity[zone[GC]] >= gc.n

\* Blocks below the write pointer: LiveDataWritten, and the copy the collector
\* has written and not recorded yet.
Copied(z) == IF pc[GC] = "gcswap" /\ zone[GC] = z THEN gc.n ELSE 0
Written(z) == Blocks(Pushing, z) + orphan[z] + InFlight(z) + Copied(z)
WrittenInv == \A z \in Zones : Written(z) + capacity[z] <= MaxCap + missing[z]

SpaceInv ==
  /\ BusyInv /\ SpaceType
  /\ WriterInv /\ MigrationInv /\ SourceInv /\ RoomInv
  /\ UsedCapacityExact /\ WrittenInv

-----------------------------------------------------------------------------
\* A step of the user of file f moves no other thread.
LEMMA FileLocal ==
  ASSUME BusyInv, NEW f \in Files, FileNext(f)
  PROVE  /\ GC \in Threads \ {f}
         /\ \A u \in Threads \ {f} :
              /\ pc'[u] = pc[u] /\ zone'[u] = zone[u] /\ cur'[u] = cur[u]
<1>1. ThreadStep(f)
  BY WriterSteps, CloseSteps, ScanSteps DEF FileNext
<1>2. QED
  BY <1>1, ThreadStepLocal, AllocatorAssumption

\* The steps that writers and the collector share change no extents.
LEMMA SharedLocal ==
  ASSUME BusyInv, NEW t \in Threads,
         AcquireNext(t) \/ PutActiveIOZoneToken(t) \/ ResetUnusedIOZones(t)
  PROVE  /\ UNCHANGED <<zone, used, fileVars, gc, orphan, lost>>
         /\ \A u \in Threads \ {t} : pc'[u] = pc[u]
         /\ \/ pc'[t] = pc[t]
            \/ pc[t] = "reset" /\ pc'[t] = (IF t = GC THEN "gcidle" ELSE "none")
<1>1. \A u \in Threads \ {t} : pc'[u] = pc[u]
  BY SharedSteps, ThreadStepLocal
<1>2. UNCHANGED <<zone, used, fileVars, gc, orphan, lost>>
  BY DEF AcquireNext, PutActiveIOZoneToken, ResetUnusedIOZones, GiveBack, zoneVars, gcVars
<1>3. CASE ResetUnusedIOZones(t)
  <2>1. pc[t] = "reset" /\ (pc' = pc \/ AfterReset(t))
    BY <1>3 DEF ResetUnusedIOZones, Examines, Exhausted, On
  <2>2. QED
    BY <1>1, <1>2, <2>1 DEF AfterReset, GoTo, BusyInv, PlaceInv
<1>4. CASE AcquireNext(t) \/ PutActiveIOZoneToken(t)
  BY <1>1, <1>2, <1>4 DEF AcquireNext, PutActiveIOZoneToken
<1>5. QED
  BY <1>3, <1>4

\* The collector moves no writer.
LEMMA CollectorLocal ==
  ASSUME BusyInv, GCNext
  PROVE  /\ \A f \in Files : pc'[f] = pc[f] /\ zone'[f] = zone[f] /\ cur'[f] = cur[f]
         /\ UNCHANGED <<pend, ret, left>>
<1>1. ThreadStep(GC)
  BY CollectorSteps
<1>2. \A f \in Files : f \in Threads \ {GC}
  BY AllocatorAssumption
<1>3. UNCHANGED <<pend, ret, left>>
  BY DEF GCNext, GCSnapshot, TryAcquireWRLock,
      TakeMigrateZone, MigrateData, ReleaseMigrateZone, ReplaceExtentList, SyncFileExtents,
      fileVars
<1>4. QED
  BY <1>1, <1>2, <1>3, ThreadStepLocal

\* What the next write to the active zone takes.
LEMMA ChunkBounds ==
  ASSUME SpaceInv, NEW f \in Files, zone[f] # NoZone
  PROVE  /\ zone[f] \in Zones /\ capacity[zone[f]] \in 0..MaxCap
         /\ left[f] \in 0..MaxWrite
         /\ Chunk(f) \in Nat
         /\ Chunk(f) <= left[f] /\ Chunk(f) <= capacity[zone[f]]
<1>0. BusyInv /\ SpaceType
  BY DEF SpaceInv
<1>1. zone[f] \in Zones /\ capacity[zone[f]] \in 0..MaxCap /\ left[f] \in 0..MaxWrite
  <2>1. zone[f] \in Zones
    BY <1>0, Standing
  <2>2. QED
    BY <1>0, <2>1 DEF SpaceType
<1> DEFINE S == {left[f], capacity[zone[f]]}
<1>2. capacity[zone[f]] \in Nat /\ left[f] \in Nat
  BY <1>1, AllocatorAssumption
<1>3. \E x \in S : \A y \in S : x <= y
  BY <1>2
<1>4. Chunk(f) \in S /\ \A y \in S : Chunk(f) <= y
  BY <1>3 DEF Chunk, Min
<1>5. QED
  BY <1>1, <1>2, <1>4

-----------------------------------------------------------------------------
(* The writers.                                                            *)

\* WriterInv of one file.
WriterOK(f, s, k, p) ==
  p # 0 => s \in {"open", "failed", "append"} /\ k # NoZone /\ f \in Direct

\* A step of the user of file f leaves the other files alone, and f consistent.
LEMMA WriterStep ==
  ASSUME SpaceInv, NEW f \in Files, FileNext(f)
  PROVE  /\ pend' \in [Files -> Nat]
         /\ left' \in [Files -> 0..MaxWrite]
         /\ ret' \in [Files -> {"seal", "roll", "fail"}]
         /\ \A g \in Files \ {f} : pend'[g] = pend[g]
         /\ WriterOK(f, pc'[f], zone'[f], pend'[f])
<1>1. /\ BusyInv /\ WriterOK(f, pc[f], zone[f], pend[f])
      /\ pend \in [Files -> Nat] /\ left \in [Files -> 0..MaxWrite]
      /\ ret \in [Files -> {"seal", "roll", "fail"}]
      /\ MaxWrite \in Nat
  BY AllocatorAssumption DEF SpaceInv, SpaceType, WriterInv, WriterOK
<1>2. /\ pc \in [Threads -> FileStages \cup GCStages]
      /\ zone \in [Threads -> Zones \cup {NoZone}] /\ cur[f] \in Zones \cup {NoZone}
      /\ pc[f] \in ZonelessStages => zone[f] = NoZone
      /\ pc[f] \in ZonedStages => zone[f] # NoZone
      /\ f \in Threads
  BY <1>1, Standing DEF BusyInv, PlaceInv, Place
<1> USE DEF On, GoTo, Scan, fileVars, WriterOK, ZonelessStages, ZonedStages
<1>a. CASE OpenWritableFile(f) \/ ReopenWritableFile(f)
  BY <1>a, <1>1, <1>2 DEF OpenWritableFile, ReopenWritableFile
<1>b. CASE Write(f)
  BY <1>b, <1>1, <1>2 DEF Write
<1>c. CASE DataSync(f)
  BY <1>c, <1>1, <1>2 DEF DataSync, PushExtent
<1>d. CASE CloseWR(f)
  BY <1>d, <1>1, <1>2 DEF CloseWR, PushExtent
<1>e. CASE Abandon(f)
  BY <1>e, <1>1, <1>2 DEF Abandon, PushExtent
<1>f. CASE DeleteFile(f) \/ CloseAgain(f)
  BY <1>f, <1>1, <1>2 DEF DeleteFile, CloseAgain
<1>g. CASE RollZone(f)
  BY <1>g, <1>1, <1>2 DEF RollZone, PushExtent
<1>h. CASE Append(f)
  BY <1>h, <1>1, <1>2, ChunkBounds DEF Append
<1>i. CASE BufferedAppend(f)
  BY <1>i, <1>1, <1>2, ChunkBounds DEF BufferedAppend
<1>j. CASE AppendFails(f)
  BY <1>j, <1>1, <1>2 DEF AppendFails
<1>k. CASE AppendDone(f)
  BY <1>k, <1>1, <1>2 DEF AppendDone
<1>l. CASE CloseActiveZone(f)
  BY <1>l, <1>1, <1>2 DEF CloseActiveZone, LetGo
<1>m. CASE PutOpenIOZoneToken(f)
  BY <1>m, <1>1, <1>2 DEF PutOpenIOZoneToken
<1>n. CASE AllocateIOZone(f)
  BY <1>n, <1>1, <1>2 DEF AllocateIOZone
<1>o. CASE ApplyFinishThreshold(f)
  BY <1>o, <1>1, <1>2 DEF ApplyFinishThreshold, Examines, Exhausted
<1>p. CASE WaitForOpenIOZoneToken(f)
  BY <1>p, <1>1, <1>2 DEF WaitForOpenIOZoneToken
<1>q. CASE GetBestOpenZoneMatch(f)
  BY <1>q, <1>1, <1>2 DEF GetBestOpenZoneMatch, Examines, Exhausted, SetActiveZone
<1>r. CASE GetActiveIOZoneTokenIfAvailable(f)
  BY <1>r, <1>1, <1>2 DEF GetActiveIOZoneTokenIfAvailable
<1>s. CASE RelaxOrDrop(f)
  BY <1>s, <1>1, <1>2 DEF RelaxOrDrop, SetActiveZone
<1>t. CASE FinishCheapestIOZone(f)
  BY <1>t, <1>1, <1>2 DEF FinishCheapestIOZone, Examines, Exhausted
<1>u. CASE AllocateEmptyZone(f)
  BY <1>u, <1>1, <1>2 DEF AllocateEmptyZone, Examines, Exhausted, SetActiveZone
<1>v. QED
  BY <1>a, <1>b, <1>c, <1>d, <1>e, <1>f, <1>g, <1>h, <1>i, <1>j, <1>k, <1>l, <1>m,
     <1>n, <1>o, <1>p, <1>q, <1>r, <1>s, <1>t, <1>u DEF FileNext

\* Every step keeps the state of the writers consistent with where they are.
LEMMA NextWriterInv ==
  ASSUME SpaceInv, Next
  PROVE  WriterInv'
<1>1. BusyInv /\ WriterInv
  BY DEF SpaceInv
<1>2. CASE \E t \in Threads :
             AcquireNext(t) \/ PutActiveIOZoneToken(t) \/ ResetUnusedIOZones(t)
  <2>1. PICK t \in Threads :
             AcquireNext(t) \/ PutActiveIOZoneToken(t) \/ ResetUnusedIOZones(t)
    BY <1>2
  <2>2. QED
    BY <1>1, <2>1, SharedLocal, AllocatorAssumption DEF WriterInv, fileVars
<1>3. CASE \E f \in Files : FileNext(f)
  <2>1. PICK f \in Files : FileNext(f)
    BY <1>3
  <2>2. \A g \in Files \ {f} : pc'[g] = pc[g] /\ zone'[g] = zone[g]
    BY <1>1, <2>1, FileLocal
  <2>3. QED
    BY <1>1, <2>1, <2>2, WriterStep DEF WriterInv, WriterOK
<1>4. CASE GCNext
  BY <1>1, <1>4, CollectorLocal DEF WriterInv
<1>5. QED
  BY <1>2, <1>3, <1>4 DEF Next

-----------------------------------------------------------------------------
(* The migration.                                                          *)

\* The user of a file touches the migration only by deleting the file.
LEMMA FileAndMigration ==
  ASSUME NEW f \in Files, FileNext(f)
  PROVE  /\ \/ UNCHANGED <<gc, orphan>>
            \/ DeleteFile(f) /\ Migrating(f) /\ gc' = [gc EXCEPT !.gone = TRUE]
         /\ UNCHANGED <<lost, missing>>
<1>1. CASE DeleteFile(f)
  BY <1>1 DEF DeleteFile, gcVars
<1>2. CASE ~DeleteFile(f)
  BY <1>2
  DEF FileNext, OpenWritableFile, ReopenWritableFile, Write, DataSync, CloseWR, Abandon,
      CloseAgain, RollZone, Append, BufferedAppend, AppendFails, AppendDone,
      CloseActiveZone, PutOpenIOZoneToken, AllocateIOZone, ApplyFinishThreshold,
      WaitForOpenIOZoneToken, GetBestOpenZoneMatch, GetActiveIOZoneTokenIfAvailable,
      RelaxOrDrop, FinishCheapestIOZone, AllocateEmptyZone, gcVars
<1>3. QED
  BY <1>1, <1>2

\* What the attempt to lock the file does to the migration.
LEMMA LockTaken ==
  ASSUME SpaceInv, TryAcquireWRLock
  PROVE  /\ pc[GC] = "gclock" /\ gc.file \in Files /\ gc.src \in Zones
         /\ ~gc.lock /\ ~gc.moved /\ ~gc.gone
         /\ UNCHANGED <<ext, orphan>>
         /\ \/ gc' = NoMigration /\ pc'[GC] = "reset"
            \/ /\ gc'.file = gc.file /\ gc'.src = gc.src /\ gc'.n = gc.n
               /\ gc'.copy = ext[gc.file] /\ gc'.lock /\ ~gc'.moved /\ ~gc'.gone
               /\ pc'[GC] = IF ext[gc.file][gc.src] = gc.n THEN "gcmatch" ELSE "gcreplace"
<1>1. /\ pc \in [Threads -> FileStages \cup GCStages] /\ GC \in Threads
      /\ gc \in [file : Threads, src : Zones \cup {NoZone}, dst : Zones \cup {NoZone},
                 n : Nat, copy : [Zones -> Nat], lock : BOOLEAN, moved : BOOLEAN, gone : BOOLEAN]
  BY DEF SpaceInv, SpaceType, BusyInv, PlaceInv
<1>2. pc[GC] = "gclock" /\ UNCHANGED <<ext, orphan>>
  BY DEF TryAcquireWRLock, On
<1>3. gc.file \in Files /\ gc.src \in Zones /\ ~gc.lock /\ ~gc.moved /\ ~gc.gone
  BY <1>2 DEF SpaceInv, MigrationInv, LockedStages
<1>4. \/ gc' = NoMigration /\ pc'[GC] = "reset"
      \/ /\ gc' = [gc EXCEPT !.lock = TRUE, !.copy = ext[gc.file]]
         /\ pc'[GC] = IF ext[gc.file][gc.src] = gc.n THEN "gcmatch" ELSE "gcreplace"
  BY <1>1 DEF TryAcquireWRLock, Scan, GoTo
<1>5. ASSUME gc' = [gc EXCEPT !.lock = TRUE, !.copy = ext[gc.file]]
      PROVE  /\ gc'.file = gc.file /\ gc'.src = gc.src /\ gc'.n = gc.n
             /\ gc'.copy = ext[gc.file] /\ gc'.lock /\ ~gc'.moved /\ ~gc'.gone
  BY <1>1, <1>3, <1>5
<1>6. QED
  BY <1>2, <1>3, <1>4, <1>5

\* Every step keeps what the collector does in agreement with where it is.
LEMMA NextMigrationInv ==
  ASSUME SpaceInv, Next
  PROVE  MigrationInv'
<1>1. /\ BusyInv /\ SpaceType /\ MigrationInv
      /\ pc \in [Threads -> FileStages \cup GCStages]
      /\ gc \in [file : Threads, src : Zones \cup {NoZone}, dst : Zones \cup {NoZone},
                 n : Nat, copy : [Zones -> Nat], lock : BOOLEAN, moved : BOOLEAN, gone : BOOLEAN]
  BY DEF SpaceInv, SpaceType, BusyInv, PlaceInv
<1>2. CASE \E t \in Threads :
             AcquireNext(t) \/ PutActiveIOZoneToken(t) \/ ResetUnusedIOZones(t)
  <2>1. PICK t \in Threads :
             AcquireNext(t) \/ PutActiveIOZoneToken(t) \/ ResetUnusedIOZones(t)
    BY <1>2
  <2>2. UNCHANGED gc
    BY <1>1, <2>1, SharedLocal
  <2>3. pc'[GC] = pc[GC] \/ (pc[GC] = "reset" /\ pc'[GC] = "gcidle")
    BY <1>1, <2>1, SharedLocal
  <2>4. QED
    BY <1>1, <2>2, <2>3 DEF MigrationInv, LockedStages
<1>3. CASE \E f \in Files : FileNext(f)
  <2>1. PICK f \in Files : FileNext(f)
    BY <1>3
  <2>2. pc'[GC] = pc[GC]
    BY <1>1, <2>1, FileLocal
  <2>3. CASE UNCHANGED gc
    BY <1>1, <2>2, <2>3 DEF MigrationInv
  <2>4. CASE DeleteFile(f) /\ Migrating(f) /\ gc' = [gc EXCEPT !.gone = TRUE]
    BY <1>1, <2>2, <2>4 DEF MigrationInv, Migrating
  <2>5. QED
    BY <2>1, <2>3, <2>4, FileAndMigration
<1>4. CASE GCNext
  <2>1. GC \notin Files /\ GC \in Threads
    BY AllocatorAssumption
  <2> USE DEF MigrationInv, LockedStages, On, GoTo, Scan, NoMigration
  <2>a. CASE GCSnapshot
    BY <1>1, <2>1, <2>a DEF GCSnapshot
  <2>b. CASE TryAcquireWRLock
    BY <2>1, <2>b, LockTaken
  <2>c. CASE TakeMigrateZone
    BY <1>1, <2>1, <2>c DEF TakeMigrateZone, Examines, Exhausted, gcVars
  <2>d. CASE MigrateData
    BY <1>1, <2>1, <2>d DEF MigrateData
  <2>e. CASE ReleaseMigrateZone
    <3>1. zone[GC] \in Zones
      BY <1>1, <2>e, Standing DEF ReleaseMigrateZone, Place, ZonedStages
    <3>2. QED
      BY <1>1, <2>1, <2>e, <3>1 DEF ReleaseMigrateZone
  <2>f. CASE ReplaceExtentList
    BY <1>1, <2>1, <2>f DEF ReplaceExtentList
  <2>g. CASE SyncFileExtents
    BY <1>1, <2>1, <2>g DEF SyncFileExtents
  <2>h. QED
    BY <1>4, <2>a, <2>b, <2>c, <2>d, <2>e, <2>f, <2>g DEF GCNext
<1>5. QED
  BY <1>2, <1>3, <1>4 DEF Next

-----------------------------------------------------------------------------
(* The extents.                                                            *)

\* The extents of f after a push.
LEMMA PushedExtents ==
  ASSUME SpaceInv, NEW f \in Files
  PROVE  /\ Pushed(f) \in [Files -> [Zones -> Nat]]
         /\ \A g \in Files \ {f} : Pushed(f)[g] = ext[g]
         /\ \A z \in Zones :
              Pushed(f)[f][z] = ext[f][z] + (IF z = zone[f] THEN pend[f] ELSE 0)
<1>1. ext \in [Files -> [Zones -> Nat]] /\ pend[f] \in Nat
  BY DEF SpaceInv, SpaceType
<1>2. QED
  BY <1>1 DEF Pushed

\* A step of a writer changes the extents of its own file only, and unless it
\* deletes the file they only grow.
LEMMA FileExtents ==
  ASSUME SpaceInv, NEW f \in Files, FileNext(f)
  PROVE  /\ ext' \in [Files -> [Zones -> Nat]]
         /\ \A g \in Files \ {f} : ext'[g] = ext[g]
         /\ ~DeleteFile(f) => \A z \in Zones : ext[f][z] <= ext'[f][z]
<1>1. ext \in [Files -> [Zones -> Nat]] /\ pend[f] \in Nat
  BY DEF SpaceInv, SpaceType
<1>2. CASE DataSync(f) \/ CloseWR(f) \/ Abandon(f) \/ RollZone(f)
  <2>1. ext' = Pushed(f)
    BY <1>2 DEF DataSync, CloseWR, Abandon, RollZone, PushExtent
  <2>2. QED
    BY <1>1, <2>1, PushedExtents
<1>3. CASE DeleteFile(f)
  BY <1>1, <1>3 DEF DeleteFile, NoExtents
<1>4. CASE BufferedAppend(f)
  <2>1. Chunk(f) \in Nat /\ zone[f] \in Zones
    BY <1>4, ChunkBounds DEF BufferedAppend
  <2>2. ext' = [ext EXCEPT ![f][zone[f]] = @ + Chunk(f)]
    BY <1>4 DEF BufferedAppend
  <2>3. QED
    BY <1>1, <2>1, <2>2
<1>5. CASE ~(DataSync(f) \/ CloseWR(f) \/ Abandon(f) \/ RollZone(f) \/ DeleteFile(f)
             \/ BufferedAppend(f))
  <2>1. UNCHANGED ext
    BY <1>5
    DEF FileNext, OpenWritableFile, ReopenWritableFile, Write, CloseAgain,
        Append, AppendFails, AppendDone, CloseActiveZone,
        PutOpenIOZoneToken, AllocateIOZone, ApplyFinishThreshold, WaitForOpenIOZoneToken,
        GetBestOpenZoneMatch, GetActiveIOZoneTokenIfAvailable, RelaxOrDrop,
        FinishCheapestIOZone, AllocateEmptyZone, fileVars
  <2>2. QED
    BY <1>1, <2>1
<1>6. QED
  BY <1>2, <1>3, <1>4, <1>5

\* Every step keeps the copy within the list it will replace.
LEMMA NextSourceInv ==
  ASSUME SpaceInv, Next
  PROVE  SourceInv'
<1>1. /\ BusyInv /\ SpaceType /\ MigrationInv /\ SourceInv
      /\ pc \in [Threads -> FileStages \cup GCStages]
      /\ gc \in [file : Threads, src : Zones \cup {NoZone}, dst : Zones \cup {NoZone},
                 n : Nat, copy : [Zones -> Nat], lock : BOOLEAN, moved : BOOLEAN, gone : BOOLEAN]
      /\ ext \in [Files -> [Zones -> Nat]]
  BY DEF SpaceInv, SpaceType, BusyInv, PlaceInv
<1>2. pc[GC] \in CopyStages => gc.file \in Files
  BY <1>1 DEF CopyStages, MigrationInv, LockedStages
<1>3. CASE \E t \in Threads :
             AcquireNext(t) \/ PutActiveIOZoneToken(t) \/ ResetUnusedIOZones(t)
  <2>1. PICK t \in Threads :
             AcquireNext(t) \/ PutActiveIOZoneToken(t) \/ ResetUnusedIOZones(t)
    BY <1>3
  <2>2. UNCHANGED <<gc, ext, orphan>>
    BY <1>1, <2>1, SharedLocal DEF fileVars
  <2>3. pc'[GC] = pc[GC] \/ pc'[GC] = "gcidle"
    BY <1>1, <2>1, SharedLocal
  <2>4. QED
    BY <1>1, <2>2, <2>3 DEF SourceInv, Copying, CopyStages, CurrentList
<1>4. CASE \E f \in Files : FileNext(f)
  <2>1. PICK f \in Files : FileNext(f)
    BY <1>4
  <2>2. pc'[GC] = pc[GC]
    BY <1>1, <2>1, FileLocal
  <2>3. /\ ext' \in [Files -> [Zones -> Nat]]
        /\ \A g \in Files \ {f} : ext'[g] = ext[g]
        /\ ~DeleteFile(f) => \A z \in Zones : ext[f][z] <= ext'[f][z]
    BY <2>1, FileExtents
  <2>4. CASE DeleteFile(f) /\ Migrating(f)
    <3>1. gc' = [gc EXCEPT !.gone = TRUE] /\ orphan' = ext[f]
      BY <2>4 DEF DeleteFile
    <3>2. ~gc.gone /\ gc.file = f
      BY <2>4 DEF Migrating
    <3>3. gc'.gone /\ gc'.copy = gc.copy /\ gc'.src = gc.src /\ gc'.n = gc.n
          /\ gc'.moved = gc.moved
      BY <1>1, <3>1
    <3>4. CurrentList' = CurrentList
      BY <3>1, <3>2, <3>3 DEF CurrentList
    <3>5. QED
      BY <1>1, <2>2, <3>3, <3>4 DEF SourceInv, Copying
  <2>5. CASE ~(DeleteFile(f) /\ Migrating(f))
    <3>1. UNCHANGED <<gc, orphan>>
      BY <2>1, <2>5, FileAndMigration
    <3>2. ASSUME pc[GC] \in CopyStages, NEW z \in Zones
          PROVE  gc.copy[z] <= CurrentList'[z]
      <4>1. gc.copy[z] <= CurrentList[z] /\ gc.copy[z] \in Nat /\ gc.file \in Files
        BY <1>1, <1>2, <3>2 DEF SourceInv
      <4>2. CASE gc.gone
        BY <3>1, <4>1, <4>2 DEF CurrentList
      <4>3. CASE ~gc.gone
        <5>1. gc.lock
          BY <1>1, <3>2 DEF MigrationInv, CopyStages, LockedStages
        <5>2. gc.file = f => ~DeleteFile(f)
          BY <2>5, <4>3, <5>1 DEF Migrating
        <5>3. ext[gc.file][z] <= ext'[gc.file][z]
          BY <1>1, <2>3, <4>1, <5>2
        <5>4. ext[gc.file][z] \in Nat /\ ext'[gc.file][z] \in Nat
          BY <1>1, <2>3, <4>1
        <5>5. QED
          BY <3>1, <4>1, <4>3, <5>3, <5>4 DEF CurrentList
      <4>4. QED
        BY <4>2, <4>3
    <3>3. QED
      BY <1>1, <2>2, <3>1, <3>2 DEF SourceInv, Copying
  <2>6. QED
    BY <2>4, <2>5
<1>5. CASE GCNext
  <2> USE DEF SourceInv, Copying, CopyStages, CurrentList, On, GoTo, Scan, NoMigration
  <2>1. GC \in Threads
    OBVIOUS
  <2>a. CASE GCSnapshot
    BY <1>1, <2>a DEF GCSnapshot, MigrationInv, LockedStages
  <2>b. CASE TryAcquireWRLock
    <3>1. ASSUME gc'.copy = ext[gc.file], gc'.file = gc.file, gc.file \in Files, UNCHANGED ext,
                 ~gc'.gone
          PROVE  \A z \in Zones : gc'.copy[z] <= CurrentList'[z]
      <4>1. \A z \in Zones : ext[gc.file][z] \in Nat
        BY <1>1, <3>1
      <4>2. QED
        BY <3>1, <4>1
    <3>2. QED
      BY <1>1, <2>b, <3>1, LockTaken
  <2>c. CASE TakeMigrateZone
    BY <1>1, <2>c DEF TakeMigrateZone, MigrationInv, Examines, Exhausted, gcVars, fileVars
  <2>d. CASE MigrateData
    BY <1>1, <2>d DEF MigrateData, fileVars
  <2>e. CASE ReleaseMigrateZone
    BY <1>1, <2>e DEF ReleaseMigrateZone, fileVars
  <2>f. CASE ReplaceExtentList
    BY <1>1, <2>f DEF ReplaceExtentList
  <2>g. CASE SyncFileExtents
    BY <1>1, <2>g DEF SyncFileExtents
  <2>h. QED
    BY <1>5, <2>a, <2>b, <2>c, <2>d, <2>e, <2>f, <2>g DEF GCNext
<1>6. QED
  BY <1>3, <1>4, <1>5 DEF Next

\* The copy with the migrated extent replaced, and what it drops of the list.
LEMMA MovedExtents ==
  ASSUME SpaceInv, pc[GC] = "gcreplace"
  PROVE  /\ gc.copy \in [Zones -> Nat] /\ gc.n \in Nat /\ gc.file \in Files
         /\ Moved(gc.copy) \in [Zones -> Nat]
         /\ \A z \in Zones :
              /\ Moved(gc.copy)[z] = gc.copy[z]
                                       + (IF gc.moved /\ z = gc.dst THEN gc.n ELSE 0)
                                       - (IF gc.moved /\ z = gc.src THEN gc.n ELSE 0)
              /\ CurrentList[z] \in Nat /\ gc.copy[z] \in Nat
              /\ gc.copy[z] <= CurrentList[z]
<1>1. gc.n \in Nat /\ gc.copy \in [Zones -> Nat] /\ gc.file \in Files
  BY DEF SpaceInv, SpaceType, MigrationInv, LockedStages
<1>2. /\ gc.moved => gc.copy[gc.src] = gc.n
      /\ \A z \in Zones : gc.copy[z] <= CurrentList[z]
  BY DEF SpaceInv, SourceInv, Copying, CopyStages
<1>3. \A z \in Zones : CurrentList[z] \in Nat
  BY <1>1 DEF SpaceInv, SpaceType, CurrentList
<1>4. Moved(gc.copy) \in [Zones -> Nat]
  BY <1>1, <1>2 DEF Moved
<1>5. QED
  BY <1>1, <1>2, <1>3, <1>4 DEF Moved

\* The types of what a migration changes.
LEMMA CollectorTypes ==
  ASSUME SpaceInv, GCNext
  PROVE  /\ gc' \in [file : Threads, src : Zones \cup {NoZone}, dst : Zones \cup {NoZone},
                     n : Nat, copy : [Zones -> Nat], lock : BOOLEAN, moved : BOOLEAN, gone : BOOLEAN]
         /\ ext' \in [Files -> [Zones -> Nat]]
         /\ orphan' \in [Zones -> Nat]
         /\ lost' \in [Zones -> Nat]
         /\ missing' \in [Zones -> Nat]
<1>1. /\ BusyInv /\ SpaceType /\ MigrationInv /\ SourceInv
      /\ gc \in [file : Threads, src : Zones \cup {NoZone}, dst : Zones \cup {NoZone},
                 n : Nat, copy : [Zones -> Nat], lock : BOOLEAN, moved : BOOLEAN, gone : BOOLEAN]
      /\ ext \in [Files -> [Zones -> Nat]]
      /\ orphan \in [Zones -> Nat]
      /\ lost \in [Zones -> Nat]
      /\ missing \in [Zones -> Nat]
      /\ zone[GC] \in Zones \cup {NoZone}
      /\ GC \in Threads
  BY DEF SpaceInv, SpaceType, BusyInv, PlaceInv
<1>2. /\ NoMigration \in [file : Threads, src : Zones \cup {NoZone},
                          dst : Zones \cup {NoZone}, n : Nat, copy : [Zones -> Nat], lock : BOOLEAN,
                          moved : BOOLEAN, gone : BOOLEAN]
      /\ NoExtents \in [Zones -> Nat]
  BY DEF NoMigration, NoExtents
<1>a. CASE GCSnapshot
  <2>1. PICK f \in Files, z \in Zones :
          gc' = [NoMigration EXCEPT !.file = f, !.src = z, !.n = ext[f][z]]
    BY <1>a DEF GCSnapshot
  <2>2. ext[f][z] \in Nat /\ f \in Threads
    BY <1>1
  <2>3. gc' = [file |-> f, src |-> z, dst |-> NoZone, n |-> ext[f][z],
               copy |-> NoExtents, lock |-> FALSE, moved |-> FALSE, gone |-> FALSE]
    BY <2>1 DEF NoMigration
  <2>4. UNCHANGED <<ext, orphan, lost, missing>>
    BY <1>a DEF GCSnapshot, fileVars
  <2>5. QED
    BY <1>1, <1>2, <2>2, <2>3, <2>4
<1>b. CASE TryAcquireWRLock
  <2>1. gc.file \in Files
    BY <1>1, <1>b DEF TryAcquireWRLock, On, MigrationInv
  <2>2. UNCHANGED <<ext, orphan, lost, missing>>
    BY <1>b DEF TryAcquireWRLock
  <2>3. gc' = NoMigration \/ gc' = [gc EXCEPT !.lock = TRUE, !.copy = ext[gc.file]]
    BY <1>b DEF TryAcquireWRLock
  <2>4. ext[gc.file] \in [Zones -> Nat]
    BY <1>1, <2>1
  <2>5. QED
    BY <1>1, <1>2, <2>2, <2>3, <2>4
<1>c. CASE TakeMigrateZone
  BY <1>1, <1>c DEF TakeMigrateZone, gcVars, fileVars
<1>d. CASE MigrateData
  <2>1. UNCHANGED <<gc, ext, orphan, lost>>
    BY <1>d DEF MigrateData, fileVars
  <2>2. PICK n \in 0..gc.n : missing' = [missing EXCEPT ![zone[GC]] = @ + (gc.n - n)]
    BY <1>d DEF MigrateData
  <2>3. gc.n \in Nat /\ gc.n - n \in Nat
    BY <1>1
  <2>4. \A y \in Zones : missing'[y] = missing[y] \/ missing'[y] = missing[y] + (gc.n - n)
    BY <1>1, <2>2
  <2>5. missing' = [y \in Zones |-> missing'[y]]
    BY <1>1, <2>2
  <2>6. missing' \in [Zones -> Nat]
    BY <1>1, <2>3, <2>4, <2>5
  <2>7. QED
    BY <1>1, <2>1, <2>6
<1>e. CASE ReleaseMigrateZone
  BY <1>1, <1>e DEF ReleaseMigrateZone, fileVars
<1>f. CASE ReplaceExtentList
  <2>1. pc[GC] = "gcreplace"
    BY <1>f DEF ReplaceExtentList, On
  <2>2. /\ gc.file \in Files /\ Moved(gc.copy) \in [Zones -> Nat]
        /\ \A z \in Zones : /\ CurrentList[z] \in Nat /\ gc.copy[z] \in Nat
                              /\ gc.copy[z] <= CurrentList[z]
    BY <2>1, MovedExtents
  <2>3. lost' \in [Zones -> Nat]
    <3>1. \A z \in Zones : lost[z] \in Nat /\ CurrentList[z] - gc.copy[z] \in Nat
      BY <1>1, <2>2
    <3>2. lost' = [z \in Zones |-> lost[z] + (CurrentList[z] - gc.copy[z])]
      BY <1>f DEF ReplaceExtentList
    <3>3. QED
      BY <3>1, <3>2
  <2>4. QED
    BY <1>1, <1>f, <2>2, <2>3 DEF ReplaceExtentList
<1>h. CASE SyncFileExtents
  <2>1. \A z \in Zones : OldExtent(z) \in Nat
    BY <1>1 DEF OldExtent
  <2>2. lost' \in [Zones -> Nat]
    BY <1>1, <1>h, <2>1 DEF SyncFileExtents
  <2>3. QED
    BY <1>1, <1>2, <1>h, <2>2 DEF SyncFileExtents
<1>g. QED
  BY <1>a, <1>b, <1>c, <1>d, <1>e, <1>f, <1>h DEF GCNext


-----------------------------------------------------------------------------
(* The write pointers.                                                     *)

\* Thread t moves write pointers of zones it has flagged only.
MovesOwn(t) ==
  /\ capacity' \in [Zones -> 0..MaxCap]
  /\ \A z \in Zones : z # cur[t] /\ z # zone[t] => capacity'[z] = capacity[z]

\* A writer changes the capacity of zones it examines or keeps, and only lowers it.
LEMMA FileCapacity ==
  ASSUME SpaceInv, NEW f \in Files, FileNext(f)
  PROVE  MovesOwn(f) /\ \A z \in Zones : capacity'[z] <= capacity[z]
<1>1. /\ BusyInv /\ capacity \in [Zones -> 0..MaxCap]
      /\ \A z \in Zones : capacity[z] \in Nat
      /\ MaxCap \in Nat /\ 0 \in 0..MaxCap
      /\ cur[f] \in Zones \cup {NoZone} /\ zone[f] \in Zones \cup {NoZone}
  BY AllocatorAssumption DEF SpaceInv, SpaceType, BusyInv, PlaceInv
<1> USE DEF MovesOwn
<1>a. CASE Append(f)
  BY <1>1, <1>a, ChunkBounds DEF Append, AppendTo
<1>b. CASE BufferedAppend(f)
  BY <1>1, <1>b, ChunkBounds DEF BufferedAppend, AppendTo
<1>c. CASE AppendFails(f)
  <2>1. PICK n \in 0..(Chunk(f) - 1) : AppendTo(zone[f], n)
    BY <1>c DEF AppendFails
  <2>2. n \in Nat /\ n <= capacity[zone[f]] /\ zone[f] \in Zones
    <3>1. zone[f] # NoZone
      BY <1>c DEF AppendFails
    <3>2. Chunk(f) \in Nat /\ Chunk(f) <= capacity[zone[f]] /\ zone[f] \in Zones
      BY <3>1, ChunkBounds
    <3>3. QED
      BY <1>1, <3>2
  <2>3. QED
    BY <1>1, <2>1, <2>2 DEF AppendTo
<1>d. CASE ApplyFinishThreshold(f)
  BY <1>1, <1>d DEF ApplyFinishThreshold, Finish
<1>e. CASE FinishCheapestIOZone(f)
  BY <1>1, <1>e DEF FinishCheapestIOZone, Finish
<1>f. CASE ~(Append(f) \/ BufferedAppend(f) \/ AppendFails(f) \/ ApplyFinishThreshold(f)
             \/ FinishCheapestIOZone(f))
  <2>1. UNCHANGED capacity
    BY <1>f
    DEF FileNext, OpenWritableFile, ReopenWritableFile, Write, DataSync, CloseWR, Abandon,
        CloseAgain, DeleteFile, RollZone, AppendDone, CloseActiveZone,
        PutOpenIOZoneToken, AllocateIOZone, WaitForOpenIOZoneToken,
        GetBestOpenZoneMatch, GetActiveIOZoneTokenIfAvailable, RelaxOrDrop,
        AllocateEmptyZone, zoneVars
  <2>2. QED
    BY <1>1, <2>1
<1>g. QED
  BY <1>a, <1>b, <1>c, <1>d, <1>e, <1>f

\* A reset of an unused zone is the only step that raises a capacity.
LEMMA SharedCapacity ==
  ASSUME SpaceInv, NEW t \in Threads,
         AcquireNext(t) \/ PutActiveIOZoneToken(t) \/ ResetUnusedIOZones(t)
  PROVE  /\ MovesOwn(t)
         /\ \/ UNCHANGED <<capacity, missing>>
            \/ /\ pc[t] = "reset" /\ Unused(cur[t]) /\ cur[t] \in Zones
               /\ capacity' = [capacity EXCEPT ![cur[t]] = MaxCap]
               /\ missing' = [missing EXCEPT ![cur[t]] = 0]
<1>1. /\ capacity \in [Zones -> 0..MaxCap]
      /\ MaxCap \in 0..MaxCap
      /\ cur[t] \in Zones \cup {NoZone}
  BY AllocatorAssumption DEF SpaceInv, SpaceType, BusyInv, PlaceInv
<1>2. CASE UNCHANGED <<capacity, missing>>
  BY <1>1, <1>2 DEF MovesOwn
<1>3. CASE Examines(t, "reset") /\ Unused(cur[t]) /\ Reset(cur[t])
  BY <1>1, <1>3 DEF MovesOwn, Examines, On, Reset
<1>4. QED
  BY <1>2, <1>3 DEF AcquireNext, PutActiveIOZoneToken, ResetUnusedIOZones, zoneVars, gcVars

\* A migration changes the capacity of its target, and only lowers it.
LEMMA CollectorCapacity ==
  ASSUME SpaceInv, GCNext
  PROVE  MovesOwn(GC) /\ \A z \in Zones : capacity'[z] <= capacity[z]
<1>1. /\ BusyInv /\ RoomInv /\ capacity \in [Zones -> 0..MaxCap]
      /\ \A z \in Zones : capacity[z] \in Nat
      /\ MaxCap \in Nat /\ gc.n \in Nat
  BY AllocatorAssumption DEF SpaceInv, SpaceType
<1>2. CASE MigrateData
  <2>1. zone[GC] \in Zones /\ capacity[zone[GC]] >= gc.n
    BY <1>1, <1>2, Standing DEF MigrateData, On, RoomInv, Place, ZonedStages
  <2>2. PICK n \in 0..gc.n : AppendTo(zone[GC], n)
    BY <1>2 DEF MigrateData
  <2>3. n \in Nat /\ n <= capacity[zone[GC]]
    BY <1>1, <2>1, <2>2
  <2>4. QED
    BY <1>1, <2>1, <2>2, <2>3 DEF AppendTo, MovesOwn
<1>3. CASE ~MigrateData
  <2>1. UNCHANGED capacity
    BY <1>3
    DEF GCNext, GCSnapshot, TryAcquireWRLock, TakeMigrateZone, ReleaseMigrateZone,
        ReplaceExtentList, SyncFileExtents, zoneVars
  <2>2. QED
    BY <1>1, <2>1 DEF MovesOwn
<1>4. QED
  BY <1>2, <1>3

\* Nobody else moves the write pointer of a zone that a thread keeps.
LEMMA OwnersApart ==
  ASSUME BusyInv, NEW t \in Threads, NEW u \in Threads \ {t}, zone[u] # NoZone
  PROVE  zone[u] \in Zones /\ zone[u] # cur[t] /\ zone[u] # zone[t]
BY Standing DEF BusyInv, Mutex

\* Every step leaves room for the migrated extent in the zone chosen for it.
LEMMA NextRoomInv ==
  ASSUME SpaceInv, Next
  PROVE  RoomInv'
<1>1. /\ BusyInv /\ SpaceType /\ MigrationInv /\ RoomInv
      /\ pc \in [Threads -> FileStages \cup GCStages]
      /\ GC \in Threads
  BY DEF SpaceInv, SpaceType, BusyInv, PlaceInv
<1>2. CASE \E t \in Threads :
             AcquireNext(t) \/ PutActiveIOZoneToken(t) \/ ResetUnusedIOZones(t)
  <2>1. PICK t \in Threads :
             AcquireNext(t) \/ PutActiveIOZoneToken(t) \/ ResetUnusedIOZones(t)
    BY <1>2
  <2>2. UNCHANGED <<gc, zone>> /\ \A u \in Threads \ {t} : pc'[u] = pc[u]
    BY <1>1, <2>1, SharedLocal
  <2>3. \/ pc'[t] = pc[t]
        \/ pc[t] = "reset" /\ pc'[t] = (IF t = GC THEN "gcidle" ELSE "none")
    BY <1>1, <2>1, SharedLocal
  <2>4. MovesOwn(t) /\ (UNCHANGED capacity \/ pc[t] = "reset")
    BY <2>1, SharedCapacity
  <2>5. CASE t = GC
    BY <1>1, <2>2, <2>3, <2>4, <2>5 DEF RoomInv
  <2>6. CASE t # GC
    <3>1. pc'[GC] = pc[GC]
      BY <2>2, <2>6
    <3>2. zone[GC] # NoZone => capacity'[zone[GC]] = capacity[zone[GC]]
      BY <1>1, <2>4, <2>6, OwnersApart DEF MovesOwn
    <3>3. QED
      BY <1>1, <2>2, <3>1, <3>2 DEF RoomInv
  <2>7. QED
    BY <2>5, <2>6
<1>3. CASE \E f \in Files : FileNext(f)
  <2>1. PICK f \in Files : FileNext(f)
    BY <1>3
  <2>2. GC \in Threads \ {f} /\ pc'[GC] = pc[GC] /\ zone'[GC] = zone[GC]
    BY <1>1, <2>1, FileLocal
  <2>3. gc'.n = gc.n
    BY <1>1, <2>1, FileAndMigration DEF SpaceType
  <2>4. zone[GC] # NoZone => capacity'[zone[GC]] = capacity[zone[GC]]
    BY <1>1, <2>1, <2>2, OwnersApart, FileCapacity DEF MovesOwn
  <2>5. QED
    BY <1>1, <2>2, <2>3, <2>4 DEF RoomInv
<1>4. CASE GCNext
  <2> USE DEF RoomInv, On, GoTo, Scan
  <2>1. zone \in [Threads -> Zones \cup {NoZone}]
    BY <1>1 DEF BusyInv, PlaceInv
  <2>a. CASE GCSnapshot \/ MigrateData \/ ReleaseMigrateZone \/ ReplaceExtentList
             \/ SyncFileExtents
    BY <1>1, <2>a DEF GCSnapshot, MigrateData, ReleaseMigrateZone, ReplaceExtentList,
       SyncFileExtents
  <2>b. CASE TryAcquireWRLock
    <3>1. zone[GC] = NoZone
      BY <1>1, <2>b, Standing DEF TryAcquireWRLock, Place, ZonelessStages
    <3>2. QED
      BY <1>1, <2>b, <3>1 DEF TryAcquireWRLock
  <2>c. CASE TakeMigrateZone
    BY <1>1, <2>1, <2>c
    DEF TakeMigrateZone, Examines, Exhausted, gcVars, Keep, GiveBack, Matches
  <2>d. QED
    BY <1>4, <2>a, <2>b, <2>c DEF GCNext
<1>5. QED
  BY <1>2, <1>3, <1>4 DEF Next

-----------------------------------------------------------------------------
(* The counted blocks.                                                     *)

\* What a step of the user of f does to the blocks: nothing, or one of four.
Untouched(f) ==
  /\ UNCHANGED <<used, ext, pend, gc, orphan>>
  /\ zone'[f] = zone[f] \/ pend[f] = 0
Pushes(f) ==
  /\ PushExtent(f)
  /\ UNCHANGED <<capacity, zone, gc, orphan>>

\* What a step of a writer can do to extents and counts: nothing, push an extent,
\* write, or delete the file.
LEMMA FileEffect ==
  ASSUME SpaceInv, NEW f \in Files, FileNext(f)
  PROVE  Untouched(f) \/ Pushes(f) \/ Append(f) \/ BufferedAppend(f) \/ DeleteFile(f)
<1>1. \/ pc[f] \in {"open", "failed", "append"}
      \/ pend[f] = 0
  BY DEF SpaceInv, WriterInv
<1>2. CASE DataSync(f) \/ CloseWR(f) \/ Abandon(f) \/ RollZone(f)
  BY <1>2 DEF DataSync, CloseWR, Abandon, RollZone, Pushes, gcVars
<1>3. CASE ~(DataSync(f) \/ CloseWR(f) \/ Abandon(f) \/ RollZone(f) \/ Append(f)
             \/ BufferedAppend(f) \/ DeleteFile(f))
  <2>1. UNCHANGED <<used, ext, pend, gc, orphan>>
    BY <1>3
    DEF FileNext, OpenWritableFile, ReopenWritableFile, Write,
        CloseAgain, AppendFails, AppendDone, CloseActiveZone,
        PutOpenIOZoneToken, AllocateIOZone, ApplyFinishThreshold, WaitForOpenIOZoneToken,
        GetBestOpenZoneMatch, GetActiveIOZoneTokenIfAvailable, RelaxOrDrop,
        FinishCheapestIOZone, AllocateEmptyZone, fileVars, gcVars, zoneVars
  <2>2. pc[f] \in {"open", "failed", "append"} => zone'[f] = zone[f]
    BY <1>3
    DEF FileNext, OpenWritableFile, ReopenWritableFile, Write,
        CloseAgain, AppendFails, AppendDone, CloseActiveZone,
        PutOpenIOZoneToken, AllocateIOZone, ApplyFinishThreshold, WaitForOpenIOZoneToken,
        GetBestOpenZoneMatch, GetActiveIOZoneTokenIfAvailable, RelaxOrDrop,
        FinishCheapestIOZone, AllocateEmptyZone, On, Examines, Exhausted
  <2>3. QED
    BY <1>1, <2>1, <2>2 DEF Untouched
<1>4. QED
  BY <1>2, <1>3

\* InFlight, spelled out before and after a step.
LEMMA InFlightValue ==
  ASSUME NEW z \in Zones
  PROVE  /\ InFlight(z) = IF \/ gc.moved /\ pc[GC] = "gcreplace" /\ z = gc.dst
                             \/ gc.moved /\ pc[GC] = "gcsync" /\ z = gc.src
                          THEN gc.n ELSE 0
         /\ InFlight(z)' = IF \/ gc'.moved /\ pc'[GC] = "gcreplace" /\ z = gc'.dst
                              \/ gc'.moved /\ pc'[GC] = "gcsync" /\ z = gc'.src
                           THEN gc'.n ELSE 0
BY DEF InFlight

\* The user of a file changes nothing that is in flight.
LEMMA FileInFlight ==
  ASSUME SpaceInv, NEW f \in Files, FileNext(f), NEW z \in Zones
  PROVE  InFlight(z)' = InFlight(z) /\ Copied(z)' = Copied(z)
<1>1. pc'[GC] = pc[GC] /\ zone'[GC] = zone[GC]
  BY FileLocal DEF SpaceInv
<1>2. gc \in [file : Threads, src : Zones \cup {NoZone}, dst : Zones \cup {NoZone},
              n : Nat, copy : [Zones -> Nat], lock : BOOLEAN, moved : BOOLEAN, gone : BOOLEAN]
  BY DEF SpaceInv, SpaceType
<1>3. gc'.n = gc.n /\ gc'.moved = gc.moved /\ gc'.src = gc.src /\ gc'.dst = gc.dst
  BY <1>2, FileAndMigration
<1>4. QED
  BY <1>1, <1>3, InFlightValue DEF Copied

\* The terms of UsedCapacityExact are numbers, and they add up.
LEMMA CountTypes ==
  ASSUME SpaceInv, NEW z \in Zones
  PROVE  /\ \A g \in Files : ext[g][z] \in Nat
         /\ Blocks(ext, z) \in Nat /\ orphan[z] \in Nat /\ InFlight(z) \in Nat
         /\ lost[z] \in Nat /\ Copied(z) \in Nat /\ gc.n \in Nat
         /\ used[z] = Blocks(ext, z) + orphan[z] + InFlight(z) + lost[z]
<1>1. /\ ext \in [Files -> [Zones -> Nat]] /\ orphan[z] \in Nat
      /\ lost[z] \in Nat /\ gc.n \in Nat
  BY DEF SpaceInv, SpaceType
<1>2. \A g \in Files : ext[g][z] \in Nat
  BY <1>1
<1>3. Blocks(ext, z) \in Nat
  BY <1>2, BlocksNat
<1>4. InFlight(z) \in Nat /\ Copied(z) \in Nat
  BY <1>1, InFlightValue DEF Copied
<1>5. QED
  BY <1>1, <1>2, <1>3, <1>4 DEF SpaceInv, UsedCapacityExact, Live

\* A step of a writer changes used_capacity_ by what it changes the extents.
LEMMA FileExact ==
  ASSUME SpaceInv, NEW f \in Files, FileNext(f), NEW z \in Zones
  PROVE  used'[z] = Blocks(ext', z) + orphan'[z] + InFlight(z)' + lost'[z]
<1>1. /\ InFlight(z)' = InFlight(z) /\ lost' = lost
      /\ \A g \in Files : ext[g][z] \in Nat /\ ext'[g][z] \in Nat
      /\ \A g \in Files \ {f} : ext'[g][z] = ext[g][z]
  BY FileInFlight, FileAndMigration, FileExtents, CountTypes
<1>2. Blocks(ext', z) = Blocks(ext, z) + ext'[f][z] - ext[f][z]
  BY <1>1, BlocksUpdate
<1>3. /\ used[z] = Blocks(ext, z) + orphan[z] + InFlight(z) + lost[z]
      /\ Blocks(ext, z) \in Nat /\ orphan[z] \in Nat /\ InFlight(z) \in Nat
      /\ lost[z] \in Nat /\ ext[f][z] \in Nat /\ ext'[f][z] \in Nat
  BY <1>1, CountTypes
<1>4. SUFFICES used'[z] - ext'[f][z] - orphan'[z] = used[z] - ext[f][z] - orphan[z]
               /\ used'[z] \in Int /\ orphan'[z] \in Int
  BY <1>1, <1>2, <1>3
<1>5. used \in [Zones -> Int] /\ ext \in [Files -> [Zones -> Nat]]
  BY DEF SpaceInv, SpaceType
<1>a. CASE Untouched(f)
  BY <1>a, <1>3, <1>5 DEF Untouched
<1>b. CASE Pushes(f)
  <2>1. pend[f] \in Nat
    BY DEF SpaceInv, SpaceType
  <2>2. /\ ext'[f][z] = ext[f][z] + (IF z = zone[f] THEN pend[f] ELSE 0)
        /\ used'[z] = used[z] + (IF z = zone[f] THEN pend[f] ELSE 0)
        /\ orphan' = orphan
    BY <1>b, PushedExtents DEF Pushes, PushExtent, UsedPushed
  <2>3. QED
    BY <1>3, <1>5, <2>1, <2>2
<1>c. CASE Append(f)
  BY <1>c, <1>3, <1>5 DEF Append, gcVars
<1>d. CASE BufferedAppend(f)
  <2>1. Chunk(f) \in Nat /\ zone[f] \in Zones
    BY <1>d, ChunkBounds DEF BufferedAppend
  <2>2. /\ ext'[f][z] = ext[f][z] + (IF z = zone[f] THEN Chunk(f) ELSE 0)
        /\ used'[z] = used[z] + (IF z = zone[f] THEN Chunk(f) ELSE 0)
        /\ orphan' = orphan
    BY <1>d, <1>3, <1>5, <2>1 DEF BufferedAppend, gcVars
  <2>3. QED
    BY <1>3, <1>5, <2>1, <2>2
<1>e. CASE DeleteFile(f)
  <2>1. ext'[f][z] = 0
    BY <1>e, <1>5 DEF DeleteFile, NoExtents
  <2>2. CASE Migrating(f)
    <3>1. orphan[z] = 0
      BY <2>2 DEF Migrating, SpaceInv, SourceInv, NoExtents
    <3>2. used' = used /\ orphan'[z] = ext[f][z]
      BY <1>e, <2>2 DEF DeleteFile
    <3>3. QED
      BY <1>3, <1>5, <2>1, <3>1, <3>2
  <2>3. CASE ~Migrating(f)
    <3>1. used'[z] = used[z] - ext[f][z] /\ orphan' = orphan
      BY <1>e, <2>3 DEF DeleteFile, ClearExtents, gcVars
    <3>2. QED
      BY <1>3, <1>5, <2>1, <3>1
  <2>4. QED
    BY <2>2, <2>3
<1>f. QED
  BY <1>a, <1>b, <1>c, <1>d, <1>e, FileEffect

\* Outside the two stages after the swap nothing is in flight.
LEMMA NothingInFlight ==
  ASSUME SpaceInv, NEW z \in Zones, pc[GC] \notin {"gcreplace", "gcsync"}
  PROVE  ~gc.moved /\ InFlight(z) = 0
BY InFlightValue DEF SpaceInv, MigrationInv

\* A step of a migration changes used_capacity_ by what it copies or drops.
LEMMA CollectorExact ==
  ASSUME SpaceInv, GCNext, NEW z \in Zones
  PROVE  used'[z] = Blocks(ext', z) + orphan'[z] + InFlight(z)' + lost'[z]
<1>1. /\ used[z] = Blocks(ext, z) + orphan[z] + InFlight(z) + lost[z]
      /\ Blocks(ext, z) \in Nat /\ orphan[z] \in Nat /\ InFlight(z) \in Nat
      /\ lost[z] \in Nat /\ gc.n \in Nat
      /\ \A g \in Files : ext[g][z] \in Nat
  BY CountTypes
<1>2. /\ used \in [Zones -> Int] /\ ext \in [Files -> [Zones -> Nat]]
      /\ orphan \in [Zones -> Nat]
      /\ pc \in [Threads -> FileStages \cup GCStages] /\ GC \in Threads
      /\ gc \in [file : Threads, src : Zones \cup {NoZone}, dst : Zones \cup {NoZone},
                 n : Nat, copy : [Zones -> Nat], lock : BOOLEAN, moved : BOOLEAN, gone : BOOLEAN]
  BY DEF SpaceInv, SpaceType, BusyInv, PlaceInv
<1> USE DEF On, GoTo, Scan
<1>a. CASE GCSnapshot \/ TryAcquireWRLock \/ TakeMigrateZone \/ MigrateData
  <2>1. UNCHANGED <<used, ext, orphan, lost>>
    BY <1>a DEF GCSnapshot, TryAcquireWRLock, TakeMigrateZone, MigrateData, zoneVars,
                fileVars, gcVars
  <2>2. InFlight(z) = 0 /\ ~gc.moved
    BY <1>a, NothingInFlight DEF GCSnapshot, TryAcquireWRLock, TakeMigrateZone, MigrateData,
       Examines, Exhausted
  <2>3. ~gc'.moved
    <3>1. CASE GCSnapshot
      BY <3>1 DEF GCSnapshot, NoMigration
    <3>2. CASE TryAcquireWRLock
      BY <3>2, LockTaken DEF NoMigration
    <3>3. CASE TakeMigrateZone \/ MigrateData
      BY <2>2, <3>3 DEF TakeMigrateZone, MigrateData, gcVars
    <3>4. QED
      BY <1>a, <3>1, <3>2, <3>3
  <2>4. InFlight(z)' = 0
    BY <2>3, InFlightValue
  <2>5. QED
    BY <1>1, <2>1, <2>2, <2>4
<1>b. CASE ReleaseMigrateZone
  <2>1. UNCHANGED <<ext, orphan, lost>> /\ pc'[GC] = "gcreplace" /\ pc[GC] = "gcswap"
    BY <1>b, <1>2 DEF ReleaseMigrateZone, fileVars
  <2>2. InFlight(z) = 0 /\ ~gc.moved
    BY <2>1, NothingInFlight
  <2>3. zone[GC] \in Zones
    <3>1. BusyInv
      BY DEF SpaceInv
    <3>2. QED
      BY <1>2, <2>1, <3>1, Standing DEF Place, ZonedStages
  <2>4. CASE Exists(gc.file)
    <3>1. gc'.moved /\ gc'.dst = zone[GC] /\ gc'.n = gc.n
      BY <1>b, <1>2, <2>4 DEF ReleaseMigrateZone
    <3>2. used'[z] = used[z] + (IF z = zone[GC] THEN gc.n ELSE 0)
      BY <1>b, <1>1, <1>2, <2>3, <2>4 DEF ReleaseMigrateZone
    <3>3. InFlight(z)' = IF z = zone[GC] THEN gc.n ELSE 0
      BY <2>1, <3>1, InFlightValue
    <3>4. QED
      BY <1>1, <2>1, <2>2, <3>2, <3>3
  <2>5. CASE ~Exists(gc.file)
    <3>1. UNCHANGED <<used, gc>>
      BY <1>b, <2>5 DEF ReleaseMigrateZone
    <3>2. InFlight(z)' = 0
      BY <2>2, <3>1, InFlightValue
    <3>3. QED
      BY <1>1, <2>1, <2>2, <3>1, <3>2
  <2>6. QED
    BY <2>4, <2>5
<1>c. CASE ReplaceExtentList
  <2>1. /\ UNCHANGED <<used, gc>> /\ pc'[GC] = "gcsync" /\ pc[GC] = "gcreplace"
        /\ lost'[z] = lost[z] + (CurrentList[z] - gc.copy[z])
    BY <1>c, <1>2 DEF ReplaceExtentList, zoneVars
  <2> DEFINE new == IF gc.moved /\ z = gc.dst THEN gc.n ELSE 0
             old == IF gc.moved /\ z = gc.src THEN gc.n ELSE 0
  <2>2. InFlight(z) = new /\ InFlight(z)' = old /\ new \in Nat /\ old \in Nat
    BY <1>1, <2>1, InFlightValue
  <2>3. /\ Moved(gc.copy)[z] = gc.copy[z] + new - old
        /\ CurrentList[z] \in Nat /\ gc.copy[z] \in Nat /\ gc.file \in Files
        /\ Moved(gc.copy)[z] \in Nat
    BY <2>1, MovedExtents
  <2>4. CASE gc.gone
    <3>1. ext' = ext /\ orphan' = Moved(gc.copy) /\ CurrentList[z] = orphan[z]
      BY <1>c, <2>4 DEF ReplaceExtentList, CurrentList
    <3> HIDE DEF new, old
    <3>2. QED
      BY <1>1, <2>1, <2>2, <2>3, <3>1
  <2>5. CASE ~gc.gone
    <3>1. /\ orphan' = orphan /\ CurrentList[z] = ext[gc.file][z]
          /\ ext' = [ext EXCEPT ![gc.file] = Moved(gc.copy)]
      BY <1>c, <2>5 DEF ReplaceExtentList, CurrentList
    <3>2. PICK f \in Files : f = gc.file
      BY <2>3
    <3>3. /\ ext'[f][z] = gc.copy[z] + new - old
          /\ \A g \in Files \ {f} : ext'[g][z] = ext[g][z]
      BY <1>2, <2>3, <3>1, <3>2
    <3>4. \A g \in Files : ext[g][z] \in Nat /\ ext'[g][z] \in Nat
      BY <1>1, CollectorTypes
    <3>5. Blocks(ext', z) = Blocks(ext, z) + ext'[f][z] - ext[f][z]
      BY <3>3, <3>4, BlocksUpdate
    <3>6. CurrentList[z] = ext[f][z] /\ ext[f][z] \in Nat /\ ext'[f][z] \in Nat
      BY <3>1, <3>2, <3>4
    <3> HIDE DEF new, old
    <3>7. QED
      BY <1>1, <2>1, <2>2, <2>3, <3>1, <3>3, <3>5, <3>6
  <2>6. QED
    BY <2>4, <2>5
<1>d. CASE SyncFileExtents
  <2>1. /\ ext' = ext /\ orphan'[z] = 0 /\ ~gc'.moved /\ pc[GC] = "gcsync"
    BY <1>d DEF SyncFileExtents, NoExtents, NoMigration
  <2>2. InFlight(z)' = 0 /\ InFlight(z) = OldExtent(z) /\ OldExtent(z) \in Nat
    BY <1>1, <2>1, InFlightValue DEF OldExtent
  <2>3. CASE used'[z] = used[z] - orphan[z] - OldExtent(z) /\ lost' = lost
    BY <1>1, <2>1, <2>2, <2>3
  <2>4. CASE ~gc.gone /\ used' = used /\ lost'[z] = lost[z] + OldExtent(z)
    <3>1. orphan[z] = 0
      BY <2>4 DEF SpaceInv, SourceInv, NoExtents
    <3>2. QED
      BY <1>1, <2>1, <2>2, <2>4, <3>1
  <2>5. \/ used'[z] = used[z] - orphan[z] - OldExtent(z) /\ lost' = lost
        \/ ~gc.gone /\ used' = used /\ lost'[z] = lost[z] + OldExtent(z)
    BY <1>d DEF SyncFileExtents, ClearExtents
  <2>6. QED
    BY <2>3, <2>4, <2>5
<1>e. QED
  BY <1>a, <1>b, <1>c, <1>d DEF GCNext

\* The shared steps change nothing that is counted.
LEMMA SharedInFlight ==
  ASSUME SpaceInv, NEW t \in Threads, NEW z \in Zones,
         AcquireNext(t) \/ PutActiveIOZoneToken(t) \/ ResetUnusedIOZones(t)
  PROVE  /\ UNCHANGED <<used, ext, pend, orphan, lost, gc, zone>>
         /\ InFlight(z)' = InFlight(z) /\ Copied(z)' = Copied(z)
<1>1. /\ UNCHANGED <<used, ext, pend, orphan, lost, gc, zone>>
      /\ pc'[GC] = pc[GC] \/ (pc[GC] = "reset" /\ pc'[GC] = "gcidle")
  BY SharedLocal DEF SpaceInv, fileVars
<1>2. CASE pc'[GC] = pc[GC]
  BY <1>1, <1>2, InFlightValue DEF Copied
<1>3. CASE pc[GC] = "reset" /\ pc'[GC] = "gcidle"
  BY <1>1, <1>3, NothingInFlight, InFlightValue DEF Copied
<1>4. QED
  BY <1>1, <1>2, <1>3

\* Every step keeps used_capacity_ exact.
LEMMA NextExact ==
  ASSUME SpaceInv, Next
  PROVE  UsedCapacityExact'
<1> SUFFICES ASSUME NEW z \in Zones
             PROVE  used'[z] = Blocks(ext', z) + orphan'[z] + InFlight(z)' + lost'[z]
  BY DEF UsedCapacityExact, Live
<1>1. CASE \E t \in Threads :
             AcquireNext(t) \/ PutActiveIOZoneToken(t) \/ ResetUnusedIOZones(t)
  BY <1>1, SharedInFlight, CountTypes
<1>2. CASE \E f \in Files : FileNext(f)
  BY <1>2, FileExact
<1>3. CASE GCNext
  BY <1>3, CollectorExact
<1>4. QED
  BY <1>1, <1>2, <1>3 DEF Next

-----------------------------------------------------------------------------
(* The written blocks.                                                     *)

\* The blocks of a file with those its writer has not pushed yet, spelled out.
LEMMA PushingValue ==
  ASSUME NEW g \in Files, NEW z \in Zones
  PROVE  /\ Pushing[g][z] = ext[g][z] + (IF zone[g] = z THEN pend[g] ELSE 0)
         /\ Pushing'[g][z] = ext'[g][z] + (IF zone'[g] = z THEN pend'[g] ELSE 0)
BY DEF Pushing

\* The terms of WrittenInv are numbers, and they fit in the zone.
LEMMA PushingTypes ==
  ASSUME SpaceInv, NEW z \in Zones
  PROVE  /\ \A g \in Files : Pushing[g][z] \in Nat
         /\ Blocks(Pushing, z) \in Nat
         /\ capacity[z] \in Nat /\ missing[z] \in Nat
         /\ Blocks(Pushing, z) + orphan[z] + InFlight(z) + Copied(z) + capacity[z]
              <= MaxCap + missing[z]
<1>1. /\ pend \in [Files -> Nat] /\ \A g \in Files : ext[g][z] \in Nat
      /\ capacity[z] \in Nat /\ missing[z] \in Nat
  BY CountTypes, AllocatorAssumption DEF SpaceInv, SpaceType
<1>2. \A g \in Files : Pushing[g][z] \in Nat
  BY <1>1, PushingValue
<1>3. QED
  BY <1>1, <1>2, BlocksNat DEF SpaceInv, WrittenInv, Written

\* A writer refers to blocks it has written only.
LEMMA FileWritten ==
  ASSUME SpaceInv, NEW f \in Files, FileNext(f), NEW z \in Zones
  PROVE  Written(z)' + capacity'[z] <= MaxCap + missing'[z]
<1>1. /\ InFlight(z)' = InFlight(z) /\ Copied(z)' = Copied(z)
      /\ InFlight(z) \in Nat /\ Copied(z) \in Nat /\ orphan[z] \in Nat
      /\ ext[f][z] \in Nat /\ MaxCap \in Nat /\ missing' = missing
  BY FileInFlight, FileAndMigration, CountTypes, AllocatorAssumption
<1>2. /\ ext' \in [Files -> [Zones -> Nat]] /\ pend' \in [Files -> Nat]
      /\ pend[f] \in Nat
      /\ \A g \in Files \ {f} : /\ ext'[g] = ext[g] /\ pend'[g] = pend[g]
                                /\ zone'[g] = zone[g]
  BY FileExtents, WriterStep, FileLocal DEF SpaceInv, SpaceType
<1>3. /\ \A g \in Files : Pushing[g][z] \in Nat
      /\ Blocks(Pushing, z) \in Nat /\ capacity[z] \in Nat /\ missing[z] \in Nat
      /\ Blocks(Pushing, z) + orphan[z] + InFlight(z) + Copied(z) + capacity[z]
              <= MaxCap + missing[z]
  BY PushingTypes
<1>4. /\ \A g \in Files : Pushing[g][z] \in Nat /\ Pushing'[g][z] \in Nat
      /\ \A g \in Files \ {f} : Pushing'[g][z] = Pushing[g][z]
  <2>1. \A g \in Files : ext'[g][z] \in Nat /\ pend'[g] \in Nat
    BY <1>2
  <2>2. \A g \in Files \ {f} : ext'[g][z] = ext[g][z]
    BY <1>2
  <2>3. QED
    BY <1>2, <1>3, <2>1, <2>2, PushingValue
<1>5. Blocks(Pushing', z) = Blocks(Pushing, z) + Pushing'[f][z] - Pushing[f][z]
  BY <1>4, BlocksUpdate
<1>6. capacity'[z] \in Nat /\ capacity'[z] <= capacity[z]
  BY FileCapacity, AllocatorAssumption DEF MovesOwn
<1>7. SUFFICES /\ orphan'[z] \in Nat
               /\ Pushing'[f][z] + orphan'[z] + capacity'[z]
                    <= Pushing[f][z] + orphan[z] + capacity[z]
  BY <1>1, <1>3, <1>4, <1>5, <1>6 DEF Written
<1>8. /\ Pushing[f][z] = ext[f][z] + (IF zone[f] = z THEN pend[f] ELSE 0)
      /\ Pushing'[f][z] = ext'[f][z] + (IF zone'[f] = z THEN pend'[f] ELSE 0)
      /\ Pushing[f][z] \in Nat /\ Pushing'[f][z] \in Nat
  BY <1>4, PushingValue
<1>9. /\ ext \in [Files -> [Zones -> Nat]] /\ pend \in [Files -> Nat]
      /\ capacity \in [Zones -> 0..MaxCap]
  BY DEF SpaceInv, SpaceType
<1>a. CASE Untouched(f)
  <2>1. Pushing'[f][z] = Pushing[f][z] /\ orphan' = orphan
    BY <1>a, <1>1, <1>8 DEF Untouched
  <2>2. QED
    BY <1>1, <1>3, <1>6, <1>8, <2>1
<1>b. CASE Pushes(f)
  <2>1. /\ ext'[f][z] = ext[f][z] + (IF z = zone[f] THEN pend[f] ELSE 0)
        /\ pend'[f] = 0 /\ zone' = zone /\ orphan' = orphan
    BY <1>b, <1>9, PushedExtents DEF Pushes, PushExtent
  <2>2. Pushing'[f][z] = Pushing[f][z]
    BY <1>1, <1>2, <1>8, <2>1
  <2>3. QED
    BY <1>1, <1>3, <1>6, <1>8, <2>1, <2>2
<1>c. CASE Append(f)
  <2>1. Chunk(f) \in Nat /\ zone[f] \in Zones
    BY <1>c, ChunkBounds DEF Append
  <2>2. /\ ext' = ext /\ zone' = zone /\ orphan' = orphan
        /\ pend'[f] = pend[f] + Chunk(f)
        /\ capacity'[z] = capacity[z] - (IF zone[f] = z THEN Chunk(f) ELSE 0)
    BY <1>c, <1>3, <1>9, <2>1 DEF Append, AppendTo, gcVars
  <2>3. QED
    BY <1>1, <1>2, <1>3, <1>8, <2>1, <2>2
<1>d. CASE BufferedAppend(f)
  <2>1. Chunk(f) \in Nat /\ zone[f] \in Zones
    BY <1>d, ChunkBounds DEF BufferedAppend
  <2>2. /\ pend' = pend /\ zone' = zone /\ orphan' = orphan
        /\ ext'[f][z] = ext[f][z] + (IF zone[f] = z THEN Chunk(f) ELSE 0)
        /\ capacity'[z] = capacity[z] - (IF zone[f] = z THEN Chunk(f) ELSE 0)
    BY <1>d, <1>1, <1>3, <1>9, <2>1 DEF BufferedAppend, AppendTo, gcVars
  <2>3. QED
    BY <1>1, <1>2, <1>3, <1>8, <2>1, <2>2
<1>e. CASE DeleteFile(f)
  <2>1. /\ pend' = pend /\ zone' = zone /\ capacity' = capacity /\ ext'[f][z] = 0
        /\ pc[f] = "closed"
    BY <1>e, <1>9 DEF DeleteFile, NoExtents, On
  <2>2. pend[f] = 0
    BY <2>1 DEF SpaceInv, WriterInv
  <2>3. orphan'[z] = ext[f][z] \/ orphan' = orphan
    BY <1>e DEF DeleteFile, gcVars
  <2>4. QED
    BY <1>1, <1>3, <1>8, <2>1, <2>2, <2>3
<1>f. QED
  BY <1>a, <1>b, <1>c, <1>d, <1>e, FileEffect

\* A migration refers to blocks that it has copied only.
LEMMA CollectorWritten ==
  ASSUME SpaceInv, GCNext, NEW z \in Zones
  PROVE  Written(z)' + capacity'[z] <= MaxCap + missing'[z]
<1>1. /\ InFlight(z) \in Nat /\ Copied(z) \in Nat /\ orphan[z] \in Nat /\ gc.n \in Nat
      /\ \A g \in Files : ext[g][z] \in Nat
      /\ MaxCap \in Nat
  BY CountTypes, AllocatorAssumption
<1>2. /\ \A g \in Files : Pushing[g][z] \in Nat
      /\ Blocks(Pushing, z) \in Nat /\ capacity[z] \in Nat /\ missing[z] \in Nat
      /\ Blocks(Pushing, z) + orphan[z] + InFlight(z) + Copied(z) + capacity[z]
              <= MaxCap + missing[z]
  BY PushingTypes
<1>3. /\ BusyInv /\ pend \in [Files -> Nat]
      /\ pc \in [Threads -> FileStages \cup GCStages] /\ GC \in Threads
      /\ zone \in [Threads -> Zones \cup {NoZone}]
      /\ gc \in [file : Threads, src : Zones \cup {NoZone}, dst : Zones \cup {NoZone},
                 n : Nat, copy : [Zones -> Nat], lock : BOOLEAN, moved : BOOLEAN, gone : BOOLEAN]
      /\ capacity \in [Zones -> 0..MaxCap] /\ ext \in [Files -> [Zones -> Nat]]
  BY DEF SpaceInv, SpaceType, BusyInv, PlaceInv
<1>4. /\ UNCHANGED pend
      /\ \A g \in Files : zone'[g] = zone[g]
  BY <1>3, CollectorLocal
<1>5. capacity'[z] \in Nat /\ capacity'[z] <= capacity[z]
  BY CollectorCapacity, AllocatorAssumption DEF MovesOwn
<1>6. ASSUME ext' = ext
      PROVE  Blocks(Pushing', z) = Blocks(Pushing, z)
  <2>1. \A g \in Files : Pushing'[g][z] = Pushing[g][z]
    BY <1>4, <1>6, PushingValue
  <2>2. QED
    BY <2>1, BlocksSame
<1> USE DEF On, GoTo, Scan
<1>a. CASE GCSnapshot \/ TryAcquireWRLock \/ TakeMigrateZone
  <2>1. UNCHANGED <<ext, orphan>>
    BY <1>a DEF GCSnapshot, TryAcquireWRLock, TakeMigrateZone, fileVars, gcVars
  <2>2. InFlight(z) = 0 /\ ~gc.moved
    BY <1>a, NothingInFlight DEF GCSnapshot, TryAcquireWRLock, TakeMigrateZone,
       Examines, Exhausted
  <2>3. ~gc'.moved
    <3>1. CASE GCSnapshot
      BY <3>1 DEF GCSnapshot, NoMigration
    <3>2. CASE TryAcquireWRLock
      BY <3>2, LockTaken DEF NoMigration
    <3>3. CASE TakeMigrateZone
      BY <2>2, <3>3 DEF TakeMigrateZone, gcVars
    <3>4. QED
      BY <1>a, <3>1, <3>2, <3>3
  <2>4. InFlight(z)' = 0
    BY <2>3, InFlightValue
  <2>5. pc'[GC] # "gcswap"
    BY <1>a, <1>3 DEF GCSnapshot, TryAcquireWRLock, TakeMigrateZone, Examines, Exhausted
  <2>6. Copied(z)' = 0 /\ missing' = missing
    BY <1>a, <2>5 DEF Copied, GCSnapshot, TryAcquireWRLock, TakeMigrateZone, gcVars
  <2>7. QED
    BY <1>1, <1>2, <1>5, <1>6, <2>1, <2>2, <2>4, <2>6 DEF Written
<1>b. CASE MigrateData
  <2>1. /\ UNCHANGED <<ext, orphan, gc, zone>> /\ pc[GC] = "gcmove" /\ pc'[GC] = "gcswap"
    BY <1>b, <1>3 DEF MigrateData, fileVars
  <2>2. InFlight(z) = 0 /\ InFlight(z)' = 0 /\ Copied(z) = 0
    BY <2>1, NothingInFlight, InFlightValue DEF Copied
  <2>3. Copied(z)' = IF zone[GC] = z THEN gc.n ELSE 0
    BY <2>1 DEF Copied
  <2>4. PICK n \in 0..gc.n :
          /\ AppendTo(zone[GC], n)
          /\ missing' = [missing EXCEPT ![zone[GC]] = @ + (gc.n - n)]
    BY <1>b DEF MigrateData
  <2>5. /\ n \in Nat
        /\ capacity'[z] = capacity[z] - (IF zone[GC] = z THEN n ELSE 0)
        /\ missing'[z] = missing[z] + (IF zone[GC] = z THEN gc.n - n ELSE 0)
    BY <1>1, <1>2, <1>3, <2>4 DEF AppendTo, SpaceInv, SpaceType
  <2>6. QED
    BY <1>1, <1>2, <1>6, <2>1, <2>2, <2>3, <2>5 DEF Written
<1>c. CASE ReleaseMigrateZone
  <2>1. /\ UNCHANGED <<ext, orphan, missing>> /\ pc[GC] = "gcswap" /\ pc'[GC] = "gcreplace"
    BY <1>c, <1>3 DEF ReleaseMigrateZone, fileVars
  <2>2. InFlight(z) = 0 /\ ~gc.moved /\ Copied(z)' = 0
    BY <2>1, NothingInFlight DEF Copied
  <2>3. Copied(z) = IF zone[GC] = z THEN gc.n ELSE 0
    BY <2>1 DEF Copied
  <2>4. InFlight(z)' = 0 \/ InFlight(z)' = Copied(z)
    <3>1. CASE Exists(gc.file)
      <4>1. gc'.moved /\ gc'.dst = zone[GC] /\ gc'.n = gc.n
        BY <1>c, <1>3, <3>1 DEF ReleaseMigrateZone
      <4>2. QED
        BY <2>1, <2>3, <4>1, InFlightValue
    <3>2. CASE ~Exists(gc.file)
      <4>1. gc' = gc
        BY <1>c, <3>2 DEF ReleaseMigrateZone
      <4>2. QED
        BY <2>2, <4>1, InFlightValue
    <3>3. QED
      BY <3>1, <3>2
  <2>5. QED
    BY <1>1, <1>2, <1>5, <1>6, <2>1, <2>2, <2>4 DEF Written
<1>d. CASE ReplaceExtentList
  <2>1. UNCHANGED <<gc, missing>> /\ pc'[GC] = "gcsync" /\ pc[GC] = "gcreplace"
    BY <1>d, <1>3 DEF ReplaceExtentList
  <2> DEFINE new == IF gc.moved /\ z = gc.dst THEN gc.n ELSE 0
             old == IF gc.moved /\ z = gc.src THEN gc.n ELSE 0
  <2>2. /\ InFlight(z) = new /\ InFlight(z)' = old /\ new \in Nat /\ old \in Nat
        /\ Copied(z) = 0 /\ Copied(z)' = 0
    BY <1>1, <2>1, InFlightValue DEF Copied
  <2>3. /\ Moved(gc.copy)[z] = gc.copy[z] + new - old
        /\ CurrentList[z] \in Nat /\ gc.copy[z] \in Nat /\ gc.file \in Files
        /\ gc.copy[z] <= CurrentList[z] /\ Moved(gc.copy)[z] \in Nat
    BY <2>1, MovedExtents
  <2>4. CASE gc.gone
    <3>1. ext' = ext /\ orphan' = Moved(gc.copy) /\ CurrentList[z] = orphan[z]
      BY <1>d, <2>4 DEF ReplaceExtentList, CurrentList
    <3>2. Blocks(Pushing', z) = Blocks(Pushing, z)
      BY <1>6, <3>1
    <3> HIDE DEF new, old
    <3>3. QED
      BY <1>1, <1>2, <1>5, <2>1, <2>2, <2>3, <3>1, <3>2 DEF Written
  <2>5. CASE ~gc.gone
    <3>1. /\ orphan' = orphan /\ CurrentList[z] = ext[gc.file][z]
          /\ ext' = [ext EXCEPT ![gc.file] = Moved(gc.copy)]
      BY <1>d, <2>5 DEF ReplaceExtentList, CurrentList
    <3>2. PICK f \in Files : f = gc.file
      BY <2>3
    <3>3. /\ ext'[f][z] = gc.copy[z] + new - old
          /\ \A g \in Files \ {f} : ext'[g][z] = ext[g][z]
      BY <1>3, <2>3, <3>1, <3>2
    <3>4. \A g \in Files : ext'[g][z] \in Nat
      BY CollectorTypes
    <3>5. /\ \A g \in Files : Pushing[g][z] \in Nat /\ Pushing'[g][z] \in Nat
          /\ \A g \in Files \ {f} : Pushing'[g][z] = Pushing[g][z]
      <4>1. ASSUME NEW g \in Files
            PROVE  /\ Pushing[g][z] \in Nat /\ Pushing'[g][z] \in Nat
                   /\ g # f => Pushing'[g][z] = Pushing[g][z]
        <5>1. /\ Pushing[g][z] = ext[g][z] + (IF zone[g] = z THEN pend[g] ELSE 0)
              /\ Pushing'[g][z] = ext'[g][z] + (IF zone'[g] = z THEN pend'[g] ELSE 0)
          BY PushingValue
        <5>2. /\ zone'[g] = zone[g] /\ pend'[g] = pend[g] /\ pend[g] \in Nat
              /\ ext[g][z] \in Nat /\ ext'[g][z] \in Nat
          BY <1>1, <1>3, <1>4, <3>4
        <5>3. g # f => ext'[g][z] = ext[g][z]
          BY <3>3
        <5>4. QED
          BY <5>1, <5>2, <5>3
      <4>2. QED
        BY <4>1
    <3>6. Blocks(Pushing', z) = Blocks(Pushing, z) + Pushing'[f][z] - Pushing[f][z]
      BY <3>5, BlocksUpdate
    <3> HIDE DEF new, old
    <3>7. Pushing'[f][z] <= Pushing[f][z] + new - old
      <4>1. /\ Pushing[f][z] = ext[f][z] + (IF zone[f] = z THEN pend[f] ELSE 0)
            /\ Pushing'[f][z] = ext'[f][z] + (IF zone'[f] = z THEN pend'[f] ELSE 0)
        BY PushingValue
      <4>2. gc.copy[z] <= ext[f][z] /\ ext[f][z] \in Nat /\ pend[f] \in Nat
        BY <1>1, <1>3, <2>3, <3>1, <3>2
      <4>3. QED
        BY <1>4, <2>2, <2>3, <3>3, <4>1, <4>2
    <3>8. QED
      BY <1>1, <1>2, <1>5, <2>1, <2>2, <3>1, <3>5, <3>6, <3>7 DEF Written
  <2>6. QED
    BY <2>4, <2>5
<1>e. CASE SyncFileExtents
  <2>1. /\ ext' = ext /\ orphan'[z] = 0 /\ ~gc'.moved /\ pc'[GC] = "reset"
        /\ missing' = missing
    BY <1>e, <1>3 DEF SyncFileExtents, NoExtents, NoMigration
  <2>2. InFlight(z)' = 0 /\ Copied(z)' = 0
    BY <2>1, InFlightValue DEF Copied
  <2>3. QED
    BY <1>1, <1>2, <1>5, <1>6, <2>1, <2>2 DEF Written
<1>f. QED
  BY <1>a, <1>b, <1>c, <1>d, <1>e DEF GCNext

\* A zone that a scan resets holds nothing that was written for a file: it is
\* not counted as used, and nobody writes to it while the scan has its flag.
LEMMA ResetZoneDead ==
  ASSUME SpaceInv, NEW t \in Threads, NEW z \in Zones, cur[t] = z, used[z] = 0
  PROVE  /\ Live(z) = 0 /\ Written(z) = 0 /\ lost[z] = 0
         /\ \A u \in Threads : zone[u] # z
<1>1. /\ Blocks(ext, z) \in Nat /\ orphan[z] \in Nat /\ InFlight(z) \in Nat
      /\ lost[z] \in Nat
      /\ used[z] = Blocks(ext, z) + orphan[z] + InFlight(z) + lost[z]
      /\ \A g \in Files : ext[g][z] \in Nat
  BY CountTypes
<1>2. Blocks(ext, z) = 0 /\ orphan[z] = 0 /\ InFlight(z) = 0 /\ lost[z] = 0
  <2> DEFINE b == Blocks(ext, z)
             o == orphan[z]
             i == InFlight(z)
             l == lost[z]
  <2>1. b \in Nat /\ o \in Nat /\ i \in Nat /\ l \in Nat
    BY <1>1
  <2>2. b + o + i + l = 0
    BY <1>1
  <2> HIDE DEF b, o, i, l
  <2>3. b = 0 /\ o = 0 /\ i = 0 /\ l = 0
    BY <2>1, <2>2
  <2>4. QED
    BY <2>3 DEF b, o, i, l
<1>3. \A u \in Threads : zone[u] # z
  <2>1. Mutex(busy, cur, zone) /\ cur[t] # NoZone
    BY ZonesPositive DEF SpaceInv, BusyInv
  <2>2. QED
    BY <2>1 DEF Mutex
<1>4. \A g \in Files : Pushing[g][z] = ext[g][z]
  BY <1>1, <1>3, PushingValue
<1>5. Blocks(Pushing, z) = Blocks(ext, z)
  BY <1>4, BlocksSame
<1>6. Copied(z) = 0
  BY <1>3 DEF Copied
<1>7. QED
  BY <1>2, <1>3, <1>5, <1>6 DEF Written, Live

\* A reset of an unused zone leaves nobody referring to it.
LEMMA SharedWritten ==
  ASSUME SpaceInv, NEW t \in Threads, NEW z \in Zones,
         AcquireNext(t) \/ PutActiveIOZoneToken(t) \/ ResetUnusedIOZones(t)
  PROVE  Written(z)' + capacity'[z] <= MaxCap + missing'[z]
<1>1. /\ UNCHANGED <<used, ext, pend, orphan, lost, gc, zone>>
      /\ InFlight(z)' = InFlight(z) /\ Copied(z)' = Copied(z)
  BY SharedInFlight
<1>2. Blocks(Pushing', z) = Blocks(Pushing, z)
  <2>1. \A g \in Files : Pushing'[g][z] = Pushing[g][z]
    BY <1>1, PushingValue
  <2>2. QED
    BY <2>1, BlocksSame
<1>3. Written(z)' = Written(z)
  BY <1>1, <1>2 DEF Written
<1>4. /\ Written(z) + capacity[z] <= MaxCap + missing[z]
      /\ capacity \in [Zones -> 0..MaxCap] /\ missing \in [Zones -> Nat]
  BY DEF SpaceInv, SpaceType, WrittenInv
<1>5. CASE UNCHANGED <<capacity, missing>>
  BY <1>3, <1>4, <1>5
<1>6. CASE /\ Unused(cur[t]) /\ cur[t] \in Zones
           /\ capacity' = [capacity EXCEPT ![cur[t]] = MaxCap]
           /\ missing' = [missing EXCEPT ![cur[t]] = 0]
  <2>1. CASE z = cur[t]
    <3>1. Written(z) = 0
      BY <1>6, <2>1, ResetZoneDead DEF Unused
    <3>2. QED
      BY <1>3, <1>4, <1>6, <2>1, <3>1, AllocatorAssumption
  <2>2. CASE z # cur[t]
    BY <1>3, <1>4, <1>6, <2>2
  <2>3. QED
    BY <2>1, <2>2
<1>7. QED
  BY <1>5, <1>6, SharedCapacity

\* Every step keeps all referenced blocks below the write pointers.
LEMMA NextWritten ==
  ASSUME SpaceInv, Next
  PROVE  WrittenInv'
<1> SUFFICES ASSUME NEW z \in Zones
             PROVE  Written(z)' + capacity'[z] <= MaxCap + missing'[z]
  BY DEF WrittenInv
<1>1. QED
  BY SharedWritten, FileWritten, CollectorWritten DEF Next

-----------------------------------------------------------------------------
(* The types, and the invariant.                                           *)

\* Types after a step of a writer.
LEMMA FileTypes ==
  ASSUME SpaceInv, NEW f \in Files, FileNext(f)
  PROVE  SpaceType'
<1>1. SpaceType
  BY DEF SpaceInv
<1>2. /\ capacity' \in [Zones -> 0..MaxCap]
      /\ ext' \in [Files -> [Zones -> Nat]]
      /\ pend' \in [Files -> Nat]
      /\ left' \in [Files -> 0..MaxWrite]
      /\ ret' \in [Files -> {"seal", "roll", "fail"}]
  BY FileCapacity, FileExtents, WriterStep DEF MovesOwn
<1>3. lost' \in [Zones -> Nat] /\ missing' \in [Zones -> Nat]
  BY <1>1, FileAndMigration DEF SpaceType
<1>4. /\ gc' \in [file : Threads, src : Zones \cup {NoZone}, dst : Zones \cup {NoZone},
                  n : Nat, copy : [Zones -> Nat], lock : BOOLEAN, moved : BOOLEAN, gone : BOOLEAN]
      /\ orphan' \in [Zones -> Nat]
  <2>1. CASE UNCHANGED <<gc, orphan>>
    BY <1>1, <2>1 DEF SpaceType
  <2>2. CASE DeleteFile(f) /\ Migrating(f) /\ gc' = [gc EXCEPT !.gone = TRUE]
    <3>1. orphan' = ext[f]
      BY <2>2 DEF DeleteFile
    <3>2. orphan' \in [Zones -> Nat]
      BY <1>1, <3>1 DEF SpaceType
    <3>3. QED
      BY <1>1, <2>2, <3>2 DEF SpaceType
  <2>3. QED
    BY <2>1, <2>2, FileAndMigration
<1>5. used' \in [Zones -> Int]
  <2>1. /\ \A z \in Zones : used[z] \in Int /\ ext[f][z] \in Nat
        /\ pend[f] \in Nat /\ used \in [Zones -> Int]
    BY <1>1 DEF SpaceType
  <2>2. CASE Untouched(f) \/ Append(f)
    BY <2>1, <2>2 DEF Untouched, Append
  <2>3. CASE Pushes(f)
    BY <2>1, <2>3 DEF Pushes, PushExtent, UsedPushed
  <2>4. CASE BufferedAppend(f)
    <3>1. Chunk(f) \in Nat /\ zone[f] \in Zones
      BY <2>4, ChunkBounds DEF BufferedAppend
    <3>2. QED
      BY <2>1, <2>4, <3>1 DEF BufferedAppend
  <2>5. CASE DeleteFile(f)
    BY <2>1, <2>5 DEF DeleteFile, ClearExtents
  <2>6. QED
    BY <2>2, <2>3, <2>4, <2>5, FileEffect
<1>6. QED
  BY <1>2, <1>3, <1>4, <1>5 DEF SpaceType

\* Types after a step of a migration.
LEMMA CollectorSpaceType ==
  ASSUME SpaceInv, GCNext
  PROVE  SpaceType'
<1>1. SpaceType /\ BusyInv
  BY DEF SpaceInv
<1>2. UNCHANGED <<pend, ret, left>> /\ capacity' \in [Zones -> 0..MaxCap]
  BY <1>1, CollectorLocal, CollectorCapacity DEF MovesOwn
<1>3. used' \in [Zones -> Int]
  <2>1. /\ \A z \in Zones : used[z] \in Int /\ orphan[z] \in Nat
        /\ gc.n \in Nat /\ used \in [Zones -> Int]
    BY <1>1 DEF SpaceType
  <2>2. CASE ReleaseMigrateZone
    BY <2>1, <2>2 DEF ReleaseMigrateZone
  <2>3. CASE SyncFileExtents
    <3>1. \A z \in Zones : OldExtent(z) \in Nat
      BY <2>1 DEF OldExtent
    <3>2. CASE used' = [z \in Zones |-> ClearExtents(orphan)[z] - OldExtent(z)]
      BY <2>1, <3>1, <3>2 DEF ClearExtents
    <3>3. CASE UNCHANGED used
      BY <2>1, <3>3
    <3>4. QED
      BY <2>3, <3>2, <3>3 DEF SyncFileExtents
  <2>4. CASE ~(ReleaseMigrateZone \/ SyncFileExtents)
    BY <2>1, <2>4
    DEF GCNext, GCSnapshot, TryAcquireWRLock, TakeMigrateZone, MigrateData,
        ReplaceExtentList, zoneVars
  <2>5. QED
    BY <2>2, <2>3, <2>4
<1>4. QED
  BY <1>1, <1>2, <1>3, CollectorTypes DEF SpaceType

\* Types after any step.
LEMMA NextSpaceType ==
  ASSUME SpaceInv, Next
  PROVE  SpaceType'
<1>1. ASSUME NEW t \in Threads,
             AcquireNext(t) \/ PutActiveIOZoneToken(t) \/ ResetUnusedIOZones(t)
      PROVE  SpaceType'
  <2>1. UNCHANGED <<zone, used, fileVars, gc, orphan, lost>>
    BY <1>1, SharedLocal DEF SpaceInv
  <2>2. capacity' \in [Zones -> 0..MaxCap] /\ missing' \in [Zones -> Nat]
    <3>1. capacity' \in [Zones -> 0..MaxCap] /\ missing \in [Zones -> Nat]
      BY <1>1, SharedCapacity DEF MovesOwn, SpaceInv, SpaceType
    <3>2. \/ UNCHANGED missing
          \/ missing' = [missing EXCEPT ![cur[t]] = 0]
      BY <1>1, SharedCapacity
    <3>3. QED
      BY <3>1, <3>2
  <2>3. QED
    BY <2>1, <2>2 DEF SpaceInv, SpaceType, fileVars
<1>2. QED
  BY <1>1, FileTypes, CollectorSpaceType DEF Next

\* At the start no zone has been written to.
LEMMA InitSpaceInv == Init => SpaceInv
<1> SUFFICES ASSUME Init PROVE SpaceInv
  OBVIOUS
<1>1. BusyInv
  BY InitBusyInv
<1>2. /\ InitExt \in [Files -> [Zones -> 0..MaxCap]]
      /\ InitCapacity \in [Zones -> 0..MaxCap]
      /\ MaxCap \in Nat /\ MaxWrite \in Nat
      /\ \A z \in Zones : Blocks(InitExt, z) <= MaxCap - InitCapacity[z]
      /\ GC \notin Files
  BY MountAssumption, AllocatorAssumption
<1>3. \A g \in Files, z \in Zones : InitExt[g][z] \in Nat
  BY <1>2
<1>4. InitExt \in [Files -> [Zones -> Nat]]
  BY <1>2
<1>5. \A z \in Zones : Blocks(InitExt, z) \in Nat
  BY <1>3, BlocksNat
<1>6. SpaceType
  BY <1>2, <1>4, <1>5 DEF Init, SpaceType, NoMigration, NoExtents
<1>7. WriterInv
  BY <1>2 DEF Init, WriterInv
<1>8. MigrationInv /\ SourceInv /\ RoomInv
  BY DEF Init, MigrationInv, SourceInv, RoomInv, NoMigration, Copying,
         CopyStages, LockedStages
<1>9. ASSUME NEW z \in Zones
      PROVE  used[z] = Live(z) + lost[z] /\ Written(z) + capacity[z] <= MaxCap + missing[z]
  <2>1. InFlight(z) = 0 /\ Copied(z) = 0
    BY InFlightValue DEF Init, NoMigration, Copied
  <2>2. used[z] = Blocks(ext, z) /\ orphan[z] = 0 /\ lost[z] = 0 /\ ext = InitExt
        /\ missing[z] = 0
        /\ capacity = InitCapacity
    BY DEF Init, NoExtents
  <2>3. \A g \in Files : Pushing[g][z] = ext[g][z]
    BY <1>3, PushingValue DEF Init
  <2>4. Blocks(Pushing, z) = Blocks(ext, z)
    BY <2>3, BlocksSame
  <2>5. Blocks(ext, z) \in Nat /\ Blocks(ext, z) <= MaxCap - capacity[z]
        /\ capacity[z] \in Nat
    BY <1>2, <1>5, <2>2
  <2>6. QED
    BY <1>2, <2>1, <2>2, <2>4, <2>5 DEF Live, Written
<1>10. QED
  BY <1>1, <1>6, <1>7, <1>8, <1>9 DEF SpaceInv, UsedCapacityExact, WrittenInv

\* The conjuncts of SpaceInv, step by step.
LEMMA NextSpaceInv == SpaceInv /\ [Next]_vars => SpaceInv'
<1> SUFFICES ASSUME SpaceInv, [Next]_vars PROVE SpaceInv'
  OBVIOUS
<1>1. CASE Next
  <2>1. BusyInv'
    BY NextBusyInv DEF SpaceInv
  <2>2. QED
    BY <1>1, <2>1, NextSpaceType, NextWriterInv, NextMigrationInv, NextSourceInv,
       NextRoomInv, NextExact, NextWritten DEF SpaceInv
<1>2. CASE UNCHANGED vars
  <2> USE <1>2 DEF vars, zoneVars, scanVars, fileVars, gcVars
  <2>1. BusyInv'
    BY NextBusyInv DEF SpaceInv
  <2>2. SpaceType'
    BY DEF SpaceInv, SpaceType
  <2>3. WriterInv'
    BY DEF SpaceInv, WriterInv
  <2>4. MigrationInv'
    BY DEF SpaceInv, MigrationInv
  <2>5. SourceInv' /\ RoomInv'
    BY DEF SpaceInv, SourceInv, RoomInv, Copying, CurrentList
  <2>6. UsedCapacityExact'
    BY DEF SpaceInv, UsedCapacityExact, Live, InFlight
  <2>7. WrittenInv'
    BY DEF SpaceInv, WrittenInv, Written, InFlight, Copied, Pushing
  <2>8. QED
    BY <2>1, <2>2, <2>3, <2>4, <2>5, <2>6, <2>7 DEF SpaceInv
<1>3. QED
  BY <1>1, <1>2

\* The space accounting holds in every state.
THEOREM SpaceInvariant == Spec => []SpaceInv
BY InitSpaceInv, NextSpaceInv, PTL DEF Spec

\* used_capacity_ of every zone is the number of blocks that files, a deleted
\* file still migrated and the migration refer to, plus the blocks of migrations
\* whose metadata could not be persisted and of extents that a replaced list has
\* dropped, for any number of writers and zones
\* (PushExtent, ClearExtents, ReleaseMigrateZone, SyncFileExtents).
THEOREM UsedCapacityIsExact == Spec => []UsedCapacityExact
<1>1. SpaceInv => UsedCapacityExact
  BY DEF SpaceInv
<1>2. QED
  BY <1>1, SpaceInvariant, PTL

\* Every block a file refers to, or has written and not pushed yet, lies below
\* the write pointer of its zone, but for as many as the device failed to write
\* in copies whose status the collector ignores: whatever fails, no more than
\* those are missing (Zone::Append, PushExtent, MigrateData, MigrateFileExtents).
THEOREM DataBelowWritePointer == Spec => []LiveDataWritten
<1>1. SpaceInv => LiveDataWritten
  <2> SUFFICES ASSUME SpaceInv, NEW z \in Zones
               PROVE  Blocks(Pushing, z) + orphan[z] + InFlight(z) 
                         <= MaxCap - capacity[z] + missing[z]
    BY DEF LiveDataWritten
  <2>1. QED
    BY PushingTypes, CountTypes, AllocatorAssumption
<1>2. QED
  BY <1>1, SpaceInvariant, PTL

\* ResetUnusedIOZones resets only zones to which no file, no writer with blocks
\* not pushed and no migration refers, whatever the other threads do between its
\* check of used_capacity_ and the reset.
THEOREM ResetsOnlyDeadZones == Spec => ResetOnlyDead
<1> DEFINE Dead == \A z \in Zones :
                     capacity'[z] > capacity[z] =>
                       /\ Live(z) = 0
                       /\ \A t \in Threads : zone[t] # z
<1>1. ASSUME SpaceInv, [Next]_vars
      PROVE  [Dead]_vars
  <2> SUFFICES ASSUME Next, NEW z \in Zones, capacity'[z] > capacity[z]
               PROVE  Live(z) = 0 /\ \A t \in Threads : zone[t] # z
    BY <1>1
  <2>1. capacity[z] \in Nat
    BY <1>1, PushingTypes
  <2>2. PICK t \in Threads :
          AcquireNext(t) \/ PutActiveIOZoneToken(t) \/ ResetUnusedIOZones(t)
    <3>1. ASSUME NEW f \in Files, FileNext(f) PROVE FALSE
      <4>1. capacity'[z] <= capacity[z] /\ capacity'[z] \in 0..MaxCap
        BY <1>1, <3>1, FileCapacity DEF MovesOwn
      <4>2. QED
        BY <2>1, <4>1, AllocatorAssumption
    <3>2. ASSUME GCNext PROVE FALSE
      <4>1. capacity'[z] <= capacity[z] /\ capacity'[z] \in 0..MaxCap
        BY <1>1, <3>2, CollectorCapacity DEF MovesOwn
      <4>2. QED
        BY <2>1, <4>1, AllocatorAssumption
    <3>3. QED
      BY <3>1, <3>2 DEF Next
  <2>3. cur[t] = z /\ used[z] = 0
    <3>1. \/ UNCHANGED capacity
          \/ /\ Unused(cur[t]) /\ cur[t] \in Zones
             /\ capacity' = [capacity EXCEPT ![cur[t]] = MaxCap]
      BY <1>1, <2>2, SharedCapacity
    <3>2. capacity \in [Zones -> 0..MaxCap]
      BY <1>1 DEF SpaceInv, SpaceType
    <3>3. QED
      BY <2>1, <3>1, <3>2 DEF Unused
  <2>4. QED
    BY <1>1, <2>3, ResetZoneDead
<1>2. QED
  BY <1>1, SpaceInvariant, PTL DEF Spec, ResetOnlyDead

-----------------------------------------------------------------------------
(***************************************************************************)
(* The active tokens of ZoneAllocator: AquaFS never has more active zones  *)
(* than the device allows.                                                 *)
(*                                                                         *)
(* A zone is active once it is partly written or kept by a writer; tokens  *)
(* are counted, not attached to zones.  ActiveInv adds to ActiveLimit that *)
(* a zone kept by a match is partly written (KeptInv), which needs that a  *)
(* zone with used capacity has been written to (LostInv and the space      *)
(* accounting), and that only a thread with a token looks for an empty     *)
(* zone (GotInv).                                                          *)
(***************************************************************************)

-----------------------------------------------------------------------------
(* Sets that grow or shrink by one element.                                *)

\* A part of a finite set has no more elements than the set.
LEMMA CardinalityWithin ==
  ASSUME NEW S, NEW T, IsFiniteSet(S), T \subseteq S
  PROVE  /\ IsFiniteSet(T)
         /\ Cardinality(S) \in Nat /\ Cardinality(T) \in Nat
         /\ Cardinality(T) <= Cardinality(S)
BY FS_Subset, FS_CardinalityType

\* With one more element at most, a set has grown by one at most.
LEMMA CardinalityGain ==
  ASSUME NEW S, NEW T, NEW x, IsFiniteSet(S), T \subseteq S \cup {x}
  PROVE  /\ Cardinality(S) \in Nat /\ Cardinality(T) \in Nat
         /\ Cardinality(T) <= Cardinality(S) + 1
<1>1. /\ IsFiniteSet(S \cup {x}) /\ Cardinality(S) \in Nat
      /\ Cardinality(S \cup {x}) = Cardinality(S) \/ Cardinality(S \cup {x}) = Cardinality(S) + 1
  BY FS_AddElement, FS_CardinalityType
<1>2. Cardinality(T) \in Nat /\ Cardinality(T) <= Cardinality(S \cup {x})
  BY <1>1, CardinalityWithin
<1>3. QED
  BY <1>1, <1>2

\* Without one of its elements, a set has shrunk by one at least.
LEMMA CardinalityLoss ==
  ASSUME NEW S, NEW T, NEW x \in S, IsFiniteSet(S), T \subseteq S \ {x}
  PROVE  /\ Cardinality(S) \in Nat /\ Cardinality(T) \in Nat
         /\ Cardinality(T) <= Cardinality(S) - 1
<1>1. /\ IsFiniteSet(S \ {x}) /\ Cardinality(S) \in Nat
      /\ Cardinality(S \ {x}) = Cardinality(S) - 1
  BY FS_RemoveElement, FS_CardinalityType
<1>2. Cardinality(T) \in Nat /\ Cardinality(T) <= Cardinality(S \ {x})
  BY <1>1, CardinalityWithin
<1>3. QED
  BY <1>1, <1>2

-----------------------------------------------------------------------------
(***************************************************************************)
(* The inductive invariant of the active tokens.                           *)
(***************************************************************************)
ActiveStages == {"open", "failed", "append", "closing", "dead", "gcmove", "gcswap"}
MatchStages == {"match", "active", "drop", "finish", "gcmatch", "gcmove"}

Got == {t \in Threads : got[t]}
Owing == {t \in Threads : owe[t]}

\* Blocks that stay counted, or were never copied, belong to a zone that has been
\* written to.
LostInv == \A z \in Zones : lost[z] # 0 \/ missing[z] # 0 => capacity[z] # MaxCap

\* The zone that a match, or the choice of a zone to finish, has kept so far
\* holds an active token of its own.
KeptInv ==
  \A t \in Threads : pc[t] \in MatchStages /\ zone[t] # NoZone => Partial(zone[t])

\* A thread looks for an empty zone only with a token for it.
GotInv == \A f \in Files : pc[f] = "empty" => got[f]

TokenType ==
  /\ got \in [Threads -> BOOLEAN] /\ owe \in [Threads -> BOOLEAN]
  /\ active_io_zones \in Int

ActiveInv ==
  /\ SpaceInv /\ TokenType
  /\ LostInv /\ KeptInv /\ GotInv
  /\ ActiveLimit

-----------------------------------------------------------------------------
\* A zone with used capacity is not empty, so that a match is never an empty
\* zone that nobody has a token for.
LEMMA UsedNotEmpty ==
  ASSUME SpaceInv, LostInv, NEW z \in Zones, used[z] > 0
  PROVE  capacity[z] # MaxCap
<1> SUFFICES ASSUME capacity[z] = MaxCap PROVE FALSE
  OBVIOUS
<1>1. /\ \A g \in Files : ext[g][z] \in Nat
      /\ Blocks(ext, z) \in Nat /\ orphan[z] \in Nat /\ InFlight(z) \in Nat
      /\ Copied(z) \in Nat
      /\ used[z] = Blocks(ext, z) + orphan[z] + InFlight(z) + lost[z]
  BY CountTypes
<1>2. /\ \A g \in Files : Pushing[g][z] \in Nat
      /\ Blocks(Pushing, z) \in Nat
      /\ Blocks(Pushing, z) + orphan[z] + InFlight(z) + Copied(z) + capacity[z]
              <= MaxCap + missing[z]
  BY PushingTypes
<1>3. lost[z] = 0 /\ missing[z] = 0
  BY DEF LostInv
<1>4. Blocks(Pushing, z) = 0 /\ orphan[z] = 0 /\ InFlight(z) = 0
  <2> DEFINE b == Blocks(Pushing, z)
             o == orphan[z]
             i == InFlight(z)
             c == Copied(z)
  <2>1. b \in Nat /\ o \in Nat /\ i \in Nat /\ c \in Nat /\ b + o + i + c + MaxCap <= MaxCap
    <3>1. b + o + i + c + MaxCap <= MaxCap + 0
      BY <1>2, <1>3
    <3>2. QED
      BY <1>1, <1>2, <3>1, AllocatorAssumption
  <2> HIDE DEF b, o, i, c
  <2>2. b = 0 /\ o = 0 /\ i = 0
    BY <2>1, AllocatorAssumption
  <2>3. QED
    BY <2>2 DEF b, o, i
<1>5. \A g \in Files : ext[g][z] = Pushing[g][z]
  <2> SUFFICES ASSUME NEW g \in Files PROVE ext[g][z] = Pushing[g][z]
    OBVIOUS
  <2>1. Pushing[g][z] = 0
    BY <1>2, <1>4, BlocksAtLeast
  <2>2. pend[g] \in Nat /\ ext[g][z] \in Nat
    BY <1>1 DEF SpaceInv, SpaceType
  <2>3. Pushing[g][z] = ext[g][z] + (IF zone[g] = z THEN pend[g] ELSE 0)
    BY PushingValue
  <2>4. QED
    BY <2>1, <2>2, <2>3
<1>6. Blocks(ext, z) = Blocks(Pushing, z)
  BY <1>5, BlocksSame
<1>7. QED
  BY <1>1, <1>3, <1>4, <1>6

-----------------------------------------------------------------------------
(* Which zones are active, before and after a step of thread t.            *)

\* A step of thread t leaves the others alone, and t keeps a zone it had.
OwnStep(t) ==
  /\ \A u \in Threads \ {t} : pc'[u] = pc[u] /\ zone'[u] = zone[u]
  /\ MovesOwn(t)
  /\ zone'[t] \in {zone[t], cur[t], NoZone}

\* A step of thread t leaves zones that it did not have as active as before.
LEMMA ActiveAfter ==
  ASSUME SpaceInv, NEW t \in Threads, OwnStep(t), NEW z \in Zones
  PROVE  z \in ActiveZones' <=>
           IF z = cur[t] \/ z = zone[t]
           THEN \/ capacity'[z] # MaxCap /\ capacity'[z] # 0
                \/ z = zone'[t] /\ pc'[t] \in ActiveStages
           ELSE z \in ActiveZones
<1>1. z \in ActiveZones' <=>
        \/ capacity'[z] # MaxCap /\ capacity'[z] # 0
        \/ \E u \in Threads : zone'[u] = z /\ pc'[u] \in ActiveStages
  BY DEF ActiveZones, ActiveStages, Partial, IsEmpty, IsFull
<1>2. CASE z = cur[t] \/ z = zone[t]
  <2>1. \A u \in Threads \ {t} : zone'[u] # z
    BY <1>2, ZonesPositive DEF SpaceInv, BusyInv, Mutex, OwnStep
  <2>2. QED
    BY <1>1, <1>2, <2>1
<1>3. CASE ~(z = cur[t] \/ z = zone[t])
  <2>1. z # zone'[t] /\ capacity'[z] = capacity[z]
    BY <1>3, ZonesPositive DEF OwnStep, MovesOwn
  <2>2. QED
    BY <1>1, <1>3, <2>1 DEF ActiveZones, ActiveStages, Partial, IsEmpty, IsFull, OwnStep
<1>4. QED
  BY <1>2, <1>3

\* A writer changes the zones it examines or keeps only.
LEMMA FileOwnStep ==
  ASSUME SpaceInv, NEW f \in Files, FileNext(f)
  PROVE  OwnStep(f)
<1>1. \A u \in Threads \ {f} : pc'[u] = pc[u] /\ zone'[u] = zone[u]
  BY FileLocal DEF SpaceInv
<1>2. zone'[f] \in {zone[f], cur[f], NoZone}
  <2>1. zone \in [Threads -> Zones \cup {NoZone}]
    BY DEF SpaceInv, BusyInv, PlaceInv
  <2>2. CASE UNCHANGED zone
    BY <2>2
  <2>3. CASE GiveBack(f) \/ Keep(f) \/ LetGo(f)
    BY <2>1, <2>3 DEF GiveBack, Keep, LetGo
  <2>4. QED
    BY <2>2, <2>3
    DEF FileNext, OpenWritableFile, ReopenWritableFile, Write, DataSync, CloseWR, Abandon,
        CloseAgain, DeleteFile, RollZone, Append, BufferedAppend, AppendFails, AppendDone,
        CloseActiveZone, PutOpenIOZoneToken, AllocateIOZone, ApplyFinishThreshold,
        WaitForOpenIOZoneToken, GetBestOpenZoneMatch, GetActiveIOZoneTokenIfAvailable,
        RelaxOrDrop, FinishCheapestIOZone, AllocateEmptyZone
<1>3. QED
  BY <1>1, <1>2, FileCapacity DEF OwnStep

\* So do the shared steps.
LEMMA SharedOwnStep ==
  ASSUME SpaceInv, NEW t \in Threads,
         AcquireNext(t) \/ PutActiveIOZoneToken(t) \/ ResetUnusedIOZones(t)
  PROVE  OwnStep(t)
BY SharedLocal, SharedCapacity DEF OwnStep, SpaceInv

\* So does a migration.
LEMMA CollectorOwnStep ==
  ASSUME SpaceInv, GCNext
  PROVE  OwnStep(GC)
<1>1. \A u \in Threads \ {GC} : pc'[u] = pc[u] /\ zone'[u] = zone[u]
  BY CollectorLocal DEF SpaceInv
<1>2. zone'[GC] \in {zone[GC], cur[GC], NoZone}
  <2>1. zone \in [Threads -> Zones \cup {NoZone}] /\ GC \in Threads
    BY DEF SpaceInv, BusyInv, PlaceInv
  <2>2. CASE UNCHANGED zone
    BY <2>2
  <2>3. CASE GiveBack(GC) \/ Keep(GC) \/ LetGo(GC)
    BY <2>1, <2>3 DEF GiveBack, Keep, LetGo
  <2>4. QED
    BY <2>2, <2>3
    DEF GCNext, GCSnapshot, TryAcquireWRLock, TakeMigrateZone, MigrateData,
        ReleaseMigrateZone, ReplaceExtentList, SyncFileExtents
<1>3. QED
  BY <1>1, <1>2, CollectorCapacity DEF OwnStep

-----------------------------------------------------------------------------
(* What a step of thread t does to the active tokens.                      *)

\* A token moves from one place to another, is taken or given back; or none.
TokenStep(t) ==
  \/ /\ ActiveZones' \subseteq ActiveZones /\ Got' \subseteq Got /\ Owing' \subseteq Owing
     /\ active_io_zones' = active_io_zones
  \/ /\ ActiveZones' \subseteq ActiveZones /\ Got' \subseteq Got \cup {t}
     /\ Owing' \subseteq Owing
     /\ active_io_zones < MaxActive /\ active_io_zones' = active_io_zones + 1
  \/ /\ ActiveZones' \subseteq ActiveZones /\ Got' \subseteq Got
     /\ t \in Owing /\ Owing' \subseteq Owing \ {t}
     /\ active_io_zones' = active_io_zones - 1
  \/ /\ \E z \in ActiveZones : ActiveZones' \subseteq ActiveZones \ {z}
     /\ \/ Got' \subseteq Got \cup {t} /\ Owing' \subseteq Owing
        \/ Got' \subseteq Got /\ Owing' \subseteq Owing \cup {t}
     /\ active_io_zones' = active_io_zones
  \/ /\ t \in Got /\ Got' \subseteq Got \ {t}
     /\ \/ /\ \E z \in Zones : ActiveZones' \subseteq ActiveZones \cup {z}
           /\ Owing' \subseteq Owing
        \/ ActiveZones' \subseteq ActiveZones /\ Owing' \subseteq Owing \cup {t}
     /\ active_io_zones' = active_io_zones

\* The active zones, the tokens taken for zones not chosen yet and the tokens owed
\* can be counted.
LEMMA TokenSetsFinite ==
  /\ IsFiniteSet(ActiveZones) /\ IsFiniteSet(Got) /\ IsFiniteSet(Owing)
  /\ TokensOut = Cardinality(ActiveZones) + Cardinality(Got) + Cardinality(Owing)
  /\ TokensOut' = Cardinality(ActiveZones') + Cardinality(Got') + Cardinality(Owing')
<1>1. IsFiniteSet(Zones)
  BY FS_Interval, AllocatorAssumption DEF Zones
<1>2. IsFiniteSet(Threads)
  BY FS_AddElement, AllocatorAssumption
<1>3. ActiveZones \subseteq Zones /\ Got \subseteq Threads /\ Owing \subseteq Threads
  BY DEF ActiveZones, Got, Owing
<1>4. QED
  BY <1>1, <1>2, <1>3, FS_Subset DEF TokensOut, Got, Owing

\* Whatever a step does of this kind, the count covers the tokens that are out.
LEMMA TokenStepKeepsLimit ==
  ASSUME NEW t \in Threads, active_io_zones \in Int, ActiveLimit, TokenStep(t)
  PROVE  ActiveLimit' /\ active_io_zones' \in Int
<1> DEFINE a == Cardinality(ActiveZones)
           g == Cardinality(Got)
           o == Cardinality(Owing)
           a1 == Cardinality(ActiveZones')
           g1 == Cardinality(Got')
           o1 == Cardinality(Owing')
<1>1. /\ a + g + o <= active_io_zones /\ active_io_zones <= MaxActive
      /\ TokensOut' = a1 + g1 + o1
      /\ IsFiniteSet(ActiveZones) /\ IsFiniteSet(Got) /\ IsFiniteSet(Owing)
      /\ MaxActive \in Nat
  BY TokenSetsFinite, AllocatorAssumption DEF ActiveLimit
<1>2. /\ ActiveZones' \subseteq ActiveZones => a \in Nat /\ a1 \in Nat /\ a1 <= a
      /\ Got' \subseteq Got => g \in Nat /\ g1 \in Nat /\ g1 <= g
      /\ Owing' \subseteq Owing => o \in Nat /\ o1 \in Nat /\ o1 <= o
  BY <1>1, CardinalityWithin
<1>3. /\ Got' \subseteq Got \cup {t} => g \in Nat /\ g1 \in Nat /\ g1 <= g + 1
      /\ Owing' \subseteq Owing \cup {t} => o \in Nat /\ o1 \in Nat /\ o1 <= o + 1
      /\ \A z \in Zones : ActiveZones' \subseteq ActiveZones \cup {z} =>
           a \in Nat /\ a1 \in Nat /\ a1 <= a + 1
  BY <1>1, CardinalityGain
<1>4. /\ t \in Got /\ Got' \subseteq Got \ {t} => g \in Nat /\ g1 \in Nat /\ g1 <= g - 1
      /\ t \in Owing /\ Owing' \subseteq Owing \ {t} =>
           o \in Nat /\ o1 \in Nat /\ o1 <= o - 1
      /\ \A z \in ActiveZones : ActiveZones' \subseteq ActiveZones \ {z} =>
           a \in Nat /\ a1 \in Nat /\ a1 <= a - 1
  BY <1>1, CardinalityLoss
<1> HIDE DEF a, g, o, a1, g1, o1
<1>5. a1 + g1 + o1 <= active_io_zones' /\ active_io_zones' <= MaxActive
      /\ active_io_zones' \in Int
  <2>1. CASE /\ ActiveZones' \subseteq ActiveZones /\ Got' \subseteq Got
             /\ Owing' \subseteq Owing /\ active_io_zones' = active_io_zones
    BY <1>1, <1>2, <2>1
  <2>2. CASE /\ ActiveZones' \subseteq ActiveZones /\ Got' \subseteq Got \cup {t}
             /\ Owing' \subseteq Owing
             /\ active_io_zones < MaxActive /\ active_io_zones' = active_io_zones + 1
    BY <1>1, <1>2, <1>3, <2>2
  <2>3. CASE /\ ActiveZones' \subseteq ActiveZones /\ Got' \subseteq Got
             /\ t \in Owing /\ Owing' \subseteq Owing \ {t}
             /\ active_io_zones' = active_io_zones - 1
    BY <1>1, <1>2, <1>4, <2>3
  <2>4. CASE /\ \E z \in ActiveZones : ActiveZones' \subseteq ActiveZones \ {z}
             /\ \/ Got' \subseteq Got \cup {t} /\ Owing' \subseteq Owing
                \/ Got' \subseteq Got /\ Owing' \subseteq Owing \cup {t}
             /\ active_io_zones' = active_io_zones
    BY <1>1, <1>2, <1>3, <1>4, <2>4
  <2>5. CASE /\ t \in Got /\ Got' \subseteq Got \ {t}
             /\ \/ /\ \E z \in Zones : ActiveZones' \subseteq ActiveZones \cup {z}
                   /\ Owing' \subseteq Owing
                \/ ActiveZones' \subseteq ActiveZones /\ Owing' \subseteq Owing \cup {t}
             /\ active_io_zones' = active_io_zones
    BY <1>1, <1>2, <1>3, <1>4, <2>5
  <2>6. QED
    BY <2>1, <2>2, <2>3, <2>4, <2>5 DEF TokenStep
<1>6. QED
  BY <1>1, <1>5 DEF ActiveLimit

\* The active zones after a step in which thread t writes to no new zone and
\* moves the write pointers of active zones only.
LEMMA NoNewZone ==
  ASSUME SpaceInv, NEW t \in Threads, OwnStep(t),
         \A z \in Zones : capacity'[z] # capacity[z] => z \in ActiveZones,
         pc'[t] \in ActiveStages /\ zone'[t] \in Zones => zone'[t] \in ActiveZones
  PROVE  /\ ActiveZones' \subseteq ActiveZones
         /\ \A z \in Zones :
              /\ z = cur[t] \/ z = zone[t]
              /\ capacity'[z] = 0 \/ capacity'[z] = MaxCap
              /\ z # zone'[t] \/ pc'[t] \notin ActiveStages
              => z \notin ActiveZones'
<1>1. ASSUME NEW z \in ActiveZones' PROVE z \in ActiveZones
  <2>0. z \in Zones
    BY DEF ActiveZones
  <2>1. CASE (z = cur[t] \/ z = zone[t]) /\ capacity'[z] = capacity[z]
    <3>1. (capacity[z] # MaxCap /\ capacity[z] # 0) \/ (z = zone'[t] /\ pc'[t] \in ActiveStages)
      BY <1>1, <2>0, <2>1, ActiveAfter
    <3>2. QED
      BY <2>0, <3>1 DEF ActiveZones, Partial, IsEmpty, IsFull
  <2>2. CASE ~(z = cur[t] \/ z = zone[t])
    BY <1>1, <2>0, <2>2, ActiveAfter
  <2>3. QED
    BY <2>0, <2>1, <2>2
<1>2. QED
  BY <1>1, ActiveAfter

\* No token moves: a write pointer moves only in a zone that is active already,
\* and the thread writes only to such a zone.
LEMMA QuietStep ==
  ASSUME SpaceInv, NEW t \in Threads, OwnStep(t),
         UNCHANGED <<got, owe, active_io_zones>>,
         \A z \in Zones : capacity'[z] # capacity[z] => z \in ActiveZones,
         pc'[t] \in ActiveStages /\ zone'[t] \in Zones => zone'[t] \in ActiveZones
  PROVE  TokenStep(t)
<1>1. ActiveZones' \subseteq ActiveZones
  BY NoNewZone
<1>2. Got' = Got /\ Owing' = Owing
  BY DEF Got, Owing
<1>3. QED
  BY <1>1, <1>2 DEF TokenStep

\* The zone of a writer, and one that a match keeps, are active.
LEMMA WriterZoneActive ==
  ASSUME NEW t \in Threads, zone[t] \in Zones, pc[t] \in ActiveStages \/ Partial(zone[t])
  PROVE  zone[t] \in ActiveZones
BY DEF ActiveZones, ActiveStages

\* KeptInv and GotInv of thread t after its step.
KeptAfter(t) ==
  pc'[t] \in MatchStages /\ zone'[t] # NoZone =>
    capacity'[zone'[t]] # MaxCap /\ capacity'[zone'[t]] # 0
GotAfter(t) ==
  /\ got' \in [Threads -> BOOLEAN] /\ owe' \in [Threads -> BOOLEAN]
  /\ \A u \in Threads \ {t} : got'[u] = got[u]
  /\ pc'[t] = "empty" => got'[t]

TokensKept(t) == TokenStep(t) /\ KeptAfter(t) /\ GotAfter(t)

\* What is known of the user of a file before its step.
LEMMA FileBefore ==
  ASSUME ActiveInv, NEW f \in Files
  PROVE  /\ f \in Threads /\ f # GC
         /\ pc \in [Threads -> FileStages \cup GCStages]
         /\ zone \in [Threads -> Zones \cup {NoZone}]
         /\ cur \in [Threads -> Zones \cup {NoZone}]
         /\ got \in [Threads -> BOOLEAN] /\ owe \in [Threads -> BOOLEAN]
         /\ capacity \in [Zones -> 0..MaxCap]
         /\ pc[f] \in FileStages
         /\ cur[f] # NoZone => pc[f] \in ScanStages
         /\ pc[f] \in ZonelessStages => zone[f] = NoZone
         /\ pc[f] \in ZonedStages => zone[f] # NoZone
         /\ pc[f] \in MatchStages /\ zone[f] # NoZone => Partial(zone[f])
         /\ pc[f] = "empty" => got[f]
         /\ NoZone \notin Zones
BY AllocatorAssumption, ZonesPositive
DEF ActiveInv, SpaceInv, SpaceType, BusyInv, PlaceInv, Place, TokenType, KeptInv, GotInv

\* The steps of a writer outside the allocation of a zone.
LEMMA WriterTokens ==
  ASSUME ActiveInv, NEW f \in Files,
         \/ OpenWritableFile(f) \/ ReopenWritableFile(f) \/ Write(f) \/ DataSync(f)
         \/ CloseWR(f) \/ Abandon(f) \/ CloseAgain(f) \/ DeleteFile(f) \/ RollZone(f)
         \/ AppendDone(f) \/ AllocateIOZone(f) \/ WaitForOpenIOZoneToken(f)
  PROVE  TokensKept(f)
<1>1. SpaceInv /\ OwnStep(f)
  BY FileOwnStep DEF ActiveInv, FileNext
<1>2. UNCHANGED <<capacity, zone, got, owe, active_io_zones>>
  BY DEF OpenWritableFile, ReopenWritableFile, Write, DataSync, CloseWR, Abandon,
         CloseAgain, DeleteFile, RollZone, AppendDone, AllocateIOZone, WaitForOpenIOZoneToken,
         zoneVars, tokenVars
<1>3. /\ pc'[f] \in ActiveStages /\ zone[f] \in Zones => pc[f] \in ActiveStages
      /\ pc'[f] \in MatchStages => zone[f] = NoZone
      /\ pc'[f] # "empty"
  <2> USE FileBefore DEF On, GoTo, Scan, ActiveStages, MatchStages, ZonelessStages
  <2>1. CASE OpenWritableFile(f) \/ ReopenWritableFile(f) \/ Write(f)
    BY <2>1 DEF OpenWritableFile, ReopenWritableFile, Write
  <2>2. CASE DataSync(f) \/ CloseWR(f) \/ Abandon(f) \/ CloseAgain(f)
    BY <2>2 DEF DataSync, CloseWR, Abandon, CloseAgain
  <2>3. CASE DeleteFile(f) \/ RollZone(f) \/ AppendDone(f)
    BY <2>3 DEF DeleteFile, RollZone, AppendDone
  <2>4. CASE AllocateIOZone(f) \/ WaitForOpenIOZoneToken(f)
    BY <2>4 DEF AllocateIOZone, WaitForOpenIOZoneToken
  <2>5. QED
    BY <2>1, <2>2, <2>3, <2>4
<1>4. TokenStep(f)
  BY <1>1, <1>2, <1>3, QuietStep, WriterZoneActive, FileBefore
<1>5. QED
  BY <1>2, <1>3, <1>4, FileBefore DEF TokensKept, KeptAfter, GotAfter

\* Writing moves the write pointer of a zone that has a token.
LEMMA AppendTokens ==
  ASSUME ActiveInv, NEW f \in Files, Append(f) \/ BufferedAppend(f) \/ AppendFails(f)
  PROVE  TokensKept(f)
<1>1. SpaceInv /\ OwnStep(f)
  BY FileOwnStep DEF ActiveInv, FileNext
<1>2. /\ UNCHANGED <<zone, got, owe, active_io_zones>>
      /\ pc[f] = "append" /\ pc'[f] \in {"append", "closing", "failed"}
  BY FileBefore
  DEF Append, BufferedAppend, AppendFails, zoneVars, tokenVars, On, GoTo
<1>3. zone[f] \in Zones /\ zone[f] \in ActiveZones
  BY <1>2, FileBefore, WriterZoneActive DEF Append, BufferedAppend, AppendFails, ActiveStages
<1>4. \A z \in Zones : capacity'[z] # capacity[z] => z = zone[f]
  BY <1>2, <1>1, FileBefore DEF OwnStep, MovesOwn, ScanStages
<1>5. TokenStep(f)
  BY <1>1, <1>2, <1>3, <1>4, QuietStep
<1>6. QED
  BY <1>2, <1>5, FileBefore DEF TokensKept, KeptAfter, GotAfter, MatchStages

\* CloseActiveZone returns the token of a zone that became full; the one of a
\* zone that did not goes with the zone.
LEMMA CloseTokens ==
  ASSUME ActiveInv, NEW f \in Files, CloseActiveZone(f)
  PROVE  TokensKept(f)
<1>1. SpaceInv /\ OwnStep(f)
  BY FileOwnStep DEF ActiveInv, FileNext
<1>2. /\ UNCHANGED <<capacity, owe, active_io_zones>>
      /\ pc[f] = "closing" /\ zone'[f] = NoZone
      /\ pc'[f] \in {"putopen", "unclosed", "failed"}
      /\ zone[f] \in Zones
  BY FileBefore DEF CloseActiveZone, LetGo, tokenVars, On, GoTo, ZonedStages
<1>3. zone[f] \in ActiveZones
  BY <1>2, FileBefore, WriterZoneActive DEF ActiveStages
<1>4. /\ ActiveZones' \subseteq ActiveZones
      /\ IsFull(zone[f]) => zone[f] \notin ActiveZones'
  BY <1>1, <1>2, FileBefore, NoNewZone DEF IsFull
<1>5. Owing' = Owing
  BY <1>2 DEF Owing
<1>6. CASE UNCHANGED got
  BY <1>2, <1>4, <1>5, <1>6, FileBefore
  DEF TokensKept, TokenStep, Got, KeptAfter, GotAfter, MatchStages
<1>7. CASE got' = [got EXCEPT ![f] = IsFull(zone[f])]
  <2>1. IsFull(zone[f]) \in BOOLEAN
    BY DEF IsFull
  <2>2. /\ IsFull(zone[f]) => Got' \subseteq Got \cup {f}
        /\ ~IsFull(zone[f]) => Got' \subseteq Got
    BY <1>7, <2>1, FileBefore DEF Got
  <2>3. TokenStep(f)
    <3>1. CASE IsFull(zone[f])
      <4>1. ActiveZones' \subseteq ActiveZones \ {zone[f]}
        BY <1>4, <3>1
      <4>2. QED
        BY <1>2, <1>3, <1>5, <2>2, <3>1, <4>1 DEF TokenStep
    <3>2. CASE ~IsFull(zone[f])
      BY <1>2, <1>4, <1>5, <2>2, <3>2 DEF TokenStep
    <3>3. QED
      BY <3>1, <3>2
  <2>4. QED
    BY <1>2, <1>7, <2>1, <2>3, FileBefore DEF TokensKept, KeptAfter, GotAfter, MatchStages
<1>8. QED
  BY <1>6, <1>7 DEF CloseActiveZone

\* With the open token goes the active token of a zone that was full.
LEMMA PutOpenTokens ==
  ASSUME ActiveInv, NEW f \in Files, PutOpenIOZoneToken(f)
  PROVE  TokensKept(f)
<1>1. SpaceInv /\ OwnStep(f)
  BY FileOwnStep DEF ActiveInv, FileNext
<1>2. /\ UNCHANGED <<capacity, zone, active_io_zones>>
      /\ owe' = [owe EXCEPT ![f] = got[f]] /\ got' = [got EXCEPT ![f] = FALSE]
      /\ zone[f] = NoZone /\ ~owe[f]
      /\ pc'[f] \in {"closed", "append", "failed"}
  BY FileBefore DEF PutOpenIOZoneToken, zoneVars, On, GoTo, ZonelessStages
<1>3. ActiveZones' \subseteq ActiveZones
  BY <1>1, <1>2, FileBefore, NoNewZone
<1>4. TokenStep(f)
  <2>1. CASE got[f]
    <3>1. f \in Got /\ Got' \subseteq Got \ {f} /\ Owing' \subseteq Owing \cup {f}
      BY <1>2, <2>1, FileBefore DEF Got, Owing
    <3>2. QED
      BY <1>2, <1>3, <3>1 DEF TokenStep
  <2>2. CASE ~got[f]
    <3>1. Got' \subseteq Got /\ Owing' \subseteq Owing
      BY <1>2, <2>2, FileBefore DEF Got, Owing
    <3>2. QED
      BY <1>2, <1>3, <3>1 DEF TokenStep
  <2>3. QED
    BY <2>1, <2>2
<1>5. QED
  BY <1>2, <1>4, FileBefore DEF TokensKept, KeptAfter, GotAfter, MatchStages

\* A zone finished for its threshold gives its token up.
LEMMA ThresholdTokens ==
  ASSUME ActiveInv, NEW f \in Files, ApplyFinishThreshold(f)
  PROVE  TokensKept(f)
<1>1. SpaceInv /\ OwnStep(f)
  BY FileOwnStep DEF ActiveInv, FileNext
<1>2. /\ UNCHANGED <<got, active_io_zones>>
      /\ pc[f] = "threshold" /\ ~owe[f] /\ zone[f] = NoZone /\ zone' = zone
      /\ pc'[f] \in {"threshold", "failed", "token"}
  BY FileBefore
  DEF ApplyFinishThreshold, Examines, Exhausted, tokenVars, On, GoTo, ZonelessStages,
      GiveBack
<1>3. Got' = Got
  BY <1>2 DEF Got
<1>4. TokenStep(f)
  <2>1. CASE UNCHANGED <<capacity, owe>>
    BY <1>1, <1>2, <2>1, FileBefore, QuietStep
  <2>2. CASE /\ Examines(f, "threshold") /\ WithinFinishThreshold(cur[f])
             /\ Finish(cur[f])
             /\ owe' = [owe EXCEPT ![f] = TRUE]
    <3>1. cur[f] \in Zones /\ Partial(cur[f])
      BY <2>2, FileBefore DEF Examines, WithinFinishThreshold
    <3>2. cur[f] \in ActiveZones
      BY <3>1 DEF ActiveZones
    <3>3. /\ capacity'[cur[f]] = 0
          /\ \A z \in Zones : capacity'[z] # capacity[z] => z = cur[f]
      BY <2>2, <3>1, FileBefore DEF Finish
    <3>4. ActiveZones' \subseteq ActiveZones \ {cur[f]}
      BY <1>1, <1>2, <3>1, <3>2, <3>3, FileBefore, NoNewZone
    <3>5. Owing' \subseteq Owing \cup {f}
      BY <2>2, FileBefore DEF Owing
    <3>6. QED
      BY <1>2, <1>3, <3>2, <3>4, <3>5 DEF TokenStep
  <2>3. QED
    BY <2>1, <2>2 DEF ApplyFinishThreshold
<1>5. KeptAfter(f) /\ GotAfter(f)
  <2>1. owe' \in [Threads -> BOOLEAN]
    BY FileBefore DEF ApplyFinishThreshold
  <2>2. QED
    BY <1>2, <2>1, FileBefore DEF KeptAfter, GotAfter, MatchStages
<1>6. QED
  BY <1>4, <1>5 DEF TokensKept

\* A match keeps only zones that are partly written.
LEMMA MatchIsPartial ==
  ASSUME ActiveInv, NEW t \in Threads, cur[t] \in Zones, NEW h, NEW n, Matches(t, h, n)
  PROVE  capacity[cur[t]] # MaxCap /\ capacity[cur[t]] # 0
BY UsedNotEmpty DEF ActiveInv, Matches, IsFull

\* GetBestOpenZoneMatch keeps a zone that is partly written, which has a token.
LEMMA MatchTokens ==
  ASSUME ActiveInv, NEW f \in Files, GetBestOpenZoneMatch(f)
  PROVE  TokensKept(f)
<1>1. SpaceInv /\ OwnStep(f)
  BY FileOwnStep DEF ActiveInv, FileNext
<1>2. /\ UNCHANGED <<capacity, got, owe, active_io_zones>>
      /\ pc[f] = "match"
  BY DEF GetBestOpenZoneMatch, Examines, Exhausted, tokenVars, On
<1>3. /\ \/ /\ zone' = zone
            /\ pc'[f] \in {"match", "append", "failed", "active"}
         \/ /\ zone'[f] = cur[f] /\ pc'[f] = "match"
            /\ cur[f] \in Zones /\ Matches(f, Hint[f], 0)
  BY <1>2, FileBefore
  DEF GetBestOpenZoneMatch, Keep, GiveBack, Examines, Exhausted, SetActiveZone, GoTo
<1>4. TokenStep(f)
  <2>1. zone[f] \in Zones => zone[f] \in ActiveZones
    BY <1>2, FileBefore, WriterZoneActive DEF MatchStages
  <2>2. QED
    BY <1>1, <1>2, <1>3, <2>1, QuietStep DEF ActiveStages
<1>5. KeptAfter(f)
  <2>1. zone[f] # NoZone => capacity[zone[f]] # MaxCap /\ capacity[zone[f]] # 0
    BY <1>2, FileBefore DEF MatchStages, Partial, IsEmpty, IsFull
  <2>2. QED
    BY <1>2, <1>3, <2>1, FileBefore, MatchIsPartial DEF KeptAfter
<1>6. QED
  BY <1>2, <1>3, <1>4, <1>5, FileBefore DEF TokensKept, GotAfter

\* GetActiveIOZoneTokenIfAvailable takes a token only below the limit.
LEMMA GetActiveTokens ==
  ASSUME ActiveInv, NEW f \in Files, GetActiveIOZoneTokenIfAvailable(f)
  PROVE  TokensKept(f)
<1>1. SpaceInv /\ OwnStep(f)
  BY FileOwnStep DEF ActiveInv, FileNext
<1>2. /\ UNCHANGED <<capacity, zone, owe>>
      /\ pc[f] \in {"active", "retry"}
      /\ pc'[f] \in {"drop", "empty", "finish"}
      /\ pc[f] = "retry" => zone[f] = NoZone
  BY FileBefore
  DEF GetActiveIOZoneTokenIfAvailable, zoneVars, On, Scan, GoTo, ZonelessStages
<1>3. KeptAfter(f)
  BY <1>2, FileBefore DEF KeptAfter, MatchStages, Partial, IsEmpty, IsFull
<1>4. ActiveZones' \subseteq ActiveZones /\ Owing' = Owing
  BY <1>1, <1>2, NoNewZone DEF ActiveStages, Owing
<1>5. CASE /\ active_io_zones < MaxActive
           /\ active_io_zones' = active_io_zones + 1
           /\ got' = [got EXCEPT ![f] = TRUE]
  <2>1. Got' \subseteq Got \cup {f}
    BY <1>5, FileBefore DEF Got
  <2>2. QED
    BY <1>2, <1>3, <1>4, <1>5, <2>1, FileBefore DEF TokensKept, TokenStep, GotAfter
<1>6. CASE UNCHANGED <<active_io_zones, got>> /\ pc'[f] # "empty"
  <2>1. Got' = Got
    BY <1>6 DEF Got
  <2>2. QED
    BY <1>2, <1>3, <1>4, <1>6, <2>1, FileBefore DEF TokensKept, TokenStep, GotAfter
<1>7. QED
  BY <1>5, <1>6, FileBefore DEF GetActiveIOZoneTokenIfAvailable, Scan, GoTo

\* RelaxOrDrop gives up a match, whose zone keeps its token.
LEMMA DropTokens ==
  ASSUME ActiveInv, NEW f \in Files, RelaxOrDrop(f)
  PROVE  TokensKept(f)
<1>1. SpaceInv /\ OwnStep(f)
  BY FileOwnStep DEF ActiveInv, FileNext
<1>2. /\ UNCHANGED <<capacity, got, owe, active_io_zones>>
      /\ pc[f] = "drop"
      /\ \/ zone' = zone /\ pc'[f] \in {"append", "failed"}
         \/ zone'[f] = NoZone /\ pc'[f] = IF got[f] THEN "empty" ELSE "retry"
  BY FileBefore DEF RelaxOrDrop, On, Scan, GoTo, LetGo, SetActiveZone, tokenVars
<1>3. zone[f] \in Zones => zone[f] \in ActiveZones
  BY <1>2, FileBefore, WriterZoneActive DEF MatchStages
<1>4. TokenStep(f)
  BY <1>1, <1>2, <1>3, QuietStep DEF ActiveStages
<1>5. QED
  BY <1>2, <1>4, FileBefore DEF TokensKept, KeptAfter, GotAfter, MatchStages

\* The cheapest zone gives its token up when it is finished.
LEMMA FinishTokens ==
  ASSUME ActiveInv, NEW f \in Files, FinishCheapestIOZone(f)
  PROVE  TokensKept(f)
<1>1. SpaceInv /\ OwnStep(f)
  BY FileOwnStep DEF ActiveInv, FileNext
<1>2. UNCHANGED <<got, active_io_zones>> /\ pc[f] = "finish" /\ Got' = Got
  BY DEF FinishCheapestIOZone, Examines, Exhausted, tokenVars, On, Got
<1>3. \/ /\ UNCHANGED <<capacity, owe>>
         /\ \/ zone' = zone /\ pc'[f] = "finish"
            \/ zone'[f] = cur[f] /\ pc'[f] = "finish" /\ Partial(cur[f])
            \/ zone' = zone /\ zone[f] = NoZone /\ pc'[f] = "retry"
            \/ zone'[f] = NoZone /\ pc'[f] = "putopen"
      \/ /\ zone[f] # NoZone /\ Finish(zone[f])
         /\ zone'[f] = NoZone /\ pc'[f] = "retry"
         /\ owe' = [owe EXCEPT ![f] = TRUE]
  BY <1>2, FileBefore
  DEF FinishCheapestIOZone, Keep, GiveBack, LetGo, Cheaper, GoTo
<1>4. CASE /\ UNCHANGED <<capacity, owe>>
           /\ \/ zone' = zone /\ pc'[f] = "finish"
              \/ zone'[f] = cur[f] /\ pc'[f] = "finish" /\ Partial(cur[f])
              \/ zone' = zone /\ zone[f] = NoZone /\ pc'[f] = "retry"
              \/ zone'[f] = NoZone /\ pc'[f] = "putopen"
  <2>1. TokenStep(f)
    BY <1>1, <1>2, <1>4, QuietStep DEF ActiveStages
  <2>2. KeptAfter(f)
    BY <1>2, <1>4, FileBefore DEF KeptAfter, MatchStages, Partial, IsEmpty, IsFull
  <2>3. QED
    BY <1>2, <1>4, <2>1, <2>2, FileBefore DEF TokensKept, GotAfter
<1>5. CASE /\ zone[f] # NoZone /\ Finish(zone[f])
           /\ zone'[f] = NoZone /\ pc'[f] = "retry"
           /\ owe' = [owe EXCEPT ![f] = TRUE]
  <2>1. zone[f] \in Zones /\ zone[f] \in ActiveZones
    BY <1>2, <1>5, FileBefore, WriterZoneActive DEF MatchStages
  <2>2. /\ capacity'[zone[f]] = 0
        /\ \A z \in Zones : capacity'[z] # capacity[z] => z = zone[f]
    BY <1>5, <2>1, FileBefore DEF Finish
  <2>3. ActiveZones' \subseteq ActiveZones \ {zone[f]}
    BY <1>1, <1>5, <2>1, <2>2, FileBefore, NoNewZone
  <2>4. Owing' \subseteq Owing \cup {f}
    BY <1>5, FileBefore DEF Owing
  <2>5. TokenStep(f)
    BY <1>2, <2>1, <2>3, <2>4 DEF TokenStep
  <2>6. QED
    BY <1>2, <1>5, <2>5, FileBefore DEF TokensKept, KeptAfter, GotAfter
<1>6. QED
  BY <1>3, <1>4, <1>5

\* An empty zone takes the token that was got for it.
LEMMA EmptyTokens ==
  ASSUME ActiveInv, NEW f \in Files, AllocateEmptyZone(f)
  PROVE  TokensKept(f)
<1>1. SpaceInv /\ OwnStep(f)
  BY FileOwnStep DEF ActiveInv, FileNext
<1>2. /\ UNCHANGED <<capacity, active_io_zones>> /\ pc[f] = "empty" /\ ~owe[f]
      /\ zone[f] = NoZone /\ got[f] /\ f \in Got
  BY FileBefore
  DEF AllocateEmptyZone, Examines, Exhausted, tokenVars, On, Got, ZonelessStages
<1>3. CASE /\ got' = [got EXCEPT ![f] = FALSE] /\ UNCHANGED owe
           /\ zone'[f] = cur[f] /\ cur[f] \in Zones
           /\ pc'[f] \in {"append", "failed"}
  <2>1. ActiveZones' \subseteq ActiveZones \cup {cur[f]}
    <3>1. ASSUME NEW z \in ActiveZones', z # cur[f] PROVE z \in ActiveZones
      <4>1. z \in Zones /\ z # zone[f]
        BY <1>2, FileBefore DEF ActiveZones
      <4>2. QED
        BY <1>1, <3>1, <4>1, ActiveAfter
    <3>2. QED
      BY <3>1
  <2>2. Got' \subseteq Got \ {f} /\ Owing' = Owing
    BY <1>3, FileBefore DEF Got, Owing
  <2>3. TokenStep(f)
    BY <1>2, <1>3, <2>1, <2>2 DEF TokenStep
  <2>4. QED
    BY <1>3, <2>3, FileBefore DEF TokensKept, KeptAfter, GotAfter, MatchStages
<1>4. CASE UNCHANGED <<zone, pc, got, owe>>
  <2>1. TokenStep(f)
    BY <1>1, <1>2, <1>4, QuietStep DEF ActiveStages
  <2>2. QED
    BY <1>2, <1>4, <2>1, FileBefore DEF TokensKept, KeptAfter, GotAfter, MatchStages
<1>5. CASE /\ got' = [got EXCEPT ![f] = FALSE] /\ owe' = [owe EXCEPT ![f] = TRUE]
           /\ pc'[f] = "putopen" /\ zone' = zone
  <2>1. ActiveZones' \subseteq ActiveZones
    BY <1>1, <1>2, <1>5, NoNewZone DEF ActiveStages
  <2>2. Got' \subseteq Got \ {f} /\ Owing' \subseteq Owing \cup {f}
    BY <1>5, FileBefore DEF Got, Owing
  <2>3. TokenStep(f)
    BY <1>2, <2>1, <2>2 DEF TokenStep
  <2>4. QED
    BY <1>5, <2>3, FileBefore DEF TokensKept, KeptAfter, GotAfter, MatchStages
<1>6. QED
  BY <1>2, <1>3, <1>4, <1>5, FileBefore
  DEF AllocateEmptyZone, Examines, Exhausted, Keep, GiveBack, SetActiveZone, GoTo

\* All steps of a writer.
LEMMA FileTokens ==
  ASSUME ActiveInv, NEW f \in Files, FileNext(f)
  PROVE  TokensKept(f)
BY WriterTokens, AppendTokens, CloseTokens, PutOpenTokens, ThresholdTokens, MatchTokens,
   GetActiveTokens, DropTokens, FinishTokens, EmptyTokens DEF FileNext

\* What is known of any thread before its step.
LEMMA ThreadBefore ==
  ASSUME ActiveInv, NEW t \in Threads
  PROVE  /\ SpaceInv
         /\ pc \in [Threads -> FileStages \cup GCStages]
         /\ zone \in [Threads -> Zones \cup {NoZone}]
         /\ cur \in [Threads -> Zones \cup {NoZone}]
         /\ got \in [Threads -> BOOLEAN] /\ owe \in [Threads -> BOOLEAN]
         /\ capacity \in [Zones -> 0..MaxCap]
         /\ pc[GC] \in GCStages
         /\ pc[t] \in ZonelessStages => zone[t] = NoZone
         /\ pc[t] \in ZonedStages => zone[t] # NoZone
         /\ pc[t] \in MatchStages /\ zone[t] # NoZone =>
              Partial(zone[t]) /\ capacity[zone[t]] # MaxCap /\ capacity[zone[t]] # 0
         /\ pc[t] = "empty" => got[t]
         /\ NoZone \notin Zones
<1>1. NoZone \notin Zones
  BY ZonesPositive
<1>2. pc[GC] \in GCStages
  BY DEF ActiveInv, SpaceInv, BusyInv, PlaceInv, Place
<1>3. pc[t] = "empty" => t \in Files
  BY <1>2 DEF GCStages
<1>4. QED
  BY <1>1, <1>2, <1>3
  DEF ActiveInv, SpaceInv, SpaceType, BusyInv, PlaceInv, Place, TokenType, KeptInv, GotInv,
      Partial, IsEmpty, IsFull

\* A reset of a zone that was not full owes a token.
LEMMA ResetTokens ==
  ASSUME ActiveInv, NEW t \in Threads, ResetUnusedIOZones(t)
  PROVE  TokensKept(t)
<1>1. SpaceInv /\ OwnStep(t)
  BY SharedOwnStep DEF ActiveInv
<1>2. /\ UNCHANGED <<got, active_io_zones, zone>> /\ pc[t] = "reset" /\ ~owe[t]
      /\ zone[t] = NoZone /\ Got' = Got
      /\ pc'[t] \in {"reset", "gcidle", "none"}
  BY ThreadBefore
  DEF ResetUnusedIOZones, Examines, Exhausted, tokenVars, On, Got, ZonelessStages, GiveBack,
      AfterReset, GoTo
<1>3. CASE UNCHANGED <<capacity, owe>>
  <2>1. TokenStep(t)
    BY <1>1, <1>2, <1>3, QuietStep DEF ActiveStages
  <2>2. QED
    BY <1>2, <1>3, <2>1, ThreadBefore DEF TokensKept, KeptAfter, GotAfter, MatchStages
<1>4. CASE /\ cur[t] # NoZone /\ Unused(cur[t]) /\ Reset(cur[t])
           /\ owe' = [owe EXCEPT ![t] = HoldsActiveToken(cur[t])]
  <2>1. cur[t] \in Zones /\ HoldsActiveToken(cur[t]) \in BOOLEAN
    BY <1>4, ThreadBefore DEF HoldsActiveToken, IsFull
  <2>2. capacity'[cur[t]] = MaxCap
    BY <1>4, <2>1, ThreadBefore DEF Reset
  <2>3. ActiveZones' \subseteq ActiveZones \ {cur[t]}
    <3>1. ASSUME NEW z \in ActiveZones' PROVE z \in ActiveZones /\ z # cur[t]
      <4>1. z \in Zones /\ z # zone[t] /\ z # zone'[t]
        BY <1>2, ThreadBefore DEF ActiveZones
      <4>2. QED
        BY <1>1, <2>2, <3>1, <4>1, ActiveAfter
    <3>2. QED
      BY <3>1
  <2>4. TokenStep(t)
    <3>1. CASE HoldsActiveToken(cur[t])
      <4>1. Partial(cur[t])
        BY <1>4, <3>1 DEF Unused, HoldsActiveToken, Partial
      <4>2. cur[t] \in ActiveZones
        BY <2>1, <4>1 DEF ActiveZones
      <4>3. Owing' \subseteq Owing \cup {t}
        BY <1>4, ThreadBefore DEF Owing
      <4>4. QED
        BY <1>2, <2>3, <4>2, <4>3 DEF TokenStep
    <3>2. CASE ~HoldsActiveToken(cur[t])
      <4>1. Owing' \subseteq Owing
        BY <1>4, <2>1, <3>2, ThreadBefore DEF Owing
      <4>2. QED
        BY <1>2, <2>3, <4>1 DEF TokenStep
    <3>3. QED
      BY <3>1, <3>2
  <2>5. QED
    BY <1>2, <1>4, <2>1, <2>4, ThreadBefore DEF TokensKept, KeptAfter, GotAfter, MatchStages
<1>5. QED
  BY <1>3, <1>4 DEF ResetUnusedIOZones, Examines

\* The shared steps.
LEMMA SharedTokens ==
  ASSUME ActiveInv, NEW t \in Threads,
         AcquireNext(t) \/ PutActiveIOZoneToken(t) \/ ResetUnusedIOZones(t)
  PROVE  TokensKept(t)
<1>1. SpaceInv /\ OwnStep(t)
  BY SharedOwnStep DEF ActiveInv
<1>2. zone[t] \in Zones /\ pc[t] \in ActiveStages => zone[t] \in ActiveZones
  BY WriterZoneActive
<1>3. CASE AcquireNext(t)
  <2>1. UNCHANGED <<capacity, zone, pc, got, owe, active_io_zones>>
    BY <1>3 DEF AcquireNext, tokenVars
  <2>2. TokenStep(t)
    BY <1>1, <1>2, <2>1, QuietStep
  <2>3. QED
    BY <2>1, <2>2, ThreadBefore DEF TokensKept, KeptAfter, GotAfter
<1>4. CASE PutActiveIOZoneToken(t)
  <2>1. /\ UNCHANGED <<capacity, zone, pc, got>> /\ active_io_zones' = active_io_zones - 1
        /\ owe[t] /\ owe' = [owe EXCEPT ![t] = FALSE]
    BY <1>4 DEF PutActiveIOZoneToken, zoneVars
  <2>2. ActiveZones' \subseteq ActiveZones /\ Got' = Got
    BY <1>1, <1>2, <2>1, NoNewZone DEF Got
  <2>3. t \in Owing /\ Owing' \subseteq Owing \ {t}
    BY <2>1, ThreadBefore DEF Owing
  <2>4. TokenStep(t)
    BY <2>1, <2>2, <2>3 DEF TokenStep
  <2>5. QED
    BY <2>1, <2>4, ThreadBefore DEF TokensKept, KeptAfter, GotAfter
<1>5. QED
  BY <1>3, <1>4, ResetTokens

\* The collector writes only to zones that are partly written: it never needs an
\* active token.
LEMMA CollectorTokens ==
  ASSUME ActiveInv, GCNext
  PROVE  TokensKept(GC)
<1>0. GC \in Threads
  OBVIOUS
<1>1. SpaceInv /\ OwnStep(GC)
  BY CollectorOwnStep DEF ActiveInv
<1>2. UNCHANGED <<got, owe, active_io_zones>>
  BY DEF GCNext, GCSnapshot, TryAcquireWRLock, TakeMigrateZone, MigrateData,
         ReleaseMigrateZone, ReplaceExtentList, SyncFileExtents, tokenVars
<1>3. zone[GC] \in Zones /\ (pc[GC] \in ActiveStages \/ pc[GC] \in MatchStages)
        => zone[GC] \in ActiveZones
  BY <1>0, ThreadBefore, WriterZoneActive
<1>4. /\ \A z \in Zones : capacity'[z] # capacity[z] => z \in ActiveZones
      /\ pc'[GC] \in ActiveStages /\ zone'[GC] \in Zones => zone'[GC] \in ActiveZones
      /\ KeptAfter(GC)
      /\ pc'[GC] # "empty"
  <2> USE <1>0, <1>3, ThreadBefore
      DEF On, GoTo, Scan, ActiveStages, MatchStages, ZonelessStages, ZonedStages, KeptAfter
  <2>1. CASE GCSnapshot
    BY <2>1 DEF GCSnapshot, zoneVars
  <2>2. CASE TryAcquireWRLock
    BY <2>2 DEF TryAcquireWRLock, zoneVars
  <2>3. CASE TakeMigrateZone
    <3>1. /\ UNCHANGED capacity /\ pc[GC] = "gcmatch"
          /\ \/ zone' = zone /\ pc'[GC] \in {"gcmatch", "gcreplace", "gcmove"}
             \/ /\ zone'[GC] = cur[GC] /\ pc'[GC] = "gcmatch" /\ cur[GC] \in Zones
                /\ Matches(GC, Hint[gc.file], gc.n)
      BY <2>3 DEF TakeMigrateZone, Examines, Exhausted, Keep, GiveBack
    <3>2. QED
      BY <3>1, MatchIsPartial
  <2>4. CASE MigrateData
    <3>1. /\ pc[GC] = "gcmove" /\ zone[GC] \in Zones /\ pc'[GC] = "gcswap" /\ zone' = zone
          /\ \A z \in Zones : capacity'[z] # capacity[z] => z = zone[GC]
      BY <2>4 DEF MigrateData, AppendTo
    <3>2. QED
      BY <3>1
  <2>5. CASE ReleaseMigrateZone
    BY <2>5 DEF ReleaseMigrateZone, LetGo
  <2>6. CASE ReplaceExtentList \/ SyncFileExtents
    BY <2>6 DEF ReplaceExtentList, SyncFileExtents, zoneVars
  <2>7. QED
    BY <2>1, <2>2, <2>3, <2>4, <2>5, <2>6 DEF GCNext
<1>5. TokenStep(GC)
  BY <1>0, <1>1, <1>2, <1>4, QuietStep
<1>6. QED
  BY <1>2, <1>4, <1>5, ThreadBefore DEF TokensKept, GotAfter

-----------------------------------------------------------------------------
(* The invariant.                                                          *)

\* Every step: blocks that stay counted belong to a written zone, which nobody can
\* reset because its used capacity is not zero.
LEMMA NextLostInv ==
  ASSUME ActiveInv, Next
  PROVE  LostInv'
<1>1. /\ SpaceInv /\ LostInv /\ MaxCap \in Nat
      /\ \A z \in Zones : capacity[z] \in 0..MaxCap
  BY AllocatorAssumption DEF ActiveInv, SpaceInv, SpaceType
<1> SUFFICES ASSUME NEW z \in Zones, lost'[z] # 0 \/ missing'[z] # 0
             PROVE  capacity'[z] # MaxCap
  BY DEF LostInv
<1>2. ASSUME NEW t \in Threads,
             AcquireNext(t) \/ PutActiveIOZoneToken(t) \/ ResetUnusedIOZones(t)
      PROVE  capacity'[z] # MaxCap
  <2>1. UNCHANGED lost
    BY <1>1, <1>2, SharedInFlight
  <2>2. CASE UNCHANGED <<capacity, missing>>
    BY <1>1, <2>1, <2>2 DEF LostInv
  <2>3. CASE /\ Unused(cur[t]) /\ cur[t] \in Zones
             /\ capacity' = [capacity EXCEPT ![cur[t]] = MaxCap]
             /\ missing' = [missing EXCEPT ![cur[t]] = 0]
    <3>1. missing \in [Zones -> Nat] /\ capacity \in [Zones -> 0..MaxCap]
      BY <1>1 DEF SpaceInv, SpaceType
    <3>2. cur[t] = z => lost[z] = 0
      BY <1>1, <2>3, ResetZoneDead DEF Unused
    <3>3. cur[t] # z
      BY <2>1, <2>3, <3>1, <3>2
    <3>4. QED
      BY <1>1, <2>1, <2>3, <3>1, <3>3 DEF LostInv
  <2>4. QED
    BY <1>1, <1>2, <2>2, <2>3, SharedCapacity
<1>3. ASSUME NEW f \in Files, FileNext(f)
      PROVE  capacity'[z] # MaxCap
  <2>1. /\ lost' = lost /\ missing' = missing
        /\ capacity'[z] <= capacity[z] /\ capacity'[z] \in 0..MaxCap
    BY <1>1, <1>3, FileAndMigration, FileCapacity DEF MovesOwn
  <2>2. QED
    BY <1>1, <2>1 DEF LostInv
<1>4. ASSUME GCNext
      PROVE  capacity'[z] # MaxCap
  <2>1. capacity'[z] <= capacity[z] /\ capacity'[z] \in 0..MaxCap
    BY <1>1, <1>4, CollectorCapacity DEF MovesOwn
  <2>2. SUFFICES capacity[z] # MaxCap
    BY <1>1, <2>1
  <2>3. CASE lost'[z] = lost[z] /\ missing'[z] = missing[z]
    BY <1>1, <2>3 DEF LostInv
  <2>4. CASE missing'[z] # missing[z]
    <3>1. MigrateData
      BY <1>4, <2>4
      DEF GCNext, GCSnapshot, TryAcquireWRLock, TakeMigrateZone, ReleaseMigrateZone,
          ReplaceExtentList, SyncFileExtents, gcVars
    <3>2. pc[GC] = "gcmove" /\ GC \in Threads /\ zone[GC] \in Zones
      BY <3>1, ThreadBefore DEF MigrateData, On, ZonedStages
    <3>3. z = zone[GC]
      <4>1. missing \in [Zones -> Nat]
        BY <1>1 DEF SpaceInv, SpaceType
      <4>2. QED
        BY <2>4, <3>1, <4>1 DEF MigrateData
    <3>4. QED
      BY <3>2, <3>3, ZonesPositive DEF ActiveInv, KeptInv, MatchStages, Partial, IsEmpty
  <2>5. CASE lost'[z] # lost[z]
    <3>1. /\ Blocks(ext, z) \in Nat /\ orphan[z] \in Nat /\ InFlight(z) \in Nat
          /\ lost[z] \in Nat /\ gc.n \in Nat
          /\ used[z] = Blocks(ext, z) + orphan[z] + InFlight(z) + lost[z]
          /\ \A g \in Files : ext[g][z] \in Nat
      BY <1>1, CountTypes
    <3>2. SUFFICES used[z] > 0
      BY <1>1, UsedNotEmpty
    <3>3. SyncFileExtents \/ ReplaceExtentList
      BY <1>4, <2>5
      DEF GCNext, GCSnapshot, TryAcquireWRLock, TakeMigrateZone, MigrateData, gcVars,
          ReleaseMigrateZone
    <3>4. CASE SyncFileExtents
      <4>1. pc[GC] = "gcsync" /\ lost' = [y \in Zones |-> lost[y] + OldExtent(y)]
        BY <2>5, <3>4 DEF SyncFileExtents, On
      <4>2. gc.moved /\ z = gc.src /\ gc.n # 0
        BY <2>5, <3>1, <4>1 DEF OldExtent
      <4>3. InFlight(z) = gc.n
        BY <4>1, <4>2, InFlightValue
      <4>4. QED
        BY <3>1, <4>2, <4>3
    <3>5. CASE ReplaceExtentList
      <4>1. pc[GC] = "gcreplace"
            /\ lost'[z] = lost[z] + (CurrentList[z] - gc.copy[z])
        BY <3>5 DEF ReplaceExtentList, On
      <4>2. /\ CurrentList[z] \in Nat /\ gc.copy[z] \in Nat
            /\ gc.copy[z] <= CurrentList[z] /\ gc.file \in Files
        BY <1>1, <4>1, MovedExtents
      <4>3. CurrentList[z] > 0
        BY <2>5, <3>1, <4>1, <4>2
      <4>4. CASE gc.gone
        BY <3>1, <4>2, <4>3, <4>4 DEF CurrentList
      <4>5. CASE ~gc.gone
        <5>1. PICK f \in Files : f = gc.file
          BY <4>2
        <5>2. ext[f][z] > 0 /\ ext[f][z] \in Nat
          BY <3>1, <4>3, <4>5, <5>1 DEF CurrentList
        <5>3. ext[f][z] <= Blocks(ext, z)
          BY <3>1, BlocksAtLeast
        <5>4. QED
          BY <3>1, <5>2, <5>3
      <4>6. QED
        BY <4>4, <4>5
    <3>6. QED
      BY <3>3, <3>4, <3>5
  <2>6. QED
    BY <2>3, <2>4, <2>5
<1>5. QED
  BY <1>2, <1>3, <1>4 DEF Next

\* What a step of one thread keeps, all threads keep.
LEMMA StepKeepsTokens ==
  ASSUME ActiveInv, NEW t \in Threads, OwnStep(t), TokensKept(t)
  PROVE  TokenType' /\ KeptInv' /\ GotInv' /\ ActiveLimit'
<1>1. ActiveLimit' /\ active_io_zones' \in Int
  BY TokenStepKeepsLimit DEF TokensKept, ActiveInv, TokenType
<1>2. TokenType'
  BY <1>1 DEF TokensKept, GotAfter, TokenType
<1>3. KeptInv'
  <2> SUFFICES ASSUME NEW u \in Threads, pc'[u] \in MatchStages, zone'[u] # NoZone
               PROVE  capacity'[zone'[u]] # MaxCap /\ capacity'[zone'[u]] # 0
    BY DEF KeptInv, Partial, IsEmpty, IsFull
  <2>1. CASE u = t
    BY <2>1 DEF TokensKept, KeptAfter
  <2>2. CASE u # t
    <3>1. pc'[u] = pc[u] /\ zone'[u] = zone[u]
      BY <2>2 DEF OwnStep
    <3>2. zone[u] \in Zones /\ zone[u] # cur[t] /\ zone[u] # zone[t]
      BY <2>2, <3>1, OwnersApart DEF ActiveInv, SpaceInv
    <3>3. capacity'[zone[u]] = capacity[zone[u]]
      BY <3>2 DEF OwnStep, MovesOwn
    <3>4. QED
      BY <3>1, <3>3 DEF ActiveInv, KeptInv, Partial, IsEmpty, IsFull
  <2>3. QED
    BY <2>1, <2>2
<1>4. GotInv'
  <2> SUFFICES ASSUME NEW f \in Files, pc'[f] = "empty" PROVE got'[f]
    BY DEF GotInv
  <2>1. CASE f = t
    BY <2>1 DEF TokensKept, GotAfter
  <2>2. CASE f # t
    BY <2>2 DEF OwnStep, TokensKept, GotAfter, ActiveInv, GotInv
  <2>3. QED
    BY <2>1, <2>2
<1>5. QED
  BY <1>1, <1>2, <1>3, <1>4

\* At the start no zone is active and no token is out.
LEMMA InitActiveInv == Init => ActiveInv
<1> SUFFICES ASSUME Init PROVE ActiveInv
  OBVIOUS
<1>1. SpaceInv
  BY InitSpaceInv
<1>2. TokenType /\ LostInv /\ KeptInv /\ GotInv
  <2>1. Cardinality(ActiveZones) \in Nat
    BY TokenSetsFinite, FS_CardinalityType
  <2>2. ActiveZones = {z \in Zones : Partial(z)}
    BY ZonesPositive DEF Init, ActiveZones
  <2>3. QED
    BY <2>1, <2>2
    DEF Init, TokenType, LostInv, KeptInv, GotInv, NoExtents, MatchStages
<1>3. ActiveLimit
  <2>1. ActiveZones = {z \in Zones : Partial(z)}
    BY ZonesPositive DEF Init, ActiveZones
  <2>2. Got = {} /\ Owing = {}
    BY DEF Init, Got, Owing
  <2>3. {z \in Zones : Partial(z)} = {z \in Zones : InitCapacity[z] \in 1..(MaxCap - 1)}
    <3>1. \A z \in Zones : InitCapacity[z] \in 0..MaxCap
      BY MountAssumption
    <3>2. \A z \in Zones : Partial(z) <=> InitCapacity[z] \in 1..(MaxCap - 1)
      BY <3>1, AllocatorAssumption DEF Init, Partial, IsEmpty, IsFull
    <3>3. QED
      BY <3>2
  <2>4. Cardinality(ActiveZones) \in Nat /\ Cardinality({}) = 0
    BY TokenSetsFinite, FS_CardinalityType, FS_EmptySet
  <2>5. TokensOut = Cardinality(ActiveZones)
    BY <2>2, <2>4, TokenSetsFinite
  <2>6. active_io_zones = Cardinality(ActiveZones)
    BY <2>1 DEF Init
  <2>7. Cardinality(ActiveZones) <= MaxActive
    BY <2>1, <2>3, MountAssumption
  <2>8. QED
    BY <2>4, <2>5, <2>6, <2>7 DEF ActiveLimit
<1>4. QED
  BY <1>1, <1>2, <1>3 DEF ActiveInv

\* The conjuncts of ActiveInv, step by step.
LEMMA NextActiveInv == ActiveInv /\ [Next]_vars => ActiveInv'
<1> SUFFICES ASSUME ActiveInv, [Next]_vars PROVE ActiveInv'
  OBVIOUS
<1>1. SpaceInv /\ SpaceInv'
  BY NextSpaceInv DEF ActiveInv
<1>2. CASE Next
  <2>1. TokenType' /\ KeptInv' /\ GotInv' /\ ActiveLimit'
    <3>1. ASSUME NEW t \in Threads,
                 AcquireNext(t) \/ PutActiveIOZoneToken(t) \/ ResetUnusedIOZones(t)
          PROVE  TokenType' /\ KeptInv' /\ GotInv' /\ ActiveLimit'
      BY <1>1, <3>1, SharedOwnStep, SharedTokens, StepKeepsTokens
    <3>2. ASSUME NEW f \in Files, FileNext(f)
          PROVE  TokenType' /\ KeptInv' /\ GotInv' /\ ActiveLimit'
      BY <1>1, <3>2, FileOwnStep, FileTokens, StepKeepsTokens
    <3>3. ASSUME GCNext
          PROVE  TokenType' /\ KeptInv' /\ GotInv' /\ ActiveLimit'
      BY <1>1, <3>3, CollectorOwnStep, CollectorTokens, StepKeepsTokens
    <3>4. QED
      BY <1>2, <3>1, <3>2, <3>3 DEF Next
  <2>2. QED
    BY <1>1, <1>2, <2>1, NextLostInv DEF ActiveInv
<1>3. CASE UNCHANGED vars
  <2>1. TokenType' /\ LostInv' /\ KeptInv' /\ GotInv'
    BY <1>3
    DEF vars, zoneVars, tokenVars, scanVars, fileVars, gcVars, ActiveInv, TokenType, LostInv,
        KeptInv, GotInv, Partial, IsEmpty, IsFull
  <2>2. ActiveZones' = ActiveZones /\ TokensOut' = TokensOut
    BY <1>3 DEF vars, zoneVars, ActiveZones, TokensOut, Partial, IsEmpty, IsFull
  <2>3. ActiveLimit'
    BY <1>3, <2>2 DEF vars, tokenVars, ActiveInv, ActiveLimit
  <2>4. QED
    BY <1>1, <2>1, <2>3 DEF ActiveInv
<1>4. QED
  BY <1>2, <1>3

\* The accounting of the active tokens holds in every state.
THEOREM ActiveInvariant == Spec => []ActiveInv
BY InitActiveInv, NextActiveInv, PTL DEF Spec

\* AquaFS never has more active zones than the device allows, for any number of
\* zones, writers and tokens and whatever finishes, resets and allocations fail
\* (GetActiveIOZoneTokenIfAvailable, PutActiveIOZoneToken and every path between
\* them).
THEOREM ActiveZonesLimited == Spec => []ActiveLimit
<1>1. ActiveInv => ActiveLimit
  BY DEF ActiveInv
<1>2. QED
  BY <1>1, ActiveInvariant, PTL

-----------------------------------------------------------------------------
(* The types.                                                              *)

\* What nobody relies on but the type invariant.
NoteType ==
  /\ lifetime \in [Zones -> Hints] /\ deferred \in {"OK", "IOError"}
  /\ wr \in [Files -> BOOLEAN]

\* Life time hints, write locks and the deferred status keep their types.
LEMMA NextNoteType ==
  ASSUME NoteType, Next
  PROVE  NoteType'
<1> USE DEF NoteType
<1>1. NotSet \in Hints /\ \A f \in Files : Hint[f] \in Hints
  BY AllocatorAssumption DEF Hints, NotSet
<1>2. ASSUME NEW t \in Threads,
             AcquireNext(t) \/ PutActiveIOZoneToken(t) \/ ResetUnusedIOZones(t)
      PROVE  NoteType'
  BY <1>1, <1>2
  DEF AcquireNext, PutActiveIOZoneToken, ResetUnusedIOZones, Reset, zoneVars, fileVars
<1>3. ASSUME NEW f \in Files, FileNext(f)
      PROVE  NoteType'
  <2> USE DEF AcquireWRLock, ReleaseWRLock, SetZoneDeferredStatus
  <2>1. CASE AllocateEmptyZone(f)
    BY <1>1, <2>1 DEF AllocateEmptyZone
  <2>2. CASE Abandon(f) \/ CloseAgain(f)
    BY <2>2 DEF Abandon, CloseAgain, zoneVars
  <2>3. CASE OpenWritableFile(f) \/ ReopenWritableFile(f) \/ CloseWR(f) \/ DeleteFile(f)
    BY <2>3 DEF OpenWritableFile, ReopenWritableFile, CloseWR, DeleteFile, zoneVars
  <2>4. CASE ~(\/ AllocateEmptyZone(f) \/ Abandon(f) \/ CloseAgain(f) \/ OpenWritableFile(f)
               \/ ReopenWritableFile(f) \/ CloseWR(f) \/ DeleteFile(f))
    <3>1. UNCHANGED <<lifetime, deferred, wr>>
      BY <1>3, <2>4
      DEF FileNext, Write, DataSync, RollZone, Append, BufferedAppend, AppendFails,
          AppendDone, CloseActiveZone, PutOpenIOZoneToken, AllocateIOZone,
          ApplyFinishThreshold, WaitForOpenIOZoneToken, GetBestOpenZoneMatch,
          GetActiveIOZoneTokenIfAvailable, RelaxOrDrop, FinishCheapestIOZone,
          zoneVars, fileVars
    <3>2. QED
      BY <3>1
  <2>5. QED
    BY <2>1, <2>2, <2>3, <2>4
<1>4. ASSUME GCNext
      PROVE  NoteType'
  <2>1. UNCHANGED <<lifetime, deferred>>
    BY <1>4
    DEF GCNext, GCSnapshot, TryAcquireWRLock, TakeMigrateZone, MigrateData,
        ReleaseMigrateZone, ReplaceExtentList, SyncFileExtents, zoneVars
  <2>2. wr' \in [Files -> BOOLEAN]
    BY <1>4
    DEF GCNext, GCSnapshot, TryAcquireWRLock, TakeMigrateZone, MigrateData,
        ReleaseMigrateZone, ReplaceExtentList, SyncFileExtents, fileVars,
        AcquireWRLock, ReleaseWRLock
  <2>3. QED
    BY <2>1, <2>2
<1>5. QED
  BY <1>2, <1>3, <1>4 DEF Next

\* Every variable of the allocator keeps its type: no counter, capacity or used
\* capacity ever drops below zero or exceeds its limit, for any number of
\* writers and zones.
THEOREM AllocatorTypes == Spec => []TypeOK
<1>1. Init => NoteType
  BY DEF Init, NoteType, NotSet, Hints
<1>2. NoteType /\ [Next]_vars => NoteType'
  BY NextNoteType DEF NoteType, vars, zoneVars, fileVars
<1>3. ActiveInv /\ OpenInv /\ NoteType => TypeOK
  <2> SUFFICES ASSUME ActiveInv, OpenInv, NoteType PROVE TypeOK
    OBVIOUS
  <2>1. SpaceInv /\ SpaceType /\ BusyInv /\ TokenType /\ ActiveLimit
    BY DEF ActiveInv, SpaceInv
  <2>2. used \in [Zones -> Nat]
    <3>1. \A z \in Zones : used[z] \in Nat
      BY <2>1, CountTypes
    <3>2. used \in [Zones -> Int]
      BY <2>1 DEF SpaceType
    <3>3. QED
      BY <3>1, <3>2
  <2>3. active_io_zones \in 0..MaxActive
    <3>1. /\ Cardinality(ActiveZones) \in Nat /\ Cardinality(Got) \in Nat
          /\ Cardinality(Owing) \in Nat
          /\ TokensOut = Cardinality(ActiveZones) + Cardinality(Got) + Cardinality(Owing)
      BY TokenSetsFinite, FS_CardinalityType
    <3>2. TokensOut \in Nat
      BY <3>1
    <3>3. QED
      BY <2>1, <3>2, AllocatorAssumption DEF TokenType, ActiveLimit
  <2>4. /\ pc \in [Threads -> FileStages \cup GCStages]
        /\ \A f \in Files : pc[f] \in FileStages
        /\ pc[GC] \in GCStages
        /\ idx \in [Threads -> 1..(NZones + 1)]
        /\ cur \in [Threads -> Zones \cup {NoZone}]
        /\ zone \in [Threads -> Zones \cup {NoZone}]
        /\ busy \in [Zones -> BOOLEAN]
    BY <2>1 DEF BusyInv, PlaceInv, Place, Mutex
  <2>5. QED
    BY <2>1, <2>2, <2>3, <2>4 DEF TypeOK, SpaceType, TokenType, NoteType, OpenInv
<1>4. QED
  BY <1>1, <1>2, <1>3, ActiveInvariant, OpenInvariant, PTL DEF Spec
=============================================================================
