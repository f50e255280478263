---------------------------- MODULE ZoneTokens ----------------------------
(***************************************************************************)
(* The open-zone and active-zone tokens of ZonedBlockDevice                *)
(* (aquafs-plugin/fs/zbd_aquafs.cc): a zoned device bounds how many zones  *)
(* may be open and how many may be active, and AquaFS hands the right to   *)
(* write to a zone out as tokens counted under zone_resources_mtx_.        *)
(* Allocators that find no open token sleep on the condition variable      *)
(* zone_resources_; whoever returns a token wakes ONE sleeper              *)
(* (notify_one).                                                           *)
(*                                                                         *)
(* The zones that nobody has acquired are counted by their fill; a zone    *)
(* that a thread or the collector has acquired is known by its holder's    *)
(* stage.  Which zone a scan picks is the subject of ZoneAllocator: here a *)
(* scan may miss a zone, because it acquires them one at a time.           *)
(***************************************************************************)
EXTENDS Integers, FiniteSets

CONSTANTS
  Wal,        \* threads that allocate for write-ahead logs (IOType::kWAL)
  NonWal,     \* threads that allocate for all the other files
  MaxOpen,    \* max_nr_open_io_zones_
  MaxActive,  \* max_nr_active_io_zones_
  NrZones,    \* io_zones.size()
  MaxLost     \* bound: tokens that go out and never come back

ASSUME ThreadsAssumption ==
  /\ IsFiniteSet(Wal) /\ IsFiniteSet(NonWal)
  /\ Wal \cap NonWal = {}

\* ZonedBlockDevice::Open subtracts two reserved zones from the limits of the
\* device; a device that leaves none cannot be written at all.
ASSUME LimitsAssumption ==
  /\ MaxOpen \in Nat \ {0}
  /\ MaxActive \in Nat \ {0}
  /\ NrZones \in Nat /\ MaxLost \in Nat

Threads == Wal \cup NonWal

VARIABLES
  open_io_zones,    \* tokens handed out, open
  active_io_zones,  \* tokens handed out, active
  empty,            \* zones nobody has acquired: empty ones,
  part,             \* partly written ones
  full,             \* and full ones
  migrating,        \* the collector has acquired a partly written zone
  lost,             \* history: tokens of each kind that no path will return
  pc                \* where each thread stands

zones == <<empty, part, full, migrating>>
vars == <<open_io_zones, active_io_zones, zones, lost, pc>>

(***************************************************************************)
(* "idle": not allocating and no active zone; "check": evaluates the       *)
(* predicate of the wait under the mutex; "asleep": blocked in the wait;   *)
(* "pick": open token taken, looks for a zone to fill; "weigh": has        *)
(* acquired one that matches badly; "try", "loop": has none and asks for   *)
(* an active token, for the first time and in the loop; "finish": asked in *)
(* vain; "got": has both tokens; "fresh": has acquired an empty zone and   *)
(* not written it yet; "hold": writes its zone; "putopen": returns the     *)
(* open token; "putboth": the zone written is full, both tokens go back;   *)
(* "putactive": the open one is back.                                      *)
(***************************************************************************)
Stages ==
  {"idle", "check", "asleep", "pick", "weigh", "try", "loop", "finish", "got",
   "fresh", "hold", "putopen", "putboth", "putactive"}

At(stages) == {t \in Threads : pc[t] \in stages}

\* Mutant of Limit: no token is reserved.
LimitUnreserved(t) == MaxOpen

\* Non-WAL allocators leave one open token to the WAL ones.
Limit(t) == IF t \in Wal THEN MaxOpen ELSE MaxOpen - 1

\* Open token not yet returned.
OpenStages ==
  {"pick", "weigh", "try", "loop", "finish", "got", "fresh", "hold", "putopen",
   "putboth"}

\* Answers for an active token: its zone's, or one that goes back.
ActiveStages == {"weigh", "got", "fresh", "hold", "putboth", "putactive"}

\* zone_resources_.notify_one() with the threads at the stages moved: at most
\* one sleeper, any of them, goes back to its predicate.
Wake(moved) ==
  \/ At({"asleep"}) = {} /\ pc' = moved
  \/ \E u \in At({"asleep"}) : pc' = [moved EXCEPT ![u] = "check"]

\* Mutant of NotifyOne: the notification is missing.
NotifyNobody(t, s) == pc' = [pc EXCEPT ![t] = s]

\* Thread t moves to stage s and notifies.
NotifyOne(t, s) == Wake([pc EXCEPT ![t] = s])

\* A token of the kind is out for good: the bound of the model.
Lose(kind) ==
  /\ lost.open + lost.active < MaxLost
  /\ lost' = [lost EXCEPT ![kind] = @ + 1]

-----------------------------------------------------------------------------
\* ZonedBlockDevice::Open counts the zones it finds partly written as active.
Init ==
  /\ open_io_zones = 0
  /\ empty \in 0..NrZones /\ part \in 0..MaxActive /\ full \in 0..NrZones
  /\ empty + part + full = NrZones
  /\ active_io_zones = part
  /\ migrating = FALSE
  /\ lost = [open |-> 0, active |-> 0]
  /\ pc = [t \in Threads |-> "idle"]

\* An allocation without priority first finishes a zone that is nearly full:
\* ApplyFinishThreshold.  A finish that fails ends the allocation.
ApplyFinishThreshold(t) ==
  /\ t \in NonWal /\ pc[t] = "idle"
  /\ part > 0
  /\ part' = part - 1 /\ full' = full + 1
  /\ active_io_zones' = active_io_zones - 1
  /\ NotifyOne(t, "idle")
  /\ UNCHANGED <<open_io_zones, empty, migrating, lost>>

\* A file needs a zone: AllocateIOZone reaches WaitForOpenIOZoneToken.
Request(t) ==
  /\ pc[t] = "idle"
  /\ pc' = [pc EXCEPT ![t] = "check"]
  /\ UNCHANGED <<open_io_zones, active_io_zones, zones, lost>>

WaitForOpenIOZoneToken(t) ==
  /\ pc[t] = "check"
  /\ \/ /\ open_io_zones < Limit(t)
        /\ open_io_zones' = open_io_zones + 1
        /\ pc' = [pc EXCEPT ![t] = "pick"]
     \/ /\ open_io_zones >= Limit(t)
        /\ pc' = [pc EXCEPT ![t] = "asleep"]
        /\ UNCHANGED open_io_zones
  /\ UNCHANGED <<active_io_zones, zones, lost>>

\* GetBestOpenZoneMatch acquires a partly written zone whose data lives about as
\* long, or one that matches badly, or finds none.
GetBestOpenZoneMatch(t) ==
  /\ pc[t] = "pick"
  /\ \/ /\ part > 0
        /\ part' = part - 1
        /\ \E s \in {"hold", "weigh"} : pc' = [pc EXCEPT ![t] = s]
     \/ /\ pc' = [pc EXCEPT ![t] = "try"]
        /\ UNCHANGED part
  /\ UNCHANGED <<open_io_zones, active_io_zones, empty, full, migrating, lost>>

\* Mutant of GetActiveIOZoneTokenIfAvailable: <= for <.
GetActiveIOZoneTokenOffByOne(t) ==
  /\ pc[t] \in {"weigh", "try", "loop"}
  /\ active_io_zones <= MaxActive
  /\ active_io_zones' = active_io_zones + 1
  /\ part' = IF pc[t] = "weigh" THEN part + 1 ELSE part
  /\ pc' = [pc EXCEPT ![t] = "got"]
  /\ UNCHANGED <<open_io_zones, empty, full, migrating, lost>>

\* With an active token the thread releases what it has and goes for an empty
\* zone.
GetActiveIOZoneTokenIfAvailable(t) ==
  /\ pc[t] \in {"weigh", "try", "loop"}
  /\ active_io_zones < MaxActive
  /\ active_io_zones' = active_io_zones + 1
  /\ part' = IF pc[t] = "weigh" THEN part + 1 ELSE part
  /\ pc' = [pc EXCEPT ![t] = "got"]
  /\ UNCHANGED <<open_io_zones, empty, full, migrating, lost>>

\* Without one it writes the zone that matches badly or releases it, and asks
\* again in the loop, where the next step is to finish a zone.
GetNoActiveIOZoneToken(t) ==
  /\ active_io_zones >= MaxActive
  /\ \/ /\ pc[t] = "weigh"
        /\ pc' = [pc EXCEPT ![t] = "hold"]
        /\ UNCHANGED part
     \/ /\ pc[t] = "weigh"
        /\ part' = part + 1
        /\ pc' = [pc EXCEPT ![t] = "loop"]
     \/ /\ pc[t] = "try"
        /\ pc' = [pc EXCEPT ![t] = "loop"]
        /\ UNCHANGED part
     \/ /\ pc[t] = "loop"
        /\ pc' = [pc EXCEPT ![t] = "finish"]
        /\ UNCHANGED part
  /\ UNCHANGED <<open_io_zones, active_io_zones, empty, full, migrating, lost>>

\* Mutant of FinishCheapestIOZone: the token goes back although no victim was
\* found.
FinishNoVictim(t) ==
  /\ pc[t] = "finish"
  /\ active_io_zones' = active_io_zones - 1
  /\ NotifyOne(t, "loop")
  /\ UNCHANGED <<open_io_zones, zones, lost>>

\* FinishCheapestIOZone finishes a partly written zone nobody has and returns
\* its token; or the device refuses and the allocation fails; or every such
\* zone is taken.  Then the loop of AllocateIOZone asks again.
FinishCheapestIOZone(t) ==
  /\ pc[t] = "finish"
  /\ \/ /\ part > 0
        /\ part' = part - 1 /\ full' = full + 1
        /\ active_io_zones' = active_io_zones - 1
        /\ NotifyOne(t, "loop")
     \/ /\ part > 0
        /\ pc' = [pc EXCEPT ![t] = "putopen"]
        /\ UNCHANGED <<active_io_zones, part, full>>
     \/ /\ pc' = [pc EXCEPT ![t] = "loop"]
        /\ UNCHANGED <<active_io_zones, part, full>>
  /\ UNCHANGED <<open_io_zones, empty, migrating, lost>>

\* With both tokens: an empty zone was found, or none was.  In the second case
\* the active token goes back first.
AllocateEmptyZone(t) ==
  /\ pc[t] = "got"
  /\ \/ /\ empty > 0
        /\ empty' = empty - 1
        /\ pc' = [pc EXCEPT ![t] = "fresh"]
        /\ UNCHANGED active_io_zones
     \/ /\ active_io_zones' = active_io_zones - 1
        /\ NotifyOne(t, "putopen")
        /\ UNCHANGED empty
  /\ UNCHANGED <<open_io_zones, part, full, migrating, lost>>

\* Zone::Append succeeds on the new zone.
Append(t) ==
  /\ pc[t] = "fresh"
  /\ pc' = [pc EXCEPT ![t] = "hold"]
  /\ UNCHANGED <<open_io_zones, active_io_zones, zones, lost>>

\* CloseActiveZone by the user of the file: the zone is released before its
\* tokens go back.  A zone with capacity left stays active; a full one gives up
\* its active token.  A zone whose first append failed is still empty, and the
\* active token taken for it is not returned.  When the device fails to close
\* the zone, the function returns before PutOpenIOZoneToken.
CloseActiveZone(t) ==
  /\ \/ /\ pc[t] = "hold"
        /\ part' = part + 1
        /\ pc' = [pc EXCEPT ![t] = "putopen"]
        /\ UNCHANGED <<empty, full, lost>>
     \/ /\ pc[t] = "hold"
        /\ full' = full + 1
        /\ pc' = [pc EXCEPT ![t] = "putboth"]
        /\ UNCHANGED <<empty, part, lost>>
     \/ /\ pc[t] = "hold"
        /\ part' = part + 1
        /\ Lose("open")
        /\ pc' = [pc EXCEPT ![t] = "idle"]
        /\ UNCHANGED <<empty, full>>
     \/ /\ pc[t] = "fresh"
        /\ empty' = empty + 1
        /\ Lose("active")
        /\ pc' = [pc EXCEPT ![t] = "putopen"]
        /\ UNCHANGED <<part, full>>
  /\ UNCHANGED <<open_io_zones, active_io_zones, migrating>>

\* Mutant of PutOpenIOZoneToken: the error path keeps the token.
PutOpenForgotten(t) ==
  /\ pc[t] = "putopen"
  /\ pc' = [pc EXCEPT ![t] = "idle"]
  /\ UNCHANGED <<open_io_zones, active_io_zones, zones, lost>>

PutOpenIOZoneToken(t) ==
  /\ open_io_zones' = open_io_zones - 1
  /\ \/ pc[t] = "putopen" /\ NotifyOne(t, "idle")
     \/ pc[t] = "putboth" /\ NotifyOne(t, "putactive")
  /\ UNCHANGED <<active_io_zones, zones, lost>>

\* The active token of a zone that was written full.
PutActiveIOZoneToken(t) ==
  /\ pc[t] = "putactive"
  /\ active_io_zones' = active_io_zones - 1
  /\ NotifyOne(t, "idle")
  /\ UNCHANGED <<open_io_zones, zones, lost>>

\* The collector acquires a partly written zone, without tokens of its own,
TakeMigrateZone ==
  /\ ~migrating /\ part > 0
  /\ part' = part - 1
  /\ migrating' = TRUE
  /\ UNCHANGED <<open_io_zones, active_io_zones, empty, full, lost, pc>>

\* and releases it.  If it has written it full, nobody returns its active token.
ReleaseMigrateZone ==
  /\ migrating
  /\ migrating' = FALSE
  /\ \/ part' = part + 1 /\ UNCHANGED <<full, lost>>
     \/ full' = full + 1 /\ Lose("active") /\ UNCHANGED part
  /\ UNCHANGED <<open_io_zones, active_io_zones, empty, pc>>

\* Zones without data are reset; one that was not full returns its active token.
ResetUnusedIOZones ==
  /\ empty' = empty + 1
  /\ \/ /\ part > 0
        /\ part' = part - 1
        /\ active_io_zones' = active_io_zones - 1
        /\ Wake(pc)
        /\ UNCHANGED full
     \/ /\ full > 0
        /\ full' = full - 1
        /\ UNCHANGED <<part, active_io_zones, pc>>
  /\ UNCHANGED <<open_io_zones, migrating, lost>>

\* What a thread does by itself once it asked for a zone, or closed it.
Allocate(t) ==
  \/ WaitForOpenIOZoneToken(t)
  \/ GetBestOpenZoneMatch(t)
  \/ GetActiveIOZoneTokenIfAvailable(t)
  \/ GetNoActiveIOZoneToken(t)
  \/ FinishCheapestIOZone(t)
  \/ AllocateEmptyZone(t)
  \/ PutOpenIOZoneToken(t)
  \/ PutActiveIOZoneToken(t)

\* What its user asks for.
Use(t) ==
  \/ ApplyFinishThreshold(t)
  \/ Request(t)
  \/ Append(t)
  \/ CloseActiveZone(t)

Next ==
  \/ \E t \in Threads : Allocate(t) \/ Use(t)
  \/ TakeMigrateZone
  \/ ReleaseMigrateZone
  \/ ResetUnusedIOZones

\* The operating system runs every runnable thread.  Opening, writing and
\* closing files is up to the user, and when the collector runs is up to its
\* timer: they have no fairness.
Fairness == \A t \in Threads : WF_vars(Allocate(t))

Spec == Init /\ [][Next]_vars /\ Fairness

-----------------------------------------------------------------------------
TypeOK ==
  /\ open_io_zones \in 0..MaxOpen
  /\ active_io_zones \in 0..MaxActive
  /\ empty \in Nat /\ part \in Nat /\ full \in Nat
  /\ migrating \in BOOLEAN
  /\ lost \in [open : Nat, active : Nat]
  /\ pc \in [Threads -> Stages]

\* Every open token that is out is owed by exactly one thread, or was lost by a
\* close the device refused: no other path of AllocateIOZone or CloseActiveZone
\* returns one twice or drops one (zbd_aquafs.cc WaitForOpenIOZoneToken /
\* PutOpenIOZoneToken, io_aquafs.cc CloseActiveZone).
OpenTokensOwed == open_io_zones = Cardinality(At(OpenStages)) + lost.open

\* The active tokens out are, one each, those of the partly written zones
\* nobody has, of the threads that write one or are about to, and of the
\* collector; beyond these only the ones of new zones never written and of
\* zones the collector filled.  So no finish, reset, close or failed allocation
\* gives back the token of a zone that is still active, or keeps that of one
\* that is not (zbd_aquafs.cc FinishCheapestIOZone, ResetUnusedIOZones).
ActiveTokensExact ==
  active_io_zones = part + Cardinality(At(ActiveStages)) + lost.active
                      + (IF migrating THEN 1 ELSE 0)

\* The last open token is for write-ahead logs: the other allocators together
\* never hold more than MaxOpen - 1 (the lower limit in
\* WaitForOpenIOZoneToken), however they interleave with the WAL ones.
ReservedForWal == Cardinality(At(OpenStages) \cap NonWal) <= MaxOpen - 1

\* A thread that sleeps although its own predicate holds.
Stranded(t) == pc[t] = "asleep" /\ open_io_zones < Limit(t)

\* A token that comes back reaches somebody: no allocator without priority
\* sleeps for ever beside a token it may take, whoever notify_one wakes
\* (PutOpenIOZoneToken).  WAL allocators may: what is woken beside the reserved
\* token may be a waiter that must not take it.
WaitersAreServed == \A t \in NonWal : Stranded(t) ~> ~Stranded(t)
=============================================================================
