------------------------- MODULE ZoneTokensProofs -------------------------
(***************************************************************************)
(* The token accounting of ZoneTokens for every number of threads and      *)
(* every limit and size of the device.                                     *)
(***************************************************************************)
EXTENDS ZoneTokens, FiniteSetTheorems, TLAPS

\* The threads that function f puts at one of the given stages.
Members(f, stages) == {t \in Threads : f[t] \in stages}

\* There are finitely many allocating threads.
LEMMA ThreadsFinite == IsFiniteSet(Threads)
BY ThreadsAssumption, FS_Union DEF Threads

\* The stages are finite sets of threads.
LEMMA MembersFinite ==
  ASSUME NEW f, NEW stages
  PROVE  /\ IsFiniteSet(Members(f, stages))
         /\ IsFiniteSet(Members(f, stages) \cap NonWal)
         /\ Cardinality(Members(f, stages)) \in Nat
         /\ Cardinality(Members(f, stages) \cap NonWal) \in Nat
         /\ Cardinality(Members(f, stages) \cap NonWal)
              <= Cardinality(Members(f, stages))
<1>1. Members(f, stages) \in SUBSET Threads
  BY DEF Members
<1>2. IsFiniteSet(Members(f, stages))
  BY <1>1, ThreadsFinite, FS_Subset
<1>3. Members(f, stages) \cap NonWal \in SUBSET Members(f, stages)
  OBVIOUS
<1>4. IsFiniteSet(Members(f, stages) \cap NonWal)
  BY <1>2, <1>3, FS_Subset
<1>5. QED
  BY <1>2, <1>3, <1>4, FS_Subset, FS_CardinalityType

\* f and g put every thread but t on the same side of the boundary of stages.
Apart(f, g, t, stages) ==
  \A u \in Threads \ {t} : g[u] \in stages <=> f[u] \in stages

\* A thread stays on its side of the boundary: the members stay.
LEMMA MoveInside ==
  ASSUME NEW f, NEW g, NEW t \in Threads, NEW stages,
         Apart(f, g, t, stages), f[t] \in stages <=> g[t] \in stages
  PROVE  Members(g, stages) = Members(f, stages)
BY DEF Members, Apart

\* A thread enters the stages: one member more.
LEMMA MoveIn ==
  ASSUME NEW f, NEW g, NEW t \in Threads, NEW stages,
         Apart(f, g, t, stages), f[t] \notin stages, g[t] \in stages
  PROVE  /\ Members(g, stages) = Members(f, stages) \cup {t}
         /\ Cardinality(Members(g, stages)) = Cardinality(Members(f, stages)) + 1
<1>1. Members(g, stages) = Members(f, stages) \cup {t}
  BY DEF Members, Apart
<1>2. t \notin Members(f, stages)
  BY DEF Members
<1>3. QED
  BY <1>1, <1>2, MembersFinite, FS_AddElement

\* A thread leaves the stages: one member less, and there was one.
LEMMA MoveOut ==
  ASSUME NEW f, NEW g, NEW t \in Threads, NEW stages,
         Apart(f, g, t, stages), f[t] \in stages, g[t] \notin stages
  PROVE  /\ Members(g, stages) = Members(f, stages) \ {t}
         /\ Cardinality(Members(g, stages)) = Cardinality(Members(f, stages)) - 1
         /\ Cardinality(Members(f, stages)) >= 1
<1>1. Members(g, stages) = Members(f, stages) \ {t}
  BY DEF Members, Apart
<1>2. t \in Members(f, stages)
  BY DEF Members
<1>3. Cardinality(Members(g, stages)) = Cardinality(Members(f, stages)) - 1
  BY <1>1, <1>2, MembersFinite, FS_RemoveElement
<1>4. Cardinality(Members(f, stages)) >= 1
  <2>1. /\ Cardinality(Members(f, stages)) \in Nat
        /\ Cardinality(Members(g, stages)) \in Nat
    BY MembersFinite
  <2>2. QED
    BY <1>3, <2>1
<1>5. QED
  BY <1>1, <1>3, <1>4

\* What a thread at stage s counts for.
Weight(s, stages) == IF s \in stages THEN 1 ELSE 0

\* The members change by what the moved thread counts for.
LEMMA MoveCount ==
  ASSUME NEW f, NEW g, NEW t \in Threads, NEW stages, Apart(f, g, t, stages)
  PROVE  Cardinality(Members(g, stages))
           = Cardinality(Members(f, stages)) + Weight(g[t], stages) - Weight(f[t], stages)
<1>0. /\ Cardinality(Members(f, stages)) \in Nat
      /\ Cardinality(Members(g, stages)) \in Nat
  BY MembersFinite
<1>1. CASE f[t] \in stages <=> g[t] \in stages
  <2>1. Members(g, stages) = Members(f, stages)
    BY <1>1, MoveInside
  <2>2. Weight(g[t], stages) = Weight(f[t], stages) /\ Weight(f[t], stages) \in Int
    BY <1>1 DEF Weight
  <2>3. QED
    BY <1>0, <2>1, <2>2
<1>2. CASE f[t] \notin stages /\ g[t] \in stages
  <2>1. Cardinality(Members(g, stages)) = Cardinality(Members(f, stages)) + 1
    BY <1>2, MoveIn
  <2>2. QED
    BY <1>0, <1>2, <2>1 DEF Weight
<1>3. CASE f[t] \in stages /\ g[t] \notin stages
  <2>1. Cardinality(Members(g, stages)) = Cardinality(Members(f, stages)) - 1
    BY <1>3, MoveOut
  <2>2. QED
    BY <1>0, <1>3, <2>1 DEF Weight
<1>4. QED
  BY <1>1, <1>2, <1>3

\* A wake-up moves a sleeper to its predicate: nobody else's tokens change.
LEMMA WakeApart ==
  ASSUME pc \in [Threads -> Stages], NEW t \in Threads, NEW s \in Stages,
         pc[t] # "asleep", Wake([pc EXCEPT ![t] = s])
  PROVE  /\ pc' \in [Threads -> Stages]
         /\ pc'[t] = s
         /\ Apart(pc, pc', t, OpenStages)
         /\ Apart(pc, pc', t, ActiveStages)
<1>1. CASE pc' = [pc EXCEPT ![t] = s]
  BY <1>1 DEF Apart
<1>2. CASE \E u \in At({"asleep"}) :
             pc' = [[pc EXCEPT ![t] = s] EXCEPT ![u] = "check"]
  <2>1. PICK u \in Threads :
          /\ pc[u] = "asleep"
          /\ pc' = [[pc EXCEPT ![t] = s] EXCEPT ![u] = "check"]
    BY <1>2 DEF At
  <2>2. /\ pc'[t] = s
        /\ pc'[u] = "check"
        /\ \A v \in Threads \ {t, u} : pc'[v] = pc[v]
    BY <2>1
  <2>3. pc' \in [Threads -> Stages]
    BY <2>1 DEF Stages
  <2>4. QED
    BY <2>1, <2>2, <2>3 DEF Apart, OpenStages, ActiveStages
<1>3. QED
  BY <1>1, <1>2 DEF Wake

\* A thread that moves alone.
LEMMA MoveApart ==
  ASSUME pc \in [Threads -> Stages], NEW t \in Threads, NEW s \in Stages,
         pc' = [pc EXCEPT ![t] = s]
  PROVE  /\ pc' \in [Threads -> Stages]
         /\ pc'[t] = s
         /\ Apart(pc, pc', t, OpenStages)
         /\ Apart(pc, pc', t, ActiveStages)
BY DEF Apart

\* Which stages owe an open token and which answer for an active one.
LEMMA StageFacts ==
  /\ \A s \in {"idle", "check", "asleep", "pick", "weigh", "try", "loop", "finish",
               "got", "fresh", "hold", "putopen", "putboth", "putactive"} : s \in Stages
  /\ \A s \in {"idle", "check", "asleep", "putactive"} :
       s \notin OpenStages /\ Weight(s, OpenStages) = 0
  /\ \A s \in {"pick", "weigh", "try", "loop", "finish", "got", "fresh", "hold",
               "putopen", "putboth"} :
       s \in OpenStages /\ Weight(s, OpenStages) = 1
  /\ \A s \in {"idle", "check", "asleep", "pick", "try", "loop", "finish", "putopen"} :
       s \notin ActiveStages /\ Weight(s, ActiveStages) = 0
  /\ \A s \in {"weigh", "got", "fresh", "hold", "putboth", "putactive"} :
       s \in ActiveStages /\ Weight(s, ActiveStages) = 1
BY DEF Stages, OpenStages, ActiveStages, Weight

-----------------------------------------------------------------------------
(***************************************************************************)
(* The inductive invariant is the conjunction itself: the counters can be  *)
(* kept in step with the holders only together with the type of pc, the    *)
(* exact counts keep them from falling below zero, and the WAL reserve     *)
(* follows from the exact count of the open tokens.                        *)
(***************************************************************************)
TokenInv == TypeOK /\ OpenTokensOwed /\ ActiveTokensExact /\ ReservedForWal

\* What the collector holds.
Taken(m) == IF m THEN 1 ELSE 0

\* The invariant, with the members named by the function that places them.
LEMMA TokenInvMembers ==
  /\ OpenTokensOwed <=>
       open_io_zones = Cardinality(Members(pc, OpenStages)) + lost.open
  /\ ActiveTokensExact <=>
       active_io_zones = part + Cardinality(Members(pc, ActiveStages)) + lost.active
                           + Taken(migrating)
  /\ ReservedForWal <=>
       Cardinality(Members(pc, OpenStages) \cap NonWal) <= MaxOpen - 1
BY DEF OpenTokensOwed, ActiveTokensExact, ReservedForWal, At, Members, Taken

\* The same for the state after a step, in the form the steps establish it.
LEMMA TokenInvMembersNext ==
  /\ OpenTokensOwed' <=>
       open_io_zones' = Cardinality(Members(pc', OpenStages)) + lost'.open
  /\ ActiveTokensExact' <=>
       active_io_zones' = part' + Cardinality(Members(pc', ActiveStages)) + lost'.active
                           + Taken(migrating')
  /\ ReservedForWal' <=>
       Cardinality(Members(pc', OpenStages) \cap NonWal) <= MaxOpen - 1
BY DEF OpenTokensOwed, ActiveTokensExact, ReservedForWal, At, Members, Taken

\* The counts are numbers, before and after a step.
LEMMA Counts ==
  /\ Cardinality(Members(pc, OpenStages)) \in Nat
  /\ Cardinality(Members(pc', OpenStages)) \in Nat
  /\ Cardinality(Members(pc, ActiveStages)) \in Nat
  /\ Cardinality(Members(pc', ActiveStages)) \in Nat
  /\ Cardinality(Members(pc, OpenStages) \cap NonWal) \in Nat
  /\ Cardinality(Members(pc', OpenStages) \cap NonWal) \in Nat
  /\ Cardinality(Members(pc', OpenStages) \cap NonWal)
       <= Cardinality(Members(pc', OpenStages))
BY MembersFinite

\* A mounted device has counted its active zones: the invariant holds initially.
LEMMA TokenInit == Init => TokenInv
<1> SUFFICES ASSUME Init PROVE TokenInv
  OBVIOUS
<1>1. TypeOK
  <2>1. pc \in [Threads -> Stages]
    BY DEF Init, Stages
  <2>2. lost \in [open : Nat, active : Nat]
    BY DEF Init
  <2>3. migrating \in BOOLEAN
    BY Zenon DEF Init
  <2>4. QED
    BY <2>1, <2>2, <2>3, LimitsAssumption DEF Init, TypeOK
<1>2. Members(pc, OpenStages) = {} /\ Members(pc, ActiveStages) = {}
  BY DEF Init, Members, OpenStages, ActiveStages
<1>3. Cardinality({}) = 0
  BY FS_EmptySet
<1>4. Members(pc, OpenStages) \cap NonWal = {}
  BY <1>2
<1>5. OpenTokensOwed /\ ActiveTokensExact
  <2>1. Taken(migrating) = 0 /\ lost.open = 0 /\ lost.active = 0 /\ part \in Nat
    BY LimitsAssumption DEF Init, Taken
  <2>2. QED
    BY <1>2, <1>3, <2>1, TokenInvMembers DEF Init
<1>6. ReservedForWal
  <2>1. 0 <= MaxOpen - 1
    BY LimitsAssumption
  <2>2. QED
    BY <1>3, <1>4, <2>1, TokenInvMembers
<1>7. QED
  BY <1>1, <1>5, <1>6 DEF TokenInv

\* The reserve survives a step after which the open tokens are with the same
\* threads or with fewer of them.
LEMMA ReserveShrinks ==
  ASSUME TokenInv, Members(pc', OpenStages) \subseteq Members(pc, OpenStages)
  PROVE  ReservedForWal'
<1> DEFINE old == Members(pc, OpenStages) \cap NonWal
           new == Members(pc', OpenStages) \cap NonWal
<1>1. IsFiniteSet(old) /\ Cardinality(old) \in Nat
  BY MembersFinite
<1>2. Cardinality(new) \in Nat
  BY MembersFinite
<1>3. Cardinality(new) <= Cardinality(old)
  BY <1>1, FS_Subset
<1>4. Cardinality(old) <= MaxOpen - 1
  BY TokenInvMembers DEF TokenInv
<1>5. QED
  BY <1>1, <1>2, <1>3, <1>4, TokenInvMembersNext, LimitsAssumption

\* The zones and the lost tokens after a step keep their types.
TypesKept ==
  /\ empty' \in Nat /\ part' \in Nat /\ full' \in Nat /\ migrating' \in BOOLEAN
  /\ lost' \in [open : Nat, active : Nat]

\* The counters follow what thread t counts for and what is lost, and the
\* active ones also the zones.
OpenBalance(t) ==
  open_io_zones' = open_io_zones + Weight(pc'[t], OpenStages)
     - Weight(pc[t], OpenStages) + lost'.open - lost.open

ActiveBalance(t) ==
  active_io_zones' = active_io_zones + Weight(pc'[t], ActiveStages)
     - Weight(pc[t], ActiveStages) + lost'.active - lost.active
     + part' - part + Taken(migrating') - Taken(migrating)

\* What the step of one thread has to balance.
LEMMA Balance ==
  ASSUME TokenInv, NEW t \in Threads,
         pc' \in [Threads -> Stages],
         Apart(pc, pc', t, OpenStages), Apart(pc, pc', t, ActiveStages),
         TypesKept,
         OpenBalance(t), ActiveBalance(t),
         open_io_zones' <= MaxOpen, active_io_zones' <= MaxActive,
         ReservedForWal'
  PROVE  TokenInv'
<1> DEFINE o == Cardinality(Members(pc, OpenStages))
           p == Cardinality(Members(pc', OpenStages))
           a == Cardinality(Members(pc, ActiveStages))
           b == Cardinality(Members(pc', ActiveStages))
<1>1. /\ p = o + Weight(pc'[t], OpenStages) - Weight(pc[t], OpenStages)
      /\ b = a + Weight(pc'[t], ActiveStages) - Weight(pc[t], ActiveStages)
  BY MoveCount
<1>2. o \in Nat /\ p \in Nat /\ a \in Nat /\ b \in Nat
  BY Counts
<1>3. \A x, S : Weight(x, S) \in Int
  BY DEF Weight
<1>4. /\ Taken(migrating) \in {0, 1} /\ Taken(migrating') \in {0, 1}
      /\ lost.open \in Nat /\ lost.active \in Nat
      /\ lost'.open \in Nat /\ lost'.active \in Nat
      /\ part \in Nat /\ open_io_zones \in Nat /\ active_io_zones \in Nat
      /\ part' \in Nat
  BY LimitsAssumption DEF TokenInv, TypeOK, TypesKept, Taken
<1>5. /\ open_io_zones = o + lost.open
      /\ active_io_zones = part + a + lost.active + Taken(migrating)
  BY TokenInvMembers DEF TokenInv
<1> HIDE DEF o, p, a, b
<1>6. open_io_zones' = p + lost'.open
  BY <1>1, <1>2, <1>3, <1>4, <1>5 DEF OpenBalance
<1>7. active_io_zones' = part' + b + lost'.active + Taken(migrating')
  BY <1>1, <1>2, <1>3, <1>4, <1>5 DEF ActiveBalance
<1>8. TypeOK'
  BY <1>2, <1>4, <1>6, <1>7, LimitsAssumption DEF TypeOK, TypesKept
<1>9. OpenTokensOwed' /\ ActiveTokensExact'
  BY <1>6, <1>7, TokenInvMembersNext DEF p, b
<1>10. QED
  BY <1>8, <1>9 DEF TokenInv

\* The same for a step that takes no open token.
LEMMA BalanceNoOpen ==
  ASSUME TokenInv, NEW t \in Threads,
         pc' \in [Threads -> Stages],
         Apart(pc, pc', t, OpenStages), Apart(pc, pc', t, ActiveStages),
         TypesKept,
         pc'[t] \in OpenStages => pc[t] \in OpenStages,
         OpenBalance(t), ActiveBalance(t),
         open_io_zones' <= MaxOpen, active_io_zones' <= MaxActive
  PROVE  TokenInv'
<1>1. Members(pc', OpenStages) \subseteq Members(pc, OpenStages)
  BY DEF Members, Apart
<1>2. ReservedForWal'
  BY <1>1, ReserveShrinks
<1>3. QED
  BY <1>2, Balance

\* Each step of Next keeps the invariant.
LEMMA TokenStep == TokenInv /\ [Next]_vars => TokenInv'
<1> SUFFICES ASSUME TokenInv, [Next]_vars PROVE TokenInv'
  OBVIOUS
<1> USE StageFacts
<1>0. /\ pc \in [Threads -> Stages]
      /\ open_io_zones \in Nat /\ open_io_zones <= MaxOpen
      /\ active_io_zones \in Nat /\ active_io_zones <= MaxActive
      /\ MaxOpen \in Nat /\ MaxActive \in Nat /\ MaxLost \in Nat
      /\ empty \in Nat /\ part \in Nat /\ full \in Nat /\ migrating \in BOOLEAN
      /\ lost \in [open : Nat, active : Nat]
      /\ lost.open \in Nat /\ lost.active \in Nat
  BY LimitsAssumption DEF TokenInv, TypeOK
<1>01. /\ Taken(migrating) \in Int
       /\ \A k \in {"open", "active"} : Lose(k) =>
            /\ lost' \in [open : Nat, active : Nat]
            /\ lost'[k] = lost[k] + 1
            /\ \A j \in {"open", "active"} \ {k} : lost'[j] = lost[j]
  BY <1>0 DEF Taken, Lose
<1>1. ASSUME NEW t \in Threads, Allocate(t) PROVE TokenInv'
  <2>1. CASE WaitForOpenIOZoneToken(t)
    <3> USE DEF WaitForOpenIOZoneToken, zones
    <3>1. CASE pc' = [pc EXCEPT ![t] = "asleep"] /\ UNCHANGED open_io_zones
      <4>1. /\ pc' \in [Threads -> Stages] /\ pc'[t] = "asleep"
            /\ Apart(pc, pc', t, OpenStages) /\ Apart(pc, pc', t, ActiveStages)
        BY <1>0, <3>1, MoveApart
      <4>2. TypesKept /\ open_io_zones' <= MaxOpen /\ active_io_zones' <= MaxActive
        BY <1>0, <1>01, <2>1, <3>1, <4>1 DEF TypesKept
      <4>3. OpenBalance(t)
        BY <1>0, <1>01, <2>1, <3>1, <4>1 DEF OpenBalance
      <4>4. ActiveBalance(t)
        BY <1>0, <1>01, <2>1, <3>1, <4>1 DEF ActiveBalance
      <4>5. pc'[t] \in OpenStages => pc[t] \in OpenStages
        BY <1>0, <1>01, <2>1, <3>1, <4>1
      <4>6. QED
        BY <1>0, <1>01, <2>1, <3>1, <4>1, <4>2, <4>3, <4>4, <4>5, BalanceNoOpen
    <3>2. CASE open_io_zones < Limit(t) /\ pc' = [pc EXCEPT ![t] = "pick"]
               /\ open_io_zones' = open_io_zones + 1
      <4>1. /\ pc' \in [Threads -> Stages] /\ pc'[t] = "pick"
            /\ Apart(pc, pc', t, OpenStages) /\ Apart(pc, pc', t, ActiveStages)
        BY <1>0, <3>2, MoveApart
      <4>2. /\ Members(pc', OpenStages) = Members(pc, OpenStages) \cup {t}
            /\ Cardinality(Members(pc', OpenStages))
                 = Cardinality(Members(pc, OpenStages)) + 1
        BY <2>1, <4>1, MoveIn
      <4>3. ReservedForWal'
        <5>1. CASE t \in NonWal
          <6>1. open_io_zones < MaxOpen - 1
            BY <3>2, <5>1, ThreadsAssumption DEF Limit
          <6>2. Cardinality(Members(pc, OpenStages)) <= open_io_zones
            BY <1>0, Counts, TokenInvMembers DEF TokenInv
          <6>3. Cardinality(Members(pc', OpenStages)) <= MaxOpen - 1
            BY <1>0, <4>2, <6>1, <6>2, Counts
          <6>4. QED
            BY <1>0, <6>3, Counts, TokenInvMembersNext
        <5>2. CASE t \notin NonWal
          <6>1. Members(pc', OpenStages) \cap NonWal
                  = Members(pc, OpenStages) \cap NonWal
            BY <4>2, <5>2
          <6>2. QED
            BY <6>1, TokenInvMembers, TokenInvMembersNext DEF TokenInv
        <5>3. QED
          BY <5>1, <5>2
      <4>4. open_io_zones' <= MaxOpen
        BY <1>0, <3>2 DEF Limit
      <4>5. TypesKept /\ active_io_zones' <= MaxActive
        BY <1>0, <1>01, <2>1, <3>2 DEF TypesKept
      <4>6. OpenBalance(t)
        BY <1>0, <1>01, <2>1, <3>2, <4>1 DEF OpenBalance
      <4>7. ActiveBalance(t)
        BY <1>0, <1>01, <2>1, <3>2, <4>1 DEF ActiveBalance
      <4>8. QED
        BY <4>1, <4>3, <4>4, <4>5, <4>6, <4>7, Balance
    <3>3. QED
      BY <2>1, <3>1, <3>2
  <2>2. CASE GetBestOpenZoneMatch(t)
    <3>1. PICK s \in {"hold", "weigh", "try"} :
            /\ pc' = [pc EXCEPT ![t] = s]
            /\ s = "try" => part' = part
            /\ s # "try" => part > 0 /\ part' = part - 1
      BY <2>2 DEF GetBestOpenZoneMatch
    <3>2. /\ pc' \in [Threads -> Stages] /\ pc'[t] = s
          /\ Apart(pc, pc', t, OpenStages) /\ Apart(pc, pc', t, ActiveStages)
      BY <1>0, <3>1, MoveApart
    <3>3. TypesKept /\ open_io_zones' <= MaxOpen /\ active_io_zones' <= MaxActive
      BY <1>0, <1>01, <2>2, <3>1, <3>2 DEF TypesKept, GetBestOpenZoneMatch
    <3>4. OpenBalance(t)
      BY <1>0, <1>01, <2>2, <3>1, <3>2 DEF OpenBalance, GetBestOpenZoneMatch
    <3>5. ActiveBalance(t)
      BY <1>0, <1>01, <2>2, <3>1, <3>2 DEF ActiveBalance, GetBestOpenZoneMatch
    <3>6. pc'[t] \in OpenStages => pc[t] \in OpenStages
      BY <1>0, <1>01, <2>2, <3>1, <3>2 DEF GetBestOpenZoneMatch
    <3>7. QED
      BY <1>0, <1>01, <2>2, <3>1, <3>2, <3>3, <3>4, <3>5, <3>6, BalanceNoOpen
  <2>3. CASE GetActiveIOZoneTokenIfAvailable(t)
    <3>1. /\ pc' \in [Threads -> Stages] /\ pc'[t] = "got"
          /\ Apart(pc, pc', t, OpenStages) /\ Apart(pc, pc', t, ActiveStages)
      BY <1>0, <2>3, MoveApart DEF GetActiveIOZoneTokenIfAvailable
    <3>2. TypesKept /\ open_io_zones' <= MaxOpen /\ active_io_zones' <= MaxActive
      BY <1>0, <1>01, <2>3, <3>1 DEF TypesKept, GetActiveIOZoneTokenIfAvailable
    <3>3. OpenBalance(t)
      BY <1>0, <1>01, <2>3, <3>1 DEF OpenBalance, GetActiveIOZoneTokenIfAvailable
    <3>4. ActiveBalance(t)
      BY <1>0, <1>01, <2>3, <3>1 DEF ActiveBalance, GetActiveIOZoneTokenIfAvailable
    <3>5. pc'[t] \in OpenStages => pc[t] \in OpenStages
      BY <1>0, <1>01, <2>3, <3>1 DEF GetActiveIOZoneTokenIfAvailable
    <3>6. QED
      BY <1>0, <1>01, <2>3, <3>1, <3>2, <3>3, <3>4, <3>5, BalanceNoOpen
  <2>4. CASE GetNoActiveIOZoneToken(t)
    <3>1. PICK s \in {"hold", "loop", "finish"} :
            /\ pc' = [pc EXCEPT ![t] = s]
            /\ \/ pc[t] = "weigh" /\ s = "hold" /\ part' = part
               \/ pc[t] = "weigh" /\ s = "loop" /\ part' = part + 1
               \/ pc[t] = "try" /\ s = "loop" /\ part' = part
               \/ pc[t] = "loop" /\ s = "finish" /\ part' = part
      BY <2>4 DEF GetNoActiveIOZoneToken
    <3>2. /\ pc' \in [Threads -> Stages] /\ pc'[t] = s
          /\ Apart(pc, pc', t, OpenStages) /\ Apart(pc, pc', t, ActiveStages)
      BY <1>0, <3>1, MoveApart
    <3>3. TypesKept /\ open_io_zones' <= MaxOpen /\ active_io_zones' <= MaxActive
      BY <1>0, <1>01, <2>4, <3>1, <3>2 DEF TypesKept, GetNoActiveIOZoneToken
    <3>4. OpenBalance(t)
      BY <1>0, <1>01, <2>4, <3>1, <3>2 DEF OpenBalance, GetNoActiveIOZoneToken
    <3>5. ActiveBalance(t)
      BY <1>0, <1>01, <2>4, <3>1, <3>2 DEF ActiveBalance, GetNoActiveIOZoneToken
    <3>6. pc'[t] \in OpenStages => pc[t] \in OpenStages
      BY <1>0, <1>01, <2>4, <3>1, <3>2 DEF GetNoActiveIOZoneToken
    <3>7. QED
      BY <1>0, <1>01, <2>4, <3>1, <3>2, <3>3, <3>4, <3>5, <3>6, BalanceNoOpen
  <2>5. CASE FinishCheapestIOZone(t)
    <3>1. CASE part > 0 /\ part' = part - 1 /\ full' = full + 1
               /\ active_io_zones' = active_io_zones - 1 /\ NotifyOne(t, "loop")
      <4>1. /\ pc' \in [Threads -> Stages] /\ pc'[t] = "loop"
            /\ Apart(pc, pc', t, OpenStages) /\ Apart(pc, pc', t, ActiveStages)
        BY <1>0, <2>5, <3>1, WakeApart DEF FinishCheapestIOZone, NotifyOne
      <4>2. TypesKept /\ open_io_zones' <= MaxOpen /\ active_io_zones' <= MaxActive
        BY <1>0, <1>01, <2>5, <3>1, <4>1 DEF TypesKept, FinishCheapestIOZone
      <4>3. OpenBalance(t)
        BY <1>0, <1>01, <2>5, <3>1, <4>1 DEF OpenBalance, FinishCheapestIOZone
      <4>4. ActiveBalance(t)
        BY <1>0, <1>01, <2>5, <3>1, <4>1 DEF ActiveBalance, FinishCheapestIOZone
      <4>5. pc'[t] \in OpenStages => pc[t] \in OpenStages
        BY <1>0, <1>01, <2>5, <3>1, <4>1 DEF FinishCheapestIOZone
      <4>6. QED
        BY <1>0, <1>01, <2>5, <3>1, <4>1, <4>2, <4>3, <4>4, <4>5, BalanceNoOpen
    <3>2. ASSUME NEW s \in {"putopen", "loop"}, pc' = [pc EXCEPT ![t] = s],
                 UNCHANGED <<active_io_zones, part, full>>
          PROVE  TokenInv'
      <4>1. /\ pc' \in [Threads -> Stages] /\ pc'[t] = s
            /\ Apart(pc, pc', t, OpenStages) /\ Apart(pc, pc', t, ActiveStages)
        BY <1>0, <3>2, MoveApart
      <4>2. TypesKept /\ open_io_zones' <= MaxOpen /\ active_io_zones' <= MaxActive
        BY <1>0, <1>01, <2>5, <3>2, <4>1 DEF TypesKept, FinishCheapestIOZone
      <4>3. OpenBalance(t)
        BY <1>0, <1>01, <2>5, <3>2, <4>1 DEF OpenBalance, FinishCheapestIOZone
      <4>4. ActiveBalance(t)
        BY <1>0, <1>01, <2>5, <3>2, <4>1 DEF ActiveBalance, FinishCheapestIOZone
      <4>5. pc'[t] \in OpenStages => pc[t] \in OpenStages
        BY <1>0, <1>01, <2>5, <3>2, <4>1 DEF FinishCheapestIOZone
      <4>6. QED
        BY <1>0, <1>01, <2>5, <3>2, <4>1, <4>2, <4>3, <4>4, <4>5, BalanceNoOpen
    <3>3. QED
      BY <2>5, <3>1, <3>2 DEF FinishCheapestIOZone
  <2>6. CASE AllocateEmptyZone(t)
    <3>1. CASE empty > 0 /\ empty' = empty - 1 /\ pc' = [pc EXCEPT ![t] = "fresh"]
               /\ UNCHANGED active_io_zones
      <4>1. /\ pc' \in [Threads -> Stages] /\ pc'[t] = "fresh"
            /\ Apart(pc, pc', t, OpenStages) /\ Apart(pc, pc', t, ActiveStages)
        BY <1>0, <3>1, MoveApart
      <4>2. TypesKept /\ open_io_zones' <= MaxOpen /\ active_io_zones' <= MaxActive
        BY <1>0, <1>01, <2>6, <3>1, <4>1 DEF TypesKept, AllocateEmptyZone
      <4>3. OpenBalance(t)
        BY <1>0, <1>01, <2>6, <3>1, <4>1 DEF OpenBalance, AllocateEmptyZone
      <4>4. ActiveBalance(t)
        BY <1>0, <1>01, <2>6, <3>1, <4>1 DEF ActiveBalance, AllocateEmptyZone
      <4>5. pc'[t] \in OpenStages => pc[t] \in OpenStages
        BY <1>0, <1>01, <2>6, <3>1, <4>1 DEF AllocateEmptyZone
      <4>6. QED
        BY <1>0, <1>01, <2>6, <3>1, <4>1, <4>2, <4>3, <4>4, <4>5, BalanceNoOpen
    <3>2. CASE active_io_zones' = active_io_zones - 1 /\ NotifyOne(t, "putopen")
               /\ UNCHANGED empty
      <4>1. /\ pc' \in [Threads -> Stages] /\ pc'[t] = "putopen"
            /\ Apart(pc, pc', t, OpenStages) /\ Apart(pc, pc', t, ActiveStages)
        BY <1>0, <2>6, <3>2, WakeApart DEF AllocateEmptyZone, NotifyOne
      <4>2. TypesKept /\ open_io_zones' <= MaxOpen /\ active_io_zones' <= MaxActive
        BY <1>0, <1>01, <2>6, <3>2, <4>1 DEF TypesKept, AllocateEmptyZone
      <4>3. OpenBalance(t)
        BY <1>0, <1>01, <2>6, <3>2, <4>1 DEF OpenBalance, AllocateEmptyZone
      <4>4. ActiveBalance(t)
        BY <1>0, <1>01, <2>6, <3>2, <4>1 DEF ActiveBalance, AllocateEmptyZone
      <4>5. pc'[t] \in OpenStages => pc[t] \in OpenStages
        BY <1>0, <1>01, <2>6, <3>2, <4>1 DEF AllocateEmptyZone
      <4>6. QED
        BY <1>0, <1>01, <2>6, <3>2, <4>1, <4>2, <4>3, <4>4, <4>5, BalanceNoOpen
    <3>3. QED
      BY <2>6, <3>1, <3>2 DEF AllocateEmptyZone
  <2>7. CASE PutOpenIOZoneToken(t)
    <3>1. PICK s \in {"idle", "putactive"} :
            /\ NotifyOne(t, s)
            /\ s = "idle" => pc[t] = "putopen"
            /\ s = "putactive" => pc[t] = "putboth"
      BY <2>7 DEF PutOpenIOZoneToken
    <3>2. /\ pc' \in [Threads -> Stages] /\ pc'[t] = s
          /\ Apart(pc, pc', t, OpenStages) /\ Apart(pc, pc', t, ActiveStages)
      BY <1>0, <3>1, WakeApart DEF NotifyOne
    <3>3. TypesKept /\ open_io_zones' <= MaxOpen /\ active_io_zones' <= MaxActive
      BY <1>0, <1>01, <2>7, <3>1, <3>2 DEF TypesKept, PutOpenIOZoneToken, zones
    <3>4. OpenBalance(t)
      BY <1>0, <1>01, <2>7, <3>1, <3>2 DEF OpenBalance, PutOpenIOZoneToken, zones
    <3>5. ActiveBalance(t)
      BY <1>0, <1>01, <2>7, <3>1, <3>2 DEF ActiveBalance, PutOpenIOZoneToken, zones
    <3>6. pc'[t] \in OpenStages => pc[t] \in OpenStages
      BY <1>0, <1>01, <2>7, <3>1, <3>2 DEF PutOpenIOZoneToken, zones
    <3>7. QED
      BY <1>0, <1>01, <2>7, <3>1, <3>2, <3>3, <3>4, <3>5, <3>6, BalanceNoOpen
  <2>8. CASE PutActiveIOZoneToken(t)
    <3>1. /\ pc' \in [Threads -> Stages] /\ pc'[t] = "idle"
          /\ Apart(pc, pc', t, OpenStages) /\ Apart(pc, pc', t, ActiveStages)
      BY <1>0, <2>8, WakeApart DEF PutActiveIOZoneToken, NotifyOne
    <3>2. TypesKept /\ open_io_zones' <= MaxOpen /\ active_io_zones' <= MaxActive
      BY <1>0, <1>01, <2>8, <3>1 DEF TypesKept, PutActiveIOZoneToken, zones
    <3>3. OpenBalance(t)
      BY <1>0, <1>01, <2>8, <3>1 DEF OpenBalance, PutActiveIOZoneToken, zones
    <3>4. ActiveBalance(t)
      BY <1>0, <1>01, <2>8, <3>1 DEF ActiveBalance, PutActiveIOZoneToken, zones
    <3>5. pc'[t] \in OpenStages => pc[t] \in OpenStages
      BY <1>0, <1>01, <2>8, <3>1 DEF PutActiveIOZoneToken, zones
    <3>6. QED
      BY <1>0, <1>01, <2>8, <3>1, <3>2, <3>3, <3>4, <3>5, BalanceNoOpen
  <2>9. QED
    BY <1>1, <2>1, <2>2, <2>3, <2>4, <2>5, <2>6, <2>7, <2>8 DEF Allocate
<1>2. ASSUME NEW t \in Threads, Use(t) PROVE TokenInv'
  <2>1. CASE ApplyFinishThreshold(t)
    <3>1. /\ pc' \in [Threads -> Stages] /\ pc'[t] = "idle"
          /\ Apart(pc, pc', t, OpenStages) /\ Apart(pc, pc', t, ActiveStages)
      BY <1>0, <2>1, WakeApart DEF ApplyFinishThreshold, NotifyOne
    <3>2. TypesKept /\ open_io_zones' <= MaxOpen /\ active_io_zones' <= MaxActive
      BY <1>0, <1>01, <2>1, <3>1 DEF TypesKept, ApplyFinishThreshold
    <3>3. OpenBalance(t)
      BY <1>0, <1>01, <2>1, <3>1 DEF OpenBalance, ApplyFinishThreshold
    <3>4. ActiveBalance(t)
      BY <1>0, <1>01, <2>1, <3>1 DEF ActiveBalance, ApplyFinishThreshold
    <3>5. pc'[t] \in OpenStages => pc[t] \in OpenStages
      BY <1>0, <1>01, <2>1, <3>1 DEF ApplyFinishThreshold
    <3>6. QED
      BY <1>0, <1>01, <2>1, <3>1, <3>2, <3>3, <3>4, <3>5, BalanceNoOpen
  <2>2. CASE Request(t)
    <3>1. /\ pc' \in [Threads -> Stages] /\ pc'[t] = "check"
          /\ Apart(pc, pc', t, OpenStages) /\ Apart(pc, pc', t, ActiveStages)
      BY <1>0, <2>2, MoveApart DEF Request
    <3>2. TypesKept /\ open_io_zones' <= MaxOpen /\ active_io_zones' <= MaxActive
      BY <1>0, <1>01, <2>2, <3>1 DEF TypesKept, Request, zones
    <3>3. OpenBalance(t)
      BY <1>0, <1>01, <2>2, <3>1 DEF OpenBalance, Request, zones
    <3>4. ActiveBalance(t)
      BY <1>0, <1>01, <2>2, <3>1 DEF ActiveBalance, Request, zones
    <3>5. pc'[t] \in OpenStages => pc[t] \in OpenStages
      BY <1>0, <1>01, <2>2, <3>1 DEF Request, zones
    <3>6. QED
      BY <1>0, <1>01, <2>2, <3>1, <3>2, <3>3, <3>4, <3>5, BalanceNoOpen
  <2>3. CASE Append(t)
    <3>1. /\ pc' \in [Threads -> Stages] /\ pc'[t] = "hold"
          /\ Apart(pc, pc', t, OpenStages) /\ Apart(pc, pc', t, ActiveStages)
      BY <1>0, <2>3, MoveApart DEF Append
    <3>2. TypesKept /\ open_io_zones' <= MaxOpen /\ active_io_zones' <= MaxActive
      BY <1>0, <1>01, <2>3, <3>1 DEF TypesKept, Append, zones
    <3>3. OpenBalance(t)
      BY <1>0, <1>01, <2>3, <3>1 DEF OpenBalance, Append, zones
    <3>4. ActiveBalance(t)
      BY <1>0, <1>01, <2>3, <3>1 DEF ActiveBalance, Append, zones
    <3>5. pc'[t] \in OpenStages => pc[t] \in OpenStages
      BY <1>0, <1>01, <2>3, <3>1 DEF Append, zones
    <3>6. QED
      BY <1>0, <1>01, <2>3, <3>1, <3>2, <3>3, <3>4, <3>5, BalanceNoOpen
  <2>4. CASE CloseActiveZone(t)
    <3>1. PICK s \in {"putopen", "putboth", "idle"} : pc' = [pc EXCEPT ![t] = s]
      BY <2>4 DEF CloseActiveZone
    <3>2. /\ pc' \in [Threads -> Stages] /\ pc'[t] = s
          /\ Apart(pc, pc', t, OpenStages) /\ Apart(pc, pc', t, ActiveStages)
      BY <1>0, <3>1, MoveApart
    <3>3. CASE /\ pc[t] = "hold" /\ pc'[t] = "putopen" /\ part' = part + 1
               /\ UNCHANGED <<empty, full, lost>>
      <4>1. TypesKept /\ open_io_zones' <= MaxOpen /\ active_io_zones' <= MaxActive
        BY <1>0, <1>01, <2>4, <3>2, <3>3 DEF TypesKept, CloseActiveZone
      <4>2. OpenBalance(t)
        BY <1>0, <1>01, <2>4, <3>2, <3>3 DEF OpenBalance, CloseActiveZone
      <4>3. ActiveBalance(t)
        BY <1>0, <1>01, <2>4, <3>2, <3>3 DEF ActiveBalance, CloseActiveZone
      <4>4. pc'[t] \in OpenStages => pc[t] \in OpenStages
        BY <1>0, <1>01, <2>4, <3>2, <3>3
      <4>5. QED
        BY <1>0, <1>01, <2>4, <3>2, <3>3, <4>1, <4>2, <4>3, <4>4, BalanceNoOpen
    <3>4. CASE /\ pc[t] = "hold" /\ pc'[t] = "putboth" /\ full' = full + 1
               /\ UNCHANGED <<empty, part, lost>>
      <4>1. TypesKept /\ open_io_zones' <= MaxOpen /\ active_io_zones' <= MaxActive
        BY <1>0, <1>01, <2>4, <3>2, <3>4 DEF TypesKept, CloseActiveZone
      <4>2. OpenBalance(t)
        BY <1>0, <1>01, <2>4, <3>2, <3>4 DEF OpenBalance, CloseActiveZone
      <4>3. ActiveBalance(t)
        BY <1>0, <1>01, <2>4, <3>2, <3>4 DEF ActiveBalance, CloseActiveZone
      <4>4. pc'[t] \in OpenStages => pc[t] \in OpenStages
        BY <1>0, <1>01, <2>4, <3>2, <3>4
      <4>5. QED
        BY <1>0, <1>01, <2>4, <3>2, <3>4, <4>1, <4>2, <4>3, <4>4, BalanceNoOpen
    <3>5. CASE /\ pc[t] = "hold" /\ pc'[t] = "idle" /\ part' = part + 1
               /\ Lose("open") /\ UNCHANGED <<empty, full>>
      <4>1. /\ lost' \in [open : Nat, active : Nat]
            /\ lost'.open = lost.open + 1 /\ lost'.active = lost.active
        BY <1>01, <3>5
      <4>2. TypesKept /\ open_io_zones' <= MaxOpen /\ active_io_zones' <= MaxActive
        BY <1>0, <1>01, <2>4, <3>2, <3>5, <4>1 DEF TypesKept, CloseActiveZone
      <4>3. OpenBalance(t)
        BY <1>0, <1>01, <2>4, <3>2, <3>5, <4>1 DEF OpenBalance, CloseActiveZone
      <4>4. ActiveBalance(t)
        BY <1>0, <1>01, <2>4, <3>2, <3>5, <4>1 DEF ActiveBalance, CloseActiveZone
      <4>5. pc'[t] \in OpenStages => pc[t] \in OpenStages
        BY <1>0, <1>01, <2>4, <3>2, <3>5, <4>1 DEF CloseActiveZone
      <4>6. QED
        BY <1>0, <1>01, <2>4, <3>2, <3>5, <4>1, <4>2, <4>3, <4>4, <4>5, BalanceNoOpen
    <3>6. CASE /\ pc[t] = "fresh" /\ pc'[t] = "putopen" /\ empty' = empty + 1
               /\ Lose("active") /\ UNCHANGED <<part, full>>
      <4>1. /\ lost' \in [open : Nat, active : Nat]
            /\ lost'.active = lost.active + 1 /\ lost'.open = lost.open
        BY <1>01, <3>6
      <4>2. TypesKept /\ open_io_zones' <= MaxOpen /\ active_io_zones' <= MaxActive
        BY <1>0, <1>01, <2>4, <3>2, <3>6, <4>1 DEF TypesKept, CloseActiveZone
      <4>3. OpenBalance(t)
        BY <1>0, <1>01, <2>4, <3>2, <3>6, <4>1 DEF OpenBalance, CloseActiveZone
      <4>4. ActiveBalance(t)
        BY <1>0, <1>01, <2>4, <3>2, <3>6, <4>1 DEF ActiveBalance, CloseActiveZone
      <4>5. pc'[t] \in OpenStages => pc[t] \in OpenStages
        BY <1>0, <1>01, <2>4, <3>2, <3>6, <4>1 DEF CloseActiveZone
      <4>6. QED
        BY <1>0, <1>01, <2>4, <3>2, <3>6, <4>1, <4>2, <4>3, <4>4, <4>5, BalanceNoOpen
    <3>7. QED
      BY <1>0, <2>4, <3>3, <3>4, <3>5, <3>6 DEF CloseActiveZone
  <2>5. QED
    BY <1>2, <2>1, <2>2, <2>3, <2>4 DEF Use
<1>3. ASSUME pc' \in [Threads -> Stages],
             Members(pc', OpenStages) = Members(pc, OpenStages),
             Members(pc', ActiveStages) = Members(pc, ActiveStages),
             empty' \in Nat, part' \in Nat, full' \in Nat, migrating' \in BOOLEAN,
             lost' \in [open : Nat, active : Nat], lost'.open = lost.open,
             UNCHANGED open_io_zones, active_io_zones' <= MaxActive,
             active_io_zones' = active_io_zones + part' - part
               + lost'.active - lost.active + Taken(migrating') - Taken(migrating)
      PROVE  TokenInv'
  <2>1. /\ lost'.open \in Nat /\ lost'.active \in Nat
        /\ Taken(migrating) \in {0, 1} /\ Taken(migrating') \in {0, 1}
    BY <1>3 DEF Taken
  <2>2. OpenTokensOwed'
    BY <1>3, TokenInvMembers, TokenInvMembersNext DEF TokenInv
  <2>3. active_io_zones' = part' + Cardinality(Members(pc', ActiveStages))
                             + lost'.active + Taken(migrating')
    BY <1>0, <1>3, <2>1, Counts, TokenInvMembers DEF TokenInv
  <2>4. TypeOK'
    BY <1>0, <1>3, <2>1, <2>3, Counts DEF TypeOK
  <2>5. ReservedForWal'
    BY <1>3, ReserveShrinks
  <2>6. QED
    BY <2>2, <2>3, <2>4, <2>5, TokenInvMembersNext DEF TokenInv
<1>4. CASE TakeMigrateZone
  <2>1. Taken(migrating) = 0 /\ Taken(migrating') = 1 /\ part' = part - 1 /\ part' \in Nat
    BY <1>0, <1>4 DEF TakeMigrateZone, Taken
  <2>2. migrating' \in BOOLEAN
    BY <1>4, Zenon DEF TakeMigrateZone
  <2>3. QED
    BY <1>0, <1>3, <1>4, <2>1, <2>2 DEF TakeMigrateZone
<1>5. CASE ReleaseMigrateZone
  <2>1. Taken(migrating) = 1 /\ Taken(migrating') = 0
    BY <1>5 DEF ReleaseMigrateZone, Taken
  <2>2. migrating' \in BOOLEAN
    BY <1>5, Zenon DEF ReleaseMigrateZone
  <2>3. /\ UNCHANGED <<open_io_zones, active_io_zones, empty, pc>>
        /\ \/ part' = part + 1 /\ UNCHANGED <<full, lost>>
           \/ full' = full + 1 /\ Lose("active") /\ UNCHANGED part
    BY <1>5 DEF ReleaseMigrateZone
  <2>4. CASE part' = part + 1 /\ UNCHANGED <<full, lost>>
    <3>1. part' \in Nat /\ active_io_zones' = active_io_zones + part' - part
              + lost'.active - lost.active + Taken(migrating') - Taken(migrating)
      BY <1>0, <2>1, <2>3, <2>4
    <3>2. QED
      BY <1>0, <1>3, <2>2, <2>3, <2>4, <3>1
  <2>5. CASE full' = full + 1 /\ Lose("active") /\ UNCHANGED part
    <3>1. /\ lost' \in [open : Nat, active : Nat]
          /\ lost'.active = lost.active + 1 /\ lost'.open = lost.open
      BY <1>01, <2>5
    <3>2. active_io_zones' = active_io_zones + part' - part
            + lost'.active - lost.active + Taken(migrating') - Taken(migrating)
      BY <1>0, <2>1, <2>3, <2>5, <3>1
    <3>3. QED
      BY <1>0, <1>3, <2>2, <2>3, <2>5, <3>1, <3>2
  <2>6. QED
    BY <2>3, <2>4, <2>5
<1>6. CASE ResetUnusedIOZones
  <2>1. /\ pc' \in [Threads -> Stages]
        /\ Members(pc', OpenStages) = Members(pc, OpenStages)
        /\ Members(pc', ActiveStages) = Members(pc, ActiveStages)
    <3>1. CASE pc' = pc
      BY <1>0, <3>1
    <3>2. ASSUME NEW u \in Threads, pc[u] = "asleep", pc' = [pc EXCEPT ![u] = "check"]
          PROVE  /\ pc' \in [Threads -> Stages]
                 /\ Members(pc', OpenStages) = Members(pc, OpenStages)
                 /\ Members(pc', ActiveStages) = Members(pc, ActiveStages)
      <4>1. /\ pc' \in [Threads -> Stages] /\ pc'[u] = "check"
            /\ Apart(pc, pc', u, OpenStages) /\ Apart(pc, pc', u, ActiveStages)
        BY <1>0, <3>2, MoveApart
      <4>0. /\ pc[u] \in OpenStages <=> pc'[u] \in OpenStages
            /\ pc[u] \in ActiveStages <=> pc'[u] \in ActiveStages
        BY <3>2, <4>1
      <4>2. Members(pc', OpenStages) = Members(pc, OpenStages)
        BY <4>0, <4>1, MoveInside
      <4>3. Members(pc', ActiveStages) = Members(pc, ActiveStages)
        BY <4>0, <4>1, MoveInside
      <4>4. QED
        BY <4>1, <4>2, <4>3
    <3>3. QED
      BY <1>6, <3>1, <3>2 DEF ResetUnusedIOZones, Wake, At
  <2>2. QED
    BY <1>0, <1>01, <1>3, <1>6, <2>1 DEF ResetUnusedIOZones
<1>7. CASE UNCHANGED vars
  BY <1>0, <1>01, <1>3, <1>7 DEF vars, zones
<1>8. QED
  BY <1>1, <1>2, <1>4, <1>5, <1>6, <1>7 DEF Next

\* The inductive invariant holds throughout.
LEMMA TokenHolds == Spec => []TokenInv
  BY TokenInit, TokenStep, PTL DEF Spec

\* For every set of threads and every limit of the device, the counters of
\* ZonedBlockDevice stay in their range and every thread is at a stage of its
\* own kind (zbd_aquafs.cc:508-560).
THEOREM TokenTypes == Spec => []TypeOK
<1>1. TokenInv => TypeOK BY DEF TokenInv
<1>2. QED BY <1>1, TokenHolds, PTL

\* Every open token out is owed by one thread or was lost by a close the device
\* refused: no other path loses one and none returns one twice
\* (PutOpenIOZoneToken, zbd_aquafs.cc:546; CloseActiveZone, io_aquafs.cc:268).
THEOREM TokensAccounted == Spec => []OpenTokensOwed
<1>1. TokenInv => OpenTokensOwed BY DEF TokenInv
<1>2. QED BY <1>1, TokenHolds, PTL

\* The active tokens out are those of the active zones, of the threads about to
\* make one and the lost ones, exactly (PutActiveIOZoneToken, zbd_aquafs.cc:554):
\* with TypeOK, the zones that are active never exceed the device's limit.
THEOREM ActiveExact == Spec => []ActiveTokensExact
<1>1. TokenInv => ActiveTokensExact BY DEF TokenInv
<1>2. QED BY <1>1, TokenHolds, PTL

\* Allocators without priority leave one open token to write-ahead logs
\* (WaitForOpenIOZoneToken, zbd_aquafs.cc:508).
THEOREM WalReserve == Spec => []ReservedForWal
<1>1. TokenInv => ReservedForWal BY DEF TokenInv
<1>2. QED BY <1>1, TokenHolds, PTL
=============================================================================
