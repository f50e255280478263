----------------------------- MODULE RaidProofs -----------------------------
(***************************************************************************)
(* What the RAID back ends do on every geometry: the theorems about Raid.  *)
(*                                                                         *)
(* The inductive invariant has three layers.  MapInv is about RAID-auto:   *)
(* the map in use and the inverse map are well formed, and differ from the *)
(* default layout only in mirrors that were replaced, by device zones that *)
(* the default layout does not use; MapInjective follows.  Typed adds that *)
(* no device zone is written beyond its size and no Zone beyond its own.   *)
(* ReadInv adds what is left after losses: every acknowledged block is on  *)
(* each device zone that the default layout gives it, unless that one is   *)
(* lost; and the map in use of a zone that has lost one device zone at     *)
(* most has the mirror that is left in front.  It is stated about the      *)
(* default layout because a restart brings that one back.                  *)
(*                                                                         *)
(* The default layout, the series of device writes, the concatenations and *)
(* the sums are recursive functions.  The lemmas about them go by          *)
(* induction, in the form Induction, which is about a set and not about an *)
(* operator.  Positions are compared through Where and OffsetOf, which     *)
(* name the device zones of a block and its offset without addresses.      *)
(***************************************************************************)
EXTENDS Raid, TLAPS, FiniteSetTheorems, NaturalsInduction,
        WellFoundedInduction, SequenceTheorems

-----------------------------------------------------------------------------
(* Arithmetic.                                                             *)

(* Multiplication is monotone. *)
LEMMA Monotone ==
    ASSUME NEW a \in Int, NEW b \in Int, NEW c \in Nat, a <= b
    PROVE  a * c <= b * c
  OBVIOUS

(* Products are naturals. *)
LEMMA Product ==
    ASSUME NEW a \in Nat, NEW b \in Nat
    PROVE  a * b \in Nat /\ b * a = a * b /\ (a + 1) * b = a * b + b
  OBVIOUS

(* A quotient and its rest. *)
LEMMA Division ==
    ASSUME NEW k \in Nat, NEW b \in Nat \ {0}
    PROVE  /\ k \div b \in Nat /\ k % b \in 0 .. b - 1
           /\ k = (k \div b) * b + (k % b)
  OBVIOUS

(* Only the quotient and the rest have these properties. *)
LEMMA Quotient ==
    ASSUME NEW q \in Nat, NEW b \in Nat \ {0}, NEW r \in 0 .. b - 1
    PROVE  (q * b + r) \div b = q /\ (q * b + r) % b = r
  OBVIOUS

(* A quotient is below the factor of a bound. *)
LEMMA QuotientBelow ==
    ASSUME NEW k \in Nat, NEW b \in Nat \ {0}, NEW n \in Nat, k < n * b
    PROVE  k \div b < n
  OBVIOUS

-----------------------------------------------------------------------------
(* Induction.                                                              *)

\* The order of the naturals as a relation.
Smaller == {ss \in Nat \X Nat : ss[1] < ss[2]}

(* A set of naturals that is not empty has a least element. *)
LEMMA LeastNatural ==
    ASSUME NEW T, T \subseteq Nat, T # {}
    PROVE  \E x \in T : \A y \in T : x <= y
<1>1. OpToRel(<, Nat) = Smaller
    BY Zenon DEF OpToRel, Smaller
<1>2. IsWellFoundedOn(Smaller, Nat)
    BY <1>1, NatLessThanWellFounded, Zenon
<1>3. \E x \in T : \A y \in T : ~(<<y, x>> \in Smaller)
    BY <1>2, WFMin, Zenon
<1>4. PICK x \in T : \A y \in T : ~(<<y, x>> \in Smaller)
    BY <1>3
<1>5. ASSUME NEW y \in T PROVE x <= y
  <2>1. x \in Nat /\ y \in Nat
      BY <1>4
  <2>2. ~(y < x)
      BY <1>4, <2>1 DEF Smaller
  <2> QED BY <2>1, <2>2
<1> QED BY <1>4, <1>5

(* Induction over the naturals, for the elements of a set. *)
LEMMA Induction ==
    ASSUME NEW S, 0 \in S, \A n \in Nat : n \in S => n + 1 \in S
    PROVE  \A n \in Nat : n \in S
<1> DEFINE T == Nat \ S
<1> SUFFICES ASSUME T # {} PROVE FALSE
    OBVIOUS
<1>1. PICK x \in T : \A y \in T : x <= y
    BY LeastNatural
<1>2. x \in Nat /\ x # 0 /\ x - 1 \in Nat /\ x - 1 \notin T
    BY <1>1
<1>3. x - 1 \in S /\ (x - 1) + 1 = x
    BY <1>2
<1> QED BY <1>1, <1>2, <1>3

-----------------------------------------------------------------------------
(* The free device zones in their order.                                   *)

(* The parameters are numbers. *)
LEMMA Numbers ==
    /\ N \in Nat \ {0} /\ NZ \in Nat \ {0} /\ ZB \in Nat \ {0} /\ Meta \in Nat \ {0}
    /\ MaxAppend \in Nat \ {0} /\ Meta * N <= NZ
BY RaidAssumption

(* The number of zones is a number. *)
LEMMA ZonesNumber ==
    ASSUME NEW m \in AllModes
    PROVE  NrZones(m) \in Nat
<1>1. N * NZ \in Nat /\ NZ \div 2 \in Nat /\ NZ \div 3 \in Nat /\ NZ \in Nat
    BY Numbers
<1> QED BY <1>1 DEF NrZones, AllModes

(* There are N * NZ device zones. *)
LEMMA DeviceZonesFinite ==
    IsFiniteSet(DeviceZones) /\ Cardinality(DeviceZones) = N * NZ
<1>1. IsFiniteSet(Devices) /\ Cardinality(Devices) = N
  <2>1. 0 \in Int /\ N - 1 \in Int /\ ~(0 > N - 1) /\ (N - 1) - 0 + 1 = N
      BY Numbers
  <2>2. IsFiniteSet(0 .. N - 1) /\ Cardinality(0 .. N - 1) = IF 0 > N - 1 THEN 0 ELSE (N - 1) - 0 + 1
      BY <2>1, FS_Interval
  <2> QED BY <2>1, <2>2 DEF Devices
<1>2. IsFiniteSet(0 .. NZ - 1) /\ Cardinality(0 .. NZ - 1) = NZ
  <2>1. 0 \in Int /\ NZ - 1 \in Int /\ ~(0 > NZ - 1) /\ (NZ - 1) - 0 + 1 = NZ
      BY Numbers
  <2>2. IsFiniteSet(0 .. NZ - 1) /\ Cardinality(0 .. NZ - 1) = IF 0 > NZ - 1 THEN 0 ELSE (NZ - 1) - 0 + 1
      BY <2>1, FS_Interval
  <2> QED BY <2>1, <2>2
<1> QED BY <1>1, <1>2, FS_Product DEF DeviceZones

\* The free device zones up to p, and their number.
UpTo(used, p) == {q \in Free(used) : Earlier(q, p)}
Rank(used, p) == Cardinality(UpTo(used, p))

(* The free device zones can be counted. *)
LEMMA FreeFinite ==
    ASSUME NEW used
    PROVE  /\ IsFiniteSet(Free(used)) /\ Cardinality(Free(used)) \in Nat
           /\ \A p : IsFiniteSet(UpTo(used, p)) /\ Rank(used, p) \in Nat
<1>1. IsFiniteSet(DeviceZones)
    BY DeviceZonesFinite
<1>2. Free(used) \in SUBSET DeviceZones
    BY DEF Free
<1>3. IsFiniteSet(Free(used))
    BY <1>1, <1>2, FS_Subset
<1>4. ASSUME NEW p PROVE IsFiniteSet(UpTo(used, p)) /\ Rank(used, p) \in Nat
  <2>1. UpTo(used, p) \in SUBSET Free(used)
      BY DEF UpTo
  <2> QED BY <1>3, <2>1, FS_Subset, FS_CardinalityType DEF Rank
<1> QED BY <1>3, <1>4, FS_CardinalityType

(* Earlier orders the device zones. *)
LEMMA EarlierOrder ==
    /\ \A p \in DeviceZones : Earlier(p, p)
    /\ \A p, q \in DeviceZones : Earlier(p, q) \/ Earlier(q, p)
    /\ \A p, q \in DeviceZones : Earlier(p, q) /\ Earlier(q, p) => p = q
    /\ \A p, q, r \in DeviceZones : Earlier(p, q) /\ Earlier(q, r) => Earlier(p, r)
<1>1. \A p \in DeviceZones : p = <<p[1], p[2]>> /\ p[1] \in Nat /\ p[2] \in Nat
    BY Numbers DEF DeviceZones, Devices
<1>2. \A p \in DeviceZones : Earlier(p, p)
    BY <1>1 DEF Earlier
<1>3. \A p, q \in DeviceZones : Earlier(p, q) \/ Earlier(q, p)
    BY <1>1 DEF Earlier
<1>4. ASSUME NEW p \in DeviceZones, NEW q \in DeviceZones, Earlier(p, q), Earlier(q, p)
      PROVE  p = q
  <2>1. p[1] = q[1] /\ p[2] = q[2]
      BY <1>1, <1>4 DEF Earlier
  <2> QED BY <1>1, <2>1
<1>5. ASSUME NEW p \in DeviceZones, NEW q \in DeviceZones, NEW r \in DeviceZones,
             Earlier(p, q), Earlier(q, r)
      PROVE  Earlier(p, r)
    BY <1>1, <1>5 DEF Earlier
<1> QED BY <1>2, <1>3, <1>4, <1>5

(* A later device zone has a higher rank. *)
LEMMA RankOrder ==
    ASSUME NEW used, NEW p \in Free(used), NEW q \in Free(used), Earlier(p, q), p # q
    PROVE  Rank(used, p) < Rank(used, q)
<1> DEFINE A == UpTo(used, p)
           B == UpTo(used, q)
<1>0. p \in DeviceZones /\ q \in DeviceZones /\ Free(used) \subseteq DeviceZones
    BY DEF Free
<1>1. A \subseteq B
    BY <1>0, EarlierOrder DEF UpTo
<1>2. q \in B /\ q \notin A
    BY <1>0, EarlierOrder DEF UpTo
<1>3. IsFiniteSet(A) /\ IsFiniteSet(B) /\ Cardinality(A) \in Nat /\ Cardinality(B) \in Nat
    BY FreeFinite DEF Rank
<1> HIDE DEF A, B
<1>4. Cardinality(A) <= Cardinality(B) /\ (Cardinality(B) = Cardinality(A) => B = A)
    BY <1>1, <1>3, FS_Subset
<1>5. Cardinality(A) # Cardinality(B)
    BY <1>2, <1>4
<1> QED BY <1>3, <1>4, <1>5 DEF Rank, A, B

(* As many device zones as are free can be taken in order, each once. *)
LEMMA NthIsFree ==
    ASSUME NEW used, NEW n \in 1 .. Cardinality(Free(used))
    PROVE  NthFree(used, n) \in Free(used) /\ Rank(used, NthFree(used, n)) = n
<1> DEFINE F == Free(used)
           c == Cardinality(F)
           f == [p \in F |-> Rank(used, p)]
           T == 1 .. c
<1>0. Free(used) \subseteq DeviceZones
    BY DEF Free
<1>1. IsFiniteSet(F) /\ c \in Nat
    BY FreeFinite
<1>2. ASSUME NEW p \in F PROVE Rank(used, p) \in T
  <2>1. UpTo(used, p) \in SUBSET F /\ p \in UpTo(used, p)
      BY <1>0, EarlierOrder DEF UpTo
  <2>2. Rank(used, p) <= c /\ Rank(used, p) \in Nat
      BY <1>1, <2>1, FS_Subset, FreeFinite DEF Rank
  <2>3. Rank(used, p) # 0
      BY <2>1, FreeFinite, FS_EmptySet DEF Rank
  <2> QED BY <1>1, <2>2, <2>3
<1>3. ASSUME NEW p \in F, NEW q \in F, Rank(used, p) = Rank(used, q) PROVE p = q
  <2> SUFFICES ASSUME p # q PROVE FALSE
      OBVIOUS
  <2>1. Earlier(p, q) \/ Earlier(q, p)
      BY <1>0, EarlierOrder
  <2>2. Rank(used, p) < Rank(used, q) \/ Rank(used, q) < Rank(used, p)
      BY <2>1, RankOrder
  <2>3. Rank(used, p) \in Nat /\ Rank(used, q) \in Nat
      BY <1>1, <1>2
  <2> QED BY <1>3, <2>2, <2>3
<1>4. f \in Injection(F, T)
  <2>1. f \in [F -> T]
      BY <1>2
  <2>2. \A a, b \in F : f[a] = f[b] => a = b
      BY <1>3
  <2>3. IsInjective(f)
      BY <2>1, <2>2 DEF IsInjective
  <2> QED BY <2>1, <2>3 DEF Injection
<1>5. IsFiniteSet(T) /\ Cardinality(T) = c
  <2>1. 1 \in Int /\ c \in Int
      BY <1>1
  <2>2. IsFiniteSet(T) /\ Cardinality(T) = IF 1 > c THEN 0 ELSE c - 1 + 1
      BY <2>1, FS_Interval
  <2> QED BY <1>1, <2>2
<1>6. f \in Surjection(F, T)
  <2> HIDE DEF f, T, F
  <2> QED BY <1>4, <1>5, FS_Injection DEF c
<1>7. \E p \in F : f[p] = n
    BY <1>6 DEF Surjection
<1>8. \E p \in Free(used) : Rank(used, p) = n
    BY <1>7
<1>9. \E p \in Free(used) : Cardinality({q \in Free(used) : Earlier(q, p)}) = n
    BY <1>8, Zenon DEF Rank, UpTo
<1>10. /\ NthFree(used, n) \in Free(used)
       /\ Cardinality({q \in Free(used) : Earlier(q, NthFree(used, n))}) = n
    BY <1>9, Zenon DEF NthFree
<1> QED BY <1>10, Zenon DEF Rank, UpTo

-----------------------------------------------------------------------------
(* The default layouts of RAID-auto.                                       *)

AutoModes == {"AUTO0", "AUTO1"}

\* No device zone serves twice.
Injective(mp) ==
    \A s, t \in DOMAIN mp : \A i \in DOMAIN mp[s] : \A j \in DOMAIN mp[t] :
      mp[s][i] = mp[t][j] => s = t /\ i = j

\* The sub zones when the zones below n are mapped; those of the meta zones always
\* are, to one device zone each.
Mapped(n) == IF n <= Meta THEN Meta ELSE n
Width(m, s) == IF s < Meta * N THEN 1 ELSE Copies(m)
MappedOK(m, al, n) ==
    /\ DOMAIN al.map = 0 .. Mapped(n) * N - 1
    /\ \A s \in DOMAIN al.map : /\ al.map[s] \in Seq(DeviceZones)
                                /\ Len(al.map[s]) = Width(m, s)
                                /\ Range(al.map[s]) \subseteq al.inv
    /\ al.inv \subseteq DeviceZones
    /\ Cardinality(al.inv) <= (Mapped(n) * N) * Copies(m)
    /\ Injective(al.map)

(* The meta zones. *)
LEMMA MetaMapped ==
    ASSUME NEW m \in AutoModes, NEW n \in Nat, n <= Meta
    PROVE  MappedOK(m, MetaMapping, n)
<1> DEFINE k == Meta * N
           mp == [s \in 0 .. k - 1 |-> <<<<0, s>>>>]
           iv == {<<0, s>> : s \in 0 .. k - 1}
<1>1. k \in Nat /\ k <= NZ /\ Mapped(n) * N = k
    BY Numbers, Product DEF Mapped
<1>2. Copies(m) \in {1, 2}
    BY DEF Copies
<1>3. MetaMapping.map = mp /\ MetaMapping.inv = iv
    BY DEF MetaMapping
<1>4. \A s \in 0 .. k - 1 : <<0, s>> \in DeviceZones
    BY <1>1, Numbers DEF DeviceZones, Devices
<1> HIDE DEF k
<1>5. ASSUME NEW s \in 0 .. k - 1
      PROVE  mp[s] \in Seq(DeviceZones) /\ Len(mp[s]) = 1 /\ DOMAIN mp[s] = {1} /\ mp[s][1] = <<0, s>>
    BY <1>4
<1>6. IsFiniteSet(iv) /\ Cardinality(iv) <= k
  <2> DEFINE S == 0 .. k - 1
             h == [s \in S |-> <<0, s>>]
  <2>1. 0 \in Int /\ k - 1 \in Int
      BY <1>1
  <2>2. IsFiniteSet(S) /\ Cardinality(S) = IF 0 > k - 1 THEN 0 ELSE (k - 1) - 0 + 1
      BY <2>1, FS_Interval
  <2>3. Cardinality(S) <= k
      BY <1>1, <2>2
  <2>4. h \in Surjection(S, iv)
      BY DEF Surjection
  <2>5. IsFiniteSet(iv) /\ Cardinality(iv) <= Cardinality(S)
    <3> HIDE DEF S, h, iv
    <3> QED BY <2>2, <2>4, FS_Surjection
  <2>6. Cardinality(iv) \in Nat /\ Cardinality(S) \in Nat
      BY <2>2, <2>5, FS_CardinalityType
  <2> HIDE DEF S, iv
  <2> QED BY <1>1, <2>3, <2>5, <2>6
<1>7. Cardinality(iv) <= k * Copies(m)
  <2>1. Cardinality(iv) \in Nat /\ k <= k * 1 /\ k <= k * 2
      BY <1>1, <1>6, FS_CardinalityType
  <2> HIDE DEF iv
  <2> QED BY <1>1, <1>2, <1>6, <2>1
<1>8. ASSUME NEW s \in DOMAIN mp
      PROVE  mp[s] \in Seq(DeviceZones) /\ Len(mp[s]) = Width(m, s) /\ Range(mp[s]) \subseteq iv
  <2>1. s \in 0 .. k - 1
      OBVIOUS
  <2>2. Range(mp[s]) = {<<0, s>>}
      BY <1>5, <2>1 DEF Range
  <2>3. s < Meta * N
      BY <1>1, <2>1 DEF k
  <2> QED BY <1>5, <2>1, <2>2, <2>3 DEF Width
<1>9. Injective(mp)
  <2> SUFFICES ASSUME NEW s \in DOMAIN mp, NEW t \in DOMAIN mp, NEW i \in DOMAIN mp[s],
                      NEW j \in DOMAIN mp[t], mp[s][i] = mp[t][j]
               PROVE  s = t /\ i = j
      BY DEF Injective
  <2>1. i = 1 /\ j = 1 /\ mp[s][1] = <<0, s>> /\ mp[t][1] = <<0, t>>
      BY <1>5
  <2> QED BY <2>1
<1>10. iv \subseteq DeviceZones
    BY <1>4
<1>11. DOMAIN mp = 0 .. k - 1
    OBVIOUS
<1> HIDE DEF mp, iv
<1> QED BY <1>1, <1>3, <1>7, <1>8, <1>9, <1>10, <1>11 DEF MappedOK

(* There is room for one zone more. *)
LEMMA RoomForZone ==
    ASSUME NEW m \in AutoModes, NEW n \in Nat, n < NrZones(m)
    PROVE  ((n + 1) * N) * Copies(m) <= N * NZ /\ NrZones(m) \in Nat
<1>1. (n + 1) * Copies(m) <= NZ /\ NrZones(m) \in Nat
  <2>1. CASE m = "AUTO0"
      BY <2>1, Numbers DEF NrZones, Copies
  <2>2. CASE m = "AUTO1"
    <3>1. NrZones(m) = NZ \div 3 /\ Copies(m) = 2
        BY <2>2 DEF NrZones, Copies
    <3>2. NZ \div 3 \in Nat /\ 3 * (NZ \div 3) <= NZ
        BY Numbers
    <3> QED BY <3>1, <3>2, Numbers
  <2> QED BY <2>1, <2>2 DEF AutoModes
<1>2. Copies(m) \in Nat
    BY DEF Copies
<1>3. ((n + 1) * N) * Copies(m) = ((n + 1) * Copies(m)) * N /\ (n + 1) * Copies(m) \in Nat
    BY <1>2, Numbers
<1>4. ((n + 1) * Copies(m)) * N <= NZ * N
    BY <1>1, <1>3, Numbers, Monotone
<1> QED BY <1>1, <1>3, <1>4, Numbers

(* The place in the order that a new sub zone's mirror takes. *)
LEMMA TakenOnce ==
    ASSUME NEW c \in {1, 2}, NEW s \in 0 .. N - 1, NEW t \in 0 .. N - 1,
           NEW i \in 1 .. c, NEW j \in 1 .. c
    PROVE  /\ s * c + i \in 1 .. N * c
           /\ s * c + i = t * c + j => s = t /\ i = j
<1>1. CASE c = 1
    BY <1>1, Numbers
<1>2. CASE c = 2
    BY <1>2, Numbers
<1> QED BY <1>1, <1>2

(* createMapping takes device zones that are free, each once. *)
LEMMA ZoneMapped ==
    ASSUME NEW m \in AutoModes, NEW n \in Nat, Meta <= n, n < NrZones(m),
           NEW al, MappedOK(m, al, n)
    PROVE  MappedOK(m, createMapping(al, n, Copies(m)), n + 1)
<1> DEFINE c == Copies(m)
           U == al.inv
           lo == n * N
           S == lo .. lo + N - 1
           new == [s \in S |-> [i \in 1 .. c |-> NthFree(U, (s - lo) * c + i)]]
           mp == [s \in DOMAIN al.map \cup S |->
                    IF s \in DOMAIN al.map THEN al.map[s]
                    ELSE [i \in 1 .. c |-> NthFree(U, (s - lo) * c + i)]]
           got == {NthFree(U, e) : e \in 1 .. N * c}
           iv == U \cup got
<1>1. c \in {1, 2} /\ lo \in Nat /\ N \in Nat \ {0} /\ N * c \in Nat
    BY Numbers DEF Copies
<1>2. /\ Mapped(n) = n /\ Mapped(n + 1) = n + 1 /\ (n + 1) * N = lo + N
      /\ (lo + N) * c = lo * c + N * c
    BY <1>1, Numbers DEF Mapped
<1>3. createMapping(al, n, Copies(m)).map = mp /\ createMapping(al, n, Copies(m)).inv = iv
    BY DEF createMapping
<1> HIDE DEF c, lo
<1>4. /\ DOMAIN al.map = 0 .. lo - 1
      /\ \A s \in DOMAIN al.map : /\ al.map[s] \in Seq(DeviceZones)
                                  /\ Len(al.map[s]) = Width(m, s)
                                  /\ Range(al.map[s]) \subseteq U
      /\ U \subseteq DeviceZones
      /\ Cardinality(U) <= lo * c
      /\ Injective(al.map)
    BY <1>2 DEF MappedOK, c, lo
<1>5. (lo + N) * c <= N * NZ
    BY <1>1, <1>2, RoomForZone DEF c
<1>6. IsFiniteSet(U) /\ Cardinality(U) \in Nat
    BY <1>4, DeviceZonesFinite, FS_Subset, FS_CardinalityType
<1>7. Cardinality(Free(U)) \in Nat /\ N * c <= Cardinality(Free(U))
  <2>1. DeviceZones \cap U = U
      BY <1>4
  <2>2. Cardinality(DeviceZones \ U) = Cardinality(DeviceZones) - Cardinality(DeviceZones \cap U)
      BY DeviceZonesFinite, FS_Difference
  <2>3. Cardinality(Free(U)) = N * NZ - Cardinality(U)
      BY <2>1, <2>2, DeviceZonesFinite DEF Free
  <2>4. lo * c + N * c <= N * NZ /\ lo * c \in Nat /\ N * NZ \in Nat
      BY <1>1, <1>2, <1>5, Numbers
  <2>5. Cardinality(Free(U)) \in Nat
      BY FreeFinite
  <2> QED BY <1>1, <1>4, <1>6, <2>3, <2>4, <2>5
<1>8. ASSUME NEW e \in 1 .. N * c
      PROVE  NthFree(U, e) \in DeviceZones /\ NthFree(U, e) \notin U /\ Rank(U, NthFree(U, e)) = e
  <2>1. e \in 1 .. Cardinality(Free(U))
      BY <1>1, <1>7
  <2> QED BY <2>1, NthIsFree DEF Free
<1>9. ASSUME NEW s \in S
      PROVE  /\ new[s] \in Seq(DeviceZones) /\ Len(new[s]) = c /\ DOMAIN new[s] = 1 .. c
             /\ \A i \in 1 .. c : /\ (s - lo) * c + i \in 1 .. N * c
                                  /\ new[s][i] = NthFree(U, (s - lo) * c + i)
  <2>1. s - lo \in 0 .. N - 1
      BY <1>1
  <2>2. ASSUME NEW i \in 1 .. c PROVE (s - lo) * c + i \in 1 .. N * c
      BY <1>1, <2>1, TakenOnce
  <2>3. new[s] = [i \in 1 .. c |-> NthFree(U, (s - lo) * c + i)]
      OBVIOUS
  <2>4. \A i \in 1 .. c : NthFree(U, (s - lo) * c + i) \in DeviceZones
      BY <1>8, <2>2
  <2>5. c \in Nat
      BY <1>1
  <2> HIDE DEF new
  <2>6. new[s] \in [1 .. c -> DeviceZones]
      BY <2>3, <2>4
  <2>7. new[s] \in Seq(DeviceZones) /\ Len(new[s]) = c
      BY <2>5, <2>6
  <2> QED BY <2>2, <2>3, <2>7
<1>10. /\ DOMAIN mp = 0 .. (lo + N) - 1
       /\ \A s \in DOMAIN al.map : mp[s] = al.map[s]
       /\ \A s \in S : mp[s] = new[s]
  <2>1. \A s \in S : s \notin DOMAIN al.map
      BY <1>1, <1>4
  <2>2. DOMAIN al.map \cup S = 0 .. (lo + N) - 1
      BY <1>1, <1>4
  <2> QED BY <2>1, <2>2
<1>11. ASSUME NEW s \in DOMAIN mp PROVE s \in DOMAIN al.map \/ s \in S
    BY <1>1, <1>4, <1>10
<1> HIDE DEF new, mp
<1>12. iv \subseteq DeviceZones
    BY <1>4, <1>8
<1>13. Cardinality(iv) <= (lo + N) * c
  <2> DEFINE E == 1 .. N * c
             h == [e \in E |-> NthFree(U, e)]
  <2>1. 1 \in Int /\ N * c \in Int
      BY <1>1
  <2>2. IsFiniteSet(E) /\ Cardinality(E) = IF 1 > N * c THEN 0 ELSE N * c - 1 + 1
      BY <2>1, FS_Interval
  <2>3. Cardinality(E) <= N * c /\ Cardinality(E) \in Nat
      BY <1>1, <2>2
  <2>4. h \in Surjection(E, got)
      BY DEF Surjection
  <2> HIDE DEF E, h, got
  <2>5. IsFiniteSet(got) /\ Cardinality(got) <= Cardinality(E)
      BY <2>2, <2>4, FS_Surjection
  <2>6. Cardinality(U \cup got) = Cardinality(U) + Cardinality(got) - Cardinality(U \cap got)
      BY <1>6, <2>5, FS_Union
  <2>7. IsFiniteSet(U \cap got) /\ Cardinality(U \cap got) \in Nat /\ Cardinality(got) \in Nat
      BY <1>6, <2>5, FS_Intersection, FS_CardinalityType
  <2>8. lo * c \in Nat
      BY <1>1
  <2> DEFINE X == lo * c
             Y == N * c
             T == (lo + N) * c
  <2>9. T = X + Y /\ X \in Nat /\ Y \in Nat /\ Cardinality(U) <= X /\ Cardinality(E) <= Y
      BY <1>1, <1>2, <1>4, <2>3, <2>8
  <2> HIDE DEF X, Y, T
  <2>10. Cardinality(U \cup got) <= T
      BY <1>6, <2>3, <2>5, <2>6, <2>7, <2>9
  <2> QED BY <2>10 DEF T
<1>14. ASSUME NEW s \in DOMAIN mp
       PROVE  mp[s] \in Seq(DeviceZones) /\ Len(mp[s]) = Width(m, s) /\ Range(mp[s]) \subseteq iv
  <2>1. CASE s \in DOMAIN al.map
      BY <1>4, <1>10, <2>1
  <2>2. CASE s \in S
    <3>1. Meta * N <= lo /\ Meta * N \in Nat
        BY Numbers, Monotone, Product DEF lo
    <3>2. Width(m, s) = c
        BY <1>1, <2>2, <3>1 DEF Width, c
    <3>3. \A i \in 1 .. c : new[s][i] \in got
        BY <1>9, <2>2
    <3>4. Range(new[s]) \subseteq got
        BY <1>9, <2>2, <3>3 DEF Range
    <3> QED BY <1>9, <1>10, <2>2, <3>2, <3>4
  <2> QED BY <1>11, <2>1, <2>2
<1>15. Injective(mp)
  <2> SUFFICES ASSUME NEW s \in DOMAIN mp, NEW t \in DOMAIN mp, NEW i \in DOMAIN mp[s],
                      NEW j \in DOMAIN mp[t], mp[s][i] = mp[t][j]
               PROVE  s = t /\ i = j
      BY DEF Injective
  <2>1. ASSUME NEW r \in DOMAIN al.map, NEW x \in DOMAIN mp[r] PROVE mp[r][x] \in U
      BY <1>4, <1>10, <2>1 DEF Range
  <2>2. ASSUME NEW r \in S, NEW x \in DOMAIN mp[r] PROVE mp[r][x] \notin U
      BY <1>8, <1>9, <1>10
  <2>3. CASE s \in DOMAIN al.map /\ t \in DOMAIN al.map
      BY <1>4, <1>10, <2>3 DEF Injective
  <2>4. CASE s \in DOMAIN al.map /\ t \in S
      BY <2>1, <2>2, <2>4
  <2>5. CASE s \in S /\ t \in DOMAIN al.map
      BY <2>1, <2>2, <2>5
  <2>6. CASE s \in S /\ t \in S
    <3>1. /\ i \in 1 .. c /\ j \in 1 .. c
          /\ new[s][i] = NthFree(U, (s - lo) * c + i) /\ new[t][j] = NthFree(U, (t - lo) * c + j)
          /\ (s - lo) * c + i \in 1 .. N * c /\ (t - lo) * c + j \in 1 .. N * c
          /\ new[s][i] = new[t][j]
        BY <1>9, <1>10, <2>6
    <3>2. (s - lo) * c + i = (t - lo) * c + j
        BY <1>8, <3>1
    <3>3. s - lo \in 0 .. N - 1 /\ t - lo \in 0 .. N - 1
        BY <1>1, <2>6
    <3>4. s - lo = t - lo /\ i = j
        BY <1>1, <3>1, <3>2, <3>3, TakenOnce
    <3> QED BY <1>1, <2>6, <3>4
  <2> QED BY <1>11, <2>3, <2>4, <2>5, <2>6
<1> QED BY <1>2, <1>3, <1>10, <1>12, <1>13, <1>14, <1>15 DEF MappedOK, c, lo

\* ZonesMapped as the fixpoint of its loop.
MapStep(m, g, z) ==
    IF z <= Meta THEN MetaMapping ELSE createMapping(g[z - 1], z - 1, Copies(m))
MapFun(m) == CHOOSE g : g = [z \in 0 .. NrZones(m) |-> MapStep(m, g, z)]

(* ZonesMapped is defined by that fixpoint. *)
LEMMA MapIsFun ==
    ASSUME NEW m
    PROVE  ZonesMapped(m) = MapFun(m)[NrZones(m)]
BY Zenon DEF ZonesMapped, MapFun, MapStep

(* The fixpoint exists: it is built one zone at a time. *)
LEMMA MapAt ==
    ASSUME NEW m, NrZones(m) \in Nat
    PROVE  \A z \in 0 .. NrZones(m) : MapFun(m)[z] = MapStep(m, MapFun(m), z)
<1> DEFINE D == 0 .. NrZones(m)
           Good(g, k) == \A z \in D : z <= k => g[z] = MapStep(m, g, z)
           S == {k \in Nat : \E g : g = [z \in D |-> g[z]] /\ Good(g, k)}
<1>0. Meta \in Nat \ {0}
    BY Numbers
<1>1. 0 \in S
  <2> DEFINE g == [z \in D |-> MetaMapping]
  <2>1. Good(g, 0)
    <3>1. \A z \in D : z <= 0 => z = 0
        OBVIOUS
    <3>2. g[0] = MetaMapping /\ 0 <= Meta
        BY <1>0
    <3> QED BY <3>1, <3>2 DEF MapStep
  <2>2. g = [z \in D |-> g[z]]
      OBVIOUS
  <2>3. \E u : u = [z \in D |-> u[z]] /\ Good(u, 0)
    <3> HIDE DEF g, Good
    <3> QED BY <2>1, <2>2, Zenon
  <2> HIDE DEF Good
  <2> QED BY <2>3
<1>2. ASSUME NEW k \in Nat, k \in S PROVE k + 1 \in S
  <2>1. PICK g : g = [z \in D |-> g[z]] /\ Good(g, k)
      BY <1>2
  <2> DEFINE h == [z \in D |-> MapStep(m, g, z)]
  <2>2. ASSUME NEW z \in D, z <= k + 1 PROVE h[z] = MapStep(m, h, z)
    <3>1. CASE z <= Meta
        BY <3>1 DEF MapStep
    <3>2. CASE ~(z <= Meta)
      <4>1. z - 1 \in D /\ z - 1 <= k
          BY <1>0, <2>2, <3>2
      <4>2. h[z - 1] = g[z - 1]
          BY <2>1, <4>1
      <4>3. h[z] = MapStep(m, g, z)
          OBVIOUS
      <4> HIDE DEF h
      <4> QED BY <3>2, <4>2, <4>3 DEF MapStep
    <3> QED BY <3>1, <3>2
  <2>3. Good(h, k + 1) /\ h = [z \in D |-> h[z]]
      BY <2>2
  <2>4. \E u : u = [z \in D |-> u[z]] /\ Good(u, k + 1)
    <3> HIDE DEF h, Good
    <3> QED BY <2>3, Zenon
  <2> HIDE DEF Good
  <2> QED BY <2>4
<1>3. NrZones(m) \in S
  <2> HIDE DEF S
  <2> QED BY <1>1, <1>2, Induction
<1>4. PICK g : g = [z \in D |-> g[z]] /\ Good(g, NrZones(m))
    BY <1>3
<1>5. g = [z \in 0 .. NrZones(m) |-> MapStep(m, g, z)]
    BY <1>4
<1>6. MapFun(m) = [z \in 0 .. NrZones(m) |-> MapStep(m, MapFun(m), z)]
    BY <1>5 DEF MapFun
<1> QED BY <1>6

(* The default layouts use a device zone at most once. *)
LEMMA DefaultMapped ==
    ASSUME NEW m \in AutoModes
    PROVE  MappedOK(m, DefaultMapping(m), NrZones(m)) /\ NrZones(m) \in Nat
<1> DEFINE G == MapFun(m)
           K == NrZones(m)
           S == {n \in Nat : n \in 0 .. K => MappedOK(m, G[n], n)}
<1>0. K \in Nat
    BY Numbers DEF NrZones, AutoModes
<1>1. \A z \in 0 .. K : G[z] = MapStep(m, G, z)
    BY <1>0, MapAt
<1> HIDE DEF G, K
<1>2. 0 \in S
  <2>1. 0 <= Meta /\ 0 \in 0 .. K
      BY <1>0, Numbers
  <2>2. G[0] = MetaMapping
      BY <1>1, <2>1 DEF MapStep
  <2> QED BY <2>1, <2>2, MetaMapped
<1>3. ASSUME NEW n \in Nat, n \in S PROVE n + 1 \in S
  <2> SUFFICES ASSUME n + 1 \in 0 .. K PROVE MappedOK(m, G[n + 1], n + 1)
      OBVIOUS
  <2>1. G[n + 1] = MapStep(m, G, n + 1) /\ (n + 1) - 1 = n /\ n + 1 \in Nat
      BY <1>1
  <2>2. CASE n + 1 <= Meta
      BY <2>1, <2>2, MetaMapped DEF MapStep
  <2>3. CASE ~(n + 1 <= Meta)
    <3>1. Meta <= n /\ n < K /\ n \in 0 .. K
        BY <1>0, <2>3, Numbers
    <3>2. MappedOK(m, G[n], n)
        BY <1>3, <3>1
    <3>3. G[n + 1] = createMapping(G[n], n, Copies(m))
        BY <2>1, <2>3 DEF MapStep
    <3> QED BY <3>1, <3>2, <3>3, ZoneMapped DEF K
  <2> QED BY <2>2, <2>3
<1>4. K \in S
  <2> HIDE DEF S
  <2> QED BY <1>0, <1>2, <1>3, Induction
<1>5. MappedOK(m, G[K], K)
    BY <1>0, <1>4
<1>6. DefaultMapping(m) = G[K]
    BY MapIsFun DEF DefaultMapping, AutoModes, G, K
<1> QED BY <1>0, <1>5, <1>6 DEF K

-----------------------------------------------------------------------------
(* The map of RAID-auto.                                                   *)

\* The default map, and the device zones it uses.
Home(m) == DefaultMapping(m).map
Base(m) == DefaultMapping(m).inv

\* The map that is in use: it differs from the default map only in mirrors, and
\* only by device zones that the default map does not use.
MapOK(m, mp, iv) ==
    /\ DOMAIN mp = DOMAIN Home(m)
    /\ \A s \in DOMAIN mp : /\ mp[s] \in Seq(DeviceZones)
                            /\ Len(mp[s]) = Width(m, s)
                            /\ Range(mp[s]) \subseteq iv
    /\ Base(m) \subseteq iv /\ iv \subseteq DeviceZones
    /\ Injective(mp)
    /\ \A s \in DOMAIN mp : \A i \in DOMAIN mp[s] :
         mp[s][i] \in Range(Home(m)[s]) \/ mp[s][i] \notin Base(m)
    /\ \A s \in DOMAIN mp : m = "AUTO0" \/ s < Meta * N => mp[s] = Home(m)[s]

(* The default map is one. *)
LEMMA HomeOK ==
    ASSUME NEW m \in AutoModes
    PROVE  MapOK(m, Home(m), Base(m))
<1>1. MappedOK(m, DefaultMapping(m), NrZones(m))
    BY DefaultMapped
<1>2. \A s \in DOMAIN Home(m) : Home(m)[s] \in Seq(DeviceZones) /\ Range(Home(m)[s]) \subseteq Base(m)
    BY <1>1 DEF MappedOK, Home, Base
<1>3. \A s \in DOMAIN Home(m) : \A i \in DOMAIN Home(m)[s] : Home(m)[s][i] \in Range(Home(m)[s])
    BY DEF Range
<1>4. \A s \in DOMAIN Home(m) : Len(Home(m)[s]) = Width(m, s)
    BY <1>1 DEF MappedOK, Home
<1>5. Injective(Home(m)) /\ Base(m) \subseteq DeviceZones
    BY <1>1 DEF MappedOK, Home, Base
<1> QED BY <1>2, <1>3, <1>4, <1>5 DEF MapOK

(* Short sequences. *)
LEMMA Pair ==
    ASSUME NEW X, NEW a \in X, NEW b \in X
    PROVE  /\ <<a, b>> \in Seq(X) /\ Len(<<a, b>>) = 2 /\ DOMAIN <<a, b>> = {1, 2}
           /\ <<a, b>>[1] = a /\ <<a, b>>[2] = b
           /\ Append(<<a>>, b) = <<a, b>>
           /\ <<a>> \o <<>> = <<a>> /\ <<>> \o <<a>> = <<a>>
<1>1. <<a>> \in Seq(X) /\ Len(<<a>>) = 1
    OBVIOUS
<1>2. Append(<<a>>, b) = <<a, b>>
  <2>1. /\ Append(<<a>>, b) \in Seq(X) /\ Len(Append(<<a>>, b)) = 2
        /\ Append(<<a>>, b)[1] = a /\ Append(<<a>>, b)[2] = b
      BY <1>1, AppendProperties
  <2>2. <<a, b>> \in Seq(X) /\ Len(<<a, b>>) = 2 /\ <<a, b>>[1] = a /\ <<a, b>>[2] = b
      OBVIOUS
  <2>3. \A i \in 1 .. 2 : i = 1 \/ i = 2
      OBVIOUS
  <2>4. \A i \in 1 .. Len(Append(<<a>>, b)) : Append(<<a>>, b)[i] = <<a, b>>[i]
      BY <2>1, <2>2, <2>3
  <2> QED BY <2>1, <2>2, <2>4, SeqEqual
<1>3. <<a>> \o <<>> = <<a>> /\ <<>> \o <<a>> = <<a>>
    BY <1>1, ConcatEmptySeq
<1>4. <<a, b>> \in Seq(X) /\ Len(<<a, b>>) = 2
    OBVIOUS
<1>5. DOMAIN <<a, b>> = 1 .. 2 /\ 1 .. 2 = {1, 2}
    BY <1>4
<1> QED BY <1>2, <1>3, <1>4, <1>5

(* Sequences of no and of one element. *)
LEMMA ShortSeq ==
    ASSUME NEW X, NEW s \in Seq(X)
    PROVE  /\ Len(s) = 0 => s = <<>>
           /\ Len(s) = 1 => s = <<s[1]>>
<1>1. ASSUME Len(s) = 1 PROVE s = <<s[1]>>
  <2>1. s[1] \in X
      BY <1>1
  <2>2. <<s[1]>> \in Seq(X) /\ Len(<<s[1]>>) = 1 /\ <<s[1]>>[1] = s[1]
      BY <2>1
  <2>3. \A i \in 1 .. Len(s) : s[i] = <<s[1]>>[i]
      BY <1>1, <2>2
  <2> QED BY <1>1, <2>2, <2>3, SeqEqual
<1>2. Len(s) = 0 => s = <<>>
    BY EmptySeq
<1> QED BY <1>1, <1>2

(* A pair of mirrors of which one is replaced. *)
LEMMA RemappedPair ==
    ASSUME NEW X, NEW ms \in Seq(X), Len(ms) = 2, NEW i \in {1, 2}, NEW f \in X
    PROVE  Remapped(ms, i, f) = <<ms[3 - i], f>>
<1> DEFINE a == SubSeq(ms, 1, i - 1)
           b == SubSeq(ms, i + 1, 2)
<1>1. ms[1] \in X /\ ms[2] \in X
  <2>1. 1 \in 1 .. Len(ms) /\ 2 \in 1 .. Len(ms)
      OBVIOUS
  <2> QED BY <2>1, ElementOfSeq
<1>2. RemoveAt(ms, i) = a \o b
    BY DEF RemoveAt
<1>3. /\ a \in Seq(X) /\ Len(a) = i - 1 /\ (i = 2 => a[1] = ms[1])
      /\ b \in Seq(X) /\ Len(b) = 2 - i /\ (i = 1 => b[1] = ms[2])
  <2>1. /\ 1 \in Int /\ i - 1 \in Int /\ i + 1 \in Int /\ 2 \in Int
        /\ \A x \in 1 .. i - 1 : ms[x] \in X
        /\ \A x \in i + 1 .. 2 : ms[x] \in X
      BY <1>1
  <2>2. /\ a \in Seq(X) /\ Len(a) = IF 1 <= i - 1 THEN (i - 1) - 1 + 1 ELSE 0
        /\ \A x \in 1 .. (i - 1) - 1 + 1 : a[x] = ms[1 + x - 1]
      BY <2>1, SubSeqProperties
  <2>3. /\ b \in Seq(X) /\ Len(b) = IF i + 1 <= 2 THEN 2 - (i + 1) + 1 ELSE 0
        /\ \A x \in 1 .. 2 - (i + 1) + 1 : b[x] = ms[(i + 1) + x - 1]
      BY <2>1, SubSeqProperties
  <2> HIDE DEF a, b
  <2>4. CASE i = 1
      BY <2>2, <2>3, <2>4
  <2>5. CASE i = 2
      BY <2>2, <2>3, <2>5
  <2> QED BY <2>4, <2>5
<1> HIDE DEF a, b
<1>4. a \o b = <<ms[3 - i]>>
  <2>1. CASE i = 1
    <3>1. a = <<>> /\ b = <<ms[2]>>
        BY <1>3, <2>1, ShortSeq
    <3> QED BY <1>1, <2>1, <3>1, Pair
  <2>2. CASE i = 2
    <3>1. a = <<ms[1]>> /\ b = <<>>
        BY <1>3, <2>2, ShortSeq
    <3> QED BY <1>1, <2>2, <3>1, Pair
  <2> QED BY <2>1, <2>2
<1>5. Remapped(ms, i, f) = Append(<<ms[3 - i]>>, f) /\ ms[3 - i] \in X
    BY <1>1, <1>2, <1>4 DEF Remapped
<1> QED BY <1>5, Pair

\* The mirror i of the pair s gave way to f: the other one comes first now.
Swapped(mp, mp2, s, i, f) ==
    /\ Len(mp[s]) = 2 /\ i \in {1, 2} /\ mp2[s] = <<mp[s][3 - i], f>>
    /\ mp[s][3 - i] \in DeviceZones
    /\ \A t \in DOMAIN mp : t # s => mp2[t] = mp[t]

(* Replacing a mirror by a device zone that nobody uses. *)
LEMMA MirrorReplaced ==
    ASSUME NEW m \in AutoModes, NEW mp, NEW iv, MapOK(m, mp, iv), m # "AUTO0",
           NEW s \in DOMAIN mp, ~(s < Meta * N), NEW i \in DOMAIN mp[s],
           NEW f \in DeviceZones, f \notin iv,
           NEW mp2, mp2 = [mp EXCEPT ![s] = Remapped(mp[s], i, f)]
    PROVE  /\ MapOK(m, mp2, iv \cup {f})
           /\ Swapped(mp, mp2, s, i, f)
<1>1. /\ mp[s] \in Seq(DeviceZones) /\ Len(mp[s]) = Width(m, s) /\ Range(mp[s]) \subseteq iv
      /\ Base(m) \subseteq iv /\ iv \subseteq DeviceZones
    BY DEF MapOK
<1>2. Width(m, s) = 2
    BY DEF Width, Copies, AutoModes
<1>3. Len(mp[s]) = 2 /\ DOMAIN mp[s] = {1, 2} /\ i \in {1, 2} /\ 3 - i \in {1, 2}
    BY <1>1, <1>2
<1>4. Remapped(mp[s], i, f) = <<mp[s][3 - i], f>>
    BY <1>1, <1>3, RemappedPair
<1> DEFINE g == mp[s][3 - i]
<1>5. g \in DeviceZones /\ g \in iv
    BY <1>1, <1>3 DEF Range
<1>6. DOMAIN mp2 = DOMAIN mp /\ mp2[s] = <<g, f>> /\ \A t \in DOMAIN mp : t # s => mp2[t] = mp[t]
    BY <1>4
<1> HIDE DEF g
<1>7. mp2[s] \in Seq(DeviceZones) /\ Len(mp2[s]) = 2 /\ DOMAIN mp2[s] = {1, 2} /\ mp2[s][1] = g /\ mp2[s][2] = f
  <2> DEFINE p == <<g, f>>
  <2>1. mp2[s] = p
      BY <1>6
  <2>2. p \in Seq(DeviceZones) /\ Len(p) = 2 /\ DOMAIN p = {1, 2}
      BY <1>5, Pair
  <2>3. p[1] = g /\ p[2] = f
      OBVIOUS
  <2> HIDE DEF p
  <2> QED BY <2>1, <2>2, <2>3
<1>8. Range(mp2[s]) \subseteq iv \cup {f}
    BY <1>5, <1>7 DEF Range
<1>9. ASSUME NEW t \in DOMAIN mp2
      PROVE  mp2[t] \in Seq(DeviceZones) /\ Len(mp2[t]) = Width(m, t) /\ Range(mp2[t]) \subseteq iv \cup {f}
  <2>1. CASE t = s
      BY <1>2, <1>7, <1>8, <2>1
  <2>2. CASE t # s
      BY <1>6, <2>2 DEF MapOK
  <2> QED BY <2>1, <2>2
<1>10. Injective(mp2)
  <2> SUFFICES ASSUME NEW t \in DOMAIN mp2, NEW u \in DOMAIN mp2, NEW x \in DOMAIN mp2[t],
                      NEW y \in DOMAIN mp2[u], mp2[t][x] = mp2[u][y]
               PROVE  t = u /\ x = y
      BY DEF Injective
  <2>0. Injective(mp)
      BY DEF MapOK
  <2>1. ASSUME NEW v \in DOMAIN mp, NEW w \in DOMAIN mp[v] PROVE mp[v][w] \in iv
      BY DEF MapOK, Range
  <2>2. CASE t # s /\ u # s
      BY <1>6, <2>0, <2>2 DEF Injective
  <2>3. CASE t = s /\ u = s
    <3>1. g # f
        BY <1>5
    <3> QED BY <1>7, <2>3, <3>1
  <2>4. CASE t = s /\ u # s
    <3>1. y \in DOMAIN mp[u] /\ mp2[u][y] = mp[u][y] /\ mp[u][y] \in iv
        BY <1>6, <2>1, <2>4
    <3>2. mp2[u][y] # g
        BY <1>3, <2>0, <2>4, <3>1 DEF Injective, g
    <3> QED BY <1>7, <2>4, <3>1, <3>2
  <2>5. CASE t # s /\ u = s
    <3>1. x \in DOMAIN mp[t] /\ mp2[t][x] = mp[t][x] /\ mp[t][x] \in iv
        BY <1>6, <2>1, <2>5
    <3>2. mp2[t][x] # g
        BY <1>3, <2>0, <2>5, <3>1 DEF Injective, g
    <3> QED BY <1>7, <2>5, <3>1, <3>2
  <2> QED BY <2>2, <2>3, <2>4, <2>5
<1>11. ASSUME NEW t \in DOMAIN mp2, NEW x \in DOMAIN mp2[t]
       PROVE  mp2[t][x] \in Range(Home(m)[t]) \/ mp2[t][x] \notin Base(m)
  <2>1. CASE t # s
      BY <1>6, <2>1 DEF MapOK
  <2>2. CASE t = s
    <3>1. g \in Range(Home(m)[s]) \/ g \notin Base(m)
        BY <1>3 DEF MapOK, g
    <3>2. f \notin Base(m)
        BY <1>1
    <3> QED BY <1>7, <2>2, <3>1, <3>2
  <2> QED BY <2>1, <2>2
<1>12. \A t \in DOMAIN mp2 : m = "AUTO0" \/ t < Meta * N => mp2[t] = Home(m)[t]
    BY <1>6 DEF MapOK
<1>13. DOMAIN mp2 = DOMAIN Home(m)
    BY <1>6 DEF MapOK
<1>14. Base(m) \subseteq iv \cup {f} /\ iv \cup {f} \subseteq DeviceZones
    BY <1>1
<1>15. MapOK(m, mp2, iv \cup {f})
    BY <1>9, <1>10, <1>11, <1>12, <1>13, <1>14 DEF MapOK
<1>16. Swapped(mp, mp2, s, i, f)
    BY <1>3, <1>5, <1>6 DEF g, Swapped
<1> QED BY <1>15, <1>16

(* The sub zones of the default map. *)
LEMMA HomeDomain ==
    ASSUME NEW m \in AutoModes
    PROVE  /\ DOMAIN Home(m) = 0 .. Mapped(NrZones(m)) * N - 1
           /\ NrZones(m) \in Nat /\ NrZones(m) <= Mapped(NrZones(m)) /\ Mapped(NrZones(m)) \in Nat
           /\ Mapped(NrZones(m)) * N \in Nat
<1>1. MappedOK(m, DefaultMapping(m), NrZones(m)) /\ NrZones(m) \in Nat
    BY DefaultMapped
<1>2. DOMAIN Home(m) = 0 .. Mapped(NrZones(m)) * N - 1
    BY <1>1 DEF MappedOK, Home
<1>3. NrZones(m) <= Mapped(NrZones(m)) /\ Mapped(NrZones(m)) \in Nat
    BY <1>1, Numbers DEF Mapped
<1> QED BY <1>1, <1>2, <1>3, Numbers

MapInv ==
    /\ mode \in AllModes
    /\ RaidAuto => MapOK(mode, map, inv)
    /\ ~RaidAuto => inv = {}

\* What a repair did: it replaced the device zone i of the mirrors s.
Repaired(s, i, f) ==
    /\ mode = "AUTO1" /\ RaidAuto
    /\ s \in DOMAIN map /\ i \in DOMAIN map[s] /\ map[s][i] \in offline
    /\ ~(s < Meta * N)
    /\ f \in DeviceZones /\ f \notin inv
    /\ map' = [map EXCEPT ![s] = Remapped(map[s], i, f)]
    /\ inv' = inv \cup {f}
    /\ LET fine == map'[s][1]
           src == CloneSource(fine, f)
       IN  disk' = IF src \in offline THEN disk
                   ELSE [disk EXCEPT ![f] = FirstBlocks(src, Len(disk[fine]))]

(* Min of a set of naturals. *)
LEMMA MinIn ==
    ASSUME NEW S, S \subseteq Nat, S # {}
    PROVE  Min(S) \in S /\ \A x \in S : Min(S) <= x
<1>1. \E x \in S : \A y \in S : x <= y
    BY LeastNatural
<1> QED BY <1>1 DEF Min

(* ScanAndHandleOffline repairs one pair of mirrors, with a device zone    *)
(* that the inverse map does not have.                                     *)
LEMMA ScanRepairs ==
    ASSUME MapInv, NEW z, NEW k, ScanAndHandleOffline(z, k)
    PROVE  \E s, i, f : Repaired(s, i, f)
<1>1. ZoneMode(z) = "RAID1" /\ RaidAuto
    BY DEF ScanAndHandleOffline
<1>2. mode = "AUTO1"
    BY <1>1 DEF ZoneMode, RaidAuto
<1>3. MapOK(mode, map, inv) /\ mode \in AutoModes
    BY <1>1, <1>2 DEF MapInv, AutoModes
<1>4. PICK s \in DOMAIN map : \E i \in DOMAIN map[s] :
         LET old == map[s][i]
             spare == getFreeDeviceZone(old[1], inv)
             fresh == <<old[1], Min(spare)>>
             mp == Remapped(map[s], i, fresh)
             fine == mp[1]
             src == CloneSource(fine, fresh)
         IN  /\ old \in offline
             /\ ZoneMode(s \div N) = "RAID1"
             /\ spare # {}
             /\ map' = [map EXCEPT ![s] = mp]
             /\ inv' = inv \cup {fresh}
             /\ disk' = IF src \in offline THEN disk
                        ELSE [disk EXCEPT ![fresh] =
                                FirstBlocks(src, Len(disk[fine]))]
    BY DEF ScanAndHandleOffline
<1>5. PICK i \in DOMAIN map[s] :
         LET old == map[s][i]
             spare == getFreeDeviceZone(old[1], inv)
             fresh == <<old[1], Min(spare)>>
             mp == Remapped(map[s], i, fresh)
             fine == mp[1]
             src == CloneSource(fine, fresh)
         IN  /\ old \in offline
             /\ ZoneMode(s \div N) = "RAID1"
             /\ spare # {}
             /\ map' = [map EXCEPT ![s] = mp]
             /\ inv' = inv \cup {fresh}
             /\ disk' = IF src \in offline THEN disk
                        ELSE [disk EXCEPT ![fresh] =
                                FirstBlocks(src, Len(disk[fine]))]
    BY <1>4
<1> DEFINE old == map[s][i]
           spare == getFreeDeviceZone(old[1], inv)
           f == <<old[1], Min(spare)>>
<1>6. /\ old \in offline /\ ZoneMode(s \div N) = "RAID1" /\ spare # {}
      /\ map' = [map EXCEPT ![s] = Remapped(map[s], i, f)]
      /\ inv' = inv \cup {f}
    BY <1>5
<1>7. map'[s] = Remapped(map[s], i, f)
    BY <1>6
<1>8. LET fine == map'[s][1]
          src == CloneSource(fine, f)
      IN  disk' = IF src \in offline THEN disk
                  ELSE [disk EXCEPT ![f] = FirstBlocks(src, Len(disk[fine]))]
    BY <1>5, <1>7
<1>9. f \in DeviceZones /\ f \notin inv
  <2>1. spare \subseteq 0 .. NZ - 1 /\ \A x \in spare : <<old[1], x>> \notin inv
      BY DEF getFreeDeviceZone
  <2>2. Min(spare) \in spare
    <3>1. spare \subseteq Nat
        BY <2>1, Numbers
    <3> QED BY <1>6, <3>1, MinIn
  <2>3. old \in DeviceZones
    <3>1. map[s] \in Seq(DeviceZones)
        BY <1>3 DEF MapOK
    <3> QED BY <3>1
  <2>4. old[1] \in Devices
      BY <2>3 DEF DeviceZones
  <2> QED BY <2>1, <2>2, <2>4 DEF DeviceZones
<1>10. ~(s < Meta * N)
  <2>1. s \in Nat
      BY <1>3, HomeDomain DEF MapOK
  <2>2. ~(s \div N < Meta)
      BY <1>1, <1>6 DEF ZoneMode
  <2> QED BY <2>1, <2>2, Numbers, QuotientBelow
<1>11. Repaired(s, i, f)
  <2> HIDE DEF f, old, spare
  <2> QED BY <1>1, <1>2, <1>6, <1>8, <1>9, <1>10, Zenon DEF Repaired, old
<1> HIDE DEF f
<1> QED BY <1>11, Zenon

(* The map that Init and Restart build. *)
LEMMA FreshMap ==
    ASSUME NEW m \in AllModes, NEW mp, NEW iv,
           mp = DefaultMapping(m).map, iv = DefaultMapping(m).inv
    PROVE  /\ m \in AutoModes => MapOK(m, mp, iv)
           /\ m \notin AutoModes => iv = {}
<1>1. ASSUME m \in AutoModes PROVE MapOK(m, mp, iv)
    BY <1>1, HomeOK DEF Home, Base
<1>2. ASSUME m \notin AutoModes PROVE iv = {}
    BY <1>2 DEF DefaultMapping, AutoModes
<1> QED BY <1>1, <1>2

(* Every step keeps the map injective and within the inverse map. *)
LEMMA MapStepInv ==
    ASSUME MapInv, [Next]_vars
    PROVE  MapInv'
<1>1. CASE UNCHANGED <<mode, map, inv>>
    BY <1>1 DEF MapInv, RaidAuto
<1>2. ASSUME NEW z \in Zones, NEW k, ScanAndHandleOffline(z, k) PROVE MapInv'
  <2>1. PICK s, i, f : Repaired(s, i, f)
      BY <1>2, ScanRepairs
  <2>2. mode' = mode
      BY <1>2 DEF ScanAndHandleOffline
  <2>3. /\ mode = "AUTO1" /\ RaidAuto
        /\ s \in DOMAIN map /\ i \in DOMAIN map[s] /\ ~(s < Meta * N)
        /\ f \in DeviceZones /\ f \notin inv
        /\ map' = [map EXCEPT ![s] = Remapped(map[s], i, f)]
        /\ inv' = inv \cup {f}
      BY <2>1 DEF Repaired
  <2>4. mode \in AutoModes /\ MapOK(mode, map, inv)
      BY <2>3 DEF MapInv, AutoModes
  <2>5. MapOK(mode, map', inv')
      BY <2>3, <2>4, MirrorReplaced
  <2> QED BY <2>2, <2>3, <2>5 DEF MapInv, RaidAuto
<1>3. ASSUME Restart PROVE MapInv'
  <2>1. /\ mode' = mode /\ map' = DefaultMapping(mode).map
        /\ inv' = DefaultMapping(mode).inv /\ mode \in AllModes
      BY <1>3 DEF Restart, MapInv
  <2>2. (mode \in AutoModes => MapOK(mode, map', inv')) /\ (mode \notin AutoModes => inv' = {})
      BY <2>1, FreshMap
  <2> QED BY <2>1, <2>2 DEF MapInv, RaidAuto, AutoModes
<1>4. CASE UNCHANGED vars
    BY <1>1, <1>4 DEF vars
<1>5. ASSUME NEW z \in Zones, NEW n, AppendTo(z, n) PROVE UNCHANGED <<mode, map, inv>>
    BY <1>5 DEF AppendTo
<1>6. ASSUME NEW z \in Zones, Finish(z) PROVE UNCHANGED <<mode, map, inv>>
    BY <1>6 DEF Finish
<1>7. ASSUME NEW z \in Zones, Reset(z) PROVE UNCHANGED <<mode, map, inv>>
    BY <1>7 DEF Reset
<1>8. ASSUME NEW z \in Zones, NEW dz, GoOffline(z, dz) PROVE UNCHANGED <<mode, map, inv>>
    BY <1>8 DEF GoOffline
<1> QED BY <1>1, <1>2, <1>3, <1>4, <1>5, <1>6, <1>7, <1>8 DEF Next

(* The initial map. *)
LEMMA MapInitInv ==
    ASSUME Init
    PROVE  MapInv
<1>1. mode \in AllModes /\ map = DefaultMapping(mode).map /\ inv = DefaultMapping(mode).inv
    BY RaidAssumption DEF Init
<1>2. (mode \in AutoModes => MapOK(mode, map, inv)) /\ (mode \notin AutoModes => inv = {})
    BY <1>1, FreshMap
<1> QED BY <1>1, <1>2 DEF MapInv, RaidAuto, AutoModes

(* The map as the repairs leave it. *)
THEOREM RaidMapInv == Spec => []MapInv
<1>1. Init => MapInv
    BY MapInitInv
<1>2. MapInv /\ [Next]_vars => MapInv'
    BY MapStepInv
<1> QED BY <1>1, <1>2, PTL DEF Spec

(* RAID-auto gives no device zone to two sub zones, whatever was lost,     *)
(* replaced by ScanAndHandleOffline and forgotten by a restart: the        *)
(* default layouts (createMapping, createMappingTwice) are injective on    *)
(* every geometry, and a repair takes a device zone that the inverse map   *)
(* does not have.                                                          *)
THEOREM RaidMapInjective == Spec => []MapInjective
<1>1. MapInv => MapInjective
  <2> SUFFICES ASSUME MapInv, RaidAuto PROVE MapInjective
      BY DEF MapInjective
  <2>1. MapOK(mode, map, inv)
      BY DEF MapInv
  <2>2. Injective(map)
      BY <2>1 DEF MapOK
  <2>3. \A s \in DOMAIN map : Range(map[s]) \subseteq inv
      BY <2>1 DEF MapOK
  <2> QED BY <2>2, <2>3 DEF MapInjective, Injective
<1> QED BY <1>1, RaidMapInv, PTL

-----------------------------------------------------------------------------
(* Addresses.                                                              *)

\* The size of a zone, the sub zone and the device zones of its block k in the map
\* mp, and the block's offset in each of them.
SizeOf(m) == IF m \in {"RAID1", "RAIDC"} THEN ZB ELSE N * ZB
StripedZone(m, z) == m = "RAID0" \/ (m = "AUTO0" /\ z >= Meta)
SubOf(m, z, k) == z * N + (IF StripedZone(m, z) THEN k % N ELSE k \div ZB)
FixedZone(m, z, k) ==
    CASE m = "RAID0" -> <<k % N, z>>
      [] m = "RAID1" -> <<0, z>>
      [] m = "RAIDC" -> <<0, z % NZ>>
Where(m, mp, z, k) ==
    IF m \in AutoModes THEN mp[SubOf(m, z, k)] ELSE <<FixedZone(m, z, k)>>
OffsetOf(m, z, k) == IF StripedZone(m, z) THEN k \div N ELSE k % ZB

(* The zone size. *)
LEMMA SizeFacts ==
    ASSUME mode \in AllModes
    PROVE  ZoneSize = SizeOf(mode) /\ SizeOf(mode) \in Nat \ {0} /\ N * ZB \in Nat \ {0}
<1>1. N * ZB \in Nat \ {0}
    BY Numbers
<1> QED BY <1>1, Numbers DEF ZoneSize, SizeOf

(* A block's place within its zone. *)
LEMMA WithinZone ==
    ASSUME NEW m \in AllModes, NEW z \in 0 .. NrZones(m) - 1, NEW k \in 0 .. SizeOf(m) - 1
    PROVE  /\ OffsetOf(m, z, k) \in 0 .. ZB - 1
           /\ m \in AutoModes \/ m = "RAID0" => k \div ZB \in 0 .. N - 1 /\ k % N \in 0 .. N - 1
           /\ k \div N \in Nat /\ k % ZB \in 0 .. ZB - 1 /\ k \in Nat
<1>1. k \in Nat /\ SizeOf(m) \in Nat
    BY Numbers DEF SizeOf
<1>2. k \div N \in Nat /\ k % N \in 0 .. N - 1 /\ k \div ZB \in Nat /\ k % ZB \in 0 .. ZB - 1
    BY <1>1, Numbers, Division
<1>3. ASSUME m \in AutoModes \/ m = "RAID0" PROVE k \div ZB < N /\ k \div N < ZB
  <2>1. k < N * ZB /\ k < ZB * N
      BY <1>1, <1>3, Numbers, Product DEF SizeOf, AutoModes
  <2> QED BY <1>1, <2>1, Numbers, QuotientBelow
<1>4. OffsetOf(m, z, k) \in 0 .. ZB - 1
  <2>1. CASE StripedZone(m, z)
    <3>1. k \div N < ZB
        BY <1>3, <2>1 DEF StripedZone, AutoModes
    <3> QED BY <1>2, <2>1, <3>1, Numbers DEF OffsetOf
  <2>2. CASE ~StripedZone(m, z)
      BY <1>2, <2>2 DEF OffsetOf
  <2> QED BY <2>1, <2>2
<1>5. m \in AutoModes \/ m = "RAID0" => k \div ZB \in 0 .. N - 1 /\ k % N \in 0 .. N - 1
    BY <1>2, <1>3, Numbers
<1> QED BY <1>1, <1>2, <1>4, <1>5

(* The sub zones of RAID-auto belong to their zone and are mapped. *)
LEMMA SubFacts ==
    ASSUME NEW m \in AutoModes, NEW z \in 0 .. NrZones(m) - 1, NEW e \in 0 .. N - 1
    PROVE  /\ z * N + e \in DOMAIN Home(m) /\ z * N + e \in Nat
           /\ (z * N + e) \div N = z
           /\ (z * N + e < Meta * N <=> z < Meta)
           /\ z \in Nat
<1>0. /\ DOMAIN Home(m) = 0 .. Mapped(NrZones(m)) * N - 1
      /\ NrZones(m) \in Nat /\ NrZones(m) <= Mapped(NrZones(m)) /\ Mapped(NrZones(m)) \in Nat
    BY HomeDomain
<1> DEFINE M == Mapped(NrZones(m))
<1>1. z \in Nat /\ z + 1 <= M /\ M \in Nat /\ e \in Nat /\ e < N
    BY <1>0, Numbers
<1>2. DOMAIN Home(m) = 0 .. M * N - 1
    BY <1>0
<1> HIDE DEF M
<1>3. (z + 1) * N <= M * N /\ (z + 1) * N = z * N + N /\ z * N \in Nat /\ M * N \in Nat
    BY <1>1, Numbers, Monotone, Product
<1>4. z * N + e \in DOMAIN Home(m) /\ z * N + e \in Nat
    BY <1>1, <1>2, <1>3, Numbers
<1>5. (z * N + e) \div N = z
    BY <1>1, Numbers, Quotient
<1>6. ASSUME z < Meta PROVE z * N + e < Meta * N
  <2>1. z + 1 <= Meta /\ (z + 1) * N <= Meta * N /\ Meta * N \in Nat
      BY <1>1, <1>6, Numbers, Monotone, Product
  <2> QED BY <1>1, <1>3, <2>1, Numbers
<1>7. ASSUME ~(z < Meta) PROVE ~(z * N + e < Meta * N)
  <2>1. Meta * N <= z * N /\ Meta * N \in Nat
      BY <1>1, <1>7, Numbers, Monotone, Product
  <2> QED BY <1>1, <1>3, <2>1, Numbers
<1> QED BY <1>1, <1>4, <1>5, <1>6, <1>7

(* The device zones of a block. *)
LEMMA WhereFacts ==
    ASSUME NEW m \in AllModes, NEW z \in 0 .. NrZones(m) - 1, NEW k \in 0 .. SizeOf(m) - 1,
           NEW mp, NEW iv, m \in AutoModes => MapOK(m, mp, iv)
    PROVE  /\ Where(m, mp, z, k) \in Seq(DeviceZones)
           /\ Len(Where(m, mp, z, k)) \in Nat \ {0}
           /\ m # "AUTO1" \/ z < Meta => Len(Where(m, mp, z, k)) = 1
           /\ m = "AUTO1" /\ z >= Meta => Len(Where(m, mp, z, k)) = 2
           /\ m \in AutoModes => /\ SubOf(m, z, k) \in DOMAIN Home(m)
                                 /\ SubOf(m, z, k) \div N = z
                                 /\ Where(m, mp, z, k) = mp[SubOf(m, z, k)]
                                 /\ (SubOf(m, z, k) < Meta * N <=> z < Meta)
<1>1. CASE m \in AutoModes
  <2> DEFINE e == IF StripedZone(m, z) THEN k % N ELSE k \div ZB
             s == SubOf(m, z, k)
  <2>1. e \in 0 .. N - 1 /\ s = z * N + e
      BY <1>1, WithinZone DEF SubOf
  <2> HIDE DEF e, s
  <2>2. s \in DOMAIN Home(m) /\ s \div N = z /\ (s < Meta * N <=> z < Meta) /\ z \in Nat
      BY <1>1, <2>1, SubFacts
  <2>3. MapOK(m, mp, iv)
      BY <1>1
  <2>4. s \in DOMAIN mp /\ mp[s] \in Seq(DeviceZones) /\ Len(mp[s]) = Width(m, s)
      BY <2>2, <2>3 DEF MapOK
  <2>5. Where(m, mp, z, k) = mp[s]
      BY <1>1 DEF Where, s
  <2>6. m # "AUTO1" \/ z < Meta => Width(m, s) = 1
      BY <2>2 DEF Width, Copies
  <2>7. m = "AUTO1" /\ z >= Meta => Width(m, s) = 2
      BY <2>2, Numbers DEF Width, Copies
  <2>8. Width(m, s) \in {1, 2}
      BY DEF Width, Copies
  <2> QED BY <1>1, <2>2, <2>4, <2>5, <2>6, <2>7, <2>8 DEF s
<1>2. CASE m \notin AutoModes
  <2>1. z \in Nat /\ k \in Nat
      BY Numbers, WithinZone DEF NrZones, AllModes, AutoModes
  <2>2. FixedZone(m, z, k) \in DeviceZones
    <3>1. CASE m = "RAID0"
      <4>1. k % N \in 0 .. N - 1 /\ z \in 0 .. NZ - 1
          BY <3>1, WithinZone DEF NrZones
      <4> QED BY <3>1, <4>1 DEF FixedZone, DeviceZones, Devices
    <3>2. CASE m = "RAID1"
      <4>1. 0 \in 0 .. N - 1 /\ z \in 0 .. NZ - 1
          BY <3>2, Numbers DEF NrZones
      <4> QED BY <3>2, <4>1 DEF FixedZone, DeviceZones, Devices
    <3>3. CASE m = "RAIDC"
      <4>1. 0 \in 0 .. N - 1 /\ z % NZ \in 0 .. NZ - 1
          BY <2>1, <3>3, Numbers, Division
      <4> QED BY <3>3, <4>1 DEF FixedZone, DeviceZones, Devices
    <3> QED BY <1>2, <3>1, <3>2, <3>3 DEF AllModes, AutoModes
  <2>3. Where(m, mp, z, k) = <<FixedZone(m, z, k)>>
      BY <1>2 DEF Where
  <2> HIDE DEF FixedZone
  <2>4. Where(m, mp, z, k) \in Seq(DeviceZones) /\ Len(Where(m, mp, z, k)) = 1
      BY <2>2, <2>3
  <2> QED BY <1>2, <2>4 DEF AutoModes
<1> QED BY <1>1, <1>2

(* Multiplication distributes over addition. *)
LEMMA Distribute ==
    ASSUME NEW a \in Nat, NEW b \in Nat, NEW c \in Nat
    PROVE  (a + b) * c = a * c + b * c /\ (a * b) * c = a * (b * c) /\ a * b \in Nat /\ a + b \in Nat
  OBVIOUS

(* Striping: the address of a block of RAID0. *)
LEMMA StripedAddress ==
    ASSUME NEW z \in Nat, NEW k \in Nat, k < N * ZB,
           NEW pos, pos = z * (N * ZB) + k
    PROVE  /\ pos % N = k % N /\ (pos \div N) \div ZB = z /\ (pos \div N) % ZB = k \div N
           /\ pos % (N * ZB) = k
<1> DEFINE q == z * ZB + (k \div N)
<1>1. k \div N \in Nat /\ k % N \in 0 .. N - 1 /\ k = (k \div N) * N + (k % N)
    BY Numbers, Division
<1>2. z * ZB \in Nat /\ q \in Nat /\ q * N = (z * ZB) * N + (k \div N) * N
  <2> DEFINE x == k \div N
             y == z * ZB
  <2>1. x \in Nat /\ y \in Nat
      BY <1>1, Numbers, Distribute
  <2> HIDE DEF x, y
  <2>2. (y + x) * N = y * N + x * N /\ y + x \in Nat
      BY <2>1, Numbers, Distribute
  <2> QED BY <2>1, <2>2 DEF x, y
<1>3. (z * ZB) * N = z * (N * ZB)
    BY Numbers
<1>4. pos = q * N + (k % N)
  <2> DEFINE A == z * (N * ZB)
             B == (k \div N) * N
             R == k % N
             Q == q * N
  <2>1. k = B + R /\ pos = A + k /\ R \in Nat
      BY <1>1, Numbers
  <2>2. Q = A + B
      BY <1>2, <1>3
  <2>3. A \in Nat /\ B \in Nat
      BY <1>1, <1>2, <1>3, Numbers, Product
  <2> HIDE DEF A, B, R, Q
  <2>4. pos = Q + R
      BY <2>1, <2>2, <2>3
  <2> QED BY <2>4 DEF Q, R
<1>5. pos \div N = q /\ pos % N = k % N
  <2> HIDE DEF q
  <2>1. (q * N + (k % N)) \div N = q /\ (q * N + (k % N)) % N = k % N
      BY <1>1, <1>2, Numbers, Quotient
  <2> QED BY <1>4, <2>1
<1>6. k \div N \in 0 .. ZB - 1
  <2>1. k < ZB * N
      BY Numbers, Product
  <2>2. k \div N < ZB
      BY <2>1, Numbers, QuotientBelow
  <2> DEFINE x == k \div N
  <2>3. x \in Nat /\ x < ZB
      BY <1>1, <2>2
  <2> HIDE DEF x
  <2>4. x \in 0 .. ZB - 1
      BY <2>3, Numbers
  <2> QED BY <2>4 DEF x
<1>7. q \div ZB = z /\ q % ZB = k \div N
    BY <1>6, Numbers, Quotient
<1>8. N * ZB \in Nat \ {0} /\ k \in 0 .. (N * ZB) - 1
    BY Numbers
<1>9. pos % (N * ZB) = k
    BY <1>8, Quotient
<1> QED BY <1>5, <1>7, <1>9

(* The address of a block of a zone of device zones end to end. *)
LEMMA PlainAddress ==
    ASSUME NEW z \in Nat, NEW k \in Nat
    PROVE  /\ (z * (N * ZB) + k) % ZB = k % ZB
           /\ k < ZB => (z * ZB + k) \div ZB = z /\ (z * ZB + k) % ZB = k /\ k % ZB = k
<1>1. k \div ZB \in Nat /\ k % ZB \in 0 .. ZB - 1 /\ k = (k \div ZB) * ZB + (k % ZB)
    BY Numbers, Division
<1> DEFINE q == z * N + (k \div ZB)
<1>2. z * N \in Nat /\ q \in Nat /\ q * ZB = (z * N) * ZB + (k \div ZB) * ZB
  <2> DEFINE x == k \div ZB
             y == z * N
  <2>1. x \in Nat /\ y \in Nat
      BY <1>1, Numbers, Distribute
  <2> HIDE DEF x, y
  <2>2. (y + x) * ZB = y * ZB + x * ZB /\ y + x \in Nat
      BY <2>1, Numbers, Distribute
  <2> QED BY <2>1, <2>2 DEF x, y
<1>3. (z * N) * ZB = z * (N * ZB)
    BY Numbers
<1>4. z * (N * ZB) + k = q * ZB + (k % ZB)
  <2> DEFINE A == z * (N * ZB)
             B == (k \div ZB) * ZB
             R == k % ZB
             Q == q * ZB
  <2>1. k = B + R /\ R \in Nat
      BY <1>1, Numbers
  <2>2. Q = A + B
      BY <1>2, <1>3
  <2>3. A \in Nat /\ B \in Nat
      BY <1>1, <1>2, <1>3, Numbers, Product
  <2> HIDE DEF A, B, R, Q
  <2>4. A + k = Q + R
      BY <2>1, <2>2, <2>3
  <2> QED BY <2>4 DEF A, Q, R
<1>5. (q * ZB + (k % ZB)) % ZB = k % ZB
    BY <1>1, <1>2, Numbers, Quotient
<1>6. ASSUME k < ZB PROVE (z * ZB + k) \div ZB = z /\ (z * ZB + k) % ZB = k /\ k % ZB = k
  <2>1. k \in 0 .. ZB - 1
      BY <1>6, Numbers
  <2>2. (z * ZB + k) \div ZB = z /\ (z * ZB + k) % ZB = k
      BY <2>1, Numbers, Quotient
  <2>3. (0 * ZB + k) % ZB = k /\ 0 * ZB + k = k
      BY <2>1, Numbers, Quotient
  <2> QED BY <2>2, <2>3
<1> QED BY <1>4, <1>5, <1>6

At(d, o) == [dz |-> d, off |-> o]

(* The places of a block: its device zones, at its offset. *)
LEMMA PlacesAre ==
    ASSUME MapInv, NEW z \in 0 .. NrZones(mode) - 1, NEW k \in 0 .. ZoneSize - 1
    PROVE  /\ Places(z, k) = [i \in 1 .. Len(Where(mode, map, z, k)) |->
                                At(Where(mode, map, z, k)[i], OffsetOf(mode, z, k))]
<1> DEFINE W == Where(mode, map, z, k)
           O == OffsetOf(mode, z, k)
           P == [i \in 1 .. Len(W) |-> At(W[i], O)]
<1>1. mode \in AllModes /\ (mode \in AutoModes => MapOK(mode, map, inv)) /\ (RaidAuto <=> mode \in AutoModes)
    BY DEF MapInv, RaidAuto, AutoModes
<1>2. ZoneSize = SizeOf(mode) /\ SizeOf(mode) \in Nat \ {0} /\ k \in 0 .. SizeOf(mode) - 1
    BY <1>1, SizeFacts
<1>3. z \in Nat /\ k \in Nat /\ NrZones(mode) \in Nat
  <2>1. NrZones(mode) \in Nat
      BY <1>1, Numbers DEF NrZones, AllModes
  <2> QED BY <1>2, <2>1
<1>4. /\ Where(mode, map, z, k) \in Seq(DeviceZones)
      /\ mode # "AUTO1" \/ z < Meta => Len(Where(mode, map, z, k)) = 1
      /\ mode \in AutoModes => Where(mode, map, z, k) = map[SubOf(mode, z, k)]
    BY <1>1, <1>2, WhereFacts
<1>5. W \in Seq(DeviceZones) /\ (mode # "AUTO1" \/ z < Meta => Len(W) = 1)
    BY <1>4
<1>6. ASSUME Len(W) = 1 PROVE P = <<At(W[1], O)>>
  <2>1. \A i \in 1 .. 1 : i = 1
      OBVIOUS
  <2> HIDE DEF W, O
  <2> QED BY <1>6, <2>1
<1>7. ASSUME mode \in AutoModes
      PROVE  /\ getAutoDeviceZoneIdx(z, k) = SubOf(mode, z, k)
             /\ W = map[getAutoDeviceZoneIdx(z, k)]
             /\ Start(z) = z * (N * ZB) /\ ZoneSize = N * ZB
             /\ ZoneMode(z) = IF z < Meta THEN "NONE" ELSE IF mode = "AUTO0" THEN "RAID0" ELSE "RAID1"
             /\ O = IF ZoneMode(z) = "RAID0" THEN k \div N ELSE k % ZB
  <2>1. ZoneMode(z) = "RAID0" <=> StripedZone(mode, z)
      BY <1>1, <1>3, <1>7, Numbers DEF ZoneMode, StripedZone, AutoModes
  <2>2. getAutoDeviceZoneIdx(z, k) = SubOf(mode, z, k)
      BY <2>1 DEF getAutoDeviceZoneIdx, SubOf
  <2>3. Start(z) = z * (N * ZB) /\ ZoneSize = N * ZB
      BY <1>7 DEF Start, ZoneSize, AutoModes
  <2> QED BY <1>1, <1>4, <1>7, <2>1, <2>2, <2>3 DEF ZoneMode, OffsetOf
<1>8. CASE mode = "RAID0"
  <2>1. Start(z) = z * (N * ZB) /\ k < N * ZB
      BY <1>2, <1>3, <1>8 DEF Start, ZoneSize, SizeOf
  <2> DEFINE pos == Start(z) + k
  <2>2. pos % N = k % N /\ (pos \div N) \div ZB = z /\ (pos \div N) % ZB = k \div N
      BY <1>3, <2>1, StripedAddress
  <2>3. Places(z, k) = <<At(<<pos % N, (pos \div N) \div ZB>>, (pos \div N) % ZB)>>
      BY <1>8 DEF Places, At, RaidAuto
  <2>4. W[1] = <<k % N, z>> /\ O = k \div N /\ Len(W) = 1
      BY <1>5, <1>8 DEF Where, FixedZone, AutoModes, OffsetOf, StripedZone
  <2> HIDE DEF pos, W, O, P
  <2> QED BY <1>6, <2>2, <2>3, <2>4 DEF P, W, O
<1>9. CASE mode = "RAID1"
  <2>1. Start(z) = z * ZB /\ k < ZB
      BY <1>2, <1>3, <1>9 DEF Start, ZoneSize, SizeOf
  <2> DEFINE pos == Start(z) + k
  <2>2. pos \div ZB = z /\ pos % ZB = k /\ k % ZB = k
      BY <1>3, <2>1, PlainAddress
  <2>3. Places(z, k) = <<At(<<0, pos \div ZB>>, pos % ZB)>>
      BY <1>9 DEF Places, At, RaidAuto
  <2>4. W[1] = <<0, z>> /\ O = k % ZB /\ Len(W) = 1
      BY <1>5, <1>9 DEF Where, FixedZone, AutoModes, OffsetOf, StripedZone
  <2> HIDE DEF pos, W, O, P
  <2> QED BY <1>6, <2>2, <2>3, <2>4 DEF P, W, O
<1>10. CASE mode = "RAIDC"
  <2>1. Start(z) = (z % NZ) * ZB /\ k < ZB /\ z % NZ \in 0 .. NZ - 1
      BY <1>2, <1>3, <1>10, Division, Numbers DEF Start, ZoneSize, SizeOf
  <2> DEFINE pos == Start(z) + k
             r == z % NZ
  <2>2. r \in Nat /\ r + 1 <= NZ /\ Start(z) = r * ZB
      BY <2>1, Numbers
  <2> HIDE DEF r
  <2>3. pos \div ZB = r /\ pos % ZB = k /\ k % ZB = k
      BY <1>3, <2>1, <2>2, PlainAddress
  <2>4. (r + 1) * ZB <= NZ * ZB /\ (r + 1) * ZB = r * ZB + ZB /\ r * ZB \in Nat /\ NZ * ZB \in Nat \ {0}
      BY <2>2, Numbers, Monotone, Product
  <2>5. pos \in 0 .. (NZ * ZB) - 1
      BY <1>3, <2>1, <2>2, <2>4, Numbers
  <2>6. (0 * (NZ * ZB) + pos) \div (NZ * ZB) = 0 /\ (0 * (NZ * ZB) + pos) % (NZ * ZB) = pos
    <3> HIDE DEF pos
    <3> QED BY <2>4, <2>5, Quotient
  <2>7. 0 * (NZ * ZB) + pos = pos
    <3> HIDE DEF pos
    <3> QED BY <2>4, <2>5
  <2>8. Places(z, k) = <<At(<<pos \div (NZ * ZB), (pos % (NZ * ZB)) \div ZB>>, pos % ZB)>>
      BY <1>10 DEF Places, At, RaidAuto
  <2>9. W[1] = <<0, r>> /\ O = k % ZB /\ Len(W) = 1
      BY <1>5, <1>10 DEF Where, FixedZone, AutoModes, OffsetOf, StripedZone, r
  <2> HIDE DEF pos, W, O, P
  <2>10. pos \div (NZ * ZB) = 0 /\ pos % (NZ * ZB) = pos
      BY <2>6, <2>7
  <2> QED BY <1>6, <2>3, <2>8, <2>9, <2>10 DEF P, W, O
<1>11. CASE mode \in AutoModes
  <2> DEFINE pos == Start(z) + k
  <2>0. mode # "RAID0" /\ mode # "RAID1" /\ mode # "RAIDC" /\ RaidAuto
      BY <1>1, <1>11 DEF AutoModes
  <2>1. pos = z * (N * ZB) + k /\ pos % ZB = k % ZB /\ pos % ZoneSize = k
    <3>1. k < N * ZB /\ ZoneSize = N * ZB /\ Start(z) = z * (N * ZB)
        BY <1>2, <1>3, <1>7, <1>11
    <3> QED BY <1>3, <3>1, PlainAddress, StripedAddress
  <2>2. CASE ZoneMode(z) = "RAID0"
    <3>1. Places(z, k) = <<At(map[getAutoDeviceZoneIdx(z, k)][1], (pos % ZoneSize) \div N)>>
        BY <2>0, <2>2 DEF Places, At
    <3>2. Len(W) = 1 /\ O = k \div N /\ W = map[getAutoDeviceZoneIdx(z, k)]
        BY <1>5, <1>7, <1>11, <2>2 DEF AutoModes
    <3> HIDE DEF pos, W, O, P
    <3> QED BY <1>6, <2>1, <3>1, <3>2 DEF P, W, O
  <2>3. CASE ZoneMode(z) = "NONE"
    <3>1. Places(z, k) = <<At(map[getAutoDeviceZoneIdx(z, k)][1], pos % ZB)>>
        BY <2>0, <2>3 DEF Places, At
    <3>2. Len(W) = 1 /\ O = k % ZB /\ W = map[getAutoDeviceZoneIdx(z, k)]
        BY <1>5, <1>7, <1>11, <2>3
    <3> HIDE DEF pos, W, O, P
    <3> QED BY <1>6, <2>1, <3>1, <3>2 DEF P, W, O
  <2>4. CASE ZoneMode(z) = "RAID1"
    <3>1. Places(z, k) = [i \in 1 .. Len(map[getAutoDeviceZoneIdx(z, k)]) |->
                            At(map[getAutoDeviceZoneIdx(z, k)][i], pos % ZB)]
        BY <2>0, <2>4 DEF Places, At
    <3>2. O = k % ZB /\ W = map[getAutoDeviceZoneIdx(z, k)]
        BY <1>7, <1>11, <2>4
    <3> HIDE DEF pos, W, O, P
    <3> QED BY <2>1, <3>1, <3>2 DEF P, W, O
  <2>5. ZoneMode(z) \in {"RAID0", "NONE", "RAID1"}
      BY <1>7, <1>11
  <2> QED BY <2>2, <2>3, <2>4, <2>5
<1> QED BY <1>1, <1>8, <1>9, <1>10, <1>11 DEF AllModes, AutoModes

-----------------------------------------------------------------------------
(* Sequences of sequences.                                                 *)

\* FlattenSeq as the fixpoint it stands for.
FlatStep(ss, g, i) == IF i = 1 THEN ss[i] ELSE g[i - 1] \o ss[i]
FlatOf(ss) == CHOOSE g : g = [i \in 1 .. Len(ss) |-> FlatStep(ss, g, i)]

(* FlattenSeq is defined by recursion, which is this fixpoint. *)
LEMMA FlattenIsFlat ==
    ASSUME NEW ss, Len(ss) # 0
    PROVE  FlattenSeq(ss) = FlatOf(ss)[Len(ss)]
BY Zenon DEF FlattenSeq, FlatOf, FlatStep

(* The fixpoint exists: it is built from the first sequence on. *)
LEMMA FlatFixpoint ==
    ASSUME NEW ss, Len(ss) \in Nat
    PROVE  FlatOf(ss) = [i \in 1 .. Len(ss) |-> FlatStep(ss, FlatOf(ss), i)]
<1> DEFINE n == Len(ss)
           Good(g, k) == \A i \in 1 .. n : i <= k => g[i] = FlatStep(ss, g, i)
           S == {k \in Nat : \E g : g = [i \in 1 .. n |-> g[i]] /\ Good(g, k)}
<1> HIDE DEF n
<1>0. n \in Nat
    BY DEF n
<1>1. 0 \in S
  <2> DEFINE g == [i \in 1 .. n |-> 0]
  <2>1. Good(g, 0) /\ g = [i \in 1 .. n |-> g[i]]
      OBVIOUS
  <2> HIDE DEF g, Good
  <2>2. \E u : u = [i \in 1 .. n |-> u[i]] /\ Good(u, 0)
      BY <2>1, Zenon
  <2> QED BY <2>2
<1>2. ASSUME NEW k \in Nat, k \in S PROVE k + 1 \in S
  <2>1. PICK g : g = [i \in 1 .. n |-> g[i]] /\ Good(g, k)
      BY <1>2
  <2> DEFINE h == [i \in 1 .. n |-> FlatStep(ss, g, i)]
  <2>2. ASSUME NEW i \in 1 .. n, i <= k + 1 PROVE h[i] = FlatStep(ss, h, i)
    <3>1. CASE i = 1
        BY <3>1 DEF FlatStep
    <3>2. CASE i # 1
      <4>1. i - 1 \in 1 .. n /\ i - 1 <= k
          BY <1>0, <2>2, <3>2
      <4>2. h[i - 1] = g[i - 1]
          BY <2>1, <4>1
      <4>3. h[i] = FlatStep(ss, g, i)
          OBVIOUS
      <4> HIDE DEF h
      <4> QED BY <3>2, <4>2, <4>3 DEF FlatStep
    <3> QED BY <3>1, <3>2
  <2>3. Good(h, k + 1) /\ h = [i \in 1 .. n |-> h[i]]
      BY <2>2
  <2>4. k + 1 \in Nat
      OBVIOUS
  <2>5. \E u : u = [i \in 1 .. n |-> u[i]] /\ Good(u, k + 1)
    <3> HIDE DEF h, Good
    <3> QED BY <2>3, Zenon
  <2> HIDE DEF Good
  <2> QED BY <2>4, <2>5
<1>3. n \in S
  <2> HIDE DEF S
  <2> QED BY <1>0, <1>1, <1>2, Induction
<1>4. PICK g : g = [i \in 1 .. n |-> g[i]] /\ Good(g, n)
    BY <1>3
<1>5. g = [i \in 1 .. n |-> FlatStep(ss, g, i)]
    BY <1>0, <1>4
<1> QED BY <1>5 DEF FlatOf, n

(* Sequences of sequences make one sequence. *)
LEMMA Flat ==
    ASSUME NEW X, NEW ss \in Seq(Seq(X))
    PROVE  FlattenSeq(ss) \in Seq(X)
<1> DEFINE n == Len(ss)
           G == FlatOf(ss)
           S == {k \in Nat : \A i \in 1 .. n : i <= k => G[i] \in Seq(X)}
<1>0. n \in Nat /\ \A i \in 1 .. n : ss[i] \in Seq(X)
    OBVIOUS
<1>1. G = [i \in 1 .. n |-> FlatStep(ss, G, i)]
    BY <1>0, FlatFixpoint
<1> HIDE DEF G, n
<1>2. 0 \in S
    OBVIOUS
<1>3. ASSUME NEW k \in Nat, k \in S PROVE k + 1 \in S
  <2>1. ASSUME NEW i \in 1 .. n, i <= k + 1 PROVE G[i] \in Seq(X)
    <3>0. G[i] = FlatStep(ss, G, i) /\ ss[i] \in Seq(X)
        BY <1>0, <1>1
    <3>1. CASE i = 1
        BY <3>0, <3>1 DEF FlatStep
    <3>2. CASE i # 1
      <4>1. i - 1 \in 1 .. n /\ i - 1 <= k
          BY <1>0, <2>1, <3>2
      <4>2. G[i - 1] \in Seq(X)
          BY <1>3, <4>1
      <4>3. G[i] = G[i - 1] \o ss[i]
          BY <3>0, <3>2 DEF FlatStep
      <4> QED BY <3>0, <4>2, <4>3
    <3> QED BY <3>1, <3>2
  <2> QED BY <2>1
<1>4. n \in S
  <2> HIDE DEF S
  <2> QED BY <1>0, <1>2, <1>3, Induction
<1>5. CASE n = 0
  <2>1. ss = <<>>
      BY <1>5 DEF n
  <2> QED BY <1>5, <2>1 DEF FlattenSeq, n
<1>6. CASE n # 0
  <2>1. G[n] \in Seq(X)
      BY <1>0, <1>4, <1>6
  <2> QED BY <1>6, <2>1, FlattenIsFlat DEF n, G
<1> QED BY <1>5, <1>6


\* x is an element of the sequence s.
Occurs(s, x) == \E e \in 1 .. Len(s) : s[e] = x

(* Flattening keeps every element. *)
LEMMA FlatHas ==
    ASSUME NEW X, NEW ss \in Seq(Seq(X)), NEW a \in 1 .. Len(ss), NEW b \in 1 .. Len(ss[a])
    PROVE  Occurs(FlattenSeq(ss), ss[a][b])
<1> SUFFICES \E e \in 1 .. Len(FlattenSeq(ss)) : FlattenSeq(ss)[e] = ss[a][b]
    BY DEF Occurs
<1> DEFINE n == Len(ss)
           G == FlatOf(ss)
           Has(q) == \E e \in 1 .. Len(q) : q[e] = ss[a][b]
           S == {k \in Nat : \A i \in 1 .. n : i <= k => G[i] \in Seq(X) /\ (a <= i => Has(G[i]))}
<1>0. n \in Nat /\ \A i \in 1 .. n : ss[i] \in Seq(X)
    OBVIOUS
<1>1. G = [i \in 1 .. n |-> FlatStep(ss, G, i)]
    BY <1>0, FlatFixpoint
<1>a. a \in 1 .. n
    OBVIOUS
<1>b. Has(ss[a])
    OBVIOUS
<1> HIDE DEF G, n
<1>2. 0 \in S
    OBVIOUS
<1>3. ASSUME NEW k \in Nat, k \in S PROVE k + 1 \in S
  <2>1. ASSUME NEW i \in 1 .. n, i <= k + 1 PROVE G[i] \in Seq(X) /\ (a <= i => Has(G[i]))
    <3>0. G[i] = FlatStep(ss, G, i) /\ ss[i] \in Seq(X)
        BY <1>0, <1>1
    <3>1. CASE i = 1
      <4>1. G[i] = ss[i]
          BY <3>0, <3>1 DEF FlatStep
      <4>2. a <= i => a = i
          BY <1>a, <3>1
      <4> HIDE DEF Has
      <4> QED BY <1>b, <3>0, <4>1, <4>2
    <3>2. CASE i # 1
      <4> DEFINE p == G[i - 1]
                 q == ss[i]
      <4>1. i - 1 \in 1 .. n /\ i - 1 <= k
          BY <1>0, <2>1, <3>2
      <4>2. p \in Seq(X) /\ (a <= i - 1 => Has(p))
        <5> HIDE DEF Has
        <5> QED BY <1>3, <4>1
      <4>3. G[i] = p \o q /\ q \in Seq(X)
          BY <3>0, <3>2 DEF FlatStep
      <4>4. /\ p \o q \in Seq(X) /\ Len(p \o q) = Len(p) + Len(q) /\ Len(p) \in Nat /\ Len(q) \in Nat
            /\ \A e \in 1 .. Len(p) : (p \o q)[e] = p[e]
            /\ \A e \in 1 .. Len(q) : (p \o q)[Len(p) + e] = q[e]
        <5> HIDE DEF p, q
        <5>1. p \in Seq(X) /\ q \in Seq(X)
            BY <4>2, <4>3
        <5>2. Len(p) \in Nat /\ Len(q) \in Nat
            BY <5>1
        <5>3. p \o q \in Seq(X) /\ Len(p \o q) = Len(p) + Len(q)
            BY <5>1, ConcatProperties
        <5>4. \A e \in 1 .. Len(p) + Len(q) :
                (p \o q)[e] = IF e <= Len(p) THEN p[e] ELSE q[e - Len(p)]
            BY <5>1, ConcatProperties
        <5>5. \A e \in 1 .. Len(p) : (p \o q)[e] = p[e]
            BY <5>2, <5>4
        <5>6. ASSUME NEW e \in 1 .. Len(q) PROVE (p \o q)[Len(p) + e] = q[e]
          <6>1. Len(p) + e \in 1 .. Len(p) + Len(q) /\ ~(Len(p) + e <= Len(p)) /\ (Len(p) + e) - Len(p) = e
              BY <5>2
          <6> QED BY <5>4, <6>1
        <5> QED BY <5>2, <5>3, <5>5, <5>6
      <4> HIDE DEF p, q
      <4>5. ASSUME a <= i PROVE Has(p \o q)
        <5>1. CASE a = i
          <6>1. PICK e \in 1 .. Len(q) : q[e] = ss[a][b]
              BY <1>b, <5>1 DEF q
          <6>2. Len(p) + e \in 1 .. Len(p \o q) /\ (p \o q)[Len(p) + e] = ss[a][b]
              BY <4>4, <6>1
          <6> QED BY <6>2
        <5>2. CASE a # i
          <6>1. a <= i - 1
              BY <1>a, <4>5, <5>2
          <6>2. PICK e \in 1 .. Len(p) : p[e] = ss[a][b]
              BY <4>2, <6>1
          <6>3. e \in 1 .. Len(p \o q) /\ (p \o q)[e] = ss[a][b]
              BY <4>4, <6>2
          <6> QED BY <6>3
        <5> QED BY <5>1, <5>2
      <4> HIDE DEF Has
      <4> QED BY <4>3, <4>4, <4>5
    <3> QED BY <3>1, <3>2
  <2> HIDE DEF Has
  <2> QED BY <2>1
<1>4. n \in S
  <2> HIDE DEF S
  <2> QED BY <1>0, <1>2, <1>3, Induction
<1>5. n # 0 /\ n \in 1 .. n /\ a <= n
    BY <1>0, <1>a
<1>6. Has(G[n])
  <2> HIDE DEF Has
  <2> QED BY <1>0, <1>4, <1>5
<1>7. FlattenSeq(ss) = G[n]
    BY <1>5, FlattenIsFlat DEF n, G
<1> QED BY <1>6, <1>7

-----------------------------------------------------------------------------
(* The device writes of an append.                                         *)

\* A set of numbers that follow each other, from the least one on.
InOrder(P) ==
    /\ Min(P) \in P /\ Cardinality(P) \in Nat
    /\ \A j \in 1 .. Cardinality(P) : Min(P) + j - 1 \in P
    /\ \A b \in P : \E j \in 1 .. Cardinality(P) : b = Min(P) + j - 1

(* The elements of an interval in order. *)
LEMMA IntervalFacts ==
    ASSUME NEW lo \in Nat, NEW hi \in Nat, lo <= hi, NEW P, P = lo .. hi
    PROVE  InOrder(P)
<1>1. Cardinality(P) = hi - lo + 1
  <2>1. lo \in Int /\ hi \in Int /\ ~(lo > hi)
      OBVIOUS
  <2>2. Cardinality(lo .. hi) = IF lo > hi THEN 0 ELSE hi - lo + 1
      BY <2>1, FS_Interval
  <2> QED BY <2>1, <2>2
<1>2. P \subseteq Nat /\ P # {} /\ lo \in P /\ \A x \in P : lo <= x
    OBVIOUS
<1>3. Min(P) \in P /\ \A x \in P : Min(P) <= x
    BY <1>2, MinIn
<1> DEFINE a == Min(P)
           d == Cardinality(P)
<1> HIDE DEF a, d
<1>4. a = lo
  <2>1. a \in Nat /\ a <= lo /\ lo <= a
      BY <1>2, <1>3 DEF a
  <2> QED BY <2>1
<1>5. d = hi - lo + 1
    BY <1>1 DEF d
<1>6. d \in Nat /\ a \in P
    BY <1>2, <1>4, <1>5
<1>7. \A j \in 1 .. d : a + j - 1 \in P
    BY <1>4, <1>5
<1>8. ASSUME NEW b \in P PROVE \E j \in 1 .. d : b = a + j - 1
  <2>1. b - lo + 1 \in 1 .. d /\ b = a + (b - lo + 1) - 1
      BY <1>4, <1>5
  <2> QED BY <2>1
<1> QED BY <1>6, <1>7, <1>8 DEF a, d, InOrder

(* The quotient is monotone. *)
LEMMA QuotientMonotone ==
    ASSUME NEW x \in Nat, NEW y \in Nat, x <= y, NEW b \in Nat \ {0}
    PROVE  x \div b <= y \div b
<1> DEFINE q == y \div b
           r == y % b
<1>1. q \in Nat /\ r \in 0 .. b - 1 /\ y = q * b + r
    BY Division
<1> HIDE DEF q, r
<1>2. (q + 1) * b = q * b + b /\ q * b \in Nat /\ q + 1 \in Nat
    BY <1>1, Product
<1>3. x < (q + 1) * b
    BY <1>1, <1>2
<1>4. x \div b < q + 1
    BY <1>2, <1>3, QuotientBelow
<1>5. x \div b \in Nat
    BY Division
<1> QED BY <1>1, <1>4, <1>5 DEF q

\* The blocks of a request that lie in the c-th device zone of their zone.
Piece(k, n, c) == {b \in k .. k + n - 1 : b \div ZB = c}

(* The blocks of a request that lie in one device zone follow each other. *)
LEMMA PieceFacts ==
    ASSUME NEW k \in Nat, NEW n \in Nat \ {0},
           NEW c \in k \div ZB .. (k + n - 1) \div ZB
    PROVE  /\ Min(Piece(k, n, c)) \in Piece(k, n, c) /\ Cardinality(Piece(k, n, c)) \in Nat
           /\ \A j \in 1 .. Cardinality(Piece(k, n, c)) :
                Min(Piece(k, n, c)) + j - 1 \in Piece(k, n, c)
           /\ \A b \in Piece(k, n, c) :
                \E j \in 1 .. Cardinality(Piece(k, n, c)) : b = Min(Piece(k, n, c)) + j - 1
<1> DEFINE P == Piece(k, n, c)
           l == k + n - 1
           cz == c * ZB
           lo == IF k >= cz THEN k ELSE cz
           hi == IF l <= cz + ZB - 1 THEN l ELSE cz + ZB - 1
<1>1. l \in Nat /\ k <= l /\ ZB \in Nat \ {0}
    BY Numbers
<1>2. /\ k \div ZB \in Nat /\ k % ZB \in 0 .. ZB - 1 /\ k = (k \div ZB) * ZB + (k % ZB)
      /\ l \div ZB \in Nat /\ l % ZB \in 0 .. ZB - 1 /\ l = (l \div ZB) * ZB + (l % ZB)
    BY <1>1, Division
<1>3. c \in Nat /\ k \div ZB <= c /\ c <= l \div ZB
    BY <1>2
<1>4. cz \in Nat /\ (k \div ZB) * ZB <= cz /\ cz <= (l \div ZB) * ZB
    BY <1>1, <1>2, <1>3, Monotone, Product
<1>5. k <= cz + ZB - 1 /\ cz <= l
  <2> DEFINE x == (k \div ZB) * ZB
             y == (l \div ZB) * ZB
  <2>1. x \in Nat /\ y \in Nat
      BY <1>1, <1>2, Product
  <2>2. x <= cz /\ cz <= y /\ k = x + (k % ZB) /\ l = y + (l % ZB)
      BY <1>2, <1>4
  <2> HIDE DEF x, y, cz, l
  <2> QED BY <1>1, <1>2, <1>4, <2>1, <2>2
<1> HIDE DEF l, cz
<1>6. lo \in Nat /\ hi \in Nat /\ lo <= hi
    BY <1>1, <1>4, <1>5
<1>7. ASSUME NEW b \in Nat PROVE b \div ZB = c <=> (cz <= b /\ b <= cz + ZB - 1)
  <2>1. b \div ZB \in Nat /\ b % ZB \in 0 .. ZB - 1 /\ b = (b \div ZB) * ZB + (b % ZB)
      BY <1>1, Division
  <2>2. ASSUME b \div ZB = c PROVE cz <= b /\ b <= cz + ZB - 1
    <3>1. b = cz + (b % ZB)
        BY <2>1, <2>2 DEF cz
    <3> QED BY <1>1, <1>4, <2>1, <3>1
  <2>3. ASSUME cz <= b, b <= cz + ZB - 1 PROVE b \div ZB = c
    <3> DEFINE r == b - cz
    <3>1. r \in 0 .. ZB - 1 /\ b = cz + r
        BY <1>1, <1>4, <2>3
    <3> HIDE DEF r
    <3>2. (c * ZB + r) \div ZB = c
        BY <1>1, <1>3, <3>1, Quotient
    <3> QED BY <3>1, <3>2 DEF cz
  <2> QED BY <2>2, <2>3
<1>8. P = lo .. hi
  <2>1. P = {b \in k .. l : b \div ZB = c}
      BY DEF l, Piece
  <2>2. \A b \in k .. l : b \in Nat
      BY <1>1
  <2> HIDE DEF P
  <2>3. ASSUME NEW b \in P PROVE b \in lo .. hi
    <3>1. b \in k .. l /\ b \in Nat /\ b \div ZB = c
        BY <2>1, <2>2
    <3> QED BY <1>1, <1>4, <1>7, <3>1
  <2>4. ASSUME NEW b \in lo .. hi PROVE b \in P
    <3>1. b \in k .. l /\ b \in Nat /\ cz <= b /\ b <= cz + ZB - 1
        BY <1>1, <1>4, <1>6
    <3> QED BY <1>7, <2>1, <3>1
  <2> QED BY <2>3, <2>4
<1> HIDE DEF lo, hi, P
<1>9. InOrder(P)
  <2>1. lo \in Nat /\ hi \in Nat /\ lo <= hi
      BY <1>6
  <2>2. P = lo .. hi
      BY <1>8
  <2> QED BY <2>1, <2>2, IntervalFacts
<1> QED BY <1>9 DEF P, InOrder

\* One device write, and all those of an append of the blocks k .. l.
OneWrite(z, b, i) ==
    [place |-> At(Where(mode, map, z, b)[i], OffsetOf(mode, z, b)), block |-> Block(z, b)]
WriteSet(z, k, l) ==
    UNION {{OneWrite(z, b, i) : i \in 1 .. Len(Where(mode, map, z, b))} : b \in k .. l}

(* An append writes every block to every mirror, and nothing else. *)
LEMMA WritesAre ==
    ASSUME MapInv, NEW z \in 0 .. NrZones(mode) - 1, NEW k \in Nat, NEW n \in Nat \ {0},
           k + n <= ZoneSize
    PROVE  /\ DeviceWrites(z, k, n) \in Seq(WriteSet(z, k, k + n - 1))
           /\ \A b \in k .. k + n - 1 : \A i \in 1 .. Len(Where(mode, map, z, b)) :
                \E e \in 1 .. Len(DeviceWrites(z, k, n)) :
                  DeviceWrites(z, k, n)[e] = OneWrite(z, b, i)
<1> DEFINE l == k + n - 1
           WS == WriteSet(z, k, l)
           one(b, i) == [place |-> Places(z, b)[i], block |-> Block(z, b)]
           piece(c) == Piece(k, n, c)
           copies(c) == Mirrors(Places(z, Min(piece(c))))
           part(c, i) == [j \in 1 .. Cardinality(piece(c)) |-> one(Min(piece(c)) + j - 1, i)]
           parts(c) == [i \in 1 .. copies(c) |-> part(c, i)]
           writes(c) == FlattenSeq(parts(c))
           first == k \div ZB
           last == (k + n - 1) \div ZB
           all == [c \in 1 .. last - first + 1 |-> writes(first + c - 1)]
           DW == DeviceWrites(z, k, n)
<1>1. /\ mode \in AllModes /\ ZoneSize = SizeOf(mode) /\ SizeOf(mode) \in Nat
      /\ (mode \in AutoModes => MapOK(mode, map, inv)) /\ (RaidAuto <=> mode \in AutoModes)
    BY SizeFacts DEF MapInv, RaidAuto, AutoModes
<1>2. l \in Nat /\ \A b \in k .. l : b \in 0 .. ZoneSize - 1 /\ b \in 0 .. SizeOf(mode) - 1
    BY <1>1
<1>2a. z \in Nat
  <2>1. NrZones(mode) \in Nat
      BY <1>1, ZonesNumber
  <2> QED BY <2>1
<1>3. ASSUME NEW b \in k .. l
      PROVE  /\ Where(mode, map, z, b) \in Seq(DeviceZones)
             /\ Len(Where(mode, map, z, b)) \in Nat \ {0}
             /\ mode # "AUTO1" \/ z < Meta => Len(Where(mode, map, z, b)) = 1
    BY <1>1, <1>2, WhereFacts
<1>4. ASSUME NEW b \in k .. l
      PROVE  /\ Len(Places(z, b)) = Len(Where(mode, map, z, b))
             /\ \A i \in 1 .. Len(Where(mode, map, z, b)) : one(b, i) = OneWrite(z, b, i)
  <2> DEFINE L == Len(Where(mode, map, z, b))
             o == OffsetOf(mode, z, b)
             W == Where(mode, map, z, b)
  <2>1. Places(z, b) = [i \in 1 .. L |-> At(W[i], o)]
      BY <1>2, PlacesAre
  <2>2. L \in Nat
      BY <1>3
  <2>3. \A i \in 1 .. L : OneWrite(z, b, i) = [place |-> At(W[i], o), block |-> Block(z, b)]
      BY DEF OneWrite
  <2> HIDE DEF L, o, W
  <2>4. Len(Places(z, b)) = L
      BY <2>1, <2>2
  <2>5. \A i \in 1 .. L : Places(z, b)[i] = At(W[i], o)
      BY <2>1
  <2> QED BY <2>3, <2>4, <2>5 DEF L
<1>5. ASSUME NEW b \in k .. l, NEW i \in 1 .. Len(Where(mode, map, z, b))
      PROVE  one(b, i) \in WS
    BY <1>4 DEF WriteSet
<1> HIDE DEF one
<1>6. ZoneMode(z) = "RAID0" <=> StripedZone(mode, z)
    BY <1>1, <1>2a, Numbers DEF ZoneMode, StripedZone, AutoModes, AllModes, RaidAuto
<1>7. CASE ZoneMode(z) = "RAID0"
  <2>1. DW = [j \in 1 .. n |-> one(k + j - 1, 1)]
      BY <1>7 DEF DeviceWrites, one
  <2>2. ASSUME NEW b \in k .. l PROVE Len(Where(mode, map, z, b)) = 1
      BY <1>3, <1>6, <1>7 DEF StripedZone
  <2>3. \A j \in 1 .. n : k + j - 1 \in k .. l
      OBVIOUS
  <2>4. \A j \in 1 .. n : one(k + j - 1, 1) \in WS
      BY <1>5, <2>2, <2>3
  <2> HIDE DEF DW, WS
  <2>5. DW \in Seq(WS) /\ Len(DW) = n
      BY <2>1, <2>4
  <2>6. ASSUME NEW b \in k .. l, NEW i \in 1 .. Len(Where(mode, map, z, b))
        PROVE  \E e \in 1 .. Len(DW) : DW[e] = OneWrite(z, b, i)
    <3>1. i = 1
      <4>1. Len(Where(mode, map, z, b)) = 1
          BY <2>2
      <4> QED BY <4>1
    <3> DEFINE e == b - k + 1
    <3>2. e \in 1 .. n /\ k + e - 1 = b
        OBVIOUS
    <3>3. DW[e] = one(b, i)
        BY <2>1, <3>1, <3>2
    <3> QED BY <1>4, <2>5, <3>2, <3>3
  <2> QED BY <2>5, <2>6 DEF DW, WS
<1>8. CASE ZoneMode(z) # "RAID0"
  <2>1. DW = FlattenSeq(all)
      BY <1>8 DEF DeviceWrites, one, Piece
  <2>2. first \in Nat /\ last \in Nat
    <3>1. k + n - 1 \in Nat
        OBVIOUS
    <3> QED BY <3>1, Numbers, Division
  <2>3. ASSUME NEW c \in first .. last
        PROVE  /\ Min(piece(c)) \in piece(c) /\ Cardinality(piece(c)) \in Nat
               /\ \A j \in 1 .. Cardinality(piece(c)) : Min(piece(c)) + j - 1 \in piece(c)
               /\ \A b \in piece(c) : \E j \in 1 .. Cardinality(piece(c)) : b = Min(piece(c)) + j - 1
      BY PieceFacts
  <2>4. ASSUME NEW c \in first .. last, NEW b \in piece(c)
        PROVE  b \in k .. l /\ Len(Where(mode, map, z, b)) = copies(c)
    <3> DEFINE a == Min(piece(c))
    <3>1. a \in piece(c)
        BY <2>3
    <3>2. a \in k .. l /\ b \in k .. l /\ a \div ZB = b \div ZB
        BY <3>1 DEF Piece
    <3> HIDE DEF a
    <3>3. ~StripedZone(mode, z)
        BY <1>6, <1>8
    <3>4. Where(mode, map, z, a) = Where(mode, map, z, b)
        BY <1>1, <3>2, <3>3 DEF Where, SubOf, FixedZone, AllModes, AutoModes, StripedZone
    <3>5. copies(c) = Len(Places(z, a))
        BY DEF Mirrors, a
    <3>6. Len(Places(z, a)) = Len(Where(mode, map, z, a))
        BY <1>4, <3>2
    <3> QED BY <3>2, <3>4, <3>5, <3>6
  <2>5. ASSUME NEW c \in first .. last PROVE copies(c) \in Nat
      BY <1>3, <2>3, <2>4
  <2> HIDE DEF piece, copies
  <2>6. ASSUME NEW c \in first .. last, NEW i \in 1 .. copies(c)
        PROVE  part(c, i) \in Seq(WS) /\ Len(part(c, i)) = Cardinality(piece(c))
    <3>1. \A j \in 1 .. Cardinality(piece(c)) : one(Min(piece(c)) + j - 1, i) \in WS
        BY <1>5, <2>3, <2>4
    <3>2. Cardinality(piece(c)) \in Nat
        BY <2>3
    <3> HIDE DEF WS
    <3> QED BY <3>1, <3>2
  <2>7. ASSUME NEW c \in first .. last
        PROVE  parts(c) \in Seq(Seq(WS)) /\ Len(parts(c)) = copies(c)
    <3> HIDE DEF part, WS
    <3> QED BY <2>5, <2>6
  <2>8. ASSUME NEW c \in first .. last PROVE writes(c) \in Seq(WS)
    <3> HIDE DEF parts, WS
    <3> QED BY <2>7, Flat
  <2>9. \A c \in 1 .. last - first + 1 : first + c - 1 \in first .. last
      BY <2>2
  <2>10. last - first + 1 \in Nat
    <3>1. k <= k + n - 1 /\ k + n - 1 \in Nat
        OBVIOUS
    <3>2. first <= last
        BY <3>1, Numbers, QuotientMonotone
    <3> HIDE DEF first, last
    <3> QED BY <2>2, <3>2
  <2> HIDE DEF writes, parts, part, first, last, WS
  <2>11. all \in Seq(Seq(WS)) /\ Len(all) = last - first + 1
    <3>1. \A c \in 1 .. last - first + 1 : writes(first + c - 1) \in Seq(WS)
        BY <2>8, <2>9
    <3> QED BY <2>10, <3>1
  <2>12. DW \in Seq(WS)
    <3> HIDE DEF all, DW
    <3> QED BY <2>1, <2>11, Flat
  <2>13. ASSUME NEW b \in k .. l, NEW i \in 1 .. Len(Where(mode, map, z, b))
         PROVE  \E e \in 1 .. Len(DW) : DW[e] = OneWrite(z, b, i)
    <3> DEFINE c == b \div ZB
    <3>1. c \in first .. last
      <4>1. /\ b \in Nat /\ l \in Nat /\ ZB \in Nat \ {0} /\ k <= b /\ b <= l
          BY <1>2, Numbers
      <4>2. c \in Nat
          BY <4>1, Division
      <4>4. first <= c /\ c <= last
          BY <4>1, QuotientMonotone DEF first, last, l
      <4> QED BY <2>2, <4>2, <4>4
    <3>2. b \in piece(c)
        BY DEF piece, Piece
    <3> HIDE DEF c
    <3>3. i \in 1 .. copies(c)
        BY <2>4, <3>1, <3>2
    <3>4. PICK j \in 1 .. Cardinality(piece(c)) : b = Min(piece(c)) + j - 1
        BY <2>3, <3>1, <3>2
    <3>5. part(c, i)[j] = one(b, i) /\ j \in 1 .. Len(part(c, i)) /\ parts(c)[i] = part(c, i)
        BY <2>6, <3>1, <3>3, <3>4 DEF part, parts
    <3>6. i \in 1 .. Len(parts(c)) /\ parts(c) \in Seq(Seq(WS))
        BY <2>7, <3>1, <3>3
    <3>7. \E e \in 1 .. Len(writes(c)) : writes(c)[e] = one(b, i)
      <4>1. j \in 1 .. Len(parts(c)[i]) /\ parts(c)[i][j] = one(b, i)
          BY <3>5
      <4>2. Occurs(FlattenSeq(parts(c)), parts(c)[i][j])
        <5> HIDE DEF one, copies, piece
        <5> QED BY <3>6, <4>1, FlatHas
      <4> QED BY <4>1, <4>2 DEF writes, Occurs
    <3>8. PICK u \in 1 .. Len(writes(c)) : writes(c)[u] = one(b, i)
        BY <3>7
    <3> DEFINE v == c - first + 1
    <3>9. v \in 1 .. Len(all) /\ all[v] = writes(c)
      <4>1. v \in 1 .. last - first + 1 /\ first + v - 1 = c
          BY <2>2, <3>1
      <4> QED BY <2>11, <4>1
    <3> HIDE DEF v
    <3>10. Occurs(FlattenSeq(all), all[v][u])
      <4>1. u \in 1 .. Len(all[v])
          BY <3>8, <3>9
      <4> HIDE DEF all, one, copies, piece
      <4> QED BY <2>11, <3>9, <4>1, FlatHas
    <3>11. all[v][u] = OneWrite(z, b, i)
        BY <1>4, <3>8, <3>9
    <3> HIDE DEF all, DW
    <3> QED BY <2>1, <3>10, <3>11 DEF Occurs
  <2> QED BY <2>12, <2>13 DEF DW, WS
<1> QED BY <1>7, <1>8

\* Blocks, and the contents of the device zones.
Blk == [z : Int, k : Nat, gen : Nat]
Contents == [DeviceZones -> Seq(Blk)]
Progress == [disk : Contents, ok : BOOLEAN]
WriteOK(w) == w.place.dz \in DeviceZones /\ w.place.off \in 0 .. ZB - 1 /\ w.block \in Blk

AfterWrite(acc, w, r) ==
    /\ r \in Progress
    /\ r.ok => /\ acc.ok /\ w.place.dz \notin offline
               /\ Len(acc.disk[w.place.dz]) = w.place.off
               /\ r.disk[w.place.dz] = Append(acc.disk[w.place.dz], w.block)
               /\ \A d \in DeviceZones : d # w.place.dz => r.disk[d] = acc.disk[d]
    /\ ~r.ok => r.disk = acc.disk

(* A device write appends its block, or fails and changes nothing. *)
LEMMA DeviceWriteFacts ==
    ASSUME NEW acc \in Progress, NEW w, WriteOK(w)
    PROVE  AfterWrite(acc, w, DeviceWrite(acc, w))
<1> DEFINE r == DeviceWrite(acc, w)
           dz == w.place.dz
           can == acc.ok /\ dz \notin offline /\ Len(acc.disk[dz]) = w.place.off
<1>1. acc.disk \in Contents /\ acc.ok \in BOOLEAN /\ acc = [disk |-> acc.disk, ok |-> acc.ok]
    BY DEF Progress
<1>2. dz \in DeviceZones /\ acc.disk[dz] \in Seq(Blk) /\ w.block \in Blk
    BY <1>1 DEF WriteOK, Contents, Blk
<1>3. CASE can
  <2> DEFINE dk == [acc.disk EXCEPT ![dz] = Append(@, w.block)]
  <2>1. r = [acc EXCEPT !.disk = dk]
      BY <1>3 DEF DeviceWrite
  <2>2. Append(acc.disk[dz], w.block) \in Seq(Blk)
      BY <1>2, AppendProperties
  <2>3. dk \in Contents /\ dk[dz] = Append(acc.disk[dz], w.block) /\ \A d \in DeviceZones : d # dz => dk[d] = acc.disk[d]
      BY <1>1, <1>2, <2>2 DEF Contents, Blk
  <2> HIDE DEF dk
  <2>4. r = [disk |-> dk, ok |-> acc.ok]
      BY <1>1, <2>1
  <2>5. r.disk = dk /\ r.ok = acc.ok /\ r \in Progress
      BY <1>1, <2>3, <2>4 DEF Progress
  <2> HIDE DEF r
  <2> QED BY <1>3, <2>3, <2>5 DEF AfterWrite, r
<1>4. CASE ~can
  <2>1. r = [acc EXCEPT !.ok = FALSE]
      BY <1>4 DEF DeviceWrite
  <2>2. r = [disk |-> acc.disk, ok |-> FALSE]
      BY <1>1, <2>1
  <2>3. r.disk = acc.disk /\ ~r.ok /\ r \in Progress
      BY <1>1, <2>2 DEF Progress
  <2> HIDE DEF r
  <2> QED BY <2>3 DEF AfterWrite, r
<1> QED BY <1>3, <1>4

\* Written as the fixpoint of its loop.
NothingWritten == [disk |-> disk, ok |-> TRUE]
WrittenStep(ws, g, i) == IF i = 0 THEN NothingWritten ELSE DeviceWrite(g[i - 1], ws[i])
WrittenFun(ws) == CHOOSE g : g = [i \in 0 .. Len(ws) |-> WrittenStep(ws, g, i)]

(* Written is defined by that fixpoint. *)
LEMMA WrittenIsFun ==
    ASSUME NEW ws, NEW n
    PROVE  Written(ws, n) = WrittenFun(ws)[n]
BY Zenon DEF Written, WrittenFun, WrittenStep, NothingWritten

(* The fixpoint exists: it is built one write at a time. *)
LEMMA WrittenAt ==
    ASSUME NEW ws, Len(ws) \in Nat
    PROVE  \A i \in 0 .. Len(ws) : WrittenFun(ws)[i] = WrittenStep(ws, WrittenFun(ws), i)
<1> DEFINE D == 0 .. Len(ws)
           Good(g, k) == \A i \in D : i <= k => g[i] = WrittenStep(ws, g, i)
           S == {k \in Nat : \E g : g = [i \in D |-> g[i]] /\ Good(g, k)}
<1>1. 0 \in S
  <2> DEFINE g == [i \in D |-> NothingWritten]
  <2>1. Good(g, 0)
    <3>1. \A i \in D : i <= 0 => i = 0
        OBVIOUS
    <3>2. g[0] = NothingWritten
        OBVIOUS
    <3> QED BY <3>1, <3>2 DEF WrittenStep
  <2>2. g = [i \in D |-> g[i]]
      OBVIOUS
  <2>3. \E u : u = [i \in D |-> u[i]] /\ Good(u, 0)
    <3> HIDE DEF g, Good
    <3> QED BY <2>1, <2>2, Zenon
  <2> HIDE DEF Good
  <2> QED BY <2>3
<1>2. ASSUME NEW k \in Nat, k \in S PROVE k + 1 \in S
  <2>1. PICK g : g = [i \in D |-> g[i]] /\ Good(g, k)
      BY <1>2
  <2> DEFINE h == [i \in D |-> WrittenStep(ws, g, i)]
  <2>2. ASSUME NEW i \in D, i <= k + 1 PROVE h[i] = WrittenStep(ws, h, i)
    <3>1. CASE i = 0
        BY <3>1 DEF WrittenStep
    <3>2. CASE i # 0
      <4>1. i - 1 \in D /\ i - 1 <= k
          BY <2>2, <3>2
      <4>2. h[i - 1] = g[i - 1]
          BY <2>1, <4>1
      <4>3. h[i] = WrittenStep(ws, g, i)
          OBVIOUS
      <4> HIDE DEF h
      <4> QED BY <3>2, <4>2, <4>3 DEF WrittenStep
    <3> QED BY <3>1, <3>2
  <2>3. Good(h, k + 1) /\ h = [i \in D |-> h[i]]
      BY <2>2
  <2>4. \E u : u = [i \in D |-> u[i]] /\ Good(u, k + 1)
    <3> HIDE DEF h, Good
    <3> QED BY <2>3, Zenon
  <2> HIDE DEF Good
  <2> QED BY <2>4
<1>3. Len(ws) \in S
  <2> HIDE DEF S
  <2> QED BY <1>1, <1>2, Induction
<1>4. PICK g : g = [i \in D |-> g[i]] /\ Good(g, Len(ws))
    BY <1>3
<1>5. g = [i \in 0 .. Len(ws) |-> WrittenStep(ws, g, i)]
    BY <1>4
<1>6. WrittenFun(ws) = [i \in 0 .. Len(ws) |-> WrittenStep(ws, WrittenFun(ws), i)]
    BY <1>5 DEF WrittenFun
<1> QED BY <1>6

\* The block b is the one at offset o of a device zone with the contents c.
Holds(c, o, b) == o < Len(c) /\ c[o + 1] = b
\* The device zones only grow, within their size.
Grown(d1, d2) ==
    \A d \in DeviceZones : /\ Len(d1[d]) <= Len(d2[d]) /\ Len(d2[d]) <= ZB
                           /\ \A j \in 1 .. Len(d1[d]) : d2[d][j] = d1[d][j]

(* What a series of device writes does. *)
LEMMA WrittenFacts ==
    ASSUME disk \in Contents, \A d \in DeviceZones : Len(disk[d]) <= ZB,
           NEW X, NEW ws \in Seq(X), \A w \in X : WriteOK(w), NEW n \in 0 .. Len(ws)
    PROVE  /\ Written(ws, n) \in Progress
           /\ Grown(disk, Written(ws, n).disk)
           /\ Written(ws, n).ok =>
                \A i \in 1 .. n : /\ ws[i].place.dz \notin offline
                                  /\ Holds(Written(ws, n).disk[ws[i].place.dz],
                                           ws[i].place.off, ws[i].block)
<1> DEFINE L == Len(ws)
           G == WrittenFun(ws)
           Fine(r, k) == /\ r \in Progress
                         /\ Grown(disk, r.disk)
                         /\ r.ok => \A i \in 1 .. k : /\ ws[i].place.dz \notin offline
                                                      /\ Holds(r.disk[ws[i].place.dz],
                                                               ws[i].place.off, ws[i].block)
           S == {k \in Nat : k <= L => Fine(G[k], k)}
<1>0. L \in Nat /\ \A i \in 1 .. L : WriteOK(ws[i])
    OBVIOUS
<1>1. \A i \in 0 .. L : G[i] = WrittenStep(ws, G, i)
    BY <1>0, WrittenAt
<1>2. \A d \in DeviceZones : disk[d] \in Seq(Blk) /\ Len(disk[d]) \in Nat
    BY DEF Contents, Blk
<1> HIDE DEF G, L
<1>3. 0 \in S
  <2>1. 0 \in 0 .. L
      BY <1>0
  <2>2. G[0] = NothingWritten
      BY <1>1, <2>1 DEF WrittenStep
  <2>3. G[0].disk = disk /\ G[0].ok /\ G[0] \in Progress
      BY <2>2 DEF NothingWritten, Progress
  <2>4. Grown(disk, disk)
      BY <1>2 DEF Grown
  <2>5. Fine(G[0], 0)
      BY <2>3, <2>4
  <2> HIDE DEF Fine
  <2> QED BY <2>5
<1>4. ASSUME NEW k \in Nat, k \in S PROVE k + 1 \in S
  <2> SUFFICES ASSUME k + 1 <= L PROVE Fine(G[k + 1], k + 1)
    <3> HIDE DEF Fine
    <3> QED OBVIOUS
  <2> DEFINE acc == G[k]
             w == ws[k + 1]
             r == G[k + 1]
             dz == w.place.dz
  <2>1. k <= L /\ k + 1 \in 0 .. L /\ k + 1 \in 1 .. L /\ (k + 1) - 1 = k /\ k + 1 # 0
      BY <1>0
  <2>2. Fine(acc, k)
    <3> HIDE DEF Fine
    <3> QED BY <1>4, <2>1
  <2>3. r = DeviceWrite(acc, w) /\ WriteOK(w)
      BY <1>0, <1>1, <2>1 DEF WrittenStep
  <2>4. acc \in Progress /\ Grown(disk, acc.disk)
      BY <2>2
  <2>5. ASSUME acc.ok, NEW i \in 1 .. k
        PROVE  /\ ws[i].place.dz \notin offline
               /\ Holds(acc.disk[ws[i].place.dz], ws[i].place.off, ws[i].block)
      BY <2>2, <2>5
  <2> HIDE DEF r, acc, Fine
  <2>6. /\ r \in Progress
        /\ r.ok => /\ acc.ok /\ dz \notin offline
                   /\ Len(acc.disk[dz]) = w.place.off
                   /\ r.disk[dz] = Append(acc.disk[dz], w.block)
                   /\ \A d \in DeviceZones : d # dz => r.disk[d] = acc.disk[d]
        /\ ~r.ok => r.disk = acc.disk
    <3>1. AfterWrite(acc, w, r)
      <4> HIDE DEF w
      <4> QED BY <2>3, <2>4, DeviceWriteFacts
    <3> HIDE DEF w
    <3> QED BY <3>1 DEF AfterWrite
  <2>7. CASE ~r.ok
      BY <2>4, <2>6, <2>7 DEF Fine, r
  <2>8. CASE r.ok
    <3>1. /\ acc.ok /\ dz \notin offline /\ Len(acc.disk[dz]) = w.place.off
          /\ r.disk[dz] = Append(acc.disk[dz], w.block)
          /\ \A d \in DeviceZones : d # dz => r.disk[d] = acc.disk[d]
        BY <2>6, <2>8
    <3>2. dz \in DeviceZones /\ w.place.off \in 0 .. ZB - 1 /\ w.block \in Blk
        BY <2>3 DEF WriteOK
    <3>3. \A d \in DeviceZones : acc.disk[d] \in Seq(Blk) /\ Len(acc.disk[d]) \in Nat
        BY <2>4 DEF Progress, Contents, Blk
    <3> DEFINE old == acc.disk[dz]
               new == r.disk[dz]
               o == w.place.off
    <3>4. /\ Len(new) = Len(old) + 1 /\ Len(old) = o /\ Len(old) \in Nat
          /\ \A j \in 1 .. Len(old) : new[j] = old[j]
          /\ new[o + 1] = w.block
      <4>1. old \in Seq(Blk) /\ new = Append(old, w.block) /\ w.block \in Blk
          BY <3>1, <3>2, <3>3
      <4>2. Len(old) = o /\ Len(old) \in Nat
          BY <3>1, <3>2, <3>3
      <4> HIDE DEF old, new, w, dz, o
      <4>3. /\ Len(Append(old, w.block)) = Len(old) + 1
            /\ \A j \in 1 .. Len(old) : Append(old, w.block)[j] = old[j]
            /\ Append(old, w.block)[Len(old) + 1] = w.block
          BY <4>1, AppendProperties
      <4> QED BY <4>1, <4>2, <4>3
    <3>5. Grown(disk, r.disk)
      <4> SUFFICES ASSUME NEW d \in DeviceZones
                   PROVE  /\ Len(disk[d]) <= Len(r.disk[d]) /\ Len(r.disk[d]) <= ZB
                          /\ \A j \in 1 .. Len(disk[d]) : r.disk[d][j] = disk[d][j]
          BY DEF Grown
      <4>1. /\ Len(disk[d]) <= Len(acc.disk[d]) /\ Len(acc.disk[d]) <= ZB
            /\ \A j \in 1 .. Len(disk[d]) : acc.disk[d][j] = disk[d][j]
          BY <2>4 DEF Grown
      <4>2. CASE d # dz
          BY <3>1, <4>1, <4>2
      <4>3. CASE d = dz
        <5>1. /\ Len(disk[dz]) <= Len(old) /\ Len(disk[dz]) \in Nat
              /\ \A j \in 1 .. Len(disk[dz]) : old[j] = disk[dz][j]
            BY <1>2, <3>2, <4>1, <4>3
        <5> HIDE DEF old, new, o, dz, w
        <5>2. Len(disk[dz]) <= Len(new) /\ Len(new) <= ZB /\ \A j \in 1 .. Len(disk[dz]) : new[j] = disk[dz][j]
          <6>1. o \in 0 .. ZB - 1
              BY <3>2 DEF o
          <6> QED BY <3>4, <5>1, <6>1, Numbers
        <5> QED BY <4>3, <5>2 DEF new
      <4> QED BY <4>2, <4>3
    <3>6. ASSUME NEW i \in 1 .. k + 1
          PROVE  ws[i].place.dz \notin offline /\ Holds(r.disk[ws[i].place.dz], ws[i].place.off, ws[i].block)
      <4>1. CASE i = k + 1
        <5>1. Holds(new, o, w.block)
          <6> HIDE DEF new, o, w, old
          <6> QED BY <3>4 DEF Holds
        <5> QED BY <3>1, <4>1, <5>1
      <4>2. CASE i # k + 1
        <5> DEFINE v == ws[i]
        <5>1. i \in 1 .. k /\ i \in 1 .. L
            BY <1>0, <2>1, <4>2
        <5>2. v.place.dz \notin offline /\ Holds(acc.disk[v.place.dz], v.place.off, v.block)
            BY <2>5, <3>1, <5>1
        <5>3. v.place.dz \in DeviceZones /\ v.place.off \in Nat
            BY <1>0, <5>1 DEF WriteOK
        <5> HIDE DEF v
        <5>4. CASE v.place.dz # dz
            BY <3>1, <5>2, <5>3, <5>4 DEF v
        <5>5. CASE v.place.dz = dz
          <6>1. Holds(old, v.place.off, v.block)
              BY <5>2, <5>5
          <6>2. Holds(new, v.place.off, v.block)
            <7> HIDE DEF new, old, o, w, dz
            <7> QED BY <3>4, <5>3, <6>1 DEF Holds
          <6> QED BY <5>2, <5>5, <6>2 DEF v
        <5> QED BY <5>4, <5>5
      <4> QED BY <4>1, <4>2
    <3> QED BY <2>6, <3>5, <3>6 DEF Fine, r
  <2> QED BY <2>7, <2>8
<1>5. n \in S
  <2> HIDE DEF S
  <2> QED BY <1>3, <1>4, Induction
<1>6. Fine(G[n], n)
  <2> HIDE DEF Fine
  <2> QED BY <1>0, <1>5 DEF L
<1>7. Written(ws, n) = G[n]
    BY WrittenIsFun DEF G
<1> QED BY <1>6, <1>7

-----------------------------------------------------------------------------
(* Types.                                                                  *)

\* Sum as the fixpoint of its loop.
SumStep(s, g, i) == IF i = 0 THEN 0 ELSE g[i - 1] + s[i]
SumFun(s) == CHOOSE g : g = [i \in 0 .. Len(s) |-> SumStep(s, g, i)]

(* Sum is defined by that fixpoint. *)
LEMMA SumIsFun ==
    ASSUME NEW s
    PROVE  Sum(s) = SumFun(s)[Len(s)]
BY Zenon DEF Sum, SumFun, SumStep

(* The fixpoint exists: it is built one element at a time. *)
LEMMA SumAt ==
    ASSUME NEW s, Len(s) \in Nat
    PROVE  \A i \in 0 .. Len(s) : SumFun(s)[i] = SumStep(s, SumFun(s), i)
<1> DEFINE D == 0 .. Len(s)
           Good(g, k) == \A i \in D : i <= k => g[i] = SumStep(s, g, i)
           S == {k \in Nat : \E g : g = [i \in D |-> g[i]] /\ Good(g, k)}
<1>1. 0 \in S
  <2> DEFINE g == [i \in D |-> 0]
  <2>1. Good(g, 0)
    <3>1. \A i \in D : i <= 0 => i = 0
        OBVIOUS
    <3>2. g[0] = 0
        OBVIOUS
    <3> QED BY <3>1, <3>2 DEF SumStep
  <2>2. g = [i \in D |-> g[i]]
      OBVIOUS
  <2>3. \E u : u = [i \in D |-> u[i]] /\ Good(u, 0)
    <3> HIDE DEF g, Good
    <3> QED BY <2>1, <2>2, Zenon
  <2> HIDE DEF Good
  <2> QED BY <2>3
<1>2. ASSUME NEW k \in Nat, k \in S PROVE k + 1 \in S
  <2>1. PICK g : g = [i \in D |-> g[i]] /\ Good(g, k)
      BY <1>2
  <2> DEFINE h == [i \in D |-> SumStep(s, g, i)]
  <2>2. ASSUME NEW i \in D, i <= k + 1 PROVE h[i] = SumStep(s, h, i)
    <3>1. CASE i = 0
        BY <3>1 DEF SumStep
    <3>2. CASE i # 0
      <4>1. i - 1 \in D /\ i - 1 <= k
          BY <2>2, <3>2
      <4>2. h[i - 1] = g[i - 1]
          BY <2>1, <4>1
      <4>3. h[i] = SumStep(s, g, i)
          OBVIOUS
      <4> HIDE DEF h
      <4> QED BY <3>2, <4>2, <4>3 DEF SumStep
    <3> QED BY <3>1, <3>2
  <2>3. Good(h, k + 1) /\ h = [i \in D |-> h[i]]
      BY <2>2
  <2>4. \E u : u = [i \in D |-> u[i]] /\ Good(u, k + 1)
    <3> HIDE DEF h, Good
    <3> QED BY <2>3, Zenon
  <2> HIDE DEF Good
  <2> QED BY <2>4
<1>3. Len(s) \in S
  <2> HIDE DEF S
  <2> QED BY <1>1, <1>2, Induction
<1>4. PICK g : g = [i \in D |-> g[i]] /\ Good(g, Len(s))
    BY <1>3
<1>5. g = [i \in 0 .. Len(s) |-> SumStep(s, g, i)]
    BY <1>4
<1>6. SumFun(s) = [i \in 0 .. Len(s) |-> SumStep(s, SumFun(s), i)]
    BY <1>5 DEF SumFun
<1> QED BY <1>6

(* A sum is bounded by the number of its terms and their bound. *)
LEMMA SumBound ==
    ASSUME NEW s \in Seq(Nat), NEW b \in Nat, \A i \in 1 .. Len(s) : s[i] <= b
    PROVE  Sum(s) \in Nat /\ Sum(s) <= Len(s) * b
<1> DEFINE L == Len(s)
           G == SumFun(s)
           S == {k \in Nat : k <= L => G[k] \in Nat /\ G[k] <= k * b}
<1>0. L \in Nat /\ \A i \in 1 .. L : s[i] \in Nat /\ s[i] <= b
    OBVIOUS
<1>1. \A i \in 0 .. L : G[i] = SumStep(s, G, i)
    BY <1>0, SumAt
<1> HIDE DEF G, L
<1>2. 0 \in S
    BY <1>0, <1>1 DEF SumStep
<1>3. ASSUME NEW k \in Nat, k \in S PROVE k + 1 \in S
  <2> SUFFICES ASSUME k + 1 <= L PROVE G[k + 1] \in Nat /\ G[k + 1] <= (k + 1) * b
      OBVIOUS
  <2>1. k <= L /\ k + 1 \in 0 .. L /\ k + 1 \in 1 .. L /\ (k + 1) - 1 = k /\ k + 1 # 0
      BY <1>0
  <2>2. G[k] \in Nat /\ G[k] <= k * b
      BY <1>3, <2>1
  <2>3. G[k + 1] = G[k] + s[k + 1]
      BY <1>1, <2>1 DEF SumStep
  <2>4. (k + 1) * b = k * b + b /\ k * b \in Nat
      BY Product
  <2>5. s[k + 1] \in Nat /\ s[k + 1] <= b
      BY <1>0, <2>1
  <2> QED BY <2>2, <2>3, <2>4, <2>5
<1>4. L \in S
  <2> HIDE DEF S
  <2> QED BY <1>0, <1>2, <1>3, Induction
<1>5. G[L] \in Nat /\ G[L] <= L * b
    BY <1>0, <1>4
<1>6. Sum(s) = G[L]
    BY SumIsFun DEF G, L
<1> QED BY <1>5, <1>6 DEF L

ZoneRec == [wp : Nat, cap : Nat, acked : SUBSET Nat, gen : Nat, finished : BOOLEAN]
ZoneOK(m, r) ==
    /\ r \in ZoneRec /\ r.wp + r.cap <= SizeOf(m)
    /\ r.acked \subseteq 0 .. SizeOf(m) - 1
DiskOK(dk) == dk \in Contents /\ \A d \in DeviceZones : Len(dk[d]) <= ZB

Typed ==
    /\ MapInv
    /\ mode \in Modes
    /\ Zones \subseteq 0 .. NrZones(mode) - 1
    /\ DiskOK(disk)
    /\ offline \subseteq DeviceZones
    /\ zone = [z \in Zones |-> zone[z]] /\ \A z \in Zones : ZoneOK(mode, zone[z])
    /\ suspect \subseteq Zones
    /\ losses \in [Zones -> Nat]

(* The device writes of an append fit. *)
LEMMA WritesFit ==
    ASSUME Typed, NEW z \in Zones, NEW k \in Nat, NEW l \in Nat, l < ZoneSize,
           NEW w \in WriteSet(z, k, l)
    PROVE  WriteOK(w)
<1>1. PICK b \in k .. l : \E i \in 1 .. Len(Where(mode, map, z, b)) : w = OneWrite(z, b, i)
    BY DEF WriteSet
<1>2. PICK i \in 1 .. Len(Where(mode, map, z, b)) : w = OneWrite(z, b, i)
    BY <1>1
<1>3. /\ mode \in AllModes /\ ZoneSize = SizeOf(mode) /\ SizeOf(mode) \in Nat
      /\ (mode \in AutoModes => MapOK(mode, map, inv))
      /\ z \in 0 .. NrZones(mode) - 1
    BY SizeFacts DEF Typed, MapInv, RaidAuto, AutoModes
<1>4. b \in 0 .. SizeOf(mode) - 1 /\ b \in Nat
    BY <1>3
<1>5. Where(mode, map, z, b) \in Seq(DeviceZones)
    BY <1>3, <1>4, WhereFacts
<1>6. Where(mode, map, z, b)[i] \in DeviceZones
    BY <1>5
<1>7. OffsetOf(mode, z, b) \in 0 .. ZB - 1
    BY <1>3, <1>4, WithinZone
<1>8. Block(z, b) \in Blk
  <2>1. zone[z].gen \in Nat
      BY DEF Typed, ZoneOK, ZoneRec
  <2>2. z \in Int
    <3>1. NrZones(mode) \in Nat
        BY <1>3, ZonesNumber
    <3> QED BY <1>3, <3>1
  <2> QED BY <1>4, <2>1, <2>2 DEF Block, Blk
<1>9. w.place.dz = Where(mode, map, z, b)[i] /\ w.place.off = OffsetOf(mode, z, b) /\ w.block = Block(z, b)
    BY <1>2 DEF OneWrite, At
<1> QED BY <1>6, <1>7, <1>8, <1>9 DEF WriteOK

\* An append that was acknowledged: every mirror has every block.
Acknowledged(z, n, dk) ==
    LET k == zone[z].wp
    IN  \A b \in k .. k + n - 1 : \A i \in 1 .. Len(Where(mode, map, z, b)) :
          /\ Where(mode, map, z, b)[i] \notin offline
          /\ Holds(dk[Where(mode, map, z, b)[i]], OffsetOf(mode, z, b), Block(z, b))

(* What an append does. *)
LEMMA AppendFacts ==
    ASSUME Typed, NEW z \in Zones, NEW n \in 1 .. MaxAppend, AppendTo(z, n)
    PROVE  /\ DiskOK(disk') /\ Grown(disk, disk')
           /\ \/ zone' = zone
              \/ /\ zone' = [zone EXCEPT ![z].wp = @ + n, ![z].cap = @ - n,
                                ![z].acked = @ \cup zone[z].wp .. zone[z].wp + n - 1]
                 /\ Acknowledged(z, n, disk')
           /\ n <= zone[z].cap
           /\ suspect' = suspect \cup Touched(z)
           /\ UNCHANGED <<mode, offline, map, inv, losses>>
<1> DEFINE k == zone[z].wp
           ws == DeviceWrites(z, k, n)
           X == WriteSet(z, k, k + n - 1)
<1>1. /\ mode \in AllModes /\ ZoneSize = SizeOf(mode) /\ SizeOf(mode) \in Nat
      /\ z \in 0 .. NrZones(mode) - 1 /\ MapInv
    BY SizeFacts DEF Typed, MapInv
<1>2. k \in Nat /\ zone[z].cap \in Nat /\ k + zone[z].cap <= ZoneSize
    BY <1>1 DEF Typed, ZoneOK, ZoneRec
<1>3. n <= zone[z].cap /\ suspect' = suspect \cup Touched(z) /\ UNCHANGED <<mode, offline, map, inv, losses>>
    BY DEF AppendTo, Fits
<1>4. n \in Nat \ {0} /\ k + n <= ZoneSize /\ k + n - 1 \in Nat /\ k + n - 1 < ZoneSize
    BY <1>1, <1>2, <1>3, Numbers
<1>5. PICK done \in 0 .. Len(ws) :
         /\ disk' = Written(ws, done).disk
         /\ zone' = IF Written(ws, done).ok /\ done = Len(ws)
                    THEN [zone EXCEPT ![z].wp = @ + n, ![z].cap = @ - n,
                                ![z].acked = @ \cup k .. k + n - 1]
                    ELSE zone
    BY DEF AppendTo
<1> HIDE DEF k
<1>6. /\ ws \in Seq(X)
      /\ \A b \in k .. k + n - 1 : \A i \in 1 .. Len(Where(mode, map, z, b)) :
                \E e \in 1 .. Len(ws) : ws[e] = OneWrite(z, b, i)
    BY <1>1, <1>2, <1>4, WritesAre
<1>7. \A w \in X : WriteOK(w)
    BY <1>2, <1>4, WritesFit
<1>8. disk \in Contents /\ \A d \in DeviceZones : Len(disk[d]) <= ZB
    BY DEF Typed, DiskOK
<1> HIDE DEF ws, X
<1> DEFINE r == Written(ws, done)
<1>9. /\ r \in Progress /\ Grown(disk, r.disk)
      /\ r.ok => \A i \in 1 .. done : /\ ws[i].place.dz \notin offline
                                      /\ Holds(r.disk[ws[i].place.dz], ws[i].place.off, ws[i].block)
    BY <1>6, <1>7, <1>8, WrittenFacts
<1>10. disk' = r.disk
    BY <1>5
<1>11. DiskOK(disk') /\ Grown(disk, disk')
    BY <1>9, <1>10 DEF Progress, Grown, DiskOK
<1>12. ASSUME r.ok, done = Len(ws) PROVE Acknowledged(z, n, disk')
  <2> SUFFICES ASSUME NEW b \in k .. k + n - 1, NEW i \in 1 .. Len(Where(mode, map, z, b))
               PROVE  /\ Where(mode, map, z, b)[i] \notin offline
                      /\ Holds(disk'[Where(mode, map, z, b)[i]], OffsetOf(mode, z, b), Block(z, b))
      BY DEF Acknowledged, k
  <2>1. PICK e \in 1 .. Len(ws) : ws[e] = OneWrite(z, b, i)
      BY <1>6
  <2>2. /\ ws[e].place.dz = Where(mode, map, z, b)[i]
        /\ ws[e].place.off = OffsetOf(mode, z, b) /\ ws[e].block = Block(z, b)
      BY <2>1 DEF OneWrite, At
  <2>3. ws[e].place.dz \notin offline /\ Holds(r.disk[ws[e].place.dz], ws[e].place.off, ws[e].block)
      BY <1>9, <1>12
  <2> HIDE DEF r
  <2> QED BY <1>10, <2>2, <2>3
<1>13. \/ zone' = zone
       \/ /\ zone' = [zone EXCEPT ![z].wp = @ + n, ![z].cap = @ - n,
                                ![z].acked = @ \cup zone[z].wp .. zone[z].wp + n - 1]
          /\ Acknowledged(z, n, disk')
  <2>1. CASE r.ok /\ done = Len(ws)
      BY <1>5, <1>12, <2>1 DEF k
  <2>2. CASE ~(r.ok /\ done = Len(ws))
      BY <1>5, <2>2
  <2> QED BY <2>1, <2>2
<1> QED BY <1>3, <1>11, <1>13

\* The device zones of a zone in the map mp.
ZoneDevs(m, mp, z) ==
    CASE m \in {"RAID0", "RAID1"} -> {<<d, z>> : d \in Devices}
      [] m = "RAIDC" -> {<<0, z % NZ>>}
      [] m \in AutoModes -> UNION {Range(mp[z * N + e]) : e \in 0 .. N - 1}

(* Finish, Reset and the loss of device zones are about those. *)
LEMMA MembersAre ==
    ASSUME MapInv, NEW z \in 0 .. NrZones(mode) - 1
    PROVE  /\ Members(z) \in Seq(ZoneDevs(mode, map, z))
           /\ ZoneDevs(mode, map, z) \subseteq DeviceZones
<1>1. /\ mode \in AllModes /\ (mode \in AutoModes => MapOK(mode, map, inv))
      /\ (RaidAuto <=> mode \in AutoModes)
    BY DEF MapInv, RaidAuto, AutoModes
<1>2. NrZones(mode) \in Nat /\ z \in Nat
    BY <1>1, ZonesNumber
<1>3. CASE mode \in {"RAID0", "RAID1"}
  <2>1. Members(z) = [i \in 1 .. N |-> <<i - 1, z>>]
      BY <1>3 DEF Members, RaidAuto
  <2>2. ZoneDevs(mode, map, z) = {<<d, z>> : d \in Devices}
      BY <1>3 DEF ZoneDevs, AutoModes
  <2>3. \A i \in 1 .. N : i - 1 \in Devices
      BY Numbers DEF Devices
  <2>4. z \in 0 .. NZ - 1
      BY <1>3 DEF NrZones
  <2>5. Members(z) \in Seq(ZoneDevs(mode, map, z))
      BY <2>1, <2>2, <2>3, Numbers
  <2>6. ZoneDevs(mode, map, z) \subseteq DeviceZones
      BY <2>2, <2>4 DEF DeviceZones
  <2> QED BY <2>5, <2>6
<1>4. CASE mode = "RAIDC"
  <2>1. 0 \in 0 .. ZoneSize - 1 /\ 0 \in 0 .. SizeOf(mode) - 1
      BY <1>1, SizeFacts
  <2> DEFINE W == Where(mode, map, z, 0)
             O == OffsetOf(mode, z, 0)
  <2>2. W = <<<<0, z % NZ>>>>
      BY <1>4 DEF Where, AutoModes, FixedZone
  <2>3. Places(z, 0) = [i \in 1 .. Len(W) |-> At(W[i], O)]
      BY <2>1, PlacesAre
  <2> HIDE DEF O
  <2>4. Places(z, 0)[1].dz = <<0, z % NZ>>
    <3>1. Len(W) = 1 /\ W[1] = <<0, z % NZ>>
        BY <2>2
    <3> HIDE DEF W
    <3>2. Places(z, 0)[1] = At(W[1], O)
        BY <2>3, <3>1
    <3> QED BY <3>1, <3>2 DEF At
  <2>5. Members(z) = <<<<0, z % NZ>>>>
      BY <1>4, <2>4 DEF Members, RaidAuto
  <2>6. ZoneDevs(mode, map, z) = {<<0, z % NZ>>}
      BY <1>4 DEF ZoneDevs, AutoModes
  <2>7. 0 \in 0 .. N - 1 /\ z % NZ \in 0 .. NZ - 1
      BY <1>2, Numbers, Division
  <2>8. <<0, z % NZ>> \in DeviceZones
      BY <2>7 DEF DeviceZones, Devices
  <2> QED BY <2>5, <2>6, <2>8
<1>5. CASE mode \in AutoModes
  <2> DEFINE X == ZoneDevs(mode, map, z)
             ss == [i \in 1 .. N |-> map[z * N + i - 1]]
  <2>1. Members(z) = FlattenSeq(ss)
    <3>1. mode # "RAID0" /\ mode # "RAID1" /\ mode # "RAIDC" /\ RaidAuto
        BY <1>1, <1>5 DEF AutoModes
    <3> QED BY <3>1 DEF Members
  <2>2. X = UNION {Range(map[z * N + e]) : e \in 0 .. N - 1}
    <3>1. mode # "RAID0" /\ mode # "RAID1" /\ mode # "RAIDC"
        BY <1>5 DEF AutoModes
    <3> QED BY <1>5, <3>1 DEF ZoneDevs
  <2>3. ASSUME NEW e \in 0 .. N - 1
        PROVE  map[z * N + e] \in Seq(DeviceZones)
    <3>1. z * N + e \in DOMAIN Home(mode)
        BY <1>5, SubFacts
    <3> QED BY <1>1, <1>5, <3>1 DEF MapOK
  <2>4. ASSUME NEW e \in 0 .. N - 1
        PROVE  map[z * N + e] \in Seq(X) /\ Range(map[z * N + e]) \subseteq DeviceZones
    <3> DEFINE q == map[z * N + e]
    <3>1. q \in Seq(DeviceZones) /\ Range(q) \subseteq X
        BY <2>2, <2>3
    <3> HIDE DEF q, X
    <3>2. \A i \in 1 .. Len(q) : q[i] \in X /\ q[i] \in DeviceZones
        BY <3>1 DEF Range
    <3>3. q = [i \in 1 .. Len(q) |-> q[i]] /\ Len(q) \in Nat
        BY <3>1
    <3>4. q \in Seq(X)
        BY <3>2, <3>3
    <3>5. Range(q) \subseteq DeviceZones
        BY <3>1 DEF Range
    <3> QED BY <3>4, <3>5 DEF q
  <2>5. ASSUME NEW i \in 1 .. N PROVE ss[i] \in Seq(X)
    <3>1. i - 1 \in 0 .. N - 1 /\ z * N + (i - 1) = z * N + i - 1
        BY <1>2, Numbers, Product
    <3>2. map[z * N + (i - 1)] \in Seq(X)
        BY <2>4, <3>1
    <3> QED BY <3>1, <3>2
  <2>6. ss \in Seq(Seq(X))
    <3> HIDE DEF X
    <3> QED BY <2>5, Numbers
  <2>7. Members(z) \in Seq(X)
    <3> HIDE DEF X, ss
    <3> QED BY <2>1, <2>6, Flat
  <2>8. X \subseteq DeviceZones
      BY <2>2, <2>4
  <2> QED BY <2>7, <2>8
<1> QED BY <1>1, <1>3, <1>4, <1>5 DEF AllModes, AutoModes

(* What a finish does. *)
LEMMA FinishFacts ==
    ASSUME Typed, NEW z \in Zones, Finish(z)
    PROVE  /\ DiskOK(disk') /\ Grown(disk, disk')
           /\ \/ zone' = zone
              \/ zone' = [zone EXCEPT ![z].wp = ZoneSize, ![z].cap = 0, ![z].finished = TRUE]
           /\ suspect' = suspect \cup Touched(z) \/ suspect' = suspect \cup Touched(z) \cup {z}
           /\ UNCHANGED <<mode, offline, map, inv, losses>>
<1>1. PICK done :
         /\ disk' = [dz \in DeviceZones |->
                       IF \E i \in 1 .. done : Members(z)[i] = dz
                       THEN Padded(disk[dz]) ELSE disk[dz]]
         /\ zone' = IF done = Len(Members(z))
                    THEN [zone EXCEPT ![z].wp = ZoneSize, ![z].cap = 0, ![z].finished = TRUE]
                    ELSE zone
         /\ suspect' = suspect \cup Touched(z) \cup (IF done < Len(Members(z)) THEN {z} ELSE {})
    BY DEF Finish
<1>2. UNCHANGED <<mode, offline, map, inv, losses>>
    BY DEF Finish
<1>3. disk \in Contents /\ \A d \in DeviceZones : Len(disk[d]) <= ZB
    BY DEF Typed, DiskOK
<1>4. ASSUME NEW d \in DeviceZones
      PROVE  /\ disk[d] \in Seq(Blk) /\ Len(disk[d]) \in Nat /\ Len(disk[d]) <= ZB
             /\ Padded(disk[d]) \in Seq(Blk) /\ Len(Padded(disk[d])) = ZB
             /\ \A j \in 1 .. Len(disk[d]) : Padded(disk[d])[j] = disk[d][j]
  <2> DEFINE s == disk[d]
             p == [i \in 1 .. ZB - Len(s) |-> Pad]
  <2>1. s \in Seq(Blk) /\ Len(s) \in Nat /\ Len(s) <= ZB
      BY <1>3 DEF Contents
  <2>2. Pad \in Blk
      BY DEF Pad, NoZone, Blk
  <2>3. ZB - Len(s) \in Nat
      BY <2>1, Numbers
  <2> HIDE DEF s
  <2>4. p \in Seq(Blk) /\ Len(p) = ZB - Len(s)
      BY <2>2, <2>3
  <2> HIDE DEF p
  <2>5. /\ s \o p \in Seq(Blk) /\ Len(s \o p) = Len(s) + Len(p)
        /\ \A i \in 1 .. Len(s) + Len(p) : (s \o p)[i] = IF i <= Len(s) THEN s[i] ELSE p[i - Len(s)]
      BY <2>1, <2>4, ConcatProperties
  <2>6. Len(s \o p) = ZB /\ \A j \in 1 .. Len(s) : (s \o p)[j] = s[j]
      BY <2>1, <2>3, <2>4, <2>5, Numbers
  <2>7. Padded(s) = s \o p
      BY DEF Padded, p
  <2> QED BY <2>1, <2>5, <2>6, <2>7 DEF s
<1>5. ASSUME NEW d \in DeviceZones PROVE disk'[d] = Padded(disk[d]) \/ disk'[d] = disk[d]
    BY <1>1
<1>6. DiskOK(disk')
  <2>1. \A d \in DeviceZones : disk'[d] \in Seq(Blk) /\ Len(disk'[d]) <= ZB
      BY <1>4, <1>5, Numbers
  <2>2. disk' = [d \in DeviceZones |-> disk'[d]]
      BY <1>1
  <2>3. disk' \in Contents
      BY <2>1, <2>2 DEF Contents
  <2> QED BY <2>1, <2>3 DEF DiskOK
<1>7. Grown(disk, disk')
  <2> SUFFICES ASSUME NEW d \in DeviceZones
               PROVE  /\ Len(disk[d]) <= Len(disk'[d]) /\ Len(disk'[d]) <= ZB
                      /\ \A j \in 1 .. Len(disk[d]) : disk'[d][j] = disk[d][j]
      BY DEF Grown
  <2>1. /\ Len(disk[d]) \in Nat /\ Len(disk[d]) <= ZB
        /\ Len(Padded(disk[d])) = ZB
        /\ \A j \in 1 .. Len(disk[d]) : Padded(disk[d])[j] = disk[d][j]
      BY <1>4
  <2>2. CASE disk'[d] = Padded(disk[d])
      BY <2>1, <2>2, Numbers
  <2>3. CASE disk'[d] = disk[d]
      BY <2>1, <2>3
  <2> QED BY <1>5, <2>2, <2>3
<1>8. /\ \/ zone' = zone
         \/ zone' = [zone EXCEPT ![z].wp = ZoneSize, ![z].cap = 0, ![z].finished = TRUE]
      /\ suspect' = suspect \cup Touched(z) \/ suspect' = suspect \cup Touched(z) \cup {z}
    BY <1>1
<1> QED BY <1>2, <1>6, <1>7, <1>8

(* What a reset does. *)
LEMMA ResetFacts ==
    ASSUME Typed, NEW z \in Zones, Reset(z)
    PROVE  /\ DiskOK(disk')
           /\ \A d \in DeviceZones : d \notin ZoneDevs(mode, map, z) => disk'[d] = disk[d]
           /\ \/ zone' = [zone EXCEPT ![z] = [wp |-> 0, cap |-> ZoneSize, acked |-> {},
                                    gen |-> zone[z].gen + 1, finished |-> FALSE]]
              \/ zone' = [zone EXCEPT ![z] = [zone[z] EXCEPT !.acked = {}]]
           /\ suspect' = (suspect \ {z}) \cup Touched(z) \/ suspect' = suspect \cup {z} \cup Touched(z)
           /\ UNCHANGED <<mode, offline, map, inv, losses>>
<1> DEFINE ms == Members(z)
<1>1. PICK failed \in SUBSET DOMAIN ms :
         /\ disk' = [dz \in DeviceZones |->
                       IF \E i \in ResetDone(ms, failed) : ms[i] = dz
                       THEN <<>> ELSE disk[dz]]
         /\ zone' = [zone EXCEPT ![z] =
                  IF ResetOk(ms, failed)
                  THEN [wp |-> 0, cap |-> ZoneSize, acked |-> {},
                        gen |-> @.gen + 1, finished |-> FALSE]
                  ELSE [@ EXCEPT !.acked = {}]]
         /\ suspect' = (IF failed = {} THEN suspect \ {z} ELSE suspect \cup {z}) \cup Touched(z)
    BY DEF Reset
<1>2. UNCHANGED <<mode, offline, map, inv, losses>>
    BY DEF Reset
<1>3. /\ disk \in Contents /\ \A d \in DeviceZones : Len(disk[d]) <= ZB
      /\ MapInv /\ z \in 0 .. NrZones(mode) - 1
    BY DEF Typed, DiskOK
<1>4. ms \in Seq(ZoneDevs(mode, map, z))
    BY <1>3, MembersAre
<1>5. \A i \in DOMAIN ms : ms[i] \in ZoneDevs(mode, map, z)
  <2> HIDE DEF ms
  <2> QED BY <1>4
<1>6. ResetDone(ms, failed) \subseteq DOMAIN ms
    BY DEF ResetDone
<1> HIDE DEF ms
<1>7. ASSUME NEW d \in DeviceZones, d \notin ZoneDevs(mode, map, z) PROVE disk'[d] = disk[d]
    BY <1>1, <1>5, <1>6, <1>7
<1>8. DiskOK(disk')
  <2>1. ASSUME NEW d \in DeviceZones PROVE disk'[d] \in Seq(Blk) /\ Len(disk'[d]) <= ZB
    <3>1. disk[d] \in Seq(Blk) /\ Len(disk[d]) <= ZB
        BY <1>3 DEF Contents
    <3>2. <<>> \in Seq(Blk) /\ Len(<<>>) <= ZB
        BY Numbers
    <3>3. disk'[d] = <<>> \/ disk'[d] = disk[d]
        BY <1>1
    <3> QED BY <3>1, <3>2, <3>3
  <2>2. disk' = [d \in DeviceZones |-> disk'[d]]
      BY <1>1
  <2>3. disk' \in Contents
      BY <2>1, <2>2 DEF Contents
  <2> QED BY <2>1, <2>3 DEF DiskOK
<1>9. \/ zone' = [zone EXCEPT ![z] = [wp |-> 0, cap |-> ZoneSize, acked |-> {},
                                    gen |-> zone[z].gen + 1, finished |-> FALSE]]
      \/ zone' = [zone EXCEPT ![z] = [zone[z] EXCEPT !.acked = {}]]
    BY <1>1
<1>10. suspect' = (suspect \ {z}) \cup Touched(z) \/ suspect' = suspect \cup {z} \cup Touched(z)
    BY <1>1
<1> QED BY <1>2, <1>7, <1>8, <1>9, <1>10

(* What a repair does to the device zones. *)
LEMMA RepairFacts ==
    ASSUME Typed, NEW s, NEW i, NEW f, Repaired(s, i, f)
    PROVE  /\ DiskOK(disk') /\ \A d \in DeviceZones : d # f => disk'[d] = disk[d]
           /\ f \notin Base(mode)
<1> DEFINE g == map'[s][1]
           src == CloneSource(g, f)
           c == FirstBlocks(src, Len(disk[g]))
<1>1. /\ mode \in AutoModes /\ mode # "AUTO0" /\ MapOK(mode, map, inv)
      /\ s \in DOMAIN map /\ i \in DOMAIN map[s] /\ ~(s < Meta * N)
      /\ f \in DeviceZones /\ f \notin inv
      /\ map' = [map EXCEPT ![s] = Remapped(map[s], i, f)]
    BY DEF Repaired, Typed, MapInv, AutoModes
<1>2. /\ Len(map[s]) = 2 /\ i \in {1, 2} /\ map'[s] = <<map[s][3 - i], f>>
      /\ map[s][3 - i] \in DeviceZones
  <2>1. Swapped(map, map', s, i, f)
      BY <1>1, MirrorReplaced
  <2> QED BY <2>1 DEF Swapped
<1>3. g = map[s][3 - i] /\ g \in DeviceZones
    BY <1>2
<1>4. disk' = IF src \in offline THEN disk ELSE [disk EXCEPT ![f] = c]
    BY DEF Repaired
<1>5. f \notin Base(mode)
    BY <1>1 DEF MapOK
<1> HIDE DEF g
<1>6. src \in DeviceZones
  <2>1. g[1] \in Devices /\ f[2] \in 0 .. NZ - 1
      BY <1>1, <1>3 DEF DeviceZones
  <2> QED BY <2>1 DEF CloneSource, DeviceZones
<1>7. disk \in Contents /\ \A d \in DeviceZones : disk[d] \in Seq(Blk) /\ Len(disk[d]) <= ZB /\ Len(disk[d]) \in Nat
    BY DEF Typed, DiskOK, Contents
<1> HIDE DEF src
<1>8. c \in Seq(Blk) /\ Len(c) <= ZB
  <2> DEFINE n == Len(disk[g])
             v == disk[src]
  <2>1. n \in Nat /\ n <= ZB /\ v \in Seq(Blk)
      BY <1>3, <1>6, <1>7
  <2>2. Zeros \in Blk
      BY DEF Zeros, NoZone, Blk
  <2>3. c = [j \in 1 .. n |-> IF j <= Len(v) THEN v[j] ELSE Zeros]
      BY DEF FirstBlocks
  <2> HIDE DEF n, v, c
  <2>4. \A j \in 1 .. n : (IF j <= Len(v) THEN v[j] ELSE Zeros) \in Blk
    <3>1. \A j \in 1 .. Len(v) : v[j] \in Blk
        BY <2>1
    <3>2. Len(v) \in Nat
        BY <2>1
    <3> QED BY <2>1, <2>2, <3>1, <3>2
  <2>5. c \in Seq(Blk) /\ Len(c) = n
      BY <2>1, <2>3, <2>4
  <2> QED BY <2>1, <2>5
<1> HIDE DEF c
<1>9. CASE src \in offline
    BY <1>4, <1>5, <1>7, <1>9 DEF DiskOK
<1>10. CASE src \notin offline
  <2>1. disk' = [disk EXCEPT ![f] = c]
      BY <1>4, <1>10
  <2>2. disk' \in Contents /\ disk'[f] = c /\ \A d \in DeviceZones : d # f => disk'[d] = disk[d]
      BY <1>1, <1>7, <1>8, <2>1 DEF Contents
  <2>3. \A d \in DeviceZones : Len(disk'[d]) <= ZB
      BY <1>7, <1>8, <2>2
  <2> QED BY <1>5, <2>2, <2>3 DEF DiskOK
<1> QED BY <1>9, <1>10

\* ZoneWp of a given map and contents.
WpOf(m, mp, dk, z) ==
    CASE m = "RAID0" -> Sum([i \in 1 .. N |-> Len(dk[<<i - 1, z>>])])
      [] m = "RAID1" -> Len(dk[<<0, z>>])
      [] m = "RAIDC" -> Len(dk[<<z \div NZ, z % NZ>>])
      [] m \in AutoModes -> Sum([i \in 1 .. N |-> Len(dk[mp[SubOf(m, z, (i - 1) * ZB)][1]])])

(* The write pointer that is reported lies within the zone. *)
LEMMA WpBound ==
    ASSUME NEW m \in AllModes, NEW mp, NEW iv, m \in AutoModes => MapOK(m, mp, iv),
           NEW dk, DiskOK(dk), NEW z \in 0 .. NrZones(m) - 1
    PROVE  WpOf(m, mp, dk, z) \in 0 .. SizeOf(m)
<1>0. z \in Nat /\ NrZones(m) \in Nat
    BY ZonesNumber
<1>1. \A d \in DeviceZones : Len(dk[d]) \in Nat /\ Len(dk[d]) <= ZB
    BY DEF DiskOK, Contents
<1>2. ASSUME NEW q \in [1 .. N -> Nat], \A i \in 1 .. N : q[i] \in Nat /\ q[i] <= ZB
      PROVE  Sum(q) \in 0 .. N * ZB
  <2>1. q \in Seq(Nat) /\ Len(q) = N
      BY <1>2, Numbers
  <2>2. Sum(q) \in Nat /\ Sum(q) <= Len(q) * ZB
      BY <1>2, <2>1, Numbers, SumBound
  <2>3. N * ZB \in Nat
      BY Numbers, Product
  <2> QED BY <2>1, <2>2, <2>3
<1>3. CASE m = "RAID0"
  <2> DEFINE q == [i \in 1 .. N |-> Len(dk[<<i - 1, z>>])]
  <2>1. \A i \in 1 .. N : <<i - 1, z>> \in DeviceZones
      BY <1>0, <1>3, Numbers DEF NrZones, DeviceZones, Devices
  <2>2. \A i \in 1 .. N : q[i] \in Nat /\ q[i] <= ZB
      BY <1>1, <2>1
  <2>3. q \in [1 .. N -> Nat]
      BY <2>2
  <2>4. WpOf(m, mp, dk, z) = Sum(q) /\ SizeOf(m) = N * ZB
      BY <1>3 DEF WpOf, SizeOf, AutoModes
  <2> HIDE DEF q
  <2> QED BY <1>2, <2>2, <2>3, <2>4
<1>4. CASE m = "RAID1"
  <2>1. <<0, z>> \in DeviceZones
      BY <1>0, <1>4, Numbers DEF NrZones, DeviceZones, Devices
  <2>2. WpOf(m, mp, dk, z) = Len(dk[<<0, z>>]) /\ SizeOf(m) = ZB
      BY <1>4 DEF WpOf, SizeOf, AutoModes
  <2> QED BY <1>1, <2>1, <2>2, Numbers
<1>5. CASE m = "RAIDC"
  <2>1. z \div NZ \in Nat /\ z % NZ \in 0 .. NZ - 1
      BY <1>0, Numbers, Division
  <2>2. z < N * NZ
      BY <1>0, <1>5 DEF NrZones
  <2>3. z \div NZ \in 0 .. N - 1
    <3>1. z \div NZ < N
        BY <1>0, <2>2, Numbers, QuotientBelow
    <3> QED BY <2>1, <3>1, Numbers
  <2>4. <<z \div NZ, z % NZ>> \in DeviceZones
      BY <2>1, <2>3 DEF DeviceZones, Devices
  <2>5. WpOf(m, mp, dk, z) = Len(dk[<<z \div NZ, z % NZ>>]) /\ SizeOf(m) = ZB
      BY <1>5 DEF WpOf, SizeOf, AutoModes
  <2> QED BY <1>1, <2>4, <2>5, Numbers
<1>6. CASE m \in AutoModes
  <2>0. m # "RAID0" /\ m # "RAID1" /\ m # "RAIDC"
      BY <1>6 DEF AutoModes
  <2> DEFINE q == [i \in 1 .. N |-> Len(dk[mp[SubOf(m, z, (i - 1) * ZB)][1]])]
  <2>1. SizeOf(m) = N * ZB
      BY <2>0 DEF SizeOf
  <2>2. ASSUME NEW i \in 1 .. N PROVE (i - 1) * ZB \in 0 .. SizeOf(m) - 1
    <3> DEFINE a == i - 1
    <3>1. a \in Nat /\ a + 1 <= N
        BY Numbers
    <3> HIDE DEF a
    <3>2. (a + 1) * ZB <= N * ZB /\ (a + 1) * ZB = a * ZB + ZB /\ a * ZB \in Nat /\ N * ZB \in Nat
        BY <3>1, Numbers, Monotone, Product
    <3>3. a * ZB \in 0 .. SizeOf(m) - 1
        BY <2>1, <3>2, Numbers
    <3> QED BY <3>3 DEF a
  <2>3. ASSUME NEW i \in 1 .. N PROVE mp[SubOf(m, z, (i - 1) * ZB)][1] \in DeviceZones
    <3> DEFINE b == (i - 1) * ZB
    <3>1. b \in 0 .. SizeOf(m) - 1
        BY <2>2
    <3> HIDE DEF b
    <3>2. /\ Where(m, mp, z, b) \in Seq(DeviceZones) /\ Len(Where(m, mp, z, b)) \in Nat \ {0}
          /\ Where(m, mp, z, b) = mp[SubOf(m, z, b)]
        BY <1>6, <3>1, WhereFacts
    <3>3. mp[SubOf(m, z, b)][1] \in DeviceZones
        BY <3>2
    <3> QED BY <3>3 DEF b
  <2>4. \A i \in 1 .. N : q[i] \in Nat /\ q[i] <= ZB
      BY <1>1, <2>3
  <2>5. q \in [1 .. N -> Nat]
      BY <2>4
  <2>6. WpOf(m, mp, dk, z) = Sum(q)
      BY <1>6, <2>0 DEF WpOf
  <2> HIDE DEF q
  <2> QED BY <1>2, <2>1, <2>4, <2>5, <2>6
<1> QED BY <1>3, <1>4, <1>5, <1>6 DEF AllModes, AutoModes

(* ZoneWp after a step in those terms. *)
LEMMA WpIsNext ==
    ASSUME mode' \in AllModes, NEW z \in Nat
    PROVE  ZoneWp(z)' = WpOf(mode', map', disk', z)
<1>1. (ZoneMode(z))' = "RAID0" <=> StripedZone(mode', z)
    BY Numbers DEF ZoneMode, StripedZone, AllModes, RaidAuto
<1>2. CASE mode' \in {"RAID0", "RAID1", "RAIDC"}
    BY <1>2 DEF ZoneWp, WpOf, RaidAuto, AutoModes
<1>3. CASE mode' \in AutoModes
  <2>1. mode' # "RAID0" /\ mode' # "RAID1" /\ mode' # "RAIDC" /\ RaidAuto'
      BY <1>3 DEF AutoModes, RaidAuto
  <2>2. \A k : (getAutoDeviceZoneIdx(z, k))' = SubOf(mode', z, k)
      BY <1>1 DEF getAutoDeviceZoneIdx, SubOf
  <2>3. ZoneWp(z)' = Sum([i \in 1 .. N |-> Len(disk'[map'[(getAutoDeviceZoneIdx(z, (i - 1) * ZB))'][1]])])
      BY <2>1 DEF ZoneWp
  <2>4. WpOf(mode', map', disk', z) = Sum([i \in 1 .. N |-> Len(disk'[map'[SubOf(mode', z, (i - 1) * ZB)][1]])])
      BY <1>3, <2>1 DEF WpOf
  <2> QED BY <2>2, <2>3, <2>4
<1> QED BY <1>2, <1>3 DEF AllModes, AutoModes

\* A zone after an acknowledged append, a finish, a reset, a reset that failed and
\* a restart.
AppendedRec(r, n) ==
    [r EXCEPT !.wp = @ + n, !.cap = @ - n, !.acked = @ \cup (r.wp .. r.wp + n - 1)]
FinishedRec(m, r) == [r EXCEPT !.wp = SizeOf(m), !.cap = 0, !.finished = TRUE]
ResetRec(m, r) ==
    [wp |-> 0, cap |-> SizeOf(m), acked |-> {}, gen |-> r.gen + 1, finished |-> FALSE]
FailedRec(r) == [r EXCEPT !.acked = {}]
RestartedRec(r, w, c) == [r EXCEPT !.wp = w, !.cap = c]

(* An acknowledged append leaves a zone well formed. *)
LEMMA AppendedZone ==
    ASSUME NEW m \in AllModes, NEW r, ZoneOK(m, r), NEW n \in Nat \ {0}, n <= r.cap
    PROVE  /\ ZoneOK(m, AppendedRec(r, n))
           /\ AppendedRec(r, n).acked = r.acked \cup (r.wp .. r.wp + n - 1)
           /\ AppendedRec(r, n).gen = r.gen
<1>0. PICK q : q = AppendedRec(r, n)
    OBVIOUS
<1>1. /\ r \in ZoneRec /\ r.wp \in Nat /\ r.cap \in Nat /\ r.acked \subseteq 0 .. SizeOf(m) - 1
      /\ r.wp + r.cap <= SizeOf(m) /\ r.gen \in Nat /\ r.finished \in BOOLEAN
    BY DEF ZoneOK, ZoneRec
<1>2. SizeOf(m) \in Nat
    BY Numbers DEF SizeOf
<1>3. q = [wp |-> r.wp + n, cap |-> r.cap - n, acked |-> r.acked \cup (r.wp .. r.wp + n - 1),
           gen |-> r.gen, finished |-> r.finished]
    BY <1>0, <1>1 DEF ZoneRec, AppendedRec
<1>4. r.wp + n \in Nat /\ r.cap - n \in Nat /\ (r.wp + n) + (r.cap - n) <= SizeOf(m)
    BY <1>1, <1>2
<1>5. r.acked \cup (r.wp .. r.wp + n - 1) \subseteq 0 .. SizeOf(m) - 1
    BY <1>1, <1>2
<1>6. r.acked \cup (r.wp .. r.wp + n - 1) \subseteq Nat
    BY <1>2, <1>5
<1>7. q \in ZoneRec
    BY <1>1, <1>3, <1>4, <1>6 DEF ZoneRec
<1>8. /\ q.wp = r.wp + n /\ q.cap = r.cap - n
      /\ q.acked = r.acked \cup (r.wp .. r.wp + n - 1) /\ q.gen = r.gen /\ q.finished = r.finished
    BY <1>3
<1>9. ZoneOK(m, q)
    BY <1>4, <1>5, <1>7, <1>8 DEF ZoneOK
<1> QED BY <1>0, <1>8, <1>9

(* So do a finish, a reset and a restart. *)
LEMMA OtherZones ==
    ASSUME NEW m \in AllModes, NEW r, ZoneOK(m, r), NEW w \in 0 .. SizeOf(m)
    PROVE  /\ ZoneOK(m, FinishedRec(m, r)) /\ ZoneOK(m, ResetRec(m, r)) /\ ZoneOK(m, FailedRec(r))
           /\ ZoneOK(m, RestartedRec(r, w, SizeOf(m) - w)) /\ ZoneOK(m, RestartedRec(r, w, 0))
           /\ FinishedRec(m, r).acked = r.acked /\ FinishedRec(m, r).gen = r.gen
           /\ ResetRec(m, r).acked = {} /\ FailedRec(r).acked = {}
           /\ RestartedRec(r, w, SizeOf(m) - w).acked = r.acked
           /\ RestartedRec(r, w, SizeOf(m) - w).gen = r.gen
           /\ RestartedRec(r, w, 0).acked = r.acked /\ RestartedRec(r, w, 0).gen = r.gen
<1>1. /\ r \in ZoneRec /\ r.wp \in Nat /\ r.cap \in Nat /\ r.acked \subseteq 0 .. SizeOf(m) - 1
      /\ r.wp + r.cap <= SizeOf(m) /\ r.gen \in Nat /\ r.finished \in BOOLEAN /\ r.acked \in SUBSET Nat
    BY DEF ZoneOK, ZoneRec
<1>2. SizeOf(m) \in Nat /\ w \in Nat /\ SizeOf(m) - w \in Nat
    BY Numbers DEF SizeOf
<1>3. r = [wp |-> r.wp, cap |-> r.cap, acked |-> r.acked, gen |-> r.gen, finished |-> r.finished]
    BY <1>1 DEF ZoneRec
<1>4. ASSUME NEW q, NEW a \in Nat, NEW b \in Nat, a + b <= SizeOf(m), NEW c \in SUBSET Nat,
             c \subseteq 0 .. SizeOf(m) - 1, NEW g \in Nat, NEW d \in BOOLEAN,
             q = [wp |-> a, cap |-> b, acked |-> c, gen |-> g, finished |-> d]
      PROVE  ZoneOK(m, q)
  <2>1. q \in ZoneRec
      BY <1>4 DEF ZoneRec
  <2>2. q.wp = a /\ q.cap = b /\ q.acked = c
      BY <1>4
  <2> QED BY <1>4, <2>1, <2>2 DEF ZoneOK
<1>5. ZoneOK(m, FinishedRec(m, r)) /\ FinishedRec(m, r).acked = r.acked /\ FinishedRec(m, r).gen = r.gen
  <2>0. PICK q : q = FinishedRec(m, r)
      OBVIOUS
  <2>1. q = [wp |-> SizeOf(m), cap |-> 0, acked |-> r.acked, gen |-> r.gen, finished |-> TRUE]
      BY <1>1, <2>0 DEF ZoneRec, FinishedRec, RestartedRec
  <2>2. SizeOf(m) + 0 <= SizeOf(m)
      BY <1>2
  <2>3. q.wp = SizeOf(m) /\ q.cap = 0 /\ q.acked = r.acked /\ q.gen = r.gen
      BY <2>1
  <2>4. q \in ZoneRec
      BY <1>1, <1>2, <2>1 DEF ZoneRec
  <2>5. ZoneOK(m, q)
      BY <1>1, <1>2, <2>2, <2>3, <2>4 DEF ZoneOK
  <2> QED BY <2>0, <2>3, <2>5
<1>6. ZoneOK(m, ResetRec(m, r)) /\ ResetRec(m, r).acked = {}
  <2> DEFINE q == [wp |-> 0, cap |-> SizeOf(m), acked |-> {}, gen |-> r.gen + 1, finished |-> FALSE]
  <2>1. 0 + SizeOf(m) <= SizeOf(m) /\ r.gen + 1 \in Nat /\ {} \in SUBSET Nat /\ {} \subseteq 0 .. SizeOf(m) - 1
      BY <1>1, <1>2
  <2>2. q \in ZoneRec
      BY <1>2, <2>1 DEF ZoneRec
  <2>3. q.wp = 0 /\ q.cap = SizeOf(m) /\ q.acked = {}
      OBVIOUS
  <2> HIDE DEF q
  <2>4. ZoneOK(m, q)
      BY <1>2, <2>2, <2>3 DEF ZoneOK
  <2> QED BY <2>3, <2>4 DEF q, ResetRec
<1>7. ZoneOK(m, FailedRec(r)) /\ FailedRec(r).acked = {}
  <2> DEFINE q == FailedRec(r)
  <2>1. q = [wp |-> r.wp, cap |-> r.cap, acked |-> {}, gen |-> r.gen, finished |-> r.finished]
      BY <1>3 DEF FailedRec
  <2>2. {} \in SUBSET Nat /\ {} \subseteq 0 .. SizeOf(m) - 1
      OBVIOUS
  <2> HIDE DEF q
  <2>3. ZoneOK(m, q)
      BY <1>1, <1>4, <2>1, <2>2
  <2>4. q.acked = {}
      BY <2>1
  <2> QED BY <2>3, <2>4 DEF q
<1>8. /\ ZoneOK(m, RestartedRec(r, w, SizeOf(m) - w))
      /\ RestartedRec(r, w, SizeOf(m) - w).acked = r.acked /\ RestartedRec(r, w, SizeOf(m) - w).gen = r.gen
  <2>0. PICK q : q = RestartedRec(r, w, SizeOf(m) - w)
      OBVIOUS
  <2>1. q = [wp |-> w, cap |-> SizeOf(m) - w, acked |-> r.acked, gen |-> r.gen, finished |-> r.finished]
      BY <1>1, <2>0 DEF ZoneRec, FinishedRec, RestartedRec
  <2>2. w + (SizeOf(m) - w) <= SizeOf(m)
      BY <1>2
  <2>3. q.wp = w /\ q.cap = SizeOf(m) - w /\ q.acked = r.acked /\ q.gen = r.gen
      BY <2>1
  <2>4. q \in ZoneRec
      BY <1>1, <1>2, <2>1 DEF ZoneRec
  <2>5. ZoneOK(m, q)
      BY <1>1, <1>2, <2>2, <2>3, <2>4 DEF ZoneOK
  <2> QED BY <2>0, <2>3, <2>5
<1>9. /\ ZoneOK(m, RestartedRec(r, w, 0))
      /\ RestartedRec(r, w, 0).acked = r.acked /\ RestartedRec(r, w, 0).gen = r.gen
  <2>0. PICK q : q = RestartedRec(r, w, 0)
      OBVIOUS
  <2>1. q = [wp |-> w, cap |-> 0, acked |-> r.acked, gen |-> r.gen, finished |-> r.finished]
      BY <1>1, <2>0 DEF ZoneRec, FinishedRec, RestartedRec
  <2>2. w + 0 <= SizeOf(m)
      BY <1>2
  <2>3. q.wp = w /\ q.cap = 0 /\ q.acked = r.acked /\ q.gen = r.gen
      BY <2>1
  <2>4. q \in ZoneRec
      BY <1>1, <1>2, <2>1 DEF ZoneRec
  <2>5. ZoneOK(m, q)
      BY <1>1, <1>2, <2>2, <2>3, <2>4 DEF ZoneOK
  <2> QED BY <2>0, <2>3, <2>5
<1> QED BY <1>5, <1>6, <1>7, <1>8, <1>9

\* One zone at most has another record.
ZoneSet(z, q) == DOMAIN zone' = Zones /\ zone' = [y \in Zones |-> zone'[y]] /\ zone'[z] = q
                 /\ \A y \in Zones : y # z => zone'[y] = zone[y]

(* The type invariant when one zone at most has another record. *)
LEMMA TypedAgain ==
    ASSUME Typed, MapInv', mode' = mode, DiskOK(disk'), offline' \subseteq DeviceZones,
           NEW z \in Zones, NEW q, ZoneOK(mode, q), ZoneSet(z, q),
           suspect' \subseteq Zones, losses' \in [Zones -> Nat]
    PROVE  Typed'
<1>1. Zones' = Zones
    BY DEF ZoneSet, Zones
<1>2. mode \in Modes /\ Zones \subseteq 0 .. NrZones(mode) - 1 /\ \A y \in Zones : ZoneOK(mode, zone[y])
    BY DEF Typed
<1>3. zone' = [y \in Zones |-> zone'[y]] /\ \A y \in Zones : ZoneOK(mode, zone'[y])
    BY <1>2 DEF ZoneSet
<1> QED BY <1>1, <1>2, <1>3 DEF Typed

(* What an append, a finish and a reset do to the zones. *)
LEMMA ZonesAfter ==
    ASSUME Typed, NEW z \in Zones, NEW n \in 1 .. MaxAppend
    PROVE  /\ zone' = zone => ZoneSet(z, zone[z])
           /\ zone' = [zone EXCEPT ![z].wp = @ + n, ![z].cap = @ - n,
                              ![z].acked = @ \cup zone[z].wp .. zone[z].wp + n - 1]
              => ZoneSet(z, AppendedRec(zone[z], n))
           /\ zone' = [zone EXCEPT ![z].wp = ZoneSize, ![z].cap = 0, ![z].finished = TRUE]
              => ZoneSet(z, FinishedRec(mode, zone[z]))
           /\ zone' = [zone EXCEPT ![z] = [wp |-> 0, cap |-> ZoneSize, acked |-> {},
                                    gen |-> zone[z].gen + 1, finished |-> FALSE]]
              => ZoneSet(z, ResetRec(mode, zone[z]))
           /\ zone' = [zone EXCEPT ![z] = [zone[z] EXCEPT !.acked = {}]]
              => ZoneSet(z, FailedRec(zone[z]))
<1>1. zone = [y \in Zones |-> zone[y]] /\ Zones = DOMAIN zone
    BY DEF Typed, Zones
<1>2. ZoneSize = SizeOf(mode)
    BY SizeFacts DEF Typed, MapInv
<1>3. ASSUME zone' = zone PROVE ZoneSet(z, zone[z])
    BY <1>1, <1>3 DEF ZoneSet
<1>4. ASSUME zone' = [zone EXCEPT ![z].wp = @ + n, ![z].cap = @ - n,
                              ![z].acked = @ \cup zone[z].wp .. zone[z].wp + n - 1]
      PROVE  ZoneSet(z, AppendedRec(zone[z], n))
    BY <1>1, <1>4 DEF ZoneSet, AppendedRec
<1>5. ASSUME zone' = [zone EXCEPT ![z].wp = ZoneSize, ![z].cap = 0, ![z].finished = TRUE]
      PROVE  ZoneSet(z, FinishedRec(mode, zone[z]))
    BY <1>1, <1>2, <1>5 DEF ZoneSet, FinishedRec
<1>6. ASSUME zone' = [zone EXCEPT ![z] = [wp |-> 0, cap |-> ZoneSize, acked |-> {},
                                    gen |-> zone[z].gen + 1, finished |-> FALSE]]
      PROVE  ZoneSet(z, ResetRec(mode, zone[z]))
    BY <1>1, <1>2, <1>6 DEF ZoneSet, ResetRec
<1>7. ASSUME zone' = [zone EXCEPT ![z] = [zone[z] EXCEPT !.acked = {}]]
      PROVE  ZoneSet(z, FailedRec(zone[z]))
    BY <1>1, <1>7 DEF ZoneSet, FailedRec
<1> QED BY <1>3, <1>4, <1>5, <1>6, <1>7

(* The zones that share an address are zones in play. *)
LEMMA TouchedZones ==
    ASSUME NEW z \in Zones
    PROVE  Touched(z) \subseteq Zones
BY DEF Touched, Clash

(* Every step keeps the types. *)
LEMMA TypedStep ==
    ASSUME Typed, [Next]_vars
    PROVE  Typed'
<1>0. /\ MapInv /\ MapInv' /\ mode \in AllModes /\ offline \subseteq DeviceZones
      /\ suspect \subseteq Zones /\ losses \in [Zones -> Nat] /\ DiskOK(disk)
      /\ (\A z \in Zones : ZoneOK(mode, zone[z])) /\ ZoneSize = SizeOf(mode) /\ SizeOf(mode) \in Nat
    BY MapStepInv, SizeFacts DEF Typed, MapInv
<1>1. ASSUME NEW z \in Zones, NEW n \in 1 .. MaxAppend, AppendTo(z, n) PROVE Typed'
  <2>1. /\ DiskOK(disk')
        /\ \/ zone' = zone
           \/ zone' = [zone EXCEPT ![z].wp = @ + n, ![z].cap = @ - n,
                              ![z].acked = @ \cup zone[z].wp .. zone[z].wp + n - 1]
        /\ n <= zone[z].cap
        /\ suspect' = suspect \cup Touched(z)
        /\ UNCHANGED <<mode, offline, map, inv, losses>>
      BY <1>1, AppendFacts
  <2>2. \E q : ZoneOK(mode, q) /\ ZoneSet(z, q)
    <3>1. ZoneOK(mode, zone[z])
        BY <1>0
    <3>2. ZoneOK(mode, AppendedRec(zone[z], n))
      <4>1. n \in Nat \ {0}
          BY Numbers
      <4> QED BY <1>0, <2>1, <3>1, <4>1, AppendedZone
    <3>3. ZoneSet(z, zone[z]) \/ ZoneSet(z, AppendedRec(zone[z], n))
        BY <2>1, ZonesAfter
    <3> QED BY <3>1, <3>2, <3>3
  <2> QED BY <1>0, <2>1, <2>2, TouchedZones, TypedAgain
<1>2. ASSUME NEW z \in Zones, Finish(z) PROVE Typed'
  <2>1. /\ DiskOK(disk')
        /\ \/ zone' = zone
           \/ zone' = [zone EXCEPT ![z].wp = ZoneSize, ![z].cap = 0, ![z].finished = TRUE]
        /\ suspect' = suspect \cup Touched(z) \/ suspect' = suspect \cup Touched(z) \cup {z}
        /\ UNCHANGED <<mode, offline, map, inv, losses>>
      BY <1>2, FinishFacts
  <2>2. \E q : ZoneOK(mode, q) /\ ZoneSet(z, q)
    <3>1. ZoneOK(mode, zone[z])
        BY <1>0
    <3>2. ZoneOK(mode, FinishedRec(mode, zone[z]))
      <4>1. 0 \in 0 .. SizeOf(mode)
          BY <1>0
      <4> QED BY <1>0, <3>1, <4>1, OtherZones
    <3>3. ZoneSet(z, zone[z]) \/ ZoneSet(z, FinishedRec(mode, zone[z]))
      <4>1. 1 \in 1 .. MaxAppend
          BY Numbers
      <4> QED BY <2>1, <4>1, ZonesAfter
    <3> QED BY <3>1, <3>2, <3>3
  <2> QED BY <1>0, <2>1, <2>2, TouchedZones, TypedAgain
<1>3. ASSUME NEW z \in Zones, Reset(z) PROVE Typed'
  <2>1. /\ DiskOK(disk')
        /\ \/ zone' = [zone EXCEPT ![z] = [wp |-> 0, cap |-> ZoneSize, acked |-> {},
                                    gen |-> zone[z].gen + 1, finished |-> FALSE]]
           \/ zone' = [zone EXCEPT ![z] = [zone[z] EXCEPT !.acked = {}]]
        /\ suspect' = (suspect \ {z}) \cup Touched(z) \/ suspect' = suspect \cup {z} \cup Touched(z)
        /\ UNCHANGED <<mode, offline, map, inv, losses>>
      BY <1>3, ResetFacts
  <2>2. \E q : ZoneOK(mode, q) /\ ZoneSet(z, q)
    <3>1. ZoneOK(mode, zone[z])
        BY <1>0
    <3>2. ZoneOK(mode, ResetRec(mode, zone[z])) /\ ZoneOK(mode, FailedRec(zone[z]))
      <4>1. 0 \in 0 .. SizeOf(mode)
          BY <1>0
      <4> QED BY <1>0, <3>1, <4>1, OtherZones
    <3>3. ZoneSet(z, ResetRec(mode, zone[z])) \/ ZoneSet(z, FailedRec(zone[z]))
      <4>1. 1 \in 1 .. MaxAppend
          BY Numbers
      <4> QED BY <2>1, <4>1, ZonesAfter
    <3> QED BY <3>2, <3>3
  <2> QED BY <1>0, <2>1, <2>2, TouchedZones, TypedAgain
<1>4. ASSUME NEW z \in Zones, NEW dz \in DeviceZones, GoOffline(z, dz) PROVE Typed'
  <2>1. /\ offline' = offline \cup {dz} /\ losses' = [losses EXCEPT ![z] = @ + 1]
        /\ UNCHANGED <<mode, disk, map, inv, zone, suspect>>
      BY <1>4 DEF GoOffline
  <2>2. losses' \in [Zones -> Nat] /\ offline' \subseteq DeviceZones
      BY <1>0, <2>1
  <2>3. ZoneSet(z, zone[z])
    <3>1. 1 \in 1 .. MaxAppend
        BY Numbers
    <3> QED BY <2>1, <3>1, ZonesAfter
  <2>4. ZoneOK(mode, zone[z]) /\ mode' = mode /\ DiskOK(disk') /\ suspect' \subseteq Zones
      BY <1>0, <2>1
  <2> QED BY <1>0, <2>2, <2>3, <2>4, TypedAgain
<1>5. ASSUME NEW z \in Zones, NEW k, ScanAndHandleOffline(z, k) PROVE Typed'
  <2>1. PICK s, i, f : Repaired(s, i, f)
      BY <1>0, <1>5, ScanRepairs
  <2>2. DiskOK(disk')
      BY <2>1, RepairFacts
  <2>3. UNCHANGED <<mode, offline, zone, suspect, losses>>
      BY <1>5 DEF ScanAndHandleOffline
  <2>4. ZoneSet(z, zone[z])
    <3>1. 1 \in 1 .. MaxAppend
        BY Numbers
    <3> QED BY <2>3, <3>1, ZonesAfter
  <2>5. /\ ZoneOK(mode, zone[z]) /\ mode' = mode /\ offline' \subseteq DeviceZones
        /\ suspect' \subseteq Zones /\ losses' \in [Zones -> Nat]
      BY <1>0, <2>3
  <2> QED BY <1>0, <2>2, <2>4, <2>5, TypedAgain
<1>6. ASSUME Restart PROVE Typed'
  <2>1. /\ UNCHANGED <<mode, disk, offline, suspect, losses>>
        /\ zone' = [z \in Zones |->
                      [zone[z] EXCEPT !.wp = ZoneWp(z)',
                                      !.cap = IF Usable(z)' THEN ZoneSize - ZoneWp(z)' ELSE 0]]
      BY <1>6 DEF Restart
  <2>2. Zones' = Zones /\ zone' = [z \in Zones |-> zone'[z]]
      BY <2>1 DEF Zones
  <2>3. ASSUME NEW z \in Zones PROVE ZoneOK(mode, zone'[z])
    <3> DEFINE w == ZoneWp(z)'
    <3>1. z \in 0 .. NrZones(mode) - 1 /\ z \in Nat
        BY <1>0, ZonesNumber DEF Typed
    <3>2. w = WpOf(mode', map', disk', z)
        BY <1>0, <2>1, <3>1, WpIsNext
    <3>3. w \in 0 .. SizeOf(mode)
      <4>1. mode' = mode /\ DiskOK(disk') /\ (mode \in AutoModes => MapOK(mode, map', inv'))
          BY <1>0, <2>1 DEF MapInv, RaidAuto, AutoModes
      <4> HIDE DEF w
      <4> QED BY <1>0, <3>1, <3>2, <4>1, WpBound
    <3>4. /\ ZoneOK(mode, RestartedRec(zone[z], w, SizeOf(mode) - w))
          /\ ZoneOK(mode, RestartedRec(zone[z], w, 0))
      <4> HIDE DEF w
      <4> QED BY <1>0, <3>3, OtherZones
    <3>5. zone'[z] = [zone[z] EXCEPT !.wp = w, !.cap = IF Usable(z)' THEN ZoneSize - w ELSE 0]
        BY <2>1
    <3> HIDE DEF w
    <3>6. \/ zone'[z] = RestartedRec(zone[z], w, SizeOf(mode) - w)
          \/ zone'[z] = RestartedRec(zone[z], w, 0)
        BY <1>0, <3>5 DEF RestartedRec
    <3> QED BY <3>4, <3>6
  <2> QED BY <1>0, <2>1, <2>2, <2>3 DEF Typed
<1>7. CASE UNCHANGED vars
  <2>1. MapInv' /\ UNCHANGED <<mode, disk, offline, zone, suspect, losses>>
      BY <1>0, <1>7 DEF vars
  <2>2. Zones' = Zones
      BY <2>1 DEF Zones
  <2> QED BY <2>1, <2>2 DEF Typed, DiskOK
<1> QED BY <1>1, <1>2, <1>3, <1>4, <1>5, <1>6, <1>7 DEF Next

(* The initial state has the types. *)
LEMMA TypedInit ==
    ASSUME Init
    PROVE  Typed
<1>1. MapInv /\ mode \in Modes
    BY MapInitInv DEF Init
<1>2. mode \in AllModes /\ ZoneSize = SizeOf(mode) /\ SizeOf(mode) \in Nat
    BY <1>1, SizeFacts DEF MapInv
<1>3. PICK S \in InPlay[mode] : zone = [z \in S |->
                 [wp |-> 0, cap |-> ZoneSize, acked |-> {}, gen |-> 0, finished |-> FALSE]]
    BY DEF Init
<1>4. S \subseteq 0 .. NrZones(mode) - 1
    BY <1>1, RaidAssumption
<1>5. Zones = S /\ zone = [z \in Zones |-> zone[z]]
    BY <1>3 DEF Zones
<1>6. ASSUME NEW z \in Zones PROVE ZoneOK(mode, zone[z])
  <2> DEFINE r == [wp |-> 0, cap |-> SizeOf(mode), acked |-> {}, gen |-> 0, finished |-> FALSE]
  <2>1. zone[z] = r
      BY <1>2, <1>3, <1>5
  <2>2. r \in ZoneRec /\ r.wp = 0 /\ r.cap = SizeOf(mode) /\ r.acked = {}
      BY <1>2 DEF ZoneRec
  <2> HIDE DEF r
  <2> QED BY <1>2, <2>1, <2>2 DEF ZoneOK
<1>7. DiskOK(disk)
  <2>1. disk = [dz \in DeviceZones |-> <<>>]
      BY DEF Init
  <2>2. <<>> \in Seq(Blk) /\ Len(<<>>) <= ZB
      BY Numbers
  <2> QED BY <2>1, <2>2 DEF DiskOK, Contents
<1>8. offline = {} /\ suspect = {} /\ losses = [z \in Zones |-> 0]
    BY DEF Init
<1> QED BY <1>1, <1>4, <1>5, <1>6, <1>7, <1>8 DEF Typed

(* The types with the map invariant. *)
THEOREM RaidTypedInv == Spec => []Typed
<1>1. Init => Typed
    BY TypedInit
<1>2. Typed /\ [Next]_vars => Typed'
    BY TypedStep
<1> QED BY <1>1, <1>2, PTL DEF Spec

(* The state of the back ends has its types on every geometry: no zone is  *)
(* written beyond its size and no device zone beyond its own, also where a *)
(* restart computes the write pointer from the device zones.               *)
THEOREM RaidTypes == Spec => []TypeOK
<1>1. Typed => TypeOK
  <2> SUFFICES ASSUME Typed PROVE TypeOK
      OBVIOUS
  <2>1. /\ mode \in Modes /\ offline \subseteq DeviceZones /\ suspect \subseteq Zones
        /\ \A dz \in DeviceZones : Len(disk[dz]) <= ZB
      BY DEF Typed, DiskOK
  <2>2. inv \subseteq DeviceZones
    <3>1. CASE RaidAuto
      <4>1. MapOK(mode, map, inv)
          BY <3>1 DEF Typed, MapInv
      <4> QED BY <4>1 DEF MapOK
    <3>2. CASE ~RaidAuto
        BY <3>2 DEF Typed, MapInv
    <3> QED BY <3>1, <3>2
  <2>3. ZoneSize = SizeOf(mode) /\ SizeOf(mode) \in Nat
      BY SizeFacts DEF Typed, MapInv
  <2>4. ASSUME NEW z \in Zones
        PROVE  /\ zone[z].wp \in 0 .. ZoneSize
               /\ zone[z].cap \in 0 .. ZoneSize - zone[z].wp
               /\ zone[z].acked \subseteq 0 .. ZoneSize - 1
    <3>1. /\ zone[z].wp \in Nat /\ zone[z].cap \in Nat
          /\ zone[z].wp + zone[z].cap <= SizeOf(mode)
          /\ zone[z].acked \subseteq 0 .. SizeOf(mode) - 1
        BY DEF Typed, ZoneOK, ZoneRec
    <3> QED BY <2>3, <3>1
  <2> QED BY <2>1, <2>2, <2>4 DEF TypeOK
<1> QED BY <1>1, RaidTypedInv, PTL

-----------------------------------------------------------------------------
(* What reads return.                                                      *)

\* The block k of a zone with the record r.
Tag(z, k, r) == [z |-> z, k |-> k, gen |-> r.gen]

\* Every acknowledged block is on each device zone that the default layout gives
\* it, unless that one is lost.
Kept(m, dk, off, z, r) ==
    \A k \in r.acked : \A i \in DOMAIN Where(m, Home(m), z, k) :
      \/ Where(m, Home(m), z, k)[i] \in off
      \/ Holds(dk[Where(m, Home(m), z, k)[i]], OffsetOf(m, z, k), Tag(z, k, r))

\* No other zone in play has the address of z.
Alone(m, Z, z) == \A y \in Z : y # z => ~(m = "RAIDC" /\ y % NZ = z % NZ)

\* The mirrors of the sub zone s: those of the default layout, or the one of them
\* that is left, in front of its new partner.
SubShape(m, mp, off, s) ==
    \/ mp[s] = Home(m)[s]
    \/ /\ mp[s][1] \in Range(Home(m)[s]) /\ mp[s][1] \notin off
       /\ \A h \in Range(Home(m)[s]) : h # mp[s][1] => h \in off

\* What a mirrored zone that has lost n device zones has left.
LossOK(m, mp, off, z, n) ==
    m = "AUTO1" /\ z >= Meta =>
      /\ n = 0 => /\ \A d \in ZoneDevs(m, Home(m), z) : d \notin off
                  /\ \A e \in 0 .. N - 1 : mp[z * N + e] = Home(m)[z * N + e]
      /\ n = 1 => \A g, h \in ZoneDevs(m, Home(m), z) : g \in off /\ h \in off => g = h
      /\ n <= 1 => \A e \in 0 .. N - 1 : SubShape(m, mp, off, z * N + e)

\* The inductive invariant of the reads.
ReadOK(z) ==
    /\ LossOK(mode, map, offline, z, losses[z])
    /\ z \notin suspect => zone[z].acked = {} \/ Alone(mode, Zones, z)
    /\ z \notin suspect /\ losses[z] <= 1 => Kept(mode, disk, offline, z, zone[z])
ReadInv == Typed /\ \A z \in Zones : ReadOK(z)

(* The device zones of a block are device zones of its zone. *)
LEMMA WhereInZone ==
    ASSUME NEW m \in AllModes, NEW z \in 0 .. NrZones(m) - 1, NEW k \in 0 .. SizeOf(m) - 1,
           NEW mp, NEW iv, m \in AutoModes => MapOK(m, mp, iv),
           NEW i \in DOMAIN Where(m, mp, z, k)
    PROVE  /\ Where(m, mp, z, k)[i] \in ZoneDevs(m, mp, z)
           /\ Where(m, mp, z, k)[i] \in DeviceZones
           /\ m \in AutoModes => \E e \in 0 .. N - 1 : SubOf(m, z, k) = z * N + e
<1>1. /\ Where(m, mp, z, k) \in Seq(DeviceZones)
      /\ m # "AUTO1" \/ z < Meta => Len(Where(m, mp, z, k)) = 1
    BY WhereFacts
<1>2. Where(m, mp, z, k)[i] \in DeviceZones
    BY <1>1
<1>3. CASE m \in AutoModes
  <2> DEFINE e == IF StripedZone(m, z) THEN k % N ELSE k \div ZB
  <2>1. e \in 0 .. N - 1 /\ SubOf(m, z, k) = z * N + e
      BY <1>3, WithinZone DEF SubOf
  <2> HIDE DEF e
  <2>2. Where(m, mp, z, k) = mp[z * N + e]
      BY <1>3, <2>1 DEF Where
  <2>3. Where(m, mp, z, k)[i] \in Range(mp[z * N + e])
      BY <2>2 DEF Range
  <2>4. ZoneDevs(m, mp, z) = UNION {Range(mp[z * N + x]) : x \in 0 .. N - 1}
      BY <1>3 DEF ZoneDevs, AutoModes
  <2> QED BY <1>2, <2>1, <2>3, <2>4
<1>4. CASE m \notin AutoModes
  <2>1. Where(m, mp, z, k) = <<FixedZone(m, z, k)>>
      BY <1>4 DEF Where
  <2>2. i = 1 /\ Where(m, mp, z, k)[i] = FixedZone(m, z, k)
      BY <2>1
  <2>3. FixedZone(m, z, k) \in ZoneDevs(m, mp, z)
    <3>1. CASE m = "RAID0"
      <4>1. k % N \in Devices
          BY <3>1, WithinZone DEF Devices
      <4>2. ZoneDevs(m, mp, z) = {<<d, z>> : d \in Devices}
          BY <3>1 DEF ZoneDevs, AutoModes
      <4>3. FixedZone(m, z, k) = <<k % N, z>>
          BY <3>1 DEF FixedZone
      <4> QED BY <4>1, <4>2, <4>3
    <3>2. CASE m = "RAID1"
      <4>1. 0 \in Devices
          BY Numbers DEF Devices
      <4>2. ZoneDevs(m, mp, z) = {<<d, z>> : d \in Devices}
          BY <3>2 DEF ZoneDevs, AutoModes
      <4>3. FixedZone(m, z, k) = <<0, z>>
          BY <3>2 DEF FixedZone
      <4> QED BY <4>1, <4>2, <4>3
    <3>3. CASE m = "RAIDC"
      <4>1. ZoneDevs(m, mp, z) = {<<0, z % NZ>>}
          BY <3>3 DEF ZoneDevs, AutoModes
      <4>2. FixedZone(m, z, k) = <<0, z % NZ>>
          BY <3>3 DEF FixedZone
      <4> QED BY <4>1, <4>2
    <3> QED BY <1>4, <3>1, <3>2, <3>3 DEF AllModes, AutoModes
  <2> QED BY <1>2, <1>4, <2>2, <2>3
<1> QED BY <1>3, <1>4

(* The device zones in use of one zone are none of the default device      *)
(* zones of another.                                                       *)
LEMMA ZonesApart ==
    ASSUME NEW m \in AllModes, NEW y \in 0 .. NrZones(m) - 1, NEW z \in 0 .. NrZones(m) - 1,
           y # z, ~(m = "RAIDC" /\ y % NZ = z % NZ),
           NEW mp, NEW iv, m \in AutoModes => MapOK(m, mp, iv),
           NEW d \in ZoneDevs(m, mp, y)
    PROVE  d \notin ZoneDevs(m, Home(m), z)
<1> SUFFICES ASSUME d \in ZoneDevs(m, Home(m), z) PROVE FALSE
    OBVIOUS
<1>1. CASE m \in {"RAID0", "RAID1"}
  <2>1. \A q, x : ZoneDevs(m, q, x) = {<<c, x>> : c \in Devices}
      BY <1>1 DEF ZoneDevs, AutoModes
  <2>2. PICK a \in Devices : d = <<a, y>>
      BY <2>1
  <2>3. PICK b \in Devices : d = <<b, z>>
      BY <2>1
  <2> QED BY <2>2, <2>3
<1>2. CASE m = "RAIDC"
  <2>1. d = <<0, y % NZ>> /\ d = <<0, z % NZ>>
      BY <1>2 DEF ZoneDevs, AutoModes
  <2> QED BY <1>2, <2>1
<1>3. CASE m \in AutoModes
  <2>1. \A q, x : ZoneDevs(m, q, x) = UNION {Range(q[x * N + e]) : e \in 0 .. N - 1}
      BY <1>3 DEF ZoneDevs, AutoModes
  <2>2. PICK e \in 0 .. N - 1 : d \in Range(mp[y * N + e])
      BY <2>1
  <2>3. PICK g \in 0 .. N - 1 : d \in Range(Home(m)[z * N + g])
      BY <2>1
  <2> DEFINE s == y * N + e
             t == z * N + g
  <2>4. s \in DOMAIN Home(m) /\ s \div N = y /\ t \in DOMAIN Home(m) /\ t \div N = z
      BY <1>3, SubFacts
  <2>5. MapOK(m, mp, iv) /\ MapOK(m, Home(m), Base(m))
      BY <1>3, HomeOK
  <2>6. d \in Range(mp[s]) /\ d \in Range(Home(m)[t])
      BY <2>2, <2>3
  <2> HIDE DEF s, t
  <2>7. d \in Base(m)
      BY <2>4, <2>5, <2>6 DEF MapOK
  <2>8. PICK i \in DOMAIN mp[s] : mp[s][i] = d
      BY <2>6 DEF Range
  <2>9. d \in Range(Home(m)[s])
      BY <2>4, <2>5, <2>7, <2>8 DEF MapOK
  <2>10. \A u, v \in DOMAIN Home(m) : \A j \in DOMAIN Home(m)[u] : \A l \in DOMAIN Home(m)[v] :
            Home(m)[u][j] = Home(m)[v][l] => u = v
      BY <2>5 DEF MapOK, Injective
  <2>11. s = t
    <3>1. PICK j \in DOMAIN Home(m)[s] : Home(m)[s][j] = d
        BY <2>9 DEF Range
    <3>2. PICK l \in DOMAIN Home(m)[t] : Home(m)[t][l] = d
        BY <2>6 DEF Range
    <3> QED BY <2>4, <2>10, <3>1, <3>2
  <2> QED BY <2>4, <2>11
<1> QED BY <1>1, <1>2, <1>3 DEF AllModes, AutoModes

\* The device zones D lose nothing.
NothingLost(D, d1, d2) ==
    \A d \in D : /\ Len(d1[d]) <= Len(d2[d])
                 /\ \A j \in 1 .. Len(d1[d]) : d2[d][j] = d1[d][j]

(* Acknowledged blocks stay where they are when the default device zones   *)
(* of their zone lose nothing.                                             *)
LEMMA KeptOn ==
    ASSUME NEW m \in AllModes, NEW z \in 0 .. NrZones(m) - 1, NEW r, ZoneOK(m, r),
           NEW r2, r2.acked = r.acked, r2.gen = r.gen,
           NEW dk, NEW dk2, DiskOK(dk), DiskOK(dk2), NEW off, NEW off2, off \subseteq off2,
           NothingLost(ZoneDevs(m, Home(m), z) \cap DeviceZones, dk, dk2),
           Kept(m, dk, off, z, r)
    PROVE  Kept(m, dk2, off2, z, r2)
<1> SUFFICES ASSUME NEW k \in r2.acked, NEW i \in DOMAIN Where(m, Home(m), z, k),
                    Where(m, Home(m), z, k)[i] \notin off2
             PROVE  Holds(dk2[Where(m, Home(m), z, k)[i]], OffsetOf(m, z, k), Tag(z, k, r2))
    BY DEF Kept
<1> DEFINE d == Where(m, Home(m), z, k)[i]
           o == OffsetOf(m, z, k)
<1>1. k \in r.acked /\ k \in 0 .. SizeOf(m) - 1
    BY DEF ZoneOK
<1>2. m \in AutoModes => MapOK(m, Home(m), Base(m))
    BY HomeOK
<1>3. d \in ZoneDevs(m, Home(m), z) /\ d \in DeviceZones
    BY <1>1, <1>2, WhereInZone
<1>4. o \in 0 .. ZB - 1
    BY <1>1, WithinZone
<1>5. Holds(dk[d], o, Tag(z, k, r))
    BY <1>1 DEF Kept
<1>6. Tag(z, k, r2) = Tag(z, k, r)
    BY DEF Tag
<1>7. Len(dk[d]) \in Nat /\ Len(dk2[d]) \in Nat
    BY <1>3 DEF DiskOK, Contents
<1>8. Len(dk[d]) <= Len(dk2[d]) /\ \A j \in 1 .. Len(dk[d]) : dk2[d][j] = dk[d][j]
    BY <1>3 DEF NothingLost
<1> HIDE DEF d, o
<1>9. o < Len(dk[d]) /\ dk[d][o + 1] = Tag(z, k, r)
    BY <1>5 DEF Holds
<1>10. o + 1 \in 1 .. Len(dk[d]) /\ o < Len(dk2[d])
    BY <1>4, <1>7, <1>8, <1>9, Numbers
<1>11. Holds(dk2[d], o, Tag(z, k, r2))
    BY <1>6, <1>8, <1>9, <1>10 DEF Holds
<1> QED BY <1>11 DEF d, o

(* Growing and keeping as they are lose nothing. *)
LEMMA NothingLostIf ==
    ASSUME NEW D, D \subseteq DeviceZones, NEW dk, NEW dk2, DiskOK(dk),
           Grown(dk, dk2) \/ (\A d \in D : dk2[d] = dk[d])
    PROVE  NothingLost(D, dk, dk2)
<1>1. \A d \in D : Len(dk[d]) \in Nat
    BY DEF DiskOK, Contents
<1> QED BY <1>1 DEF NothingLost, Grown

(* A zone that a step did not touch has no other with its address. *)
LEMMA NotTouched ==
    ASSUME NEW z \in Zones, z \notin Touched(z)
    PROVE  Alone(mode, Zones, z)
<1>1. z \in Clash(z)
    BY DEF Clash
<1>2. Clash(z) = {z}
    BY <1>1 DEF Touched
<1>3. ASSUME NEW y \in Zones, y # z, mode = "RAIDC", y % NZ = z % NZ PROVE FALSE
  <2>1. Start(y) = Start(z)
      BY <1>3 DEF Start
  <2>2. y \in Clash(z)
      BY <2>1 DEF Clash
  <2> QED BY <1>2, <1>3, <2>2
<1> QED BY <1>3 DEF Alone

(* The default device zones of a mirrored sub zone: a pair. *)
LEMMA HomePair ==
    ASSUME NEW z \in 0 .. NrZones("AUTO1") - 1, z >= Meta, NEW e \in 0 .. N - 1
    PROVE  LET s == z * N + e
               H == Home("AUTO1")
           IN  /\ s \in DOMAIN H /\ H[s] \in Seq(DeviceZones) /\ Len(H[s]) = 2
               /\ H[s][1] # H[s][2]
               /\ H[s][1] \in Range(H[s]) /\ H[s][2] \in Range(H[s])
               /\ Range(H[s]) \subseteq ZoneDevs("AUTO1", H, z)
               /\ \A h \in Range(H[s]) : h = H[s][1] \/ h = H[s][2]
<1> DEFINE s == z * N + e
           H == Home("AUTO1")
<1>1. "AUTO1" \in AutoModes /\ "AUTO1" \in AllModes
    BY DEF AutoModes, AllModes
<1>2. s \in DOMAIN H /\ (s < Meta * N <=> z < Meta) /\ z \in Nat
    BY <1>1, SubFacts
<1>3. MapOK("AUTO1", H, Base("AUTO1"))
    BY <1>1, HomeOK
<1>4. ZoneDevs("AUTO1", H, z) = UNION {Range(H[z * N + x]) : x \in 0 .. N - 1}
    BY <1>1 DEF ZoneDevs, AutoModes
<1>5. Range(H[s]) \subseteq ZoneDevs("AUTO1", H, z)
    BY <1>4
<1> HIDE DEF s, H
<1>6. ~(z < Meta)
    BY <1>2, Numbers
<1>7. Width("AUTO1", s) = 2
    BY <1>2, <1>6 DEF Width, Copies
<1>8. H[s] \in Seq(DeviceZones) /\ Len(H[s]) = 2 /\ Injective(H)
    BY <1>2, <1>3, <1>7 DEF MapOK, H
<1>9. DOMAIN H[s] = 1 .. 2
    BY <1>8
<1>10. H[s][1] # H[s][2]
    BY <1>2, <1>8, <1>9 DEF Injective
<1>11. /\ H[s][1] \in Range(H[s]) /\ H[s][2] \in Range(H[s])
       /\ \A h \in Range(H[s]) : h = H[s][1] \/ h = H[s][2]
  <2>1. Range(H[s]) = {H[s][x] : x \in 1 .. 2}
      BY <1>9 DEF Range
  <2> QED BY <2>1
<1> QED BY <1>2, <1>5, <1>8, <1>10, <1>11 DEF s, H

(* The loss of a device zone of another zone. *)
LEMMA LossElsewhere ==
    ASSUME NEW m, NEW mp, NEW off, NEW z \in 0 .. NrZones(m) - 1, NEW n, NEW dz,
           dz \notin ZoneDevs(m, Home(m), z), LossOK(m, mp, off, z, n)
    PROVE  LossOK(m, mp, off \cup {dz}, z, n)
<1> SUFFICES ASSUME m = "AUTO1", z >= Meta PROVE LossOK(m, mp, off \cup {dz}, z, n)
    BY DEF LossOK
<1>1. ASSUME n = 0
      PROVE  /\ \A d \in ZoneDevs(m, Home(m), z) : d \notin off \cup {dz}
             /\ \A e \in 0 .. N - 1 : mp[z * N + e] = Home(m)[z * N + e]
    BY <1>1 DEF LossOK
<1>2. ASSUME n = 1, NEW g \in ZoneDevs(m, Home(m), z), NEW h \in ZoneDevs(m, Home(m), z),
             g \in off \cup {dz}, h \in off \cup {dz}
      PROVE  g = h
  <2>1. g \in off /\ h \in off
      BY <1>2
  <2> QED BY <1>2, <2>1 DEF LossOK
<1>3. ASSUME n <= 1, NEW e \in 0 .. N - 1 PROVE SubShape(m, mp, off \cup {dz}, z * N + e)
  <2> DEFINE s == z * N + e
  <2>1. SubShape(m, mp, off, s)
      BY <1>3 DEF LossOK
  <2>2. Range(Home(m)[s]) \subseteq ZoneDevs(m, Home(m), z)
      BY HomePair
  <2> HIDE DEF s
  <2>3. SubShape(m, mp, off \cup {dz}, s)
      BY <2>1, <2>2 DEF SubShape
  <2> QED BY <2>3 DEF s
<1> QED BY <1>1, <1>2, <1>3 DEF LossOK

(* The first loss, or one too many. *)
LEMMA LossHere ==
    ASSUME NEW m, NEW mp, NEW off, NEW z, NEW n \in Nat, NEW dz, LossOK(m, mp, off, z, n)
    PROVE  LossOK(m, mp, off \cup {dz}, z, n + 1)
<1> SUFFICES ASSUME m = "AUTO1", z >= Meta, n = 0
             PROVE  /\ \A g, h \in ZoneDevs(m, Home(m), z) :
                         g \in off \cup {dz} /\ h \in off \cup {dz} => g = h
                    /\ \A e \in 0 .. N - 1 : SubShape(m, mp, off \cup {dz}, z * N + e)
  <2>1. n + 1 # 0 /\ (n + 1 <= 1 => n = 0) /\ (n + 1 = 1 => n = 0)
      OBVIOUS
  <2> QED BY <2>1 DEF LossOK
<1>1. /\ \A d \in ZoneDevs(m, Home(m), z) : d \notin off
      /\ \A e \in 0 .. N - 1 : mp[z * N + e] = Home(m)[z * N + e]
    BY DEF LossOK
<1>2. \A e \in 0 .. N - 1 : SubShape(m, mp, off \cup {dz}, z * N + e)
    BY <1>1 DEF SubShape
<1> QED BY <1>1, <1>2

(* A restart brings back the default layout. *)
LEMMA LossRestart ==
    ASSUME NEW m, NEW mp, NEW off, NEW z, NEW n, LossOK(m, mp, off, z, n)
    PROVE  LossOK(m, Home(m), off, z, n)
<1>1. \A s : SubShape(m, Home(m), off, s)
    BY DEF SubShape
<1> QED BY <1>1 DEF LossOK

(* A repair keeps the mirror that is left, and puts it first. *)
LEMMA LossRepaired ==
    ASSUME NEW m, m = "AUTO1", NEW mp, NEW mp2, NEW iv, MapOK(m, mp, iv),
           NEW s \in DOMAIN mp, NEW i, NEW f, Swapped(mp, mp2, s, i, f), NEW off, mp[s][i] \in off,
           NEW z \in 0 .. NrZones(m) - 1, NEW n \in Nat, LossOK(m, mp, off, z, n)
    PROVE  LossOK(m, mp2, off, z, n)
<1> SUFFICES ASSUME z >= Meta PROVE LossOK(m, mp2, off, z, n)
    BY DEF LossOK
<1>1. ASSUME NEW e \in 0 .. N - 1
      PROVE  /\ n = 0 => mp2[z * N + e] = Home(m)[z * N + e]
             /\ n <= 1 => SubShape(m, mp2, off, z * N + e)
  <2> DEFINE t == z * N + e
             H == Home(m)
  <2>1. /\ t \in DOMAIN H /\ H[t] \in Seq(DeviceZones) /\ Len(H[t]) = 2
        /\ H[t][1] # H[t][2] /\ H[t][1] \in Range(H[t]) /\ H[t][2] \in Range(H[t])
        /\ Range(H[t]) \subseteq ZoneDevs(m, H, z)
        /\ \A h \in Range(H[t]) : h = H[t][1] \/ h = H[t][2]
      BY HomePair
  <2>2. t \in DOMAIN mp
      BY <2>1 DEF MapOK
  <2>3. /\ n = 0 => mp[t] = H[t] /\ \A d \in ZoneDevs(m, H, z) : d \notin off
        /\ n = 1 => \A g, h \in ZoneDevs(m, H, z) : g \in off /\ h \in off => g = h
        /\ n <= 1 => SubShape(m, mp, off, t)
      BY DEF LossOK
  <2> HIDE DEF t
  <2>4. CASE t # s
    <3>1. mp2[t] = mp[t]
        BY <2>2, <2>4 DEF Swapped
    <3> QED BY <2>3, <3>1 DEF SubShape, t
  <2>5. CASE t = s
    <3>1. /\ i \in {1, 2} /\ mp2[t] = <<mp[t][3 - i], f>> /\ mp[t][i] \in off
        BY <2>5 DEF Swapped
    <3>2. mp2[t][1] = mp[t][3 - i]
        BY <3>1
    <3>3. n = 0 => FALSE
        BY <2>1, <2>3, <3>1
    <3>4. ASSUME n = 1 PROVE SubShape(m, mp2, off, t)
      <4>1. SubShape(m, mp, off, t)
          BY <2>3, <3>4
      <4>2. CASE mp[t] = H[t]
        <5>1. H[t][i] \in ZoneDevs(m, H, z) /\ H[t][3 - i] \in ZoneDevs(m, H, z)
            BY <2>1, <3>1
        <5>2. H[t][3 - i] \notin off /\ H[t][i] \in off
            BY <2>1, <2>3, <3>1, <3>4, <4>2, <5>1
        <5>3. mp2[t][1] = H[t][3 - i] /\ H[t][3 - i] \in Range(H[t])
            BY <2>1, <3>1, <3>2, <4>2
        <5>4. \A h \in Range(H[t]) : h # H[t][3 - i] => h \in off
            BY <2>1, <3>1, <5>2
        <5> QED BY <5>2, <5>3, <5>4 DEF SubShape
      <4>3. CASE mp[t] # H[t]
        <5>1. /\ mp[t][1] \in Range(H[t]) /\ mp[t][1] \notin off
              /\ \A h \in Range(H[t]) : h # mp[t][1] => h \in off
            BY <4>1, <4>3 DEF SubShape
        <5>2. i = 2
            BY <3>1, <5>1
        <5>3. mp2[t][1] = mp[t][1]
            BY <3>2, <5>2
        <5> QED BY <5>1, <5>3 DEF SubShape
      <4> QED BY <4>2, <4>3
    <3> QED BY <3>3, <3>4 DEF t
  <2> QED BY <2>4, <2>5
<1> QED BY <1>1 DEF LossOK

(* A default device zone of a block that is online is one that an append   *)
(* writes to.                                                              *)
LEMMA HomeWritten ==
    ASSUME Typed, NEW z \in Zones, LossOK(mode, map, offline, z, losses[z]), losses[z] <= 1,
           NEW b \in 0 .. SizeOf(mode) - 1, NEW i \in DOMAIN Where(mode, Home(mode), z, b),
           Where(mode, Home(mode), z, b)[i] \notin offline
    PROVE  \E j \in 1 .. Len(Where(mode, map, z, b)) :
             Where(mode, map, z, b)[j] = Where(mode, Home(mode), z, b)[i]
<1> DEFINE H == Home(mode)
           d == Where(mode, H, z, b)[i]
           s == SubOf(mode, z, b)
<1>1. /\ mode \in AllModes /\ z \in 0 .. NrZones(mode) - 1
      /\ (mode \in AutoModes => MapOK(mode, map, inv))
    BY DEF Typed, MapInv, RaidAuto, AutoModes
<1>2. mode \in AutoModes => MapOK(mode, H, Base(mode))
    BY HomeOK
<1>3. /\ Where(mode, H, z, b) \in Seq(DeviceZones)
      /\ Where(mode, map, z, b) \in Seq(DeviceZones)
      /\ Len(Where(mode, map, z, b)) \in Nat \ {0}
      /\ mode \in AutoModes => /\ s \in DOMAIN H /\ Where(mode, map, z, b) = map[s]
                               /\ (s < Meta * N <=> z < Meta)
    BY <1>1, <1>2, WhereFacts
<1>4. mode \in AutoModes => Where(mode, H, z, b) = H[s]
    BY DEF Where
<1>5. i \in 1 .. Len(Where(mode, H, z, b))
    BY <1>3
<1>6. CASE mode \notin AutoModes
  <2>1. Where(mode, map, z, b) = Where(mode, H, z, b)
      BY <1>6 DEF Where
  <2> QED BY <1>5, <2>1
<1>7. CASE mode \in AutoModes /\ map[s] = H[s]
  <2>1. Where(mode, map, z, b) = Where(mode, H, z, b)
      BY <1>3, <1>4, <1>7
  <2> QED BY <1>5, <2>1
<1>8. CASE mode \in AutoModes /\ map[s] # H[s]
  <2>1. s \in DOMAIN map /\ (mode = "AUTO0" \/ s < Meta * N => map[s] = H[s])
      BY <1>1, <1>3, <1>8 DEF MapOK
  <2>2. mode = "AUTO1" /\ ~(z < Meta)
      BY <1>3, <1>8, <2>1 DEF AutoModes
  <2>3. z >= Meta /\ z \in Nat
      BY <1>1, <2>2, ZonesNumber, Numbers
  <2>4. PICK e \in 0 .. N - 1 : s = z * N + e
      BY <1>1, <1>2, <1>8, WhereInZone
  <2>5. SubShape(mode, map, offline, s)
      BY <2>2, <2>3, <2>4 DEF LossOK
  <2>6. d \in Range(H[s])
      BY <1>4, <1>8 DEF Range
  <2>7. map[s][1] = d
      BY <1>8, <2>5, <2>6 DEF SubShape
  <2> HIDE DEF d, s
  <2>8. 1 \in 1 .. Len(Where(mode, map, z, b)) /\ Where(mode, map, z, b)[1] = d
      BY <1>3, <1>8, <2>7
  <2> QED BY <2>8 DEF d
<1> QED BY <1>6, <1>7, <1>8

(* An acknowledged append leaves every block on its default device zones   *)
(* that are online.                                                        *)
LEMMA AppendKept ==
    ASSUME Typed, NEW z \in Zones, ReadOK(z), z \notin suspect, losses[z] <= 1,
           NEW n \in Nat \ {0}, n <= zone[z].cap, NEW dk, DiskOK(dk), Grown(disk, dk),
           Acknowledged(z, n, dk)
    PROVE  Kept(mode, dk, offline, z, AppendedRec(zone[z], n))
<1> DEFINE r == zone[z]
<1>1. /\ mode \in AllModes /\ z \in 0 .. NrZones(mode) - 1 /\ ZoneOK(mode, r) /\ DiskOK(disk)
      /\ SizeOf(mode) \in Nat
    BY SizeFacts DEF Typed, MapInv
<1>2. PICK q : q = AppendedRec(r, n)
    OBVIOUS
<1>3. /\ q.acked = r.acked \cup (r.wp .. r.wp + n - 1) /\ q.gen = r.gen
      /\ ZoneOK(mode, q)
    BY <1>1, <1>2, AppendedZone
<1>4. Kept(mode, disk, offline, z, r) /\ LossOK(mode, map, offline, z, losses[z])
    BY DEF ReadOK
<1>5. Kept(mode, dk, offline, z, r)
  <2>1. NothingLost(ZoneDevs(mode, Home(mode), z) \cap DeviceZones, disk, dk)
      BY <1>1, NothingLostIf
  <2> QED BY <1>1, <1>4, <2>1, KeptOn
<1>6. r.wp \in Nat /\ \A k : Tag(z, k, q) = Tag(z, k, r) /\ Tag(z, k, r) = Block(z, k)
    BY <1>1, <1>3 DEF Tag, Block, ZoneOK, ZoneRec
<1> SUFFICES ASSUME NEW k \in q.acked, NEW i \in DOMAIN Where(mode, Home(mode), z, k),
                    Where(mode, Home(mode), z, k)[i] \notin offline
             PROVE  Holds(dk[Where(mode, Home(mode), z, k)[i]], OffsetOf(mode, z, k), Tag(z, k, q))
  <2>1. Kept(mode, dk, offline, z, q)
      BY DEF Kept
  <2> QED BY <1>2, <2>1
<1>7. CASE k \in r.acked
    BY <1>5, <1>6, <1>7 DEF Kept
<1>8. CASE k \in r.wp .. r.wp + n - 1
  <2>1. k \in 0 .. SizeOf(mode) - 1
      BY <1>3 DEF ZoneOK
  <2>2. PICK j \in 1 .. Len(Where(mode, map, z, k)) :
           Where(mode, map, z, k)[j] = Where(mode, Home(mode), z, k)[i]
      BY <1>4, <2>1, HomeWritten
  <2>3. Holds(dk[Where(mode, map, z, k)[j]], OffsetOf(mode, z, k), Block(z, k))
      BY <1>8 DEF Acknowledged
  <2> QED BY <1>6, <2>2, <2>3
<1> QED BY <1>3, <1>7, <1>8

(* The read invariant of a zone whose acknowledged blocks stay the same.   *)
LEMMA ReadAgain ==
    ASSUME Typed, Typed', Zones' = Zones, mode' = mode, offline \subseteq offline',
           NEW y \in Zones, ReadOK(y), LossOK(mode, map', offline', y, losses'[y]),
           y \notin suspect' => y \notin suspect, losses'[y] <= 1 => losses[y] <= 1,
           zone'[y].acked = zone[y].acked, zone'[y].gen = zone[y].gen,
           y \notin suspect /\ zone[y].acked # {} =>
             NothingLost(ZoneDevs(mode, Home(mode), y) \cap DeviceZones, disk, disk')
    PROVE  ReadOK(y)'
<1>1. /\ mode \in AllModes /\ y \in 0 .. NrZones(mode) - 1 /\ ZoneOK(mode, zone[y])
      /\ DiskOK(disk) /\ DiskOK(disk')
    BY DEF Typed, MapInv
<1>2. ASSUME y \notin suspect' PROVE zone'[y].acked = {} \/ Alone(mode', Zones', y)
    BY <1>2 DEF ReadOK
<1>3. ASSUME y \notin suspect', losses'[y] <= 1 PROVE Kept(mode', disk', offline', y, zone'[y])
  <2>1. CASE zone[y].acked = {}
      BY <2>1 DEF Kept
  <2>2. CASE zone[y].acked # {}
    <3>1. /\ Kept(mode, disk, offline, y, zone[y])
          /\ NothingLost(ZoneDevs(mode, Home(mode), y) \cap DeviceZones, disk, disk')
        BY <1>3, <2>2 DEF ReadOK
    <3>2. Kept(mode, disk', offline', y, zone'[y])
        BY <1>1, <3>1, KeptOn
    <3> QED BY <3>2
  <2> QED BY <2>1, <2>2
<1>4. LossOK(mode', map', offline', y, losses'[y])
    OBVIOUS
<1> QED BY <1>2, <1>3, <1>4 DEF ReadOK

(* A zone whose record one step replaced by an equal one, or did not. *)
LEMMA OtherRec ==
    ASSUME NEW z \in Zones, NEW q, ZoneSet(z, q), NEW y \in Zones,
           y # z \/ (q.acked = zone[y].acked /\ q.gen = zone[y].gen)
    PROVE  Zones' = Zones /\ zone'[y].acked = zone[y].acked /\ zone'[y].gen = zone[y].gen
<1>1. Zones' = Zones
    BY DEF ZoneSet, Zones
<1>2. CASE y # z
    BY <1>1, <1>2 DEF ZoneSet
<1>3. CASE y = z
    BY <1>1, <1>3 DEF ZoneSet
<1> QED BY <1>2, <1>3

(* Appends keep the read invariant. *)
LEMMA ReadAppend ==
    ASSUME ReadInv, Typed', NEW z \in Zones, NEW n \in 1 .. MaxAppend, AppendTo(z, n),
           NEW y \in Zones
    PROVE  Zones' = Zones /\ ReadOK(y)'
<1>0. /\ Typed /\ ReadOK(y) /\ ReadOK(z) /\ LossOK(mode, map, offline, y, losses[y])
      /\ mode \in AllModes /\ ZoneOK(mode, zone[z]) /\ DiskOK(disk) /\ n \in Nat \ {0}
    BY Numbers DEF ReadInv, ReadOK, Typed, MapInv
<1>1. /\ DiskOK(disk') /\ Grown(disk, disk')
      /\ \/ zone' = zone
         \/ /\ zone' = [zone EXCEPT ![z].wp = @ + n, ![z].cap = @ - n,
                              ![z].acked = @ \cup zone[z].wp .. zone[z].wp + n - 1]
            /\ Acknowledged(z, n, disk')
      /\ n <= zone[z].cap
      /\ suspect' = suspect \cup Touched(z)
      /\ UNCHANGED <<mode, offline, map, inv, losses>>
    BY <1>0, AppendFacts
<1>2. \/ ZoneSet(z, zone[z])
      \/ ZoneSet(z, AppendedRec(zone[z], n)) /\ Acknowledged(z, n, disk')
    BY <1>0, <1>1, ZonesAfter
<1>3. /\ DiskOK(disk') /\ Grown(disk, disk') /\ n <= zone[z].cap
      /\ suspect' = suspect \cup Touched(z) /\ UNCHANGED <<mode, offline, map, inv, losses>>
    BY <1>1
<1>4. NothingLost(ZoneDevs(mode, Home(mode), y) \cap DeviceZones, disk, disk')
    BY <1>0, <1>3, NothingLostIf
<1>5. CASE y # z \/ ZoneSet(z, zone[z])
  <2>1. Zones' = Zones /\ zone'[y].acked = zone[y].acked /\ zone'[y].gen = zone[y].gen
      BY <1>2, <1>5, OtherRec
  <2> QED BY <1>0, <1>3, <1>4, <2>1, ReadAgain
<1>6. CASE y = z /\ ZoneSet(z, AppendedRec(zone[z], n)) /\ Acknowledged(z, n, disk')
  <2>1. Zones' = Zones /\ zone'[z] = AppendedRec(zone[z], n)
      BY <1>6 DEF ZoneSet, Zones
  <2>2. ASSUME z \notin suspect' PROVE Alone(mode', Zones', z)
      BY <1>3, <2>1, <2>2, NotTouched
  <2>3. ASSUME z \notin suspect', losses'[z] <= 1 PROVE Kept(mode', disk', offline', z, zone'[z])
      BY <1>0, <1>3, <1>6, <2>1, <2>3, AppendKept
  <2>4. LossOK(mode', map', offline', z, losses'[z])
      BY <1>0, <1>3, <1>6
  <2>5. ReadOK(z)'
      BY <2>2, <2>3, <2>4 DEF ReadOK
  <2> QED BY <1>6, <2>1, <2>5
<1> QED BY <1>2, <1>5, <1>6

(* So does a finish. *)
LEMMA ReadFinish ==
    ASSUME ReadInv, Typed', NEW z \in Zones, Finish(z), NEW y \in Zones
    PROVE  Zones' = Zones /\ ReadOK(y)'
<1>0. /\ Typed /\ ReadOK(y) /\ LossOK(mode, map, offline, y, losses[y])
      /\ mode \in AllModes /\ ZoneOK(mode, zone[z]) /\ DiskOK(disk)
    BY DEF ReadInv, ReadOK, Typed, MapInv
<1>1. /\ DiskOK(disk') /\ Grown(disk, disk')
      /\ \/ zone' = zone
         \/ zone' = [zone EXCEPT ![z].wp = ZoneSize, ![z].cap = 0, ![z].finished = TRUE]
      /\ suspect' = suspect \cup Touched(z) \/ suspect' = suspect \cup Touched(z) \cup {z}
      /\ UNCHANGED <<mode, offline, map, inv, losses>>
    BY <1>0, FinishFacts
<1>2. ZoneSet(z, zone[z]) \/ ZoneSet(z, FinishedRec(mode, zone[z]))
  <2>1. 1 \in 1 .. MaxAppend
      BY Numbers
  <2> QED BY <1>0, <1>1, <2>1, ZonesAfter
<1>3. /\ Grown(disk, disk') /\ UNCHANGED <<mode, offline, map, inv, losses>>
      /\ suspect \subseteq suspect'
    BY <1>1
<1>4. FinishedRec(mode, zone[z]).acked = zone[z].acked /\ FinishedRec(mode, zone[z]).gen = zone[z].gen
  <2>1. 0 \in 0 .. SizeOf(mode)
      BY <1>0, SizeFacts
  <2> QED BY <1>0, <2>1, OtherZones
<1>5. Zones' = Zones /\ zone'[y].acked = zone[y].acked /\ zone'[y].gen = zone[y].gen
    BY <1>2, <1>4, OtherRec
<1>6. NothingLost(ZoneDevs(mode, Home(mode), y) \cap DeviceZones, disk, disk')
    BY <1>0, <1>3, NothingLostIf
<1> QED BY <1>0, <1>3, <1>5, <1>6, ReadAgain

(* A reset leaves the device zones of the others alone. *)
LEMMA ReadReset ==
    ASSUME ReadInv, Typed', NEW z \in Zones, Reset(z), NEW y \in Zones
    PROVE  Zones' = Zones /\ ReadOK(y)'
<1>0. /\ Typed /\ ReadOK(y) /\ LossOK(mode, map, offline, y, losses[y])
      /\ mode \in AllModes /\ ZoneOK(mode, zone[z]) /\ DiskOK(disk)
      /\ y \in 0 .. NrZones(mode) - 1 /\ z \in 0 .. NrZones(mode) - 1
      /\ (mode \in AutoModes => MapOK(mode, map, inv))
    BY DEF ReadInv, ReadOK, Typed, MapInv, RaidAuto, AutoModes
<1>1. /\ \A d \in DeviceZones : d \notin ZoneDevs(mode, map, z) => disk'[d] = disk[d]
      /\ \/ zone' = [zone EXCEPT ![z] = [wp |-> 0, cap |-> ZoneSize, acked |-> {},
                                    gen |-> zone[z].gen + 1, finished |-> FALSE]]
         \/ zone' = [zone EXCEPT ![z] = [zone[z] EXCEPT !.acked = {}]]
      /\ suspect' = (suspect \ {z}) \cup Touched(z) \/ suspect' = suspect \cup {z} \cup Touched(z)
      /\ UNCHANGED <<mode, offline, map, inv, losses>>
    BY <1>0, ResetFacts
<1>2. ZoneSet(z, ResetRec(mode, zone[z])) \/ ZoneSet(z, FailedRec(zone[z]))
  <2>1. 1 \in 1 .. MaxAppend
      BY Numbers
  <2> QED BY <1>0, <1>1, <2>1, ZonesAfter
<1>3. /\ \A d \in DeviceZones : d \notin ZoneDevs(mode, map, z) => disk'[d] = disk[d]
      /\ UNCHANGED <<mode, offline, map, inv, losses>>
      /\ \A x \in suspect : x # z => x \in suspect'
    BY <1>1
<1>4. ResetRec(mode, zone[z]).acked = {} /\ FailedRec(zone[z]).acked = {}
  <2>1. 0 \in 0 .. SizeOf(mode)
      BY <1>0, SizeFacts
  <2> QED BY <1>0, <2>1, OtherZones
<1>5. CASE y = z
  <2>1. Zones' = Zones /\ zone'[z].acked = {}
      BY <1>2, <1>4 DEF ZoneSet, Zones
  <2>2. Kept(mode', disk', offline', z, zone'[z])
      BY <2>1 DEF Kept
  <2>3. LossOK(mode', map', offline', z, losses'[z])
      BY <1>0, <1>3, <1>5
  <2>4. ReadOK(z)'
      BY <2>1, <2>2, <2>3 DEF ReadOK
  <2> QED BY <1>5, <2>1, <2>4
<1>6. CASE y # z
  <2>1. Zones' = Zones /\ zone'[y].acked = zone[y].acked /\ zone'[y].gen = zone[y].gen
      BY <1>2, <1>6, OtherRec
  <2>2. ASSUME y \notin suspect, zone[y].acked # {}
        PROVE  NothingLost(ZoneDevs(mode, Home(mode), y) \cap DeviceZones, disk, disk')
    <3>1. Alone(mode, Zones, y)
        BY <1>0, <2>2 DEF ReadOK
    <3>2. ~(mode = "RAIDC" /\ z % NZ = y % NZ)
        BY <1>6, <3>1 DEF Alone
    <3>3. \A d \in ZoneDevs(mode, map, z) : d \notin ZoneDevs(mode, Home(mode), y)
        BY <1>0, <1>6, <3>2, ZonesApart
    <3>4. \A d \in ZoneDevs(mode, Home(mode), y) \cap DeviceZones : disk'[d] = disk[d]
        BY <1>3, <3>3
    <3> QED BY <1>0, <3>4, NothingLostIf
  <2>3. y \notin suspect' => y \notin suspect
      BY <1>3, <1>6
  <2> QED BY <1>0, <1>3, <2>1, <2>2, <2>3, ReadAgain
<1> QED BY <1>5, <1>6

(* The loss of a device zone is that of one zone only. *)
LEMMA ReadOffline ==
    ASSUME ReadInv, Typed', NEW z \in Zones, NEW dz \in DeviceZones, GoOffline(z, dz),
           NEW y \in Zones
    PROVE  Zones' = Zones /\ ReadOK(y)'
<1>0. /\ Typed /\ ReadOK(y) /\ LossOK(mode, map, offline, y, losses[y]) /\ MapInv
      /\ mode \in AllModes /\ DiskOK(disk) /\ losses \in [Zones -> Nat]
      /\ y \in 0 .. NrZones(mode) - 1 /\ z \in 0 .. NrZones(mode) - 1
      /\ (mode \in AutoModes => MapOK(mode, map, inv))
    BY DEF ReadInv, ReadOK, Typed, MapInv, RaidAuto, AutoModes
<1>1. /\ dz \in Range(Members(z)) /\ offline' = offline \cup {dz}
      /\ losses' = [losses EXCEPT ![z] = @ + 1]
      /\ UNCHANGED <<mode, disk, map, inv, zone, suspect>>
    BY DEF GoOffline
<1>2. dz \in ZoneDevs(mode, map, z)
  <2>1. Members(z) \in Seq(ZoneDevs(mode, map, z))
      BY <1>0, MembersAre
  <2> QED BY <1>1, <2>1 DEF Range
<1>3. Zones' = Zones
    BY <1>1 DEF Zones
<1>4. LossOK(mode, map', offline', y, losses'[y])
  <2>1. CASE y = z
    <3>1. losses'[y] = losses[y] + 1 /\ losses[y] \in Nat
        BY <1>0, <1>1, <2>1
    <3>2. LossOK(mode, map, offline \cup {dz}, y, losses[y] + 1)
        BY <1>0, <3>1, LossHere
    <3> QED BY <1>1, <3>1, <3>2
  <2>2. CASE y # z
    <3>1. losses'[y] = losses[y]
        BY <1>0, <1>1, <2>2
    <3>2. CASE mode = "AUTO1"
      <4>1. dz \notin ZoneDevs(mode, Home(mode), y)
          BY <1>0, <1>2, <2>2, <3>2, ZonesApart
      <4>2. LossOK(mode, map, offline \cup {dz}, y, losses[y])
          BY <1>0, <4>1, LossElsewhere
      <4> QED BY <1>1, <3>1, <4>2
    <3>3. CASE mode # "AUTO1"
        BY <3>3 DEF LossOK
    <3> QED BY <3>2, <3>3
  <2> QED BY <2>1, <2>2
<1>5. losses'[y] <= 1 => losses[y] <= 1
  <2>1. losses[y] \in Nat /\ (losses'[y] = losses[y] \/ losses'[y] = losses[y] + 1)
      BY <1>0, <1>1
  <2> QED BY <2>1
<1>6. NothingLost(ZoneDevs(mode, Home(mode), y) \cap DeviceZones, disk, disk')
    BY <1>0, <1>1, NothingLostIf
<1>7. /\ mode' = mode /\ offline \subseteq offline' /\ suspect' = suspect
      /\ zone'[y].acked = zone[y].acked /\ zone'[y].gen = zone[y].gen
    BY <1>1
<1> QED BY <1>0, <1>3, <1>4, <1>5, <1>6, <1>7, ReadAgain

(* A repair writes to a device zone that the default layout does not use. *)
LEMMA ReadRepair ==
    ASSUME ReadInv, Typed', NEW z \in Zones, NEW k, ScanAndHandleOffline(z, k), NEW y \in Zones
    PROVE  Zones' = Zones /\ ReadOK(y)'
<1>0. /\ Typed /\ ReadOK(y) /\ LossOK(mode, map, offline, y, losses[y]) /\ MapInv
      /\ mode \in AllModes /\ DiskOK(disk) /\ losses[y] \in Nat
      /\ y \in 0 .. NrZones(mode) - 1
    BY DEF ReadInv, ReadOK, Typed, MapInv
<1>1. PICK s, i, f : Repaired(s, i, f)
    BY <1>0, ScanRepairs
<1>2. UNCHANGED <<mode, offline, zone, suspect, losses>>
    BY DEF ScanAndHandleOffline
<1>3. Zones' = Zones
    BY <1>2 DEF Zones
<1>4. /\ mode = "AUTO1" /\ mode \in AutoModes /\ MapOK(mode, map, inv)
      /\ s \in DOMAIN map /\ i \in DOMAIN map[s] /\ ~(s < Meta * N)
      /\ f \in DeviceZones /\ f \notin inv /\ map[s][i] \in offline
      /\ map' = [map EXCEPT ![s] = Remapped(map[s], i, f)]
    BY <1>0, <1>1 DEF Repaired, MapInv, AutoModes
<1>5. Swapped(map, map', s, i, f)
    BY <1>4, MirrorReplaced
<1>6. LossOK(mode, map', offline, y, losses[y])
    BY <1>0, <1>4, <1>5, LossRepaired
<1>7. (\A d \in DeviceZones : d # f => disk'[d] = disk[d]) /\ f \notin Base(mode)
    BY <1>0, <1>1, RepairFacts
<1>8. \A d \in ZoneDevs(mode, Home(mode), y) : d \in Base(mode)
  <2>1. ZoneDevs(mode, Home(mode), y) = UNION {Range(Home(mode)[y * N + e]) : e \in 0 .. N - 1}
      BY <1>4 DEF ZoneDevs, AutoModes
  <2>2. MapOK(mode, Home(mode), Base(mode))
      BY <1>4, HomeOK
  <2>3. \A t \in DOMAIN Home(mode) : Range(Home(mode)[t]) \subseteq Base(mode)
      BY <2>2 DEF MapOK
  <2>4. \A e \in 0 .. N - 1 : y * N + e \in DOMAIN Home(mode)
      BY <1>0, <1>4, SubFacts
  <2> QED BY <2>1, <2>3, <2>4
<1>9. \A d \in ZoneDevs(mode, Home(mode), y) \cap DeviceZones : disk'[d] = disk[d]
    BY <1>7, <1>8
<1>10. NothingLost(ZoneDevs(mode, Home(mode), y) \cap DeviceZones, disk, disk')
    BY <1>0, <1>9, NothingLostIf
<1> QED BY <1>0, <1>2, <1>3, <1>6, <1>10, ReadAgain

(* A restart forgets the repairs, and no acknowledged block. *)
LEMMA ReadRestart ==
    ASSUME ReadInv, Typed', Restart, NEW y \in Zones
    PROVE  Zones' = Zones /\ ReadOK(y)'
<1>0. /\ Typed /\ ReadOK(y) /\ LossOK(mode, map, offline, y, losses[y])
      /\ mode \in AllModes /\ DiskOK(disk) /\ ZoneOK(mode, zone[y])
    BY DEF ReadInv, ReadOK, Typed, MapInv
<1>1. /\ UNCHANGED <<mode, disk, offline, suspect, losses>> /\ map' = Home(mode)
      /\ zone' = [z \in Zones |->
                    [zone[z] EXCEPT !.wp = ZoneWp(z)',
                                    !.cap = IF Usable(z)' THEN ZoneSize - ZoneWp(z)' ELSE 0]]
    BY DEF Restart, Home
<1>2. Zones' = Zones
    BY <1>1 DEF Zones
<1>3. zone'[y].acked = zone[y].acked /\ zone'[y].gen = zone[y].gen
  <2>1. \E w, c : zone'[y] = RestartedRec(zone[y], w, c)
      BY <1>1 DEF RestartedRec
  <2>2. PICK w, c : zone'[y] = RestartedRec(zone[y], w, c)
      BY <2>1
  <2>3. zone[y] = [wp |-> zone[y].wp, cap |-> zone[y].cap, acked |-> zone[y].acked,
                   gen |-> zone[y].gen, finished |-> zone[y].finished]
      BY <1>0 DEF ZoneOK, ZoneRec
  <2>4. PICK q : q = RestartedRec(zone[y], w, c)
      OBVIOUS
  <2>5. q.acked = zone[y].acked /\ q.gen = zone[y].gen
      BY <2>3, <2>4 DEF RestartedRec
  <2> QED BY <2>2, <2>4, <2>5
<1>4. LossOK(mode, map', offline, y, losses[y])
    BY <1>0, <1>1, LossRestart
<1>5. UNCHANGED <<mode, disk, offline, suspect, losses>>
    BY <1>1
<1>6. NothingLost(ZoneDevs(mode, Home(mode), y) \cap DeviceZones, disk, disk')
    BY <1>0, <1>5, NothingLostIf
<1> QED BY <1>0, <1>2, <1>3, <1>4, <1>5, <1>6, ReadAgain

(* Every step keeps the read invariant. *)
LEMMA ReadStep ==
    ASSUME ReadInv, [Next]_vars
    PROVE  ReadInv'
<1>1. Typed' /\ Typed
    BY TypedStep DEF ReadInv
<1>2. ASSUME Zones' = Zones, \A y \in Zones : ReadOK(y)' PROVE ReadInv'
    BY <1>1, <1>2 DEF ReadInv
<1>3. ASSUME NEW z \in Zones, NEW n \in 1 .. MaxAppend, AppendTo(z, n) PROVE ReadInv'
    BY <1>1, <1>2, <1>3, ReadAppend
<1>4. ASSUME NEW z \in Zones, Finish(z) PROVE ReadInv'
    BY <1>1, <1>2, <1>4, ReadFinish
<1>5. ASSUME NEW z \in Zones, Reset(z) PROVE ReadInv'
    BY <1>1, <1>2, <1>5, ReadReset
<1>6. ASSUME NEW z \in Zones, NEW dz \in DeviceZones, GoOffline(z, dz) PROVE ReadInv'
    BY <1>1, <1>2, <1>6, ReadOffline
<1>7. ASSUME NEW z \in Zones, NEW k, ScanAndHandleOffline(z, k) PROVE ReadInv'
    BY <1>1, <1>2, <1>7, ReadRepair
<1>8. CASE Restart
  <2>1. Zones' = Zones
      BY <1>8 DEF Restart, Zones
  <2> QED BY <1>1, <1>2, <1>8, <2>1, ReadRestart
<1>9. CASE UNCHANGED vars
  <2>1. Zones' = Zones /\ UNCHANGED <<mode, disk, offline, map, zone, suspect, losses>>
      BY <1>9 DEF vars, Zones
  <2>2. ASSUME NEW y \in Zones PROVE ReadOK(y)'
      BY <2>1, <2>2 DEF ReadInv, ReadOK
  <2> QED BY <1>2, <2>1, <2>2
<1> QED BY <1>3, <1>4, <1>5, <1>6, <1>7, <1>8, <1>9 DEF Next

(* Nothing is written and nothing lost at first. *)
LEMMA ReadInit ==
    ASSUME Init
    PROVE  ReadInv
<1>1. Typed /\ offline = {} /\ map = Home(mode)
    BY TypedInit DEF Init, Home
<1>2. ASSUME NEW z \in Zones PROVE zone[z].acked = {}
  <2>1. PICK S \in InPlay[mode] : zone = [x \in S |->
                 [wp |-> 0, cap |-> ZoneSize, acked |-> {}, gen |-> 0, finished |-> FALSE]]
      BY DEF Init
  <2>2. z \in S
      BY <2>1 DEF Zones
  <2>3. zone[z] = [wp |-> 0, cap |-> ZoneSize, acked |-> {}, gen |-> 0, finished |-> FALSE]
      BY <2>1, <2>2
  <2> QED BY <2>3
<1>3. ASSUME NEW z \in Zones PROVE ReadOK(z)
  <2>1. LossOK(mode, map, offline, z, losses[z])
      BY <1>1 DEF LossOK, SubShape
  <2>2. Kept(mode, disk, offline, z, zone[z])
      BY <1>2 DEF Kept
  <2> QED BY <1>2, <2>1, <2>2 DEF ReadOK
<1> QED BY <1>1, <1>3 DEF ReadInv

(* The invariant of the reads. *)
THEOREM RaidReadInv == Spec => []ReadInv
<1>1. Init => ReadInv
    BY ReadInit
<1>2. ReadInv /\ [Next]_vars => ReadInv'
    BY ReadStep
<1> QED BY <1>1, <1>2, PTL DEF Spec

(* A read asks a device zone of the default layout, or one that is lost. *)
LEMMA FirstIsHome ==
    ASSUME Typed, NEW z \in Zones, LossOK(mode, map, offline, z, losses[z]), losses[z] <= 1,
           NEW b \in 0 .. SizeOf(mode) - 1
    PROVE  \E i \in DOMAIN Where(mode, Home(mode), z, b) :
             Where(mode, Home(mode), z, b)[i] = Where(mode, map, z, b)[1]
<1> DEFINE H == Home(mode)
           s == SubOf(mode, z, b)
<1>1. /\ mode \in AllModes /\ z \in 0 .. NrZones(mode) - 1
      /\ (mode \in AutoModes => MapOK(mode, map, inv))
    BY DEF Typed, MapInv, RaidAuto, AutoModes
<1>2. mode \in AutoModes => MapOK(mode, H, Base(mode))
    BY HomeOK
<1>3. /\ Where(mode, H, z, b) \in Seq(DeviceZones) /\ Len(Where(mode, H, z, b)) \in Nat \ {0}
      /\ mode \in AutoModes => /\ s \in DOMAIN H /\ Where(mode, H, z, b) = H[s]
                               /\ (s < Meta * N <=> z < Meta)
    BY <1>1, <1>2, WhereFacts
<1>4. 1 \in DOMAIN Where(mode, H, z, b)
    BY <1>3
<1>5. mode \in AutoModes => Where(mode, map, z, b) = map[s]
    BY DEF Where
<1>6. CASE mode \notin AutoModes
  <2>1. Where(mode, map, z, b) = Where(mode, H, z, b)
      BY <1>6 DEF Where
  <2> QED BY <1>4, <2>1
<1>7. CASE mode \in AutoModes /\ map[s] = H[s]
  <2>1. Where(mode, map, z, b) = Where(mode, H, z, b)
      BY <1>3, <1>5, <1>7
  <2> QED BY <1>4, <2>1
<1>8. CASE mode \in AutoModes /\ map[s] # H[s]
  <2>1. s \in DOMAIN map /\ (mode = "AUTO0" \/ s < Meta * N => map[s] = H[s])
      BY <1>1, <1>3, <1>8 DEF MapOK
  <2>2. mode = "AUTO1" /\ ~(z < Meta)
      BY <1>3, <1>8, <2>1 DEF AutoModes
  <2>3. z >= Meta /\ z \in Nat
      BY <1>1, <2>2, ZonesNumber, Numbers
  <2>4. PICK e \in 0 .. N - 1 : s = z * N + e
      BY <1>1, <1>2, <1>4, <1>8, WhereInZone
  <2>5. SubShape(mode, map, offline, s)
      BY <2>2, <2>3, <2>4 DEF LossOK
  <2>6. map[s][1] \in Range(H[s])
      BY <1>8, <2>5 DEF SubShape
  <2> HIDE DEF s, H
  <2>7. \E i \in DOMAIN H[s] : H[s][i] = map[s][1]
      BY <2>6 DEF Range
  <2>8. \E i \in DOMAIN Where(mode, H, z, b) : Where(mode, H, z, b)[i] = Where(mode, map, z, b)[1]
      BY <1>3, <1>5, <1>8, <2>7
  <2> QED BY <2>8 DEF H
<1> QED BY <1>6, <1>7, <1>8

(* The places of an acknowledged block, and where it is kept. *)
LEMMA AckedPlaces ==
    ASSUME ReadInv, NEW z \in Zones, NEW k \in zone[z].acked
    PROVE  /\ k \in 0 .. SizeOf(mode) - 1
           /\ Len(Where(mode, map, z, k)) \in Nat \ {0}
           /\ DOMAIN Places(z, k) = 1 .. Len(Where(mode, map, z, k))
           /\ \A i \in DOMAIN Places(z, k) :
                /\ Places(z, k)[i].dz = Where(mode, map, z, k)[i]
                /\ Places(z, k)[i].off = OffsetOf(mode, z, k)
<1>1. /\ Typed /\ MapInv /\ mode \in AllModes /\ z \in 0 .. NrZones(mode) - 1 /\ ZoneOK(mode, zone[z])
      /\ (mode \in AutoModes => MapOK(mode, map, inv))
    BY DEF ReadInv, Typed, MapInv, RaidAuto, AutoModes
<1>2. k \in 0 .. SizeOf(mode) - 1 /\ ZoneSize = SizeOf(mode)
    BY <1>1, SizeFacts DEF ZoneOK
<1>3. Places(z, k) = [i \in 1 .. Len(Where(mode, map, z, k)) |->
                        At(Where(mode, map, z, k)[i], OffsetOf(mode, z, k))]
    BY <1>1, <1>2, PlacesAre
<1>4. Len(Where(mode, map, z, k)) \in Nat \ {0}
    BY <1>1, <1>2, WhereFacts
<1>5. DOMAIN Places(z, k) = 1 .. Len(Where(mode, map, z, k))
    BY <1>3
<1>6. ASSUME NEW i \in 1 .. Len(Where(mode, map, z, k))
      PROVE  /\ Places(z, k)[i].dz = Where(mode, map, z, k)[i]
             /\ Places(z, k)[i].off = OffsetOf(mode, z, k)
  <2>1. Places(z, k)[i] = At(Where(mode, map, z, k)[i], OffsetOf(mode, z, k))
      BY <1>3
  <2> QED BY <2>1 DEF At
<1> QED BY <1>2, <1>4, <1>5, <1>6

(* A read of an acknowledged block that succeeds returns that block, on    *)
(* every geometry and whatever the order of appends that fail half way,    *)
(* finishes, resets, losses, repairs by ScanAndHandleOffline and restarts. *)
THEOREM RaidReadNeverWrong == Spec => []ReadNeverWrong
<1>1. ReadInv => ReadNeverWrong
  <2> SUFFICES ASSUME ReadInv, NEW z \in Zones \ suspect, losses[z] <= 1, NEW k \in zone[z].acked
               PROVE  Read(z, k) \in {Block(z, k), IOError}
      BY DEF ReadNeverWrong
  <2>1. /\ Typed /\ LossOK(mode, map, offline, z, losses[z])
        /\ Kept(mode, disk, offline, z, zone[z])
      BY DEF ReadInv, ReadOK
  <2> DEFINE p == Places(z, k)[1]
             d == Where(mode, map, z, k)[1]
             o == OffsetOf(mode, z, k)
  <2>2. k \in 0 .. SizeOf(mode) - 1 /\ p.dz = d /\ p.off = o
    <3>1. Len(Where(mode, map, z, k)) \in Nat \ {0}
        BY AckedPlaces
    <3>2. 1 \in 1 .. Len(Where(mode, map, z, k))
        BY <3>1
    <3> QED BY <3>2, AckedPlaces
  <2>3. PICK i \in DOMAIN Where(mode, Home(mode), z, k) : Where(mode, Home(mode), z, k)[i] = d
      BY <2>1, <2>2, FirstIsHome
  <2>4. d \in offline \/ Holds(disk[d], o, Tag(z, k, zone[z]))
      BY <2>1, <2>3 DEF Kept
  <2>5. Tag(z, k, zone[z]) = Block(z, k)
      BY DEF Tag, Block
  <2>6. Read(z, k) = IF p.dz \in offline THEN IOError
                     ELSE IF p.off < Len(disk[p.dz]) THEN disk[p.dz][p.off + 1] ELSE Zeros
      BY DEF Read
  <2> HIDE DEF p, d, o
  <2> QED BY <2>2, <2>4, <2>5, <2>6 DEF Holds
<1> QED BY <1>1, RaidReadInv, PTL

(* A mirrored zone of RAID-auto that has lost no more than one device zone *)
(* has every acknowledged block on one that is online and in use, whether  *)
(* the loss was repaired, and whether a restart forgot the repair.         *)
THEOREM RaidOneLossSurvived == Spec => []OneLossSurvived
<1>1. ReadInv => OneLossSurvived
  <2> SUFFICES ASSUME ReadInv, NEW z \in Zones \ suspect, RaidAuto, ZoneMode(z) = "RAID1",
                      losses[z] <= 1, NEW k \in zone[z].acked
               PROVE  \E i \in DOMAIN Places(z, k) :
                        LET p == Places(z, k)[i]
                        IN  /\ p.dz \notin offline
                            /\ p.off < Len(disk[p.dz])
                            /\ disk[p.dz][p.off + 1] = Block(z, k)
      BY DEF OneLossSurvived
  <2>1. /\ Typed /\ LossOK(mode, map, offline, z, losses[z])
        /\ Kept(mode, disk, offline, z, zone[z]) /\ losses[z] \in Nat
        /\ z \in 0 .. NrZones(mode) - 1
      BY DEF ReadInv, ReadOK, Typed
  <2>2. mode = "AUTO1" /\ ~(z < Meta) /\ mode \in AutoModes /\ mode \in AllModes
      BY DEF ZoneMode, RaidAuto, AutoModes, AllModes
  <2>3. z >= Meta
      BY <2>1, <2>2, ZonesNumber, Numbers
  <2> DEFINE H == Home(mode)
             s == SubOf(mode, z, k)
             W == Where(mode, H, z, k)
  <2>4. k \in 0 .. SizeOf(mode) - 1
      BY AckedPlaces
  <2>5. MapOK(mode, H, Base(mode)) /\ W = H[s]
      BY <2>2, HomeOK DEF Where
  <2>6. Len(W) \in Nat \ {0} /\ W \in Seq(DeviceZones)
      BY <2>1, <2>2, <2>4, <2>5, WhereFacts
  <2>7. PICK e \in 0 .. N - 1 : s = z * N + e
    <3>1. 1 \in DOMAIN W
        BY <2>6
    <3> QED BY <2>1, <2>2, <2>4, <2>5, <3>1, WhereInZone
  <2>8. /\ Len(H[s]) = 2 /\ H[s] \in Seq(DeviceZones) /\ H[s][1] # H[s][2]
        /\ H[s][1] \in ZoneDevs(mode, H, z) /\ H[s][2] \in ZoneDevs(mode, H, z)
      BY <2>1, <2>2, <2>3, <2>7, HomePair
  <2>9. PICK i \in {1, 2} : H[s][i] \notin offline
    <3>1. losses[z] = 0 \/ losses[z] = 1
        BY <2>1
    <3> QED BY <2>1, <2>2, <2>3, <2>8, <3>1 DEF LossOK
  <2>10. i \in DOMAIN W /\ W[i] \notin offline
      BY <2>5, <2>8, <2>9
  <2>11. Holds(disk[W[i]], OffsetOf(mode, z, k), Tag(z, k, zone[z]))
      BY <2>1, <2>10 DEF Kept
  <2>12. PICK j \in 1 .. Len(Where(mode, map, z, k)) : Where(mode, map, z, k)[j] = W[i]
      BY <2>1, <2>4, <2>10, HomeWritten
  <2>13. /\ j \in DOMAIN Places(z, k) /\ Places(z, k)[j].dz = W[i]
         /\ Places(z, k)[j].off = OffsetOf(mode, z, k)
      BY <2>12, AckedPlaces
  <2>14. Tag(z, k, zone[z]) = Block(z, k)
      BY DEF Tag, Block
  <2> HIDE DEF W
  <2> QED BY <2>10, <2>11, <2>13, <2>14 DEF Holds
<1> QED BY <1>1, RaidReadInv, PTL
=============================================================================
