-------------------------- MODULE FileRecoveryProofs --------------------------
(***************************************************************************)
(* The extents of a file lie below the write pointers of their zones,      *)
(* before a crash and after recovery, recovery succeeds at every point,    *)
(* and sizes and types are kept, for zones, blocks and buffers of any      *)
(* size.                                                                   *)
(*                                                                         *)
(* The hard step is Mount: what Recover finds depends on what is on the    *)
(* device.  RecoveryInv says that the sparse extents after the place the   *)
(* log names form a chain of whole extents up to the write pointer         *)
(* (Chained), that nobody else writes to or resets a zone of that chain    *)
(* (Held) or of an extent in the log (MetaKept), and what a direct writer  *)
(* has written and not pushed (Pending) lies below the write pointer too.  *)
(* The chain is one because a piece is written as a whole: the theorems    *)
(* assume that device writes of sparse files are not torn.  StartInv says  *)
(* of every way of writing that the zone where recovery begins is held,    *)
(* so that its write pointer stays past that place.                        *)
(*                                                                         *)
(* Size is a fold, SparseExtents and FlattenSeq are recursive functions;   *)
(* lemmas show that the functions they choose exist.                       *)
(***************************************************************************)
EXTENDS FileRecovery, SequenceTheorems, WellFoundedInduction, TLAPS

-----------------------------------------------------------------------------
(* Induction and sizes.                                                    *)

Smaller == {ss \in Nat \X Nat : ss[1] < ss[2]}

(* A set of naturals that is not empty has a least element. *)
LEMMA LeastNatural ==
    ASSUME NEW T, T \subseteq Nat, T # {}
    PROVE  \E x \in T : \A y \in T : x <= y
<1>1. OpToRel(<, Nat) = Smaller
    BY Zenon DEF OpToRel, Smaller
<1>2. IsWellFoundedOn(Smaller, Nat)
    BY <1>1, NatLessThanWellFounded, Zenon
<1>3. \E x \in T : \A y \in T : ~(<<y, x>> \in Smaller)
    BY <1>2, WFMin, Zenon
<1>4. PICK x \in T : \A y \in T : ~(<<y, x>> \in Smaller)
    BY <1>3
<1>5. ASSUME NEW y \in T PROVE x <= y
  <2>1. x \in Nat /\ y \in Nat
      BY <1>4
  <2>2. ~(y < x)
      BY <1>4, <2>1 DEF Smaller
  <2> QED BY <2>1, <2>2
<1> QED BY <1>4, <1>5

(* Induction over the naturals, for the elements of a set. *)
LEMMA Induction ==
    ASSUME NEW S, 0 \in S, \A n \in Nat : n \in S => n + 1 \in S
    PROVE  \A n \in Nat : n \in S
<1> DEFINE T == Nat \ S
<1> SUFFICES ASSUME T # {} PROVE FALSE
    OBVIOUS
<1>1. PICK x \in T : \A y \in T : x <= y
    BY LeastNatural
<1>2. x \in Nat /\ x # 0 /\ x - 1 \in Nat /\ x - 1 \notin T
    BY <1>1
<1>3. x - 1 \in S /\ (x - 1) + 1 = x
    BY <1>2
<1> QED BY <1>1, <1>2, <1>3

(* The greatest element of a set that is bounded, and the set without it. *)
LEMMA Greatest ==
    ASSUME NEW n \in Nat, NEW s, s \subseteq 1 .. n, s # {}
    PROVE  Max(s) \in s /\ \A y \in s : y <= Max(s)
<1> DEFINE T == {m \in Nat : \A y \in s : y <= m}
<1>1. n \in T
    OBVIOUS
<1>2. PICK m \in T : \A k \in T : m <= k
    BY <1>1, LeastNatural
<1>3. m \in s
  <2> SUFFICES ASSUME m \notin s PROVE FALSE
      OBVIOUS
  <2>0. m \in Nat /\ \A y \in s : y <= m
      BY <1>2
  <2>1. ASSUME NEW y \in s PROVE y <= m - 1 /\ m >= 1
    <3>1. y \in Nat /\ y >= 1 /\ y # m /\ y <= m
        BY <2>0
    <3> QED BY <3>1, <2>0
  <2>2. m - 1 \in Nat
    <3>1. PICK y \in s : TRUE
        OBVIOUS
    <3> QED BY <3>1, <2>1, <2>0
  <2>3. m - 1 \in T
      BY <2>1, <2>2
  <2>4. m <= m - 1
      BY <2>3, <1>2
  <2> QED BY <2>4, <2>0
<1>4. \E u \in s : \A y \in s : u >= y
    BY <1>2, <1>3
<1>5. Max(s) \in s /\ \A y \in s : Max(s) >= y
    BY <1>4 DEF Max
<1> QED BY <1>5

(* Without its greatest element, a set of positions is one shorter. *)
LEMMA WithoutGreatest ==
    ASSUME NEW n \in Nat, NEW s \in SUBSET (1 .. n), s # {},
           NEW k \in Nat, s \subseteq 1 .. k + 1
    PROVE  /\ Max(s) \in 1 .. n
           /\ s \ {Max(s)} \in SUBSET (1 .. n)
           /\ s \ {Max(s)} \subseteq 1 .. k
<1> DEFINE m == Max(s)
<1>1. m \in s /\ \A y \in s : y <= m
    BY Greatest
<1> HIDE DEF m
<1>2. ASSUME NEW y \in s, y # m PROVE y \in 1 .. k
  <2>1. y \in 1 .. k + 1 /\ m \in 1 .. k + 1 /\ y <= m
      BY <1>1
  <2> QED BY <2>1, <1>2
<1> QED BY <1>1, <1>2 DEF m

ExtentSet == [z : Zones, off : Nat, len : Nat \ {0}]

(* Size as the fixpoint that FoldLeft stands for. *)
SizeStep(es, g, s) == IF s = {} THEN 0 ELSE g[s \ {Max(s)}] + es[Max(s)].len
SizeOf(es) == CHOOSE g : g = [s \in SUBSET (DOMAIN es) |-> SizeStep(es, g, s)]

(* Size is defined by a fold, which is this fixpoint at the domain. *)
LEMMA SizeIsFold ==
    ASSUME NEW es
    PROVE  Size(es) = SizeOf(es)[DOMAIN es]
BY Zenon DEF Size, FoldLeft, MapThenFoldSet, SizeOf, SizeStep

(* The fixpoint exists: it is built from the empty set up. *)
LEMMA SizeFixpoint ==
    ASSUME NEW es, NEW n \in Nat, DOMAIN es = 1 .. n
    PROVE  SizeOf(es) = [s \in SUBSET (DOMAIN es) |-> SizeStep(es, SizeOf(es), s)]
<1> DEFINE D == SUBSET (1 .. n)
           Good(g, k) == \A s \in D : s \subseteq 1 .. k => g[s] = SizeStep(es, g, s)
           S == {k \in Nat : \E g : g = [s \in D |-> g[s]] /\ Good(g, k)}
<1>1. 0 \in S
  <2> DEFINE g == [s \in D |-> 0]
  <2>1. Good(g, 0)
      BY DEF SizeStep
  <2>2. g = [s \in D |-> g[s]]
      OBVIOUS
  <2> QED BY <2>1, <2>2
<1>2. ASSUME NEW k \in Nat, k \in S PROVE k + 1 \in S
  <2>1. PICK g : g = [s \in D |-> g[s]] /\ Good(g, k)
      BY <1>2
  <2> DEFINE h == [s \in D |-> SizeStep(es, g, s)]
  <2>2. ASSUME NEW s \in D, s \subseteq 1 .. k + 1 PROVE h[s] = SizeStep(es, h, s)
    <3>1. CASE s = {}
        BY <3>1 DEF SizeStep
    <3>2. CASE s # {}
      <4> DEFINE r == s \ {Max(s)}
      <4>2. r \in D /\ r \subseteq 1 .. k
          BY <3>2, <2>2, WithoutGreatest
      <4>3. h[r] = g[r]
          BY <4>2, <2>1
      <4> HIDE DEF r
      <4>4. h[s] = SizeStep(es, g, s)
          OBVIOUS
      <4> QED BY <3>2, <4>3, <4>4 DEF SizeStep, r
    <3> QED BY <3>1, <3>2
  <2>3. Good(h, k + 1) /\ h = [s \in D |-> h[s]]
      BY <2>2
  <2>4. k + 1 \in Nat
      OBVIOUS
  <2>5. \E u : u = [s \in D |-> u[s]] /\ Good(u, k + 1)
    <3> HIDE DEF h, Good
    <3> QED BY <2>3, Zenon
  <2> HIDE DEF Good
  <2> QED BY <2>4, <2>5
<1>3. n \in S
  <2> HIDE DEF S
  <2> QED BY <1>1, <1>2, Induction
<1>4. PICK g : g = [s \in D |-> g[s]] /\ Good(g, n)
    BY <1>3
<1>5. g = [s \in SUBSET (DOMAIN es) |-> SizeStep(es, g, s)]
    BY <1>4
<1> QED BY <1>5 DEF SizeOf

(* The extents of a file add up to a natural number. *)
LEMMA SizeNat ==
    ASSUME NEW es \in Seq(ExtentSet)
    PROVE  Size(es) \in Nat
<1>1. PICK n \in Nat : DOMAIN es = 1 .. n
    OBVIOUS
<1> DEFINE G == SizeOf(es)
           S == {k \in Nat : \A s \in SUBSET (1 .. n) : s \subseteq 1 .. k => G[s] \in Nat}
<1>2. G = [s \in SUBSET (1 .. n) |-> SizeStep(es, G, s)]
    BY <1>1, SizeFixpoint
<1> HIDE DEF G
<1>3. 0 \in S
  <2>1. ASSUME NEW s \in SUBSET (1 .. n), s \subseteq 1 .. 0 PROVE G[s] \in Nat
    <3>1. s = {}
        BY <2>1
    <3> QED BY <3>1, <1>2 DEF SizeStep
  <2> QED BY <2>1
<1>4. ASSUME NEW k \in Nat, k \in S PROVE k + 1 \in S
  <2>1. ASSUME NEW s \in SUBSET (1 .. n), s \subseteq 1 .. k + 1 PROVE G[s] \in Nat
    <3>1. CASE s = {}
        BY <3>1, <1>2 DEF SizeStep
    <3>2. CASE s # {}
      <4>2. /\ Max(s) \in 1 .. n
            /\ s \ {Max(s)} \in SUBSET (1 .. n) /\ s \ {Max(s)} \subseteq 1 .. k
          BY <3>2, <2>1, WithoutGreatest
      <4>3. G[s \ {Max(s)}] \in Nat
          BY <4>2, <1>4
      <4>4. Max(s) \in 1 .. n /\ es[Max(s)] \in ExtentSet
          BY <4>2, <1>1
      <4>5. es[Max(s)].len \in Nat
          BY <4>4 DEF ExtentSet
      <4>6. G[s] = G[s \ {Max(s)}] + es[Max(s)].len
          BY <3>2, <1>2 DEF SizeStep
      <4> QED BY <4>3, <4>5, <4>6
    <3> QED BY <3>1, <3>2
  <2> QED BY <2>1
<1>5. n \in S
  <2> HIDE DEF S
  <2> QED BY <1>3, <1>4, Induction
<1>6. G[1 .. n] \in Nat
    BY <1>5
<1> QED BY <1>1, <1>6, SizeIsFold DEF G

(* Another extent leaves the sizes of the first ones as they are. *)
LEMMA SizePrefix ==
    ASSUME NEW es, NEW fs, NEW n \in Nat, NEW m \in Nat, n <= m,
           DOMAIN es = 1 .. n, DOMAIN fs = 1 .. m,
           \A i \in 1 .. n : fs[i] = es[i]
    PROVE  SizeOf(fs)[1 .. n] = SizeOf(es)[1 .. n]
<1> DEFINE G == SizeOf(es)
           H == SizeOf(fs)
           S == {k \in Nat : \A s \in SUBSET (1 .. n) : s \subseteq 1 .. k => G[s] = H[s]}
<1>1. /\ G = [s \in SUBSET (1 .. n) |-> SizeStep(es, G, s)]
      /\ H = [s \in SUBSET (1 .. m) |-> SizeStep(fs, H, s)]
    BY SizeFixpoint
<1>2. SUBSET (1 .. n) \subseteq SUBSET (1 .. m)
    OBVIOUS
<1> HIDE DEF G, H
<1>3. 0 \in S
  <2>1. ASSUME NEW s \in SUBSET (1 .. n), s \subseteq 1 .. 0 PROVE G[s] = H[s]
    <3>1. s = {} /\ s \in SUBSET (1 .. m)
        BY <1>2, <2>1
    <3> QED BY <3>1, <1>1 DEF SizeStep
  <2> QED BY <2>1
<1>4. ASSUME NEW k \in Nat, k \in S PROVE k + 1 \in S
  <2>1. ASSUME NEW s \in SUBSET (1 .. n), s \subseteq 1 .. k + 1 PROVE G[s] = H[s]
    <3>0. s \in SUBSET (1 .. m)
        BY <1>2
    <3>1. CASE s = {}
        BY <3>0, <3>1, <1>1 DEF SizeStep
    <3>2. CASE s # {}
      <4>1. /\ Max(s) \in 1 .. n
            /\ s \ {Max(s)} \in SUBSET (1 .. n) /\ s \ {Max(s)} \subseteq 1 .. k
          BY <3>2, <2>1, WithoutGreatest
      <4>2. G[s \ {Max(s)}] = H[s \ {Max(s)}]
          BY <4>1, <1>4
      <4>3. G[s] = G[s \ {Max(s)}] + es[Max(s)].len
          BY <3>2, <1>1 DEF SizeStep
      <4>4. H[s] = H[s \ {Max(s)}] + fs[Max(s)].len
          BY <3>0, <3>2, <1>1 DEF SizeStep
      <4> QED BY <4>1, <4>2, <4>3, <4>4
    <3> QED BY <3>1, <3>2
  <2> QED BY <2>1
<1>5. n \in S
  <2> HIDE DEF S
  <2> QED BY <1>3, <1>4, Induction
<1> QED BY <1>5 DEF G, H

(* Another extent adds its length to the size. *)
LEMMA SizeAppend ==
    ASSUME NEW es \in Seq(ExtentSet), NEW e \in ExtentSet
    PROVE  Size(Append(es, e)) = Size(es) + e.len
<1> DEFINE fs == Append(es, e)
           n == Len(es)
           H == SizeOf(fs)
           D == 1 .. n + 1
<1>1. /\ n \in Nat /\ DOMAIN es = 1 .. n /\ DOMAIN fs = D
      /\ fs[n + 1] = e /\ \A i \in 1 .. n : fs[i] = es[i]
    OBVIOUS
<1> HIDE DEF fs, n
<1>2. SizeOf(fs)[1 .. n] = SizeOf(es)[1 .. n]
  <2>1. n + 1 \in Nat /\ n <= n + 1
      BY <1>1
  <2> QED BY <1>1, <2>1, SizePrefix
<1>3. H = [s \in SUBSET D |-> SizeStep(fs, H, s)]
  <2>1. n + 1 \in Nat
      BY <1>1
  <2> QED BY <1>1, <2>1, SizeFixpoint
<1>4. Max(D) = n + 1 /\ D \ {Max(D)} = 1 .. n /\ D # {}
  <2>1. n + 1 \in Nat /\ n + 1 \in D
      BY <1>1
  <2>2. Max(D) \in D /\ \A y \in D : y <= Max(D)
      BY <2>1, Greatest
  <2>3. Max(D) = n + 1
    <3>1. n + 1 <= Max(D) /\ Max(D) \in 1 .. n + 1
        BY <2>1, <2>2
    <3> QED BY <1>1, <3>1
  <2>4. D \ {n + 1} = 1 .. n
      BY <1>1
  <2> QED BY <2>1, <2>3, <2>4
<1>5. H[D] = SizeStep(fs, H, D)
  <2>1. D \in SUBSET D
      OBVIOUS
  <2> HIDE DEF H, D
  <2> QED BY <1>3, <2>1
<1>6. H[D] = H[1 .. n] + fs[n + 1].len
  <2> HIDE DEF H, D
  <2> QED BY <1>4, <1>5 DEF SizeStep
<1> QED BY <1>1, <1>2, <1>6, SizeIsFold DEF fs

-----------------------------------------------------------------------------
(* Blocks.                                                                 *)

(* What the proofs use of the constants. *)
LEMMA Constants ==
    /\ B \in Nat /\ B > 1 /\ ZoneBlocks \in Nat /\ ZoneBlocks > 0
    /\ BufBlocks \in Nat /\ BufBlocks > 0 /\ ZoneCap \in Nat /\ ZoneCap > 0
    /\ ZoneCap = B * ZoneBlocks /\ NoZone \notin Zones
<1>1. /\ B \in Nat /\ B > 1 /\ ZoneBlocks \in Nat /\ ZoneBlocks > 0
      /\ BufBlocks \in Nat /\ BufBlocks > 0 /\ NoZone \notin Zones
    BY FileAssumption DEF FileAssumption
<1>2. B * ZoneBlocks \in Nat /\ B * ZoneBlocks > 0
    BY <1>1
<1> QED BY <1>1, <1>2 DEF ZoneCap

(* What n units occupy: whole blocks, with less than a block of padding.   *)
LEMMA RoundUp ==
    ASSUME NEW n \in Nat
    PROVE  /\ Blocks(n) \in Nat
           /\ B * Blocks(n) \in Nat
           /\ n <= B * Blocks(n) /\ B * Blocks(n) < n + B
<1> DEFINE q == (n + B - 1) \div B
<1>1. B \in Nat /\ B > 0 /\ n + B - 1 \in Nat
    BY Constants
<1>2. q \in Nat /\ B * q <= n + B - 1 /\ n + B - 1 < B * q + B
    BY <1>1
<1>3. B * q \in Nat
    BY <1>1, <1>2
<1> HIDE DEF q
<1>4. n <= B * q /\ B * q < n + B
    BY <1>1, <1>2, <1>3
<1> QED BY <1>2, <1>3, <1>4 DEF Blocks, q

(* What fits into whole blocks still fits after rounding up. *)
LEMMA RoundUpFits ==
    ASSUME NEW n \in Nat, NEW c \in Nat, n <= B * c
    PROVE  Blocks(n) <= c /\ B * Blocks(n) <= B * c
<1> DEFINE q == Blocks(n)
<1>1. q \in Nat /\ B * q < n + B /\ B \in Nat /\ B > 0
    BY RoundUp, Constants
<1> HIDE DEF q
<1>2. B * q \in Nat /\ B * c \in Nat /\ B * (c + 1) = B * c + B
    BY <1>1
<1>3. B * q < B * (c + 1)
    BY <1>1, <1>2
<1>4. q < c + 1
    BY <1>1, <1>3
<1>5. q <= c
    BY <1>1, <1>4
<1>6. B * q <= B * c
    BY <1>1, <1>5
<1> QED BY <1>5, <1>6 DEF q

-----------------------------------------------------------------------------
(* The walk along the headers of sparse extents.                           *)

Kinds == {"data", "pad", "len", "other"}
Unit == {u \in [k : Kinds, v : Nat] : u.k = "len" => u.v \in 1 .. ZoneCap - 1}
Device ==
    /\ dev \in [Zones -> Seq(Unit)]
    /\ \A z \in Zones : \E c \in 0 .. ZoneBlocks : Wp(z) = B * c

(* The write pointer is a number of units of the zone, all of them written. *)
LEMMA WpRange ==
    ASSUME Device, NEW z \in Zones
    PROVE  /\ Wp(z) \in Nat /\ Wp(z) <= ZoneCap
           /\ \A off \in 0 .. Wp(z) - 1 : At(z, off) \in Unit
<1>1. dev[z] \in Seq(Unit)
    BY DEF Device
<1>2. Wp(z) \in Nat
    BY <1>1 DEF Wp
<1>3. PICK c \in 0 .. ZoneBlocks : Wp(z) = B * c
    BY DEF Device
<1>4. B * c <= B * ZoneBlocks
    BY Constants
<1>5. ASSUME NEW off \in 0 .. Wp(z) - 1 PROVE At(z, off) \in Unit
  <2>1. off < Wp(z) /\ off + 1 \in 1 .. Len(dev[z])
      BY <1>2, <1>5 DEF Wp
  <2> QED BY <1>1, <2>1 DEF At
<1> QED BY <1>2, <1>3, <1>4, <1>5, Constants

Offsets == 0 .. 2 * ZoneCap
WalkEnd == [ok |-> TRUE, extents |-> <<>>]
WalkStep(z, w, off) ==
    IF off >= Wp(z) THEN WalkEnd
    ELSE LET h == At(z, off)
             rest == w[off + B * Blocks(h.v + HeaderSize)]
         IN IF h.k # "len" \/ h.v = 0 THEN [ok |-> FALSE, extents |-> <<>>]
            ELSE [ok |-> rest.ok,
                  extents |-> <<[z |-> z, off |-> off + HeaderSize, len |-> h.v]>>
                                \o rest.extents]
Walk(z) == CHOOSE w : w = [off \in Offsets |-> WalkStep(z, w, off)]

(* SparseExtents is defined by recursion, which is this fixpoint. *)
LEMMA SparseIsWalk ==
    ASSUME NEW z, NEW start
    PROVE  SparseExtents(z, start) = Walk(z)[start]
BY Zenon DEF SparseExtents, Walk, WalkStep, WalkEnd, Offsets

(* The extent that follows a header ends before the end of the offsets. *)
LEMMA HeaderSpan ==
    ASSUME Device, NEW z \in Zones, NEW off \in 0 .. Wp(z) - 1, At(z, off).k = "len"
    PROVE  /\ At(z, off).v \in Nat /\ At(z, off).v > 0
           /\ off + B * Blocks(At(z, off).v + HeaderSize) \in Offsets
           /\ off + At(z, off).v + HeaderSize <= off + B * Blocks(At(z, off).v + HeaderSize)
<1> DEFINE v == At(z, off).v
           b == B * Blocks(v + 1)
<1>1. Wp(z) \in Nat /\ Wp(z) <= ZoneCap /\ off \in Nat /\ off < ZoneCap
    BY WpRange, Constants
<1>2. At(z, off) \in Unit
    BY WpRange
<1>3. v \in 1 .. ZoneCap - 1
    BY <1>2 DEF Unit
<1> HIDE DEF v
<1>4. v + 1 \in Nat /\ v + 1 <= B * ZoneBlocks
    BY <1>3, Constants
<1>5. b \in Nat /\ v + 1 <= b
    BY <1>4, RoundUp
<1>6. b <= B * ZoneBlocks
    BY <1>4, RoundUpFits, Constants
<1> HIDE DEF b
<1>7. v \in Nat /\ v > 0 /\ off + b \in Offsets /\ off + v + 1 <= off + b
    BY <1>1, <1>3, <1>5, <1>6, Constants DEF Offsets
<1> QED BY <1>7 DEF b, v, HeaderSize

(* A step of the walk depends on what comes after it only. *)
LEMMA WalkLocal ==
    ASSUME Device, NEW z \in Zones, NEW off \in Offsets, NEW g, NEW h,
           \A x \in Offsets : x > off => g[x] = h[x]
    PROVE  WalkStep(z, g, off) = WalkStep(z, h, off)
<1>1. Wp(z) \in Nat /\ off \in Nat
    BY WpRange, Constants DEF Offsets
<1>2. CASE off >= Wp(z)
    BY <1>2 DEF WalkStep
<1>3. CASE ~(off >= Wp(z)) /\ At(z, off).k = "len"
  <2> DEFINE n == off + B * Blocks(At(z, off).v + HeaderSize)
  <2>1. off \in 0 .. Wp(z) - 1
      BY <1>1, <1>3
  <2>2. n \in Offsets /\ At(z, off).v \in Nat /\ off + At(z, off).v + HeaderSize <= n
      BY <1>3, <2>1, HeaderSpan
  <2>3. n > off
    <3> HIDE DEF n
    <3> QED BY <2>2, <1>1, Constants DEF HeaderSize, Offsets
  <2>4. g[n] = h[n]
      BY <2>2, <2>3
  <2> QED BY <2>4, Zenon DEF WalkStep
<1>4. CASE ~(off >= Wp(z)) /\ At(z, off).k # "len"
    BY <1>4 DEF WalkStep
<1> QED BY <1>2, <1>3, <1>4

(* The fixpoint exists: it is built from the end of the offsets backwards. *)
LEMMA WalkFixpoint ==
    ASSUME Device, NEW z \in Zones
    PROVE  Walk(z) = [off \in Offsets |-> WalkStep(z, Walk(z), off)]
<1> DEFINE Good(g, k) ==
             \A off \in Offsets : off + k >= 2 * ZoneCap => g[off] = WalkStep(z, g, off)
           S == {k \in Nat : \E g : g = [off \in Offsets |-> g[off]] /\ Good(g, k)}
<1>0. ZoneCap \in Nat /\ Wp(z) \in Nat /\ Wp(z) <= ZoneCap
    BY Constants, WpRange
<1>1. 0 \in S
  <2> DEFINE g == [off \in Offsets |-> WalkEnd]
  <2>1. Good(g, 0)
    <3> SUFFICES ASSUME NEW off \in Offsets, off + 0 >= 2 * ZoneCap
                 PROVE  WalkEnd = WalkStep(z, g, off)
        OBVIOUS
    <3>1. off >= Wp(z)
        BY <1>0 DEF Offsets
    <3> QED BY <3>1 DEF WalkStep
  <2>2. g = [off \in Offsets |-> g[off]]
      OBVIOUS
  <2> HIDE DEF g, Good
  <2>3. \E u : u = [off \in Offsets |-> u[off]] /\ Good(u, 0)
      BY <2>1, <2>2, Zenon
  <2> QED BY <2>3
<1>2. ASSUME NEW k \in Nat, k \in S PROVE k + 1 \in S
  <2>1. PICK g : g = [off \in Offsets |-> g[off]] /\ Good(g, k)
      BY <1>2
  <2> DEFINE h == [off \in Offsets |-> WalkStep(z, g, off)]
  <2>2. ASSUME NEW off \in Offsets, off + (k + 1) >= 2 * ZoneCap
        PROVE  h[off] = WalkStep(z, h, off)
    <3>1. ASSUME NEW x \in Offsets, x > off PROVE g[x] = h[x]
      <4>1. x + k >= 2 * ZoneCap
          BY <1>0, <2>2, <3>1 DEF Offsets
      <4> QED BY <4>1, <2>1
    <3>2. h[off] = WalkStep(z, g, off)
        OBVIOUS
    <3> HIDE DEF h
    <3>3. WalkStep(z, g, off) = WalkStep(z, h, off)
        BY <3>1, WalkLocal
    <3> QED BY <3>2, <3>3
  <2>3. Good(h, k + 1) /\ h = [off \in Offsets |-> h[off]]
      BY <2>2
  <2>4. k + 1 \in Nat
      OBVIOUS
  <2>5. \E u : u = [off \in Offsets |-> u[off]] /\ Good(u, k + 1)
    <3> HIDE DEF h, Good
    <3> QED BY <2>3, Zenon
  <2> HIDE DEF Good
  <2> QED BY <2>4, <2>5
<1>3. 2 * ZoneCap \in S
  <2> HIDE DEF S
  <2> QED BY <1>0, <1>1, <1>2, Induction
<1>4. PICK g : g = [off \in Offsets |-> g[off]] /\ Good(g, 2 * ZoneCap)
    BY <1>3
<1>5. \A off \in Offsets : off + 2 * ZoneCap >= 2 * ZoneCap
    BY <1>0 DEF Offsets
<1>6. g = [off \in Offsets |-> WalkStep(z, g, off)]
    BY <1>4, <1>5
<1> QED BY <1>6 DEF Walk

(* From `start' on, the units s are whole sparse extents up to the end:    *)
(* there is a set of offsets that leads from header to header.             *)
Chained(s, start) ==
    \E H \in SUBSET Nat :
      /\ start \in H
      /\ \A p \in H :
           /\ p <= Len(s)
           /\ p < Len(s) => /\ s[p + 1].k = "len"
                            /\ p + B * Blocks(s[p + 1].v + HeaderSize) \in H

(* The extents that lie below the write pointer of a zone. *)
WrittenIn(z) == {e \in ExtentSet : e.z = z /\ e.off + e.len <= Wp(z)}

(* RecoverSparseExtents on a chain of whole extents succeeds, and finds extents *)
(* that lie below the write pointer.                                            *)
LEMMA WalkSound ==
    ASSUME Device, NEW z \in Zones, NEW start, Chained(dev[z], start)
    PROVE  /\ SparseExtents(z, start).ok
           /\ SparseExtents(z, start).extents \in Seq(WrittenIn(z))
<1>0. PICK H \in SUBSET Nat :
        /\ start \in H
        /\ \A p \in H :
             /\ p <= Len(dev[z])
             /\ p < Len(dev[z]) =>
                  /\ dev[z][p + 1].k = "len"
                  /\ p + B * Blocks(dev[z][p + 1].v + HeaderSize) \in H
    BY DEF Chained
<1>1. /\ start \in H
      /\ \A p \in H :
           /\ p <= Wp(z)
           /\ p < Wp(z) => /\ At(z, p).k = "len"
                           /\ p + B * Blocks(At(z, p).v + HeaderSize) \in H
    BY <1>0 DEF Wp, At
<1> DEFINE W == Walk(z)
           Fine(r) == r.ok /\ r.extents \in Seq(WrittenIn(z))
           S == {k \in Nat : \A p \in H : p + k >= Wp(z) => Fine(W[p])}
<1>2. W = [off \in Offsets |-> WalkStep(z, W, off)]
    BY WalkFixpoint
<1> HIDE DEF W
<1>3. Wp(z) \in Nat /\ Wp(z) <= ZoneCap /\ ZoneCap \in Nat
    BY WpRange, Constants
<1>4. \A p \in H : p \in Offsets /\ p \in Nat
    BY <1>1, <1>3 DEF Offsets
<1>5. ASSUME NEW p \in H, p = Wp(z) PROVE Fine(W[p])
  <2>1. W[p] = WalkEnd
    <3>1. W[p] = WalkStep(z, W, p)
        BY <1>2, <1>4
    <3>2. p >= Wp(z)
        BY <1>5, <1>3
    <3> QED BY <3>1, <3>2 DEF WalkStep
  <2> QED BY <2>1 DEF WalkEnd
<1>6. 0 \in S
  <2>1. ASSUME NEW p \in H, p + 0 >= Wp(z) PROVE p = Wp(z)
      BY <1>1, <1>3, <1>4, <2>1
  <2> HIDE DEF Fine
  <2> QED BY <2>1, <1>5
<1>7. ASSUME NEW k \in Nat, k \in S PROVE k + 1 \in S
  <2>1. ASSUME NEW p \in H, p + (k + 1) >= Wp(z), p < Wp(z) PROVE Fine(W[p])
    <3> DEFINE v == At(z, p).v
               n == p + B * Blocks(v + HeaderSize)
               e == [z |-> z, off |-> p + HeaderSize, len |-> v]
    <3>1. At(z, p).k = "len" /\ n \in H
        BY <1>1, <2>1
    <3>2. p \in 0 .. Wp(z) - 1
        BY <2>1, <1>3, <1>4
    <3>3. v \in Nat /\ v > 0 /\ p + v + HeaderSize <= n
        BY <3>1, <3>2, HeaderSpan
    <3>4. n \in Nat /\ n <= Wp(z)
        BY <3>1, <1>1
    <3>5. n > p /\ p + 1 + v <= Wp(z) /\ p \in Nat
      <4> HIDE DEF n, v
      <4> QED BY <3>2, <3>3, <3>4, <1>3 DEF HeaderSize
    <3>6. Fine(W[n])
      <4>1. n + k >= Wp(z)
        <5> HIDE DEF n
        <5> QED BY <3>4, <3>5, <2>1, <1>3
      <4> HIDE DEF Fine
      <4> QED BY <4>1, <3>1, <1>7
    <3>7. e \in WrittenIn(z)
      <4>1. e.off + e.len <= Wp(z)
        <5> HIDE DEF v
        <5> QED BY <3>5, <3>3 DEF HeaderSize
      <4>2. e \in ExtentSet
        <5> HIDE DEF v
        <5> QED BY <3>5, <3>3 DEF ExtentSet, HeaderSize
      <4> QED BY <4>1, <4>2 DEF WrittenIn
    <3>8. W[p] = [ok |-> W[n].ok, extents |-> <<e>> \o W[n].extents]
      <4>1. W[p] = WalkStep(z, W, p)
          BY <1>2, <1>4
      <4>2. ~(p >= Wp(z))
          BY <3>2, <1>3
      <4>3. v # 0
          BY <3>3
      <4> QED BY <4>1, <4>2, <4>3, <3>1 DEF WalkStep
    <3> HIDE DEF e, n
    <3>9. <<e>> \o W[n].extents \in Seq(WrittenIn(z))
        BY <3>6, <3>7
    <3> QED BY <3>6, <3>8, <3>9
  <2>2. ASSUME NEW p \in H, p + (k + 1) >= Wp(z) PROVE Fine(W[p])
    <3>1. p <= Wp(z)
        BY <1>1
    <3>2. p < Wp(z) \/ p = Wp(z)
        BY <3>1, <1>3, <1>4
    <3> HIDE DEF Fine
    <3> QED BY <3>2, <2>1, <2>2, <1>5
  <2> HIDE DEF Fine
  <2> QED BY <2>2
<1>8. Wp(z) \in S
  <2> HIDE DEF S
  <2> QED BY <1>3, <1>6, <1>7, Induction
<1>9. Fine(W[start])
  <2>1. start + Wp(z) >= Wp(z)
      BY <1>1, <1>3
  <2> HIDE DEF Fine
  <2> QED BY <1>1, <1>8, <2>1
<1> QED BY <1>9, SparseIsWalk DEF W

(* The same, but the last extent may reach past the end. *)
CutChained(s, start) ==
    \E H \in SUBSET Nat :
      /\ start \in H
      /\ \A p \in H :
           p < Len(s) => /\ s[p + 1].k = "len"
                         /\ p + B * Blocks(s[p + 1].v + HeaderSize) \in H

(* RecoverSparseExtents succeeds on such a chain too. *)
LEMMA CutWalk ==
    ASSUME Device, NEW z \in Zones, NEW start \in 0 .. Wp(z), CutChained(dev[z], start)
    PROVE  SparseExtents(z, start).ok
<1>1. PICK H \in SUBSET Nat :
        /\ start \in H
        /\ \A p \in H : p < Wp(z) =>
             /\ At(z, p).k = "len"
             /\ p + B * Blocks(At(z, p).v + HeaderSize) \in H
    BY DEF CutChained, Wp, At
<1> DEFINE W == Walk(z)
           S == {k \in Nat : \A p \in H : p \in Offsets /\ p + k >= Wp(z) => W[p].ok}
<1>2. W = [off \in Offsets |-> WalkStep(z, W, off)]
    BY WalkFixpoint
<1> HIDE DEF W
<1>3. Wp(z) \in Nat /\ Wp(z) <= ZoneCap /\ ZoneCap \in Nat
    BY WpRange, Constants
<1>4. ASSUME NEW p \in Offsets, p >= Wp(z) PROVE W[p].ok
  <2>1. W[p] = WalkEnd
      BY <1>2, <1>4 DEF WalkStep
  <2> QED BY <2>1 DEF WalkEnd
<1>5. 0 \in S
  <2>1. ASSUME NEW p \in H, p \in Offsets, p + 0 >= Wp(z) PROVE W[p].ok
      BY <1>3, <1>4, <2>1
  <2> QED BY <2>1
<1>6. ASSUME NEW k \in Nat, k \in S PROVE k + 1 \in S
  <2>1. ASSUME NEW p \in H, p \in Offsets, p + (k + 1) >= Wp(z), p < Wp(z) PROVE W[p].ok
    <3> DEFINE v == At(z, p).v
               n == p + B * Blocks(v + HeaderSize)
    <3>1. At(z, p).k = "len" /\ n \in H
        BY <1>1, <2>1
    <3>2. p \in 0 .. Wp(z) - 1
        BY <2>1, <1>3
    <3>3. v \in Nat /\ v > 0 /\ n \in Offsets /\ p + v + HeaderSize <= n
        BY <3>1, <3>2, HeaderSpan
    <3>4. n + k >= Wp(z)
      <4> HIDE DEF n, v
      <4> QED BY <2>1, <3>2, <3>3, <1>3 DEF HeaderSize, Offsets
    <3>5. W[n].ok
        BY <1>6, <3>1, <3>3, <3>4
    <3>6. W[p].ok = W[n].ok
      <4>1. W[p] = WalkStep(z, W, p)
          BY <1>2, <2>1
      <4>2. ~(p >= Wp(z))
          BY <3>2, <1>3
      <4>3. v # 0
          BY <3>3
      <4> QED BY <4>1, <4>2, <4>3, <3>1 DEF WalkStep
    <3> QED BY <3>5, <3>6
  <2>2. ASSUME NEW p \in H, p \in Offsets, p + (k + 1) >= Wp(z) PROVE W[p].ok
    <3>1. p < Wp(z) \/ p >= Wp(z)
        BY <1>3
    <3> QED BY <3>1, <2>1, <2>2, <1>4
  <2> QED BY <2>2
<1>7. Wp(z) \in S
  <2> HIDE DEF S
  <2> QED BY <1>3, <1>5, <1>6, Induction
<1>8. W[start].ok
  <2>1. start \in Offsets /\ start + Wp(z) >= Wp(z)
      BY <1>3 DEF Offsets
  <2> QED BY <1>1, <1>7, <2>1
<1> QED BY <1>8, SparseIsWalk DEF W

-----------------------------------------------------------------------------
(* The inductive invariant.                                                *)

StartSet == {NoExtent} \cup [z : Zones, off : Nat]
File == [extents : Seq(ExtentSet), start : StartSet, filepos : Nat, size : Nat]
DataUnit == [k : {"data"}, v : Nat]
Pcs == {"idle", "alloc", "write", "flushed", "persist", "close", "down"}

Types ==
    /\ mode \in Modes
    /\ f \in File /\ meta \in File
    /\ active \in Zones \cup {NoZone}
    /\ left \in Seq(DataUnit) /\ buffer \in Seq(DataUnit)
    /\ count \in [units : Nat, other : Nat, crashes : Nat, fails : Nat]
    /\ pc \in Pcs

(* The extents lie below the write pointers of the device d. *)
Written(d, es) == \A i \in 1 .. Len(es) : es[i].off + es[i].len <= Len(d[es[i].z])

(* A zone of an extent in the log has an extent in memory, so that it is   *)
(* not reset.                                                              *)
MetaKept ==
    pc # "down" =>
      \A i \in 1 .. Len(meta.extents) :
        \E j \in 1 .. Len(f.extents) : f.extents[j].z = meta.extents[i].z

(* What a direct writer has written and not pushed. *)
Pending == IF mode = "direct" THEN f.size - f.filepos ELSE 0

(* Where the writer is, and what its active extent covers. *)
CallInv ==
    /\ pc = "down" => active = NoZone /\ ~closing
    /\ closing => op \in {"close", "none"}
    /\ op = "close" => closing
    /\ pc = "alloc" => active = NoZone
    /\ pc = "write" => active # NoZone /\ left # <<>>
    /\ pc \in {"alloc", "write", "flushed"} => op \in {"append", "sync", "fsync", "close"}
    /\ pc \in {"persist", "close"} => buffer = <<>>
    /\ pc = "close" => closing /\ (active # NoZone => Pending = 0)
    /\ mode = "direct" => buffer = <<>> /\ \E c \in Nat : Len(left) = B * c
ActiveInv ==
    active # NoZone =>
      /\ f.filepos <= f.size
      /\ mode # "direct" => Wp(active) < ZoneCap
      /\ f.start = NoExtent =>
           closing /\ buffer = <<>> /\ pc # "write" /\ Pending = 0
      /\ f.start # NoExtent =>
           f.start.z = active /\ f.start.off + Pending <= Wp(active)

(* A zone that a file with the extents es and the active zone a holds:     *)
(* that one, or a full one with extents of the file.                       *)
Held(d, a, es, z) ==
    z = a \/ (Len(d[z]) = ZoneCap /\ \E i \in 1 .. Len(es) : es[i].z = z)

(* Without device writes that stop half way, sparse extents follow each    *)
(* other without a gap from where the log says to the write pointer.       *)
SparseInv ==
    Sparse =>
      /\ pc # "down" /\ f.start # NoExtent =>
           /\ f.start.off = Len(dev[f.start.z])
           /\ Held(dev, active, f.extents, f.start.z)
      /\ meta.start # NoExtent =>
           /\ Chained(dev[meta.start.z], meta.start.off)
           /\ pc # "down" => Held(dev, active, f.extents, meta.start.z)

RecoveryInv ==
    /\ Types /\ Device
    /\ Written(dev, f.extents) /\ Written(dev, meta.extents)
    /\ MetaKept /\ CallInv /\ ActiveInv /\ SparseInv

-----------------------------------------------------------------------------
(* Device writes.                                                          *)

(* The first n elements of a sequence. *)
LEMMA FirstUnits ==
    ASSUME NEW S, NEW s \in Seq(S), NEW n \in Nat, n <= Len(s)
    PROVE  /\ First(s, n) \in Seq(S) /\ Len(First(s, n)) = n
           /\ \A i \in 1 .. n : First(s, n)[i] = s[i]
BY DEF First

(* The elements of a concatenation. *)
LEMMA Joined ==
    ASSUME NEW S, NEW s \in Seq(S), NEW t \in Seq(S)
    PROVE  /\ s \o t \in Seq(S)
           /\ Len(s \o t) = Len(s) + Len(t)
           /\ \A p \in 1 .. Len(s) : (s \o t)[p] = s[p]
           /\ \A p \in 1 .. Len(t) : (s \o t)[Len(s) + p] = t[p]
<1> DEFINE u == s \o t
<1>1. /\ u \in Seq(S)
      /\ Len(u) = Len(s) + Len(t)
      /\ \A i \in 1 .. Len(s) + Len(t) : u[i] = IF i <= Len(s) THEN s[i] ELSE t[i - Len(s)]
    BY ConcatProperties
<1>2. Len(s) \in Nat /\ Len(t) \in Nat
    OBVIOUS
<1> HIDE DEF u
<1>3. \A p \in 1 .. Len(s) : u[p] = s[p]
    BY <1>1, <1>2
<1>4. ASSUME NEW p \in 1 .. Len(t) PROVE u[Len(s) + p] = t[p]
  <2>1. Len(s) + p \in 1 .. Len(s) + Len(t) /\ ~(Len(s) + p <= Len(s))
      BY <1>2
  <2>2. (Len(s) + p) - Len(s) = p
      BY <1>2
  <2> QED BY <1>1, <2>1, <2>2
<1> QED BY <1>1, <1>3, <1>4 DEF u

(* A write of whole blocks that fits leaves the rest of the device alone. *)
LEMMA Grown ==
    ASSUME Device, NEW z \in Zones, NEW s \in Seq(Unit), NEW c \in Nat,
           Len(s) = B * c, Wp(z) + Len(s) <= ZoneCap,
           dev' = [dev EXCEPT ![z] = @ \o s]
    PROVE  /\ Device'
           /\ Wp(z)' = Wp(z) + Len(s)
           /\ \A y \in Zones : Wp(y)' >= Wp(y) /\ (y # z => Wp(y)' = Wp(y))
           /\ \A y \in Zones : \A p \in 0 .. Wp(y) - 1 : At(y, p)' = At(y, p)
           /\ \A p \in Nat : p = Wp(z) /\ s # <<>> => At(z, p)' = s[1]
<1>1. dev \in [Zones -> Seq(Unit)] /\ dev' \in [Zones -> Seq(Unit)]
    BY DEF Device
<1>2. dev'[z] = dev[z] \o s /\ \A y \in Zones : y # z => dev'[y] = dev[y]
    BY <1>1
<1>a. dev[z] \in Seq(Unit)
    BY <1>1
<1>3. /\ Len(dev[z] \o s) = Len(dev[z]) + Len(s)
      /\ \A p \in 1 .. Len(dev[z]) : (dev[z] \o s)[p] = dev[z][p]
      /\ \A p \in 1 .. Len(s) : (dev[z] \o s)[Len(dev[z]) + p] = s[p]
  <2> DEFINE d == dev[z]
  <2>1. d \in Seq(Unit) /\ s \in Seq(Unit)
      BY <1>a
  <2> HIDE DEF d
  <2>2. Len(d \o s) = Len(d) + Len(s)
      BY <2>1, Joined
  <2>3. \A p \in 1 .. Len(d) : (d \o s)[p] = d[p]
      BY <2>1, Joined
  <2>4. \A p \in 1 .. Len(s) : (d \o s)[Len(d) + p] = s[p]
      BY <2>1, Joined
  <2> QED BY <2>2, <2>3, <2>4 DEF d
<1>4. Wp(z)' = Wp(z) + Len(s) /\ \A y \in Zones : y # z => Wp(y)' = Wp(y)
    BY <1>2, <1>3 DEF Wp
<1>5. \A y \in Zones : Wp(y) \in Nat
    BY WpRange
<1>6. \A y \in Zones : Wp(y)' >= Wp(y) /\ (y # z => Wp(y)' = Wp(y))
    BY <1>4, <1>5
<1>7. ASSUME NEW y \in Zones PROVE \E d \in 0 .. ZoneBlocks : Wp(y)' = B * d
  <2>1. PICK d \in 0 .. ZoneBlocks : Wp(y) = B * d
      BY DEF Device
  <2>2. CASE y # z
      BY <1>6, <2>1, <2>2
  <2>3. CASE y = z
    <3>1. B * d + B * c = B * (d + c) /\ d \in Nat /\ d + c \in Nat
        BY <2>1, Constants
    <3>2. B * (d + c) <= B * ZoneBlocks
        BY <2>1, <2>3, <3>1, Constants
    <3>3. d + c <= ZoneBlocks
        BY <3>1, <3>2, Constants
    <3>4. Wp(y)' = B * (d + c)
        BY <1>4, <2>1, <2>3, <3>1
    <3> QED BY <3>1, <3>3, <3>4, Constants
  <2> QED BY <2>2, <2>3
<1>8. Device'
    BY <1>1, <1>7 DEF Device
<1>9. ASSUME NEW y \in Zones, NEW p \in 0 .. Wp(y) - 1 PROVE At(y, p)' = At(y, p)
  <2>1. p < Wp(y) /\ p < Wp(y)' /\ p + 1 \in 1 .. Len(dev[y])
      BY <1>5, <1>6 DEF Wp
  <2>2. dev'[y][p + 1] = dev[y][p + 1]
      BY <2>1, <1>2, <1>3
  <2> QED BY <2>1, <2>2 DEF At
<1>10. ASSUME NEW p \in Nat, p = Wp(z), s # <<>> PROVE At(z, p)' = s[1]
  <2>1. Len(s) \in Nat /\ Len(s) > 0
      BY <1>10
  <2>2. p < Wp(z)' /\ p + 1 = Len(dev[z]) + 1
      BY <1>4, <1>10, <2>1 DEF Wp
  <2>3. dev'[z][p + 1] = s[1]
      BY <1>2, <1>3, <2>1, <2>2
  <2> QED BY <2>2, <2>3 DEF At
<1> QED BY <1>4, <1>6, <1>8, <1>9, <1>10

(* At the write pointer there is nothing to follow. *)
LEMMA ChainHere ==
    ASSUME NEW s \in Seq(Unit)
    PROVE  Chained(s, Len(s))
<1> DEFINE H == {Len(s)}
<1>1. Len(s) \in Nat
    OBVIOUS
<1>2. H \in SUBSET Nat /\ Len(s) \in H
    BY <1>1
<1>3. \A p \in H : p <= Len(s) /\ ~(p < Len(s))
    BY <1>1
<1> HIDE DEF H
<1> QED BY <1>2, <1>3 DEF Chained

(* Another sparse extent makes the chain longer. *)
LEMMA ChainLonger ==
    ASSUME NEW s \in Seq(Unit), NEW t \in Seq(Unit), NEW start, Chained(s, start),
           t # <<>>, t[1].k = "len", Len(t) = B * Blocks(t[1].v + HeaderSize)
    PROVE  Chained(s \o t, start)
<1>1. PICK H \in SUBSET Nat :
        /\ start \in H
        /\ \A p \in H :
             /\ p <= Len(s)
             /\ p < Len(s) => /\ s[p + 1].k = "len"
                              /\ p + B * Blocks(s[p + 1].v + HeaderSize) \in H
    BY DEF Chained
<1> DEFINE u == s \o t
           K == H \cup {Len(u)}
<1>2. Len(s) \in Nat /\ Len(t) \in Nat /\ Len(t) > 0
    OBVIOUS
<1>3. Len(u) = Len(s) + Len(t)
    BY Joined
<1>4. \A p \in 1 .. Len(s) : u[p] = s[p]
    BY Joined
<1>5. u[Len(s) + 1] = t[1]
  <2>1. \A p \in 1 .. Len(t) : u[Len(s) + p] = t[p]
      BY Joined
  <2> QED BY <2>1, <1>2
<1> HIDE DEF u
<1>6. K \in SUBSET Nat /\ start \in K
  <2>1. H \subseteq Nat /\ start \in H
      BY <1>1
  <2>2. Len(u) \in Nat
      BY <1>2, <1>3
  <2> QED BY <2>1, <2>2
<1>7. ASSUME NEW p \in K
      PROVE  /\ p <= Len(u)
             /\ p < Len(u) => /\ u[p + 1].k = "len"
                              /\ p + B * Blocks(u[p + 1].v + HeaderSize) \in K
  <2>1. CASE p \in H /\ p < Len(s)
    <3>0. p \in Nat
        BY <2>1
    <3>1. p + 1 \in 1 .. Len(s) /\ p <= Len(u)
        BY <3>0, <2>1, <1>2, <1>3
    <3>2. u[p + 1] = s[p + 1]
        BY <3>1, <1>4
    <3> QED BY <2>1, <3>1, <3>2, <1>1
  <2>2. CASE p = Len(s)
    <3>1. p + 1 = Len(s) + 1 /\ p <= Len(u)
        BY <2>2, <1>2, <1>3
    <3>2. u[p + 1] = t[1]
        BY <2>2, <1>5
    <3>3. p + B * Blocks(u[p + 1].v + HeaderSize) = Len(u)
        BY <2>2, <3>2, <1>3
    <3> QED BY <3>1, <3>2, <3>3
  <2>3. CASE p = Len(u)
      BY <2>3, <1>2, <1>3
  <2>4. p \in H => p \in Nat /\ p <= Len(s)
      BY <1>1
  <2>5. p \in H => (p < Len(s) \/ p = Len(s))
      BY <2>4, <1>2
  <2> QED BY <2>1, <2>2, <2>3, <2>5
<1> HIDE DEF K
<1> QED BY <1>6, <1>7 DEF Chained, u

(* Part of a sparse extent, with its header, behind a chain. *)
LEMMA ChainCut ==
    ASSUME NEW s \in Seq(Unit), NEW t \in Seq(Unit), NEW start, Chained(s, start),
           t # <<>>, t[1].k = "len", NEW c \in Nat, c = B * Blocks(t[1].v + HeaderSize),
           Len(t) <= c
    PROVE  CutChained(s \o t, start)
<1>1. PICK H \in SUBSET Nat :
        /\ start \in H
        /\ \A p \in H :
             /\ p <= Len(s)
             /\ p < Len(s) => /\ s[p + 1].k = "len"
                              /\ p + B * Blocks(s[p + 1].v + HeaderSize) \in H
    BY DEF Chained
<1> DEFINE u == s \o t
           K == H \cup {Len(s) + c}
<1>2. Len(s) \in Nat /\ Len(t) \in Nat /\ Len(t) > 0
    OBVIOUS
<1>3. Len(u) = Len(s) + Len(t)
    BY Joined
<1>4. \A p \in 1 .. Len(s) : u[p] = s[p]
    BY Joined
<1>5. u[Len(s) + 1] = t[1]
  <2>1. \A p \in 1 .. Len(t) : u[Len(s) + p] = t[p]
      BY Joined
  <2> QED BY <2>1, <1>2
<1> HIDE DEF u
<1>6. K \in SUBSET Nat /\ start \in K
  <2>1. H \subseteq Nat /\ start \in H
      BY <1>1
  <2>2. Len(s) + c \in Nat
      BY <1>2
  <2> QED BY <2>1, <2>2
<1>7. ASSUME NEW p \in K, p < Len(u)
      PROVE  /\ u[p + 1].k = "len"
             /\ p + B * Blocks(u[p + 1].v + HeaderSize) \in K
  <2>1. CASE p \in H /\ p < Len(s)
    <3>0. p \in Nat
        BY <2>1
    <3>1. p + 1 \in 1 .. Len(s)
        BY <3>0, <2>1, <1>2
    <3>2. u[p + 1] = s[p + 1]
        BY <3>1, <1>4
    <3> QED BY <2>1, <3>2, <1>1
  <2>2. CASE p = Len(s)
    <3>1. u[p + 1] = t[1]
        BY <2>2, <1>5
    <3>2. p + B * Blocks(u[p + 1].v + HeaderSize) = Len(s) + c
        BY <2>2, <3>1
    <3> QED BY <3>1, <3>2
  <2>3. p # Len(s) + c
      BY <1>2, <1>3, <1>7
  <2>4. p \in H => p \in Nat /\ p <= Len(s)
      BY <1>1
  <2>5. p \in H => (p < Len(s) \/ p = Len(s))
      BY <2>4, <1>2
  <2> QED BY <2>1, <2>2, <2>3, <2>5
<1> HIDE DEF K
<1> QED BY <1>6, <1>7 DEF CutChained, u

-----------------------------------------------------------------------------
(* What one turn of the append loops writes.                               *)

(* The free part of a zone that is not full is one block at least. *)
LEMMA FreeBlocks ==
    ASSUME Device, NEW z \in Zones, Wp(z) < ZoneCap
    PROVE  /\ \E c \in Nat : Capacity(z) = B * c
           /\ Capacity(z) \in Nat /\ Capacity(z) >= B
<1>1. PICK c \in 0 .. ZoneBlocks : Wp(z) = B * c
    BY DEF Device
<1> DEFINE d == ZoneBlocks - c
<1>2. d \in Nat /\ B * d = ZoneCap - B * c
    BY <1>1, Constants
<1>3. Capacity(z) = B * d
    BY <1>1, <1>2 DEF Capacity
<1>4. B * d > 0
    BY <1>1, <1>2, Constants
<1> HIDE DEF d
<1>5. d >= 1
    BY <1>2, <1>4, Constants
<1>6. B * d >= B
    BY <1>2, <1>5, Constants
<1> QED BY <1>2, <1>3, <1>6, Constants

(* A turn of the append loop takes something, and no more than fits; the   *)
(* blocks have room for a header and a unit because a block has two units. *)
LEMMA PieceLength ==
    ASSUME Types, Device, active \in Zones, left # <<>>, Wp(active) < ZoneCap
    PROVE  /\ PieceLen \in Nat /\ PieceLen >= 1 /\ PieceLen <= Len(left)
           /\ PieceLen + Reserved <= Capacity(active)
           /\ PieceLen # Len(left) => PieceLen + Reserved = Capacity(active)
           /\ Reserved \in {0, 1}
<1>1. Len(left) \in Nat /\ Len(left) >= 1
    BY DEF Types
<1>2. Capacity(active) \in Nat /\ Capacity(active) >= 2
    BY FreeBlocks, Constants
<1>3. Reserved \in {0, 1}
    BY DEF Reserved, HeaderSize
<1> QED BY <1>1, <1>2, <1>3 DEF PieceLen

(* The padding is what is missing to whole blocks. *)
LEMMA Padded ==
    ASSUME NEW n \in Nat
    PROVE  Padding(n) \in Seq(Unit) /\ Len(Padding(n)) = B * Blocks(n) - n
<1> DEFINE m == B * Blocks(n) - n
<1>1. m \in Nat
    BY RoundUp
<1> HIDE DEF m
<1>2. Pad \in Unit
    BY DEF Pad, Unit, Kinds
<1>3. [i \in 1 .. m |-> Pad] \in Seq(Unit) /\ Len([i \in 1 .. m |-> Pad]) = m
    BY <1>1, <1>2
<1> QED BY <1>3 DEF Padding, m

(* What a writer holds can be written. *)
LEMMA DataIsUnit ==
    ASSUME NEW s \in Seq(DataUnit)
    PROVE  s \in Seq(Unit)
<1>1. DataUnit \subseteq Unit
    BY DEF DataUnit, Unit, Kinds
<1> QED BY <1>1

(* A turn of the loop of BufferedAppend or SparseAppend writes whole blocks that *)
(* fit in the zone; if it leaves something for the next turn, the zone is full.  *)
LEMMA Piece ==
    ASSUME Types, Device, active \in Zones, left # <<>>, Wp(active) < ZoneCap
    PROVE  /\ PieceUnits \in Seq(Unit)
           /\ Len(PieceUnits) = B * Blocks(PieceLen + Reserved)
           /\ PieceLen + Reserved <= Len(PieceUnits)
           /\ Wp(active) + Len(PieceUnits) <= ZoneCap
           /\ PieceLen # Len(left) => Wp(active) + Len(PieceUnits) = ZoneCap
           /\ Sparse => PieceUnits[1] = Header(PieceLen)
<1> DEFINE h == IF Sparse THEN HeaderOfPiece ELSE <<>>
           d == First(left, PieceLen)
           data == h \o d
           pad == Padding(Len(data))
           n == PieceLen + Reserved
<1>1. /\ PieceLen \in Nat /\ PieceLen >= 1 /\ PieceLen <= Len(left)
      /\ n <= Capacity(active) /\ Reserved \in {0, 1}
      /\ PieceLen # Len(left) => n = Capacity(active)
    BY PieceLength
<1>2. PICK c \in Nat : Capacity(active) = B * c
    BY FreeBlocks
<1>3. Wp(active) \in Nat /\ Capacity(active) = ZoneCap - Wp(active) /\ ZoneCap \in Nat
    BY WpRange, Constants DEF Capacity
<1>4. d \in Seq(DataUnit) /\ Len(d) = PieceLen
    BY <1>1, FirstUnits DEF Types
<1>5. d \in Seq(Unit)
    BY <1>4, DataIsUnit
<1>6. h \in Seq(Unit) /\ Len(h) = Reserved /\ (Sparse => h[1] = Header(PieceLen))
  <2>1. CASE Sparse
    <3>1. Reserved = 1
        BY <2>1 DEF Reserved, HeaderSize
    <3>2. PieceLen \in 1 .. ZoneCap - 1
        BY <3>1, <1>1, <1>3
    <3>3. Header(PieceLen) \in Unit
        BY <3>2, Constants DEF Header, Unit, Kinds
    <3>4. h = <<Header(PieceLen)>>
        BY <2>1 DEF HeaderOfPiece
    <3> HIDE DEF h
    <3> QED BY <3>1, <3>3, <3>4
  <2>2. CASE ~Sparse
      BY <2>2 DEF Reserved
  <2> QED BY <2>1, <2>2
<1> HIDE DEF h, d
<1>7. data \in Seq(Unit) /\ Len(data) = n
  <2>1. data \in Seq(Unit) /\ Len(data) = Len(h) + Len(d)
      BY <1>5, <1>6, Joined
  <2> HIDE DEF data
  <2> QED BY <2>1, <1>1, <1>4, <1>6
<1>8. Sparse => data[1] = Header(PieceLen) /\ Len(data) >= 1
  <2> SUFFICES ASSUME Sparse PROVE data[1] = Header(PieceLen) /\ Len(data) >= 1
      OBVIOUS
  <2>1. Reserved = 1
      BY DEF Reserved, HeaderSize
  <2>2. \A p \in 1 .. Len(h) : data[p] = h[p]
      BY <1>5, <1>6, Joined
  <2> HIDE DEF data
  <2> QED BY <2>1, <2>2, <1>1, <1>6, <1>7
<1>9. n \in Nat
    BY <1>1
<1> HIDE DEF data, n
<1>10. pad \in Seq(Unit) /\ Len(pad) = B * Blocks(n) - n
    BY <1>7, <1>9, Padded
<1>11. B * Blocks(n) \in Nat /\ n <= B * Blocks(n)
    BY <1>9, RoundUp
<1> HIDE DEF pad
<1>12. data \o pad \in Seq(Unit) /\ Len(data \o pad) = Len(data) + Len(pad)
    BY <1>7, <1>10, Joined
<1>13. Len(data \o pad) = B * Blocks(n)
    BY <1>7, <1>9, <1>10, <1>11, <1>12
<1>14. Sparse => (data \o pad)[1] = data[1]
  <2>1. \A p \in 1 .. Len(data) : (data \o pad)[p] = data[p]
      BY <1>7, <1>10, Joined
  <2> QED BY <2>1, <1>7, <1>8, <1>9
<1>15. B * Blocks(n) <= B * c
    BY <1>1, <1>2, <1>9, RoundUpFits DEF n
<1>16. PieceUnits = data \o pad
    BY DEF PieceUnits, data, pad, h, d
<1>17. Wp(active) + B * Blocks(n) <= ZoneCap
    BY <1>2, <1>3, <1>11, <1>15
<1>18. PieceLen # Len(left) => Wp(active) + B * Blocks(n) = ZoneCap
    BY <1>1, <1>2, <1>3, <1>11, <1>15 DEF n
<1> QED BY <1>8, <1>11, <1>12, <1>13, <1>14, <1>16, <1>17, <1>18 DEF n

(* A turn of the loop of ZoneFile::Append writes whole blocks that fit. *)
LEMMA Direct ==
    ASSUME Types, Device, active \in Zones, left # <<>>, Wp(active) < ZoneCap,
           \E c \in Nat : Len(left) = B * c
    PROVE  /\ DirectLen \in Nat /\ DirectLen >= 1 /\ DirectLen <= Len(left)
           /\ \E c \in Nat : DirectLen = B * c
           /\ \E c \in Nat : Len(left) - DirectLen = B * c
           /\ Wp(active) + DirectLen <= ZoneCap
           /\ First(left, DirectLen) \in Seq(Unit)
           /\ Len(First(left, DirectLen)) = DirectLen
<1>1. PICK c \in Nat : Len(left) = B * c
    OBVIOUS
<1>2. PICK d \in Nat : Capacity(active) = B * d
    BY FreeBlocks
<1>3. /\ Len(left) \in Nat /\ Len(left) >= 1
      /\ Capacity(active) \in Nat /\ Capacity(active) >= B
      /\ Wp(active) \in Nat /\ Capacity(active) = ZoneCap - Wp(active)
    BY FreeBlocks, WpRange DEF Types, Capacity
<1>4. DirectLen \in Nat /\ DirectLen >= 1 /\ DirectLen <= Len(left)
      /\ DirectLen <= Capacity(active)
    BY <1>3, Constants DEF DirectLen
<1>5. \E e \in Nat : DirectLen = B * e
    BY <1>1, <1>2 DEF DirectLen
<1>6. \E e \in Nat : Len(left) - DirectLen = B * e
  <2>1. CASE Len(left) > Capacity(active)
    <3>1. B * c > B * d /\ B * c - B * d = B * (c - d)
        BY <2>1, <1>1, <1>2, Constants
    <3>2. c > d
        BY <3>1, Constants
    <3>3. c - d \in Nat
        BY <3>2
    <3>4. Len(left) - DirectLen = B * (c - d)
        BY <2>1, <3>1, <1>1, <1>2 DEF DirectLen
    <3> QED BY <3>3, <3>4
  <2>2. CASE ~(Len(left) > Capacity(active))
    <3>1. Len(left) - DirectLen = B * 0
        BY <2>2, <1>3, Constants DEF DirectLen
    <3> QED BY <3>1
  <2> QED BY <2>1, <2>2
<1>7. First(left, DirectLen) \in Seq(DataUnit) /\ Len(First(left, DirectLen)) = DirectLen
    BY <1>4, FirstUnits DEF Types
<1>8. First(left, DirectLen) \in Seq(Unit)
    BY <1>7, DataIsUnit
<1>9. Wp(active) + DirectLen <= ZoneCap
    BY <1>3, <1>4, Constants
<1> QED BY <1>4, <1>5, <1>6, <1>7, <1>8, <1>9

-----------------------------------------------------------------------------
(* Steps of the writer that leave the device alone.                        *)

(* The device is as it was. *)
LEMMA SameDevice ==
    ASSUME Device, dev' = dev
    PROVE  Device' /\ \A z \in Zones : Wp(z)' = Wp(z)
BY DEF Device, Wp

(* One more extent below the write pointer. *)
LEMMA WrittenAppend ==
    ASSUME NEW d, NEW es \in Seq(ExtentSet), NEW e \in ExtentSet, Written(d, es),
           e.off + e.len <= Len(d[e.z])
    PROVE  Written(d, Append(es, e))
BY DEF Written

(* The file is as it was. *)
LEMMA SameFile ==
    ASSUME RecoveryInv, UNCHANGED <<mode, dev, meta, f, active>>,
           pc # "down", pc' # "down", Types', CallInv',
           active # NoZone /\ f.start = NoExtent =>
             closing' /\ buffer' = <<>> /\ pc' # "write"
    PROVE  RecoveryInv'
<1>1. Device' /\ \A z \in Zones : Wp(z)' = Wp(z)
    BY SameDevice DEF RecoveryInv
<1>2. Written(dev, f.extents)' /\ Written(dev, meta.extents)'
    BY DEF RecoveryInv
<1>3. MetaKept'
    BY DEF RecoveryInv, MetaKept
<1>4. ActiveInv'
  <2>1. active # NoZone => active \in Zones
      BY DEF RecoveryInv, Types
  <2>2. Pending' = Pending
      BY DEF Pending
  <2> QED BY <1>1, <2>1, <2>2 DEF RecoveryInv, ActiveInv
<1>5. SparseInv'
    BY DEF RecoveryInv, SparseInv, Sparse
<1> QED BY <1>1, <1>2, <1>3, <1>4, <1>5 DEF RecoveryInv

(* ZonedWritableFile::BufferedWrite *)
LEMMA BufferedWriteInv ==
    ASSUME RecoveryInv, BufferedWrite
    PROVE  RecoveryInv'
<1>1. /\ UNCHANGED <<mode, dev, meta, f, active, closing>>
      /\ pc = "idle" /\ ~closing /\ mode # "direct"
    BY DEF BufferedWrite
<1>2. active # NoZone => f.start # NoExtent
    BY <1>1 DEF RecoveryInv, ActiveInv
<1>3. Data(count.units + 1) \in DataUnit
    BY DEF RecoveryInv, Types, Data, DataUnit
<1>4. CASE /\ buffer' = Append(buffer, Data(count.units + 1))
           /\ count' = [count EXCEPT !.units = @ + 1]
           /\ UNCHANGED <<op, left, pc>>
  <2>a. buffer' \in Seq(DataUnit)
      BY <1>3, <1>4 DEF RecoveryInv, Types
  <2>b. count' \in [units : Nat, other : Nat, crashes : Nat, fails : Nat]
    <3>1. count \in [units : Nat, other : Nat, crashes : Nat, fails : Nat]
        BY DEF RecoveryInv, Types
    <3>2. count' = [count EXCEPT !.units = @ + 1]
        BY <1>4
    <3> QED BY <3>1, <3>2
  <2>1. Types'
      BY <1>1, <1>4, <2>a, <2>b DEF RecoveryInv, Types
  <2>2. CallInv'
      BY <1>1, <1>4 DEF RecoveryInv, CallInv
  <2> QED BY <1>1, <1>2, <1>4, <2>1, <2>2, SameFile
<1>5. CASE Len(buffer) = BufferSize /\ Started("append", buffer) /\ UNCHANGED <<buffer, count>>
  <2>1. /\ op' = "append" /\ left' = buffer
        /\ pc' \in {"flushed", "alloc", "write"}
        /\ pc' = "alloc" => active = NoZone
        /\ pc' = "write" => active # NoZone /\ buffer # <<>>
      BY <1>5 DEF Started
  <2>2. Types'
      BY <1>1, <1>5, <2>1 DEF RecoveryInv, Types, Pcs
  <2>3. CallInv'
      BY <1>1, <1>5, <2>1 DEF RecoveryInv, CallInv
  <2> QED BY <1>1, <1>2, <2>1, <2>2, <2>3, SameFile
<1> QED BY <1>4, <1>5 DEF BufferedWrite

(* ZoneFile::Append begins. *)
LEMMA DirectAppendInv ==
    ASSUME RecoveryInv, NEW n \in 1 .. BufBlocks, DirectAppend(n)
    PROVE  RecoveryInv'
<1> DEFINE units == [i \in 1 .. n * B |-> Data(count.units + i)]
<1>1. /\ UNCHANGED <<mode, dev, meta, f, active, closing, buffer>>
      /\ pc = "idle" /\ ~closing /\ mode = "direct"
      /\ Started("append", units)
      /\ count' = [count EXCEPT !.units = @ + n * B]
    BY DEF DirectAppend
<1>2. active # NoZone => f.start # NoExtent
    BY <1>1 DEF RecoveryInv, ActiveInv
<1>3. n \in Nat /\ n * B \in Nat /\ n * B = B * n
    BY Constants
<1>4. units \in Seq(DataUnit) /\ Len(units) = B * n
  <2>1. count.units \in Nat
      BY DEF RecoveryInv, Types
  <2>2. \A i \in 1 .. n * B : Data(count.units + i) \in DataUnit
      BY <2>1, <1>3 DEF Data, DataUnit
  <2> QED BY <1>3, <2>2
<1> HIDE DEF units
<1>5. /\ op' = "append" /\ left' = units
      /\ pc' \in {"flushed", "alloc", "write"}
      /\ pc' = "alloc" => active = NoZone
      /\ pc' = "write" => active # NoZone /\ units # <<>>
    BY <1>1 DEF Started
<1>6. Types'
  <2> DEFINE m == n * B
  <2>1. m \in Nat /\ count' = [count EXCEPT !.units = @ + m]
      BY <1>1, <1>3
  <2> HIDE DEF m
  <2>2. count' \in [units : Nat, other : Nat, crashes : Nat, fails : Nat]
      BY <2>1 DEF RecoveryInv, Types
  <2>3. left' \in Seq(DataUnit)
      BY <1>4, <1>5
  <2> QED BY <1>1, <1>5, <2>2, <2>3 DEF RecoveryInv, Types, Pcs
<1>7. CallInv'
  <2>1. \E c \in Nat : Len(left') = B * c
      BY <1>3, <1>4, <1>5
  <2> QED BY <1>1, <1>5, <2>1 DEF RecoveryInv, CallInv
<1> QED BY <1>1, <1>2, <1>5, <1>6, <1>7, SameFile

(* Sync, Fsync and Close begin. *)
LEMMA DataSyncInv ==
    ASSUME RecoveryInv, NEW o \in {"sync", "fsync", "close"}, DataSync(o)
    PROVE  RecoveryInv'
<1>1. /\ UNCHANGED <<mode, dev, meta, f, active, buffer, count>>
      /\ pc = "idle" /\ (closing => o = "close") /\ closing' = (o = "close")
    BY DEF DataSync
<1>2. /\ op' = o /\ left' = buffer
      /\ pc' \in {"flushed", "alloc", "write"}
      /\ pc' = "alloc" => active = NoZone
      /\ pc' = "write" => active # NoZone /\ buffer # <<>>
    BY DEF DataSync, Started
<1>3. active # NoZone /\ f.start = NoExtent => closing /\ buffer = <<>>
    BY DEF RecoveryInv, ActiveInv
<1>4. Types'
    BY <1>1, <1>2 DEF RecoveryInv, Types, Pcs
<1>5. CallInv'
  <2>1. mode = "direct" => Len(left') = B * 0
      BY <1>2, Constants DEF RecoveryInv, CallInv
  <2>2. mode = "direct" => \E c \in Nat : Len(left') = B * c
      BY <2>1
  <2> QED BY <1>1, <1>2, <2>2 DEF RecoveryInv, CallInv
<1> QED BY <1>1, <1>2, <1>3, <1>4, <1>5, SameFile

(* BufferedWrite goes on, or ZoneFile::Append returns. *)
LEMMA AppendEndsInv ==
    ASSUME RecoveryInv, AppendEnds
    PROVE  RecoveryInv'
<1>1. /\ UNCHANGED <<mode, dev, meta, f, active, closing, left>>
      /\ pc = "flushed" /\ op = "append" /\ pc' = "idle" /\ op' = "none"
    BY DEF AppendEnds
<1>2. ~closing
    BY <1>1 DEF RecoveryInv, CallInv
<1>3. active # NoZone => f.start # NoExtent
    BY <1>2 DEF RecoveryInv, ActiveInv
<1>4. Data(count.units + 1) \in DataUnit
    BY DEF RecoveryInv, Types, Data, DataUnit
<1>5. CASE mode = "direct" /\ UNCHANGED <<buffer, count>>
  <2>1. Types'
      BY <1>1, <1>5 DEF RecoveryInv, Types, Pcs
  <2>2. CallInv'
      BY <1>1, <1>5 DEF RecoveryInv, CallInv
  <2> QED BY <1>1, <1>3, <2>1, <2>2, SameFile
<1>6. CASE /\ mode # "direct" /\ buffer' = <<Data(count.units + 1)>>
           /\ count' = [count EXCEPT !.units = @ + 1]
  <2>1. Types'
      BY <1>1, <1>4, <1>6 DEF RecoveryInv, Types, Pcs
  <2>2. CallInv'
      BY <1>1, <1>2, <1>6 DEF RecoveryInv, CallInv
  <2> QED BY <1>1, <1>3, <2>1, <2>2, SameFile
<1> QED BY <1>5, <1>6 DEF AppendEnds

(* ReopenWritableFile *)
LEMMA ReopenInv ==
    ASSUME RecoveryInv, Reopen
    PROVE  RecoveryInv'
<1>1. UNCHANGED <<mode, dev, meta, f, active, closing, buffer, op, left, pc, count>>
      /\ pc = "idle"
    BY DEF Reopen
<1>2. Types'
    BY <1>1 DEF RecoveryInv, Types
<1>3. CallInv'
    BY <1>1 DEF RecoveryInv, CallInv
<1>4. active # NoZone /\ f.start = NoExtent => closing' /\ buffer' = <<>>
    BY <1>1 DEF RecoveryInv, ActiveInv
<1> QED BY <1>1, <1>2, <1>3, <1>4, SameFile

-----------------------------------------------------------------------------
(* Steps that change the file and leave the device alone.                  *)

(* A zone held without an active one stays held with one. *)
LEMMA HeldFull ==
    ASSUME NEW d, NEW es, NEW z \in Zones, Held(d, NoZone, es, z), NEW a
    PROVE  Held(d, a, es, z)
BY Constants DEF Held

(* The record in the log has the extents of the file. *)
LEMMA SavedFile ==
    ASSUME NEW g \in File
    PROVE  /\ Saved(g) \in File
           /\ Saved(g).extents = g.extents /\ Saved(g).start = g.start
BY DEF Saved, File

(* What is left of a call that failed. *)
LEMMA FailsTypes ==
    ASSUME RecoveryInv, Fails
    PROVE  /\ pc' = "idle" /\ op' = "none" /\ left' = <<>> /\ left' \in Seq(DataUnit)
           /\ count' \in [units : Nat, other : Nat, crashes : Nat, fails : Nat]
           /\ \E c \in Nat : Len(left') = B * c
<1>1. pc' = "idle" /\ op' = "none" /\ left' = <<>>
    BY DEF Fails
<1>2. count' \in [units : Nat, other : Nat, crashes : Nat, fails : Nat]
  <2>1. count \in [units : Nat, other : Nat, crashes : Nat, fails : Nat]
      BY DEF RecoveryInv, Types
  <2>2. count' = [count EXCEPT !.fails = @ + 1]
      BY DEF Fails
  <2> QED BY <2>1, <2>2
<1>3. Len(left') = B * 0
    BY <1>1, Constants
<1>4. \E c \in Nat : Len(left') = B * c
    BY <1>3
<1> QED BY <1>1, <1>2, <1>4

(* A new active zone: the extent begins at its write pointer, where an empty *)
(* chain begins too.                                                         *)
LEMMA NewExtentInv ==
    ASSUME RecoveryInv, pc = "alloc", NEW z \in Zones, Capacity(z) > 0,
           active' = z, f' = NewExtent(z),
           UNCHANGED <<mode, dev, closing, buffer>>,
           \/ /\ meta' = Saved(NewExtent(z))
              /\ pc' = IF left = <<>> THEN "flushed" ELSE "write"
              /\ UNCHANGED <<op, left, failed, count>>
           \/ Fails /\ UNCHANGED meta
    PROVE  RecoveryInv'
<1>1. active = NoZone /\ z # NoZone
    BY Constants DEF RecoveryInv, CallInv
<1>2. /\ Wp(z) \in Nat /\ Wp(z) < ZoneCap /\ Wp(z) = Len(dev[z])
      /\ dev[z] \in Seq(Unit)
    BY WpRange, Constants DEF RecoveryInv, Capacity, Device, Wp
<1>3. /\ f' \in File /\ f'.extents = f.extents /\ f'.filepos = f'.size
      /\ f'.start = [z |-> z, off |-> Wp(z)] /\ f'.start.z = z /\ f'.start.off = Len(dev[z])
      /\ f'.start # NoExtent
    BY <1>1, <1>2 DEF RecoveryInv, Types, File, NewExtent, StartSet, NoExtent
<1>4. CASE /\ meta' = Saved(NewExtent(z))
           /\ pc' = IF left = <<>> THEN "flushed" ELSE "write"
           /\ UNCHANGED <<op, left, failed, count>>
  <2>1. meta' \in File /\ meta'.extents = f.extents /\ meta'.start = f'.start
      BY <1>3, <1>4, SavedFile
  <2>2. Types'
      BY <1>3, <1>4, <2>1 DEF RecoveryInv, Types, Pcs
  <2>3. Device' /\ \A y \in Zones : Wp(y)' = Wp(y)
      BY SameDevice DEF RecoveryInv
  <2>4. Written(dev, f.extents)' /\ Written(dev, meta.extents)'
      BY <1>3, <2>1 DEF RecoveryInv
  <2>5. MetaKept'
      BY <1>3, <2>1 DEF MetaKept
  <2>6. CallInv'
      BY <1>1, <1>4 DEF RecoveryInv, CallInv
  <2>7. ActiveInv'
    <3>1. Pending' = 0
        BY <1>3 DEF Pending, Types, RecoveryInv, File
    <3>2. Wp(active)' = Wp(z)
        BY DEF Wp
    <3> QED BY <1>2, <1>3, <3>1, <3>2 DEF ActiveInv, File
  <2>8. SparseInv'
    <3>1. Chained(dev[z], Len(dev[z]))
        BY <1>2, ChainHere
    <3>2. Held(dev', active', f'.extents, z)
        BY DEF Held
    <3> QED BY <1>3, <2>1, <3>1, <3>2 DEF SparseInv
  <2> QED BY <2>2, <2>3, <2>4, <2>5, <2>6, <2>7, <2>8 DEF RecoveryInv
<1>5. CASE Fails /\ UNCHANGED meta
  <2>1. /\ pc' = "idle" /\ op' = "none" /\ left' = <<>> /\ left' \in Seq(DataUnit)
        /\ count' \in [units : Nat, other : Nat, crashes : Nat, fails : Nat]
        /\ \E c \in Nat : Len(left') = B * c
      BY <1>5, FailsTypes
  <2>2. Types'
      BY <1>3, <1>5, <2>1 DEF RecoveryInv, Types, Pcs
  <2>3. Device' /\ \A y \in Zones : Wp(y)' = Wp(y)
      BY SameDevice DEF RecoveryInv
  <2>4. Written(dev, f.extents)' /\ Written(dev, meta.extents)'
      BY <1>3, <1>5 DEF RecoveryInv
  <2>5. MetaKept'
      BY <1>3, <1>5 DEF RecoveryInv, MetaKept
  <2>6. CallInv'
      BY <1>1, <2>1 DEF RecoveryInv, CallInv
  <2>7. ActiveInv'
    <3>1. Pending' = 0
        BY <1>3 DEF Pending, Types, RecoveryInv, File
    <3>2. Wp(active)' = Wp(z)
        BY DEF Wp
    <3> QED BY <1>2, <1>3, <3>1, <3>2 DEF ActiveInv, File
  <2>8. SparseInv'
    <3>1. Held(dev', active', f'.extents, z)
        BY DEF Held
    <3>2. ASSUME Sparse, meta.start # NoExtent
          PROVE  /\ Chained(dev[meta.start.z], meta.start.off)
                 /\ Held(dev, z, f.extents, meta.start.z)
      <4>1. meta.start.z \in Zones
          BY <3>2 DEF RecoveryInv, Types, File, StartSet
      <4>2. /\ Chained(dev[meta.start.z], meta.start.off)
            /\ Held(dev, NoZone, f.extents, meta.start.z)
          BY <1>1, <3>2 DEF RecoveryInv, SparseInv
      <4> QED BY <4>1, <4>2, HeldFull
    <3> QED BY <1>3, <1>5, <3>1, <3>2 DEF SparseInv, Sparse
  <2> QED BY <2>2, <2>3, <2>4, <2>5, <2>6, <2>7, <2>8 DEF RecoveryInv
<1> QED BY <1>4, <1>5

(* AllocateNewZone *)
LEMMA AllocateNewZoneInv ==
    ASSUME RecoveryInv, AllocateNewZone
    PROVE  RecoveryInv'
<1>1. pc = "alloc" /\ UNCHANGED <<mode, dev, closing, buffer>>
    BY DEF AllocateNewZone
<1>2. CASE Fails /\ UNCHANGED <<active, f, meta>>
  <2>1. /\ pc' = "idle" /\ op' = "none" /\ left' = <<>> /\ left' \in Seq(DataUnit)
        /\ count' \in [units : Nat, other : Nat, crashes : Nat, fails : Nat]
        /\ \E c \in Nat : Len(left') = B * c
      BY <1>2, FailsTypes
  <2>2. Types'
      BY <1>1, <1>2, <2>1 DEF RecoveryInv, Types, Pcs
  <2>3. CallInv'
      BY <1>1, <2>1 DEF RecoveryInv, CallInv
  <2>4. active = NoZone
      BY <1>1 DEF RecoveryInv, CallInv
  <2> QED BY <1>1, <1>2, <2>1, <2>2, <2>3, <2>4, SameFile
<1>3. CASE \E z \in Zones :
             /\ Capacity(z) > 0
             /\ active' = z
             /\ f' = NewExtent(z)
             /\ \/ /\ PersistNewExtent(NewExtent(z))
                   /\ pc' = IF left = <<>> THEN "flushed" ELSE "write"
                   /\ UNCHANGED <<op, left, failed, count>>
                \/ "persist" \in Faults /\ Fails /\ UNCHANGED meta
  <2>1. PICK z \in Zones :
             /\ Capacity(z) > 0
             /\ active' = z
             /\ f' = NewExtent(z)
             /\ \/ /\ meta' = Saved(NewExtent(z))
                   /\ pc' = IF left = <<>> THEN "flushed" ELSE "write"
                   /\ UNCHANGED <<op, left, failed, count>>
                \/ Fails /\ UNCHANGED meta
      BY <1>3 DEF PersistNewExtent, Persist
  <2> QED BY <1>1, <2>1, NewExtentInv
<1> QED BY <1>2, <1>3 DEF AllocateNewZone

(* PushExtent of a direct writer turns what was written into an extent. *)
LEMMA PushedFile ==
    ASSUME RecoveryInv, mode = "direct"
    PROVE  /\ Pushed(f) \in File
           /\ Written(dev, Pushed(f).extents)
           /\ \A i \in 1 .. Len(f.extents) :
                \E j \in 1 .. Len(Pushed(f).extents) :
                  Pushed(f).extents[j].z = f.extents[i].z
           /\ active # NoZone => Pushed(f).filepos = Pushed(f).size
           /\ active # NoZone /\ f.start = NoExtent => Pushed(f).start = NoExtent
           /\ active # NoZone /\ f.start # NoExtent =>
                /\ Pushed(f).start # NoExtent
                /\ Pushed(f).start.z = active /\ Pushed(f).start.off <= Wp(active)
<1>0. f \in File /\ Written(dev, f.extents) /\ f.extents \in Seq(ExtentSet)
    BY DEF RecoveryInv, Types, File
<1>1. CASE active = NoZone
    BY <1>0, <1>1 DEF Pushed
<1>2. CASE active # NoZone /\ f.size = f.filepos
  <2>1. Pushed(f) = f
      BY <1>2 DEF Pushed
  <2>2. Pending = 0
      BY <1>0, <1>2 DEF Pending, File
  <2>3. f.start # NoExtent => f.start.z = active /\ f.start.off <= Wp(active)
      BY <1>0, <1>2, <2>2 DEF RecoveryInv, ActiveInv, File, StartSet
  <2> QED BY <1>0, <1>2, <2>1, <2>3
<1>3. CASE active # NoZone /\ f.size # f.filepos
  <2> DEFINE e == [z |-> f.start.z, off |-> f.start.off, len |-> f.size - f.filepos]
  <2>1. f.filepos <= f.size /\ f.filepos \in Nat /\ f.size \in Nat
      BY <1>0, <1>3 DEF RecoveryInv, ActiveInv, File
  <2>2. Pending = f.size - f.filepos /\ Pending # 0
      BY <1>3, <2>1 DEF Pending
  <2>3. f.start # NoExtent /\ f.start.z = active /\ f.start.off + Pending <= Wp(active)
      BY <1>3, <2>2 DEF RecoveryInv, ActiveInv
  <2>4. active \in Zones /\ f.start.off \in Nat /\ Wp(active) \in Nat
      BY <1>0, <1>3, <2>3, WpRange DEF RecoveryInv, Types, File, StartSet
  <2>5. e \in ExtentSet /\ e.off + e.len <= Len(dev[e.z])
      BY <2>1, <2>2, <2>3, <2>4 DEF ExtentSet, Wp
  <2> HIDE DEF e
  <2>6. Written(dev, Append(f.extents, e))
      BY <1>0, <2>5, WrittenAppend
  <2>7. /\ Append(f.extents, e) \in Seq(ExtentSet)
        /\ \A i \in 1 .. Len(f.extents) :
             \E j \in 1 .. Len(Append(f.extents, e)) : Append(f.extents, e)[j].z = f.extents[i].z
    <3>1. Len(Append(f.extents, e)) = Len(f.extents) + 1 /\ Len(f.extents) \in Nat
        BY <1>0, <2>5
    <3>2. \A i \in 1 .. Len(f.extents) : Append(f.extents, e)[i] = f.extents[i]
        BY <1>0, <2>5
    <3>3. \A i \in 1 .. Len(f.extents) : i \in 1 .. Len(Append(f.extents, e))
        BY <3>1
    <3>4. Append(f.extents, e) \in Seq(ExtentSet)
        BY <1>0, <2>5
    <3> QED BY <3>2, <3>3, <3>4
  <2>8. Pushed(f) = [f EXCEPT !.extents = Append(f.extents, e),
                              !.start = [z |-> active, off |-> Wp(active)],
                              !.filepos = f.size]
      BY <1>3, Zenon DEF Pushed, e
  <2>9. [z |-> active, off |-> Wp(active)] \in StartSet \ {NoExtent}
      BY <1>3, <2>4 DEF StartSet, NoExtent
  <2>10. Pushed(f) \in File
      BY <1>0, <2>1, <2>7, <2>8, <2>9 DEF File
  <2>11. /\ Pushed(f).extents = Append(f.extents, e)
         /\ Pushed(f).start = [z |-> active, off |-> Wp(active)]
         /\ Pushed(f).filepos = f.size /\ Pushed(f).size = f.size
      BY <1>0, <2>8 DEF File
  <2>12. Pushed(f).start # NoExtent /\ Pushed(f).start.z = active
         /\ Pushed(f).start.off <= Wp(active)
      BY <2>4, <2>9, <2>11
  <2> QED BY <1>3, <2>3, <2>6, <2>7, <2>10, <2>11, <2>12
<1> QED BY <1>1, <1>2, <1>3

(* A direct writer closes a full zone. *)
LEMMA DirectFullInv ==
    ASSUME RecoveryInv, DirectFull
    PROVE  RecoveryInv'
<1>1. /\ pc = "write" /\ mode = "direct" /\ f' = Pushed(f) /\ active' = NoZone
      /\ pc' = "alloc"
      /\ UNCHANGED <<mode, dev, meta, closing, buffer, op, left, count>>
    BY DEF DirectFull
<1>2. /\ f' \in File /\ Written(dev, f'.extents)
      /\ \A i \in 1 .. Len(f.extents) :
           \E j \in 1 .. Len(f'.extents) : f'.extents[j].z = f.extents[i].z
    BY <1>1, PushedFile
<1>3. Types'
    BY <1>1, <1>2 DEF RecoveryInv, Types, Pcs
<1>4. Device'
    BY <1>1, SameDevice DEF RecoveryInv
<1>5. Written(dev, f.extents)' /\ Written(dev, meta.extents)'
    BY <1>1, <1>2 DEF RecoveryInv
<1>6. MetaKept'
  <2>1. \A i \in 1 .. Len(meta.extents) :
          \E j \in 1 .. Len(f.extents) : f.extents[j].z = meta.extents[i].z
      BY <1>1 DEF RecoveryInv, MetaKept
  <2> QED BY <1>1, <1>2, <2>1 DEF MetaKept
<1>7. CallInv'
    BY <1>1 DEF RecoveryInv, CallInv
<1>8. ActiveInv' /\ SparseInv'
    BY <1>1 DEF ActiveInv, SparseInv, Sparse
<1> QED BY <1>3, <1>4, <1>5, <1>6, <1>7, <1>8 DEF RecoveryInv

(* The rest of DataSync. *)
LEMMA DataSyncEndsInv ==
    ASSUME RecoveryInv, DataSyncEnds
    PROVE  RecoveryInv'
<1>1. /\ pc = "flushed" /\ op # "append" /\ buffer' = <<>>
      /\ f' = (IF mode = "direct" THEN Pushed(f) ELSE f)
      /\ UNCHANGED <<mode, dev, active, closing>>
    BY DEF DataSyncEnds
<1>2. op \in {"sync", "fsync", "close"} /\ (op = "close" => closing)
      /\ (closing => op = "close")
    BY <1>1 DEF RecoveryInv, CallInv
<1>3. /\ meta' = (IF mode = "buffered" THEN Saved(f) ELSE meta) \/ meta' = meta
      /\ \/ /\ pc' = "idle" /\ op' = "none" /\ left' = left /\ count' = count
         \/ /\ pc' = AfterData /\ AfterData # "idle"
            /\ op' = op /\ left' = left /\ count' = count
         \/ Fails
    BY <1>1 DEF DataSyncEnds, DataSyncPersists, Acknowledged, Returns, Persist
<1>4. AfterData \in {"idle", "persist", "close"} /\ (AfterData = "close" => op = "close")
    BY <1>2 DEF AfterData
<1>5. /\ pc' \in {"idle", "persist", "close"} /\ (pc' = "close" => closing)
      /\ op' = op \/ op' = "none"
      /\ left' \in Seq(DataUnit)
      /\ count' \in [units : Nat, other : Nat, crashes : Nat, fails : Nat]
      /\ mode = "direct" => \E c \in Nat : Len(left') = B * c
  <2>1. CASE Fails
      BY <2>1, FailsTypes
  <2>2. CASE ~Fails
      BY <1>2, <1>3, <1>4, <2>2 DEF RecoveryInv, Types, CallInv
  <2> QED BY <2>1, <2>2
<1>6. /\ f' \in File /\ Written(dev, f'.extents)
      /\ \A i \in 1 .. Len(f.extents) :
           \E j \in 1 .. Len(f'.extents) : f'.extents[j].z = f.extents[i].z
  <2>1. CASE mode = "direct"
      BY <1>1, <2>1, PushedFile
  <2>2. CASE mode # "direct"
      BY <1>1, <2>2 DEF RecoveryInv, Types
  <2> QED BY <2>1, <2>2
<1>7. /\ meta' \in File
      /\ meta' = meta \/ (mode = "buffered" /\ f' = f /\ meta'.extents = f.extents)
  <2>1. f \in File /\ meta \in File
      BY DEF RecoveryInv, Types
  <2>2. Saved(f) \in File /\ Saved(f).extents = f.extents
      BY <2>1, SavedFile
  <2> QED BY <1>1, <1>3, <2>1, <2>2
<1>8. Types'
    BY <1>1, <1>5, <1>6, <1>7 DEF RecoveryInv, Types, Pcs
<1>9. Device' /\ \A z \in Zones : Wp(z)' = Wp(z)
    BY <1>1, SameDevice DEF RecoveryInv
<1>10. Written(dev, f.extents)' /\ Written(dev, meta.extents)'
    BY <1>1, <1>6, <1>7 DEF RecoveryInv
<1>11. MetaKept'
  <2>1. \A i \in 1 .. Len(meta.extents) :
          \E j \in 1 .. Len(f.extents) : f.extents[j].z = meta.extents[i].z
      BY <1>1 DEF RecoveryInv, MetaKept
  <2>2. CASE meta' = meta
      BY <1>6, <2>1, <2>2 DEF MetaKept
  <2>3. CASE f' = f /\ meta'.extents = f.extents
      BY <2>3 DEF MetaKept
  <2> QED BY <1>7, <2>2, <2>3
<1>12. active # NoZone => Pending' = 0 /\ f'.filepos <= f'.size
  <2> SUFFICES ASSUME active # NoZone PROVE Pending' = 0 /\ f'.filepos <= f'.size
      OBVIOUS
  <2>1. CASE mode = "direct"
    <3>1. f'.filepos = f'.size
        BY <1>1, <2>1, PushedFile
    <3> QED BY <1>6, <3>1 DEF Pending, File
  <2>2. CASE mode # "direct"
      BY <1>1, <2>2 DEF Pending, RecoveryInv, ActiveInv
  <2> QED BY <2>1, <2>2
<1>13. CallInv'
    BY <1>1, <1>2, <1>5, <1>12 DEF RecoveryInv, CallInv
<1>14. ActiveInv'
  <2> SUFFICES ASSUME active # NoZone
               PROVE  /\ mode # "direct" => Wp(active)' < ZoneCap
                      /\ f'.start = NoExtent => closing
                      /\ f'.start # NoExtent =>
                           f'.start.z = active /\ f'.start.off <= Wp(active)'
    <3>1. f'.start # NoExtent => f'.start.off \in Nat
        BY <1>6 DEF File, StartSet
    <3> QED BY <1>1, <1>5, <1>12, <3>1 DEF ActiveInv
  <2>1. active \in Zones /\ Wp(active)' = Wp(active)
      BY <1>1, <1>9 DEF RecoveryInv, Types, Wp
  <2>2. CASE mode = "direct"
      BY <1>1, <2>1, <2>2, PushedFile DEF RecoveryInv, ActiveInv
  <2>3. CASE mode # "direct"
    <3>1. Pending = 0
        BY <2>3 DEF Pending
    <3>2. f.start # NoExtent => f.start.off \in Nat
        BY DEF RecoveryInv, Types, File, StartSet
    <3> QED BY <1>1, <2>1, <2>3, <3>1, <3>2 DEF RecoveryInv, ActiveInv
  <2> QED BY <2>2, <2>3
<1>15. SparseInv'
  <2> SUFFICES ASSUME Sparse PROVE SparseInv'
      BY <1>1 DEF SparseInv, Sparse
  <2>1. f' = f /\ meta' = meta
      BY <1>1, <1>7 DEF Sparse
  <2> QED BY <1>1, <2>1 DEF RecoveryInv, SparseInv, Sparse
<1> QED BY <1>8, <1>9, <1>10, <1>11, <1>13, <1>14, <1>15 DEF RecoveryInv

(* Fsync persists the metadata, whose active extent begins at the write pointer. *)
LEMMA FsyncPersistsInv ==
    ASSUME RecoveryInv, FsyncPersists
    PROVE  RecoveryInv'
<1>1. pc = "persist" /\ UNCHANGED <<mode, dev, f, active, closing, buffer>>
    BY DEF FsyncPersists
<1>2. CASE Fails /\ UNCHANGED meta
  <2>1. /\ pc' = "idle" /\ op' = "none" /\ left' = <<>> /\ left' \in Seq(DataUnit)
        /\ count' \in [units : Nat, other : Nat, crashes : Nat, fails : Nat]
        /\ \E c \in Nat : Len(left') = B * c
      BY <1>2, FailsTypes
  <2>2. Types'
      BY <1>1, <1>2, <2>1 DEF RecoveryInv, Types, Pcs
  <2>3. CallInv'
      BY <1>1, <2>1 DEF RecoveryInv, CallInv
  <2>4. active # NoZone /\ f.start = NoExtent => closing' /\ buffer' = <<>>
      BY <1>1 DEF RecoveryInv, ActiveInv
  <2> QED BY <1>1, <1>2, <2>1, <2>2, <2>3, <2>4, SameFile
<1>3. CASE Persist(f) /\ Returns /\ UNCHANGED left
  <2>1. pc' = "idle" /\ op' = "none" /\ left' = left /\ count' = count /\ meta' = Saved(f)
      BY <1>3 DEF Returns, Persist
  <2>2. meta' \in File /\ meta'.extents = f.extents /\ meta'.start = f.start
      BY <2>1, SavedFile DEF RecoveryInv, Types
  <2>3. Types'
      BY <1>1, <2>1, <2>2 DEF RecoveryInv, Types, Pcs
  <2>4. Device' /\ \A z \in Zones : Wp(z)' = Wp(z)
      BY <1>1, SameDevice DEF RecoveryInv
  <2>5. Written(dev, f.extents)' /\ Written(dev, meta.extents)'
      BY <1>1, <2>2 DEF RecoveryInv
  <2>6. MetaKept'
      BY <1>1, <2>2 DEF MetaKept
  <2>7. CallInv'
      BY <1>1, <2>1 DEF RecoveryInv, CallInv
  <2>8. ActiveInv'
    <3>1. active # NoZone => Wp(active)' = Wp(active)
        BY <1>1 DEF Wp
    <3>2. Pending' = Pending
        BY <1>1 DEF Pending
    <3> QED BY <1>1, <2>1, <3>1, <3>2 DEF RecoveryInv, ActiveInv
  <2>9. SparseInv'
    <3> SUFFICES ASSUME Sparse, f.start # NoExtent
                 PROVE  /\ f.start.off = Len(dev[f.start.z])
                        /\ Held(dev, active, f.extents, f.start.z)
                        /\ Chained(dev[f.start.z], f.start.off)
        BY <1>1, <2>1, <2>2 DEF SparseInv, Sparse
    <3>1. /\ f.start.off = Len(dev[f.start.z])
          /\ Held(dev, active, f.extents, f.start.z)
        BY <1>1 DEF RecoveryInv, SparseInv
    <3>2. dev[f.start.z] \in Seq(Unit)
        BY DEF RecoveryInv, Types, File, StartSet, Device
    <3> QED BY <3>1, <3>2, ChainHere
  <2> QED BY <2>3, <2>4, <2>5, <2>6, <2>7, <2>8, <2>9 DEF RecoveryInv
<1> QED BY <1>2, <1>3 DEF FsyncPersists

(* CloseWR leaves no active extent; if it fails, the file stays closing with *)
(* an active zone and an empty buffer, so that nothing is written to it.     *)
LEMMA CloseWRInv ==
    ASSUME RecoveryInv, CloseWR
    PROVE  RecoveryInv'
<1>1. /\ pc = "close" /\ UNCHANGED <<mode, dev, buffer>>
      /\ f' = [f EXCEPT !.start = NoExtent]
    BY DEF CloseWR
<1>2. /\ f' \in File /\ f'.extents = f.extents /\ f'.start = NoExtent
      /\ f'.size = f.size /\ f'.filepos = f.filepos
    BY <1>1 DEF RecoveryInv, Types, File, StartSet
<1>3. Device' /\ \A z \in Zones : Wp(z)' = Wp(z)
    BY <1>1, SameDevice DEF RecoveryInv
<1>4. closing /\ buffer = <<>> /\ (active # NoZone => Pending = 0)
    BY <1>1 DEF RecoveryInv, CallInv
<1>5. CASE /\ Persist(f') /\ Returns /\ active' = NoZone /\ closing' = FALSE
           /\ UNCHANGED left
  <2>1. pc' = "idle" /\ op' = "none" /\ left' = left /\ count' = count /\ meta' = Saved(f')
      BY <1>5 DEF Returns, Persist
  <2>2. meta' \in File /\ meta'.extents = f.extents /\ meta'.start = NoExtent
      BY <1>2, <2>1, SavedFile
  <2>3. Types'
      BY <1>1, <1>2, <1>5, <2>1, <2>2 DEF RecoveryInv, Types, Pcs
  <2>4. Written(dev, f.extents)' /\ Written(dev, meta.extents)'
      BY <1>1, <1>2, <2>2 DEF RecoveryInv
  <2>5. MetaKept'
      BY <1>2, <2>2 DEF MetaKept
  <2>6. CallInv'
      BY <1>1, <1>5, <2>1 DEF RecoveryInv, CallInv
  <2>7. ActiveInv' /\ SparseInv'
      BY <1>2, <1>5, <2>2 DEF ActiveInv, SparseInv
  <2> QED BY <1>3, <2>3, <2>4, <2>5, <2>6, <2>7 DEF RecoveryInv
<1>6. CASE Fails /\ UNCHANGED <<meta, synced, active, open, closing>>
  <2>1. /\ pc' = "idle" /\ op' = "none" /\ left' = <<>> /\ left' \in Seq(DataUnit)
        /\ count' \in [units : Nat, other : Nat, crashes : Nat, fails : Nat]
        /\ \E c \in Nat : Len(left') = B * c
      BY <1>6, FailsTypes
  <2>2. Types'
      BY <1>1, <1>2, <1>6, <2>1 DEF RecoveryInv, Types, Pcs
  <2>3. Written(dev, f.extents)' /\ Written(dev, meta.extents)'
      BY <1>1, <1>2, <1>6 DEF RecoveryInv
  <2>4. MetaKept'
      BY <1>1, <1>2, <1>6 DEF RecoveryInv, MetaKept
  <2>5. CallInv'
      BY <1>1, <1>6, <2>1 DEF RecoveryInv, CallInv
  <2>6. ActiveInv'
    <3>1. active # NoZone => Wp(active)' = Wp(active)
        BY <1>1, <1>6 DEF Wp
    <3>2. Pending' = Pending
        BY <1>1, <1>2 DEF Pending
    <3> QED BY <1>1, <1>2, <1>4, <1>6, <2>1, <3>1, <3>2 DEF RecoveryInv, ActiveInv
  <2>7. SparseInv'
      BY <1>1, <1>2, <1>6 DEF RecoveryInv, SparseInv, Sparse
  <2> QED BY <1>3, <2>2, <2>3, <2>4, <2>5, <2>6, <2>7 DEF RecoveryInv
<1> QED BY <1>5, <1>6 DEF CloseWR

-----------------------------------------------------------------------------
(* Steps that write to the device.                                         *)

(* What lies below a write pointer still does after a write. *)
LEMMA GrownFiles ==
    ASSUME Device, NEW z \in Zones, NEW s \in Seq(Unit), NEW c \in Nat,
           Len(s) = B * c, Wp(z) + Len(s) <= ZoneCap,
           dev' = [dev EXCEPT ![z] = @ \o s]
    PROVE  /\ Device'
           /\ Len(dev'[z]) = Len(dev[z]) + Len(s)
           /\ dev'[z] = dev[z] \o s
           /\ \A y \in Zones : y # z => dev'[y] = dev[y]
           /\ \A es \in Seq(ExtentSet) : Written(dev, es) => Written(dev', es)
<1>1. /\ Device'
      /\ Wp(z)' = Wp(z) + Len(s)
      /\ \A y \in Zones : Wp(y)' >= Wp(y)
    BY Grown
<1>2. dev'[z] = dev[z] \o s /\ \A y \in Zones : y # z => dev'[y] = dev[y]
    BY DEF Device
<1>3. Len(dev'[z]) = Len(dev[z]) + Len(s) /\ \A y \in Zones : Len(dev'[y]) >= Len(dev[y])
    BY <1>1 DEF Wp
<1>4. \A y \in Zones : Len(dev'[y]) \in Nat /\ Len(dev[y]) \in Nat
    BY <1>1 DEF Device
<1>5. ASSUME NEW es \in Seq(ExtentSet), Written(dev, es) PROVE Written(dev', es)
  <2> SUFFICES ASSUME NEW i \in 1 .. Len(es)
               PROVE  es[i].off + es[i].len <= Len(dev'[es[i].z])
      BY DEF Written
  <2>1. es[i] \in ExtentSet
      OBVIOUS
  <2>2. es[i].z \in Zones /\ es[i].off + es[i].len \in Nat
      BY <2>1 DEF ExtentSet
  <2>3. es[i].off + es[i].len <= Len(dev[es[i].z])
      BY <1>5 DEF Written
  <2>4. Len(dev'[es[i].z]) >= Len(dev[es[i].z])
      BY <1>3, <2>2
  <2> QED BY <1>4, <2>2, <2>3, <2>4
<1> QED BY <1>1, <1>2, <1>3, <1>5

(* BufferedAppend and SparseAppend: the chain of sparse extents gets longer. *)
LEMMA AppendPieceInv ==
    ASSUME RecoveryInv, AppendPiece
    PROVE  RecoveryInv'
<1> DEFINE units == PieceUnits
           n == PieceLen
           wp == Wp(active) + Len(units)
           rest == SubSeq(left, n + 1, Len(left))
           e == PieceExtent
<1>1. /\ pc = "write" /\ mode # "direct"
      /\ dev' = [dev EXCEPT ![active] = @ \o units]
      /\ f' = [f EXCEPT !.extents = Append(@, e),
                        !.start = [z |-> active, off |-> wp],
                        !.size = @ + n]
      /\ left' = rest
      /\ buffer' = rest \o SubSeq(buffer, Len(rest) + 1, Len(buffer))
      /\ active' = IF wp = ZoneCap THEN NoZone ELSE active
      /\ pc' = IF wp = ZoneCap THEN "alloc" ELSE "flushed"
      /\ UNCHANGED <<mode, meta, closing, op, count>>
    BY DEF AppendPiece
<1>2. active \in Zones /\ active # NoZone /\ left # <<>> /\ Wp(active) < ZoneCap
    BY <1>1 DEF RecoveryInv, CallInv, Types, ActiveInv
<1>3. /\ f.start # NoExtent /\ f.start.z = active /\ f.start.off \in Nat
      /\ f.start.off <= Wp(active) /\ f.filepos <= f.size
  <2>1. Pending = 0
      BY <1>1 DEF Pending
  <2>2. f.start # NoExtent /\ f.start.z = active /\ f.start.off + 0 <= Wp(active)
        /\ f.filepos <= f.size
      BY <1>1, <1>2, <2>1 DEF RecoveryInv, ActiveInv
  <2>3. f.start.off \in Nat
      BY <2>2 DEF RecoveryInv, Types, File, StartSet
  <2> QED BY <2>2, <2>3
<1>4. /\ units \in Seq(Unit)
      /\ Len(units) = B * Blocks(n + Reserved)
      /\ n + Reserved <= Len(units)
      /\ wp <= ZoneCap
      /\ Sparse => units[1] = Header(n)
    BY <1>2, Piece DEF RecoveryInv
<1>5. n \in Nat /\ n >= 1 /\ n <= Len(left) /\ Reserved \in {0, 1}
    BY <1>2, PieceLength DEF RecoveryInv
<1>6. Wp(active) \in Nat /\ Len(units) \in Nat /\ Blocks(n + Reserved) \in Nat
      /\ Wp(active) = Len(dev[active])
  <2>1. n + Reserved \in Nat
      BY <1>5
  <2> QED BY <1>2, <1>4, <2>1, RoundUp, WpRange DEF RecoveryInv, Wp
<1> HIDE DEF units, n
<1>7. /\ Device'
      /\ Len(dev'[active]) = wp
      /\ dev'[active] = dev[active] \o units
      /\ \A y \in Zones : y # active => dev'[y] = dev[y]
      /\ \A es \in Seq(ExtentSet) : Written(dev, es) => Written(dev', es)
  <2> DEFINE c == Blocks(n + Reserved)
  <2>1. c \in Nat /\ Len(units) = B * c /\ Device
      BY <1>4, <1>6 DEF RecoveryInv
  <2> HIDE DEF c
  <2>2. Wp(active) + Len(units) <= ZoneCap /\ dev' = [dev EXCEPT ![active] = @ \o units]
      BY <1>1, <1>4
  <2> QED BY <1>2, <1>4, <1>6, <2>1, <2>2, GrownFiles
<1>8. wp \in Nat
    BY <1>6
<1>9. e = [z |-> active, off |-> f.start.off + Reserved, len |-> n]
    BY <1>3 DEF PieceExtent, n
<1>10. e \in ExtentSet /\ e.z = active /\ e.off + e.len <= Len(dev'[e.z])
  <2>1. f.start.off + Reserved \in Nat
      BY <1>3, <1>5
  <2>2. e \in ExtentSet
      BY <1>2, <1>5, <1>9, <2>1 DEF ExtentSet
  <2>3. (f.start.off + Reserved) + n <= Wp(active) + Len(units)
      BY <1>3, <1>4, <1>5, <1>6
  <2> QED BY <1>7, <1>9, <2>2, <2>3
<1> HIDE DEF e, wp
<1>11. /\ f.extents \in Seq(ExtentSet) /\ Written(dev, f.extents)
       /\ meta.extents \in Seq(ExtentSet) /\ Written(dev, meta.extents)
    BY DEF RecoveryInv, Types, File
<1>12. /\ Append(f.extents, e) \in Seq(ExtentSet)
       /\ Written(dev', Append(f.extents, e))
       /\ Len(Append(f.extents, e)) = Len(f.extents) + 1
       /\ Append(f.extents, e)[Len(f.extents) + 1] = e
       /\ \A i \in 1 .. Len(f.extents) : Append(f.extents, e)[i] = f.extents[i]
       /\ Len(f.extents) \in Nat
  <2>1. Written(dev', Append(f.extents, e))
      BY <1>7, <1>10, <1>11, WrittenAppend
  <2> QED BY <1>10, <1>11, <2>1
<1>13. /\ f' \in File /\ f'.extents = Append(f.extents, e)
       /\ f'.start = [z |-> active, off |-> wp] /\ f'.start # NoExtent
       /\ f'.start.z = active /\ f'.start.off = wp
       /\ f'.filepos = f.filepos /\ f'.size = f.size + n
  <2>1. f \in File
      BY DEF RecoveryInv, Types
  <2>2. [z |-> active, off |-> wp] \in StartSet \ {NoExtent}
      BY <1>2, <1>8 DEF StartSet, NoExtent
  <2>3. f.size + n \in Nat
      BY <1>5, <2>1 DEF File
  <2> QED BY <1>1, <1>12, <2>1, <2>2, <2>3 DEF File
<1>14. rest \in Seq(DataUnit)
    BY <1>5 DEF RecoveryInv, Types
<1>15. buffer' \in Seq(DataUnit)
  <2> HIDE DEF rest
  <2>1. buffer \in Seq(DataUnit) /\ Len(rest) + 1 \in Nat /\ Len(rest) + 1 >= 1
      BY <1>14 DEF RecoveryInv, Types
  <2>2. SubSeq(buffer, Len(rest) + 1, Len(buffer)) \in Seq(DataUnit)
      BY <2>1
  <2> QED BY <1>1, <1>14, <2>2
<1>16. Types'
    BY <1>1, <1>2, <1>13, <1>14, <1>15 DEF RecoveryInv, Types, Pcs
<1>17. Written(dev, f.extents)' /\ Written(dev, meta.extents)'
    BY <1>1, <1>7, <1>11, <1>12, <1>13
<1>18. MetaKept'
  <2>1. \A i \in 1 .. Len(meta.extents) :
          \E j \in 1 .. Len(f.extents) : f.extents[j].z = meta.extents[i].z
      BY <1>1 DEF RecoveryInv, MetaKept
  <2>2. \A j \in 1 .. Len(f.extents) :
          j \in 1 .. Len(f'.extents) /\ f'.extents[j] = f.extents[j]
      BY <1>12, <1>13
  <2> QED BY <1>1, <2>1, <2>2 DEF MetaKept
<1>19. CallInv'
    BY <1>1 DEF RecoveryInv, CallInv
<1>20. ActiveInv'
  <2> SUFFICES ASSUME active' # NoZone PROVE ActiveInv'
      BY DEF ActiveInv
  <2>1. active' = active /\ wp # ZoneCap
      BY <1>1
  <2>2. Wp(active)' = wp /\ wp < ZoneCap
      BY <2>1, <1>4, <1>7, <1>8, Constants DEF Wp, wp
  <2>3. Pending' = 0
      BY <1>1 DEF Pending
  <2>4. f'.filepos <= f'.size
    <3>1. f.filepos \in Nat /\ f.size \in Nat
        BY DEF RecoveryInv, Types, File
    <3> QED BY <1>3, <1>5, <1>13, <3>1
  <2> QED BY <1>1, <1>8, <1>13, <2>1, <2>2, <2>3, <2>4 DEF ActiveInv
<1>21. Held(dev', active', f'.extents, active)
  <2>1. CASE wp # ZoneCap
      BY <1>1, <2>1 DEF Held
  <2>2. CASE wp = ZoneCap
    <3>1. /\ Len(f.extents) + 1 \in 1 .. Len(f'.extents)
          /\ f'.extents[Len(f.extents) + 1].z = active
        BY <1>10, <1>12, <1>13
    <3>2. \E i \in 1 .. Len(f'.extents) : f'.extents[i].z = active
        BY <3>1
    <3> QED BY <2>2, <1>7, <3>2 DEF Held
  <2> QED BY <2>1, <2>2
<1>22. SparseInv'
  <2> SUFFICES ASSUME Sparse PROVE SparseInv'
      BY <1>1 DEF SparseInv, Sparse
  <2>1. ASSUME meta.start # NoExtent
        PROVE  /\ Chained(dev'[meta.start.z], meta.start.off)
               /\ Held(dev', active', f'.extents, meta.start.z)
    <3>1. meta.start.z \in Zones
        BY <2>1 DEF RecoveryInv, Types, File, StartSet
    <3>2. /\ Chained(dev[meta.start.z], meta.start.off)
          /\ Held(dev, active, f.extents, meta.start.z)
        BY <1>1, <2>1 DEF RecoveryInv, SparseInv
    <3>3. CASE meta.start.z # active
      <4>1. dev'[meta.start.z] = dev[meta.start.z]
          BY <1>7, <3>1, <3>3
      <4>2. /\ Len(dev[meta.start.z]) = ZoneCap
            /\ \E i \in 1 .. Len(f.extents) : f.extents[i].z = meta.start.z
          BY <3>2, <3>3 DEF Held
      <4>3. \E i \in 1 .. Len(f'.extents) : f'.extents[i].z = meta.start.z
        <5>1. PICK i \in 1 .. Len(f.extents) : f.extents[i].z = meta.start.z
            BY <4>2
        <5>2. i \in 1 .. Len(f'.extents) /\ f'.extents[i] = f.extents[i]
            BY <1>12, <1>13
        <5> QED BY <5>1, <5>2
      <4> QED BY <3>2, <4>1, <4>2, <4>3 DEF Held
    <3>4. CASE meta.start.z = active
      <4>1. Chained(dev[active], meta.start.off) /\ dev[active] \in Seq(Unit)
          BY <1>2, <3>2, <3>4 DEF RecoveryInv, Device
      <4>2. units[1].k = "len" /\ units[1].v = n /\ Reserved = HeaderSize
          BY <1>4 DEF Header, Reserved
      <4>3. units # <<>>
          BY <1>4, <1>5, <1>6
      <4>4. Chained(dev[active] \o units, meta.start.off)
          BY <1>4, <4>1, <4>2, <4>3, ChainLonger
      <4> QED BY <1>7, <1>21, <3>4, <4>4
    <3> QED BY <3>3, <3>4
  <2> QED BY <1>1, <1>7, <1>13, <1>21, <2>1 DEF SparseInv
<1> QED BY <1>7, <1>16, <1>17, <1>18, <1>19, <1>20, <1>22 DEF RecoveryInv

(* What is written at the write pointer counts on both sides.              *)
LEMMA BothGrow ==
    ASSUME NEW off \in Nat, NEW size \in Nat, NEW pos \in Nat, NEW wp \in Nat,
           NEW k \in Nat, off + (size - pos) <= wp
    PROVE  off + ((size + k) - pos) <= wp + k
  OBVIOUS

(* ZoneFile::Append writes to the active zone. *)
LEMMA DirectWriteInv ==
    ASSUME RecoveryInv, DirectWrite
    PROVE  RecoveryInv'
<1> DEFINE n == DirectLen
           units == First(left, n)
<1>1. /\ pc = "write" /\ mode = "direct" /\ Capacity(active) > 0
      /\ dev' = [dev EXCEPT ![active] = @ \o units]
      /\ f' = [f EXCEPT !.size = @ + n]
      /\ left' = SubSeq(left, n + 1, Len(left))
      /\ pc' = IF left' = <<>> THEN "flushed" ELSE "write"
      /\ UNCHANGED <<mode, meta, active, closing, buffer, op, count>>
    BY DEF DirectWrite
<1>2. active \in Zones /\ active # NoZone /\ left # <<>>
    BY <1>1 DEF RecoveryInv, CallInv, Types
<1>3. Wp(active) \in Nat /\ Wp(active) < ZoneCap /\ Wp(active) = Len(dev[active])
    BY <1>1, <1>2, WpRange, Constants DEF RecoveryInv, Capacity, Wp
<1>4. /\ f.start # NoExtent /\ f.start.z = active /\ f.start.off \in Nat
      /\ f.start.off + (f.size - f.filepos) <= Wp(active) /\ f.filepos <= f.size
  <2>1. f.start # NoExtent /\ f.start.z = active /\ f.start.off + Pending <= Wp(active)
        /\ f.filepos <= f.size
      BY <1>1, <1>2 DEF RecoveryInv, ActiveInv
  <2>2. f.start.off \in Nat
      BY <2>1 DEF RecoveryInv, Types, File, StartSet
  <2> QED BY <1>1, <2>1, <2>2 DEF Pending
<1>5. \E c \in Nat : Len(left) = B * c
    BY <1>1 DEF RecoveryInv, CallInv
<1>6. /\ n \in Nat /\ n >= 1 /\ n <= Len(left)
      /\ \E c \in Nat : n = B * c
      /\ \E c \in Nat : Len(left) - n = B * c
      /\ Wp(active) + n <= ZoneCap
      /\ units \in Seq(Unit) /\ Len(units) = n
    BY <1>2, <1>3, <1>5, Direct DEF RecoveryInv
<1> HIDE DEF units, n
<1>7. /\ Device'
      /\ Len(dev'[active]) = Len(dev[active]) + n
      /\ \A y \in Zones : y # active => dev'[y] = dev[y]
      /\ \A es \in Seq(ExtentSet) : Written(dev, es) => Written(dev', es)
  <2>1. PICK c \in Nat : n = B * c
      BY <1>6
  <2>2. Device /\ Len(units) = B * c /\ Wp(active) + Len(units) <= ZoneCap
      BY <1>6, <2>1 DEF RecoveryInv
  <2>3. /\ Device'
        /\ Len(dev'[active]) = Len(dev[active]) + Len(units)
        /\ \A y \in Zones : y # active => dev'[y] = dev[y]
        /\ \A es \in Seq(ExtentSet) : Written(dev, es) => Written(dev', es)
      BY <1>1, <1>2, <1>6, <2>2, GrownFiles
  <2> QED BY <1>6, <2>3
<1>8. /\ f \in File /\ f.size \in Nat /\ f.filepos \in Nat
      /\ f.extents \in Seq(ExtentSet) /\ Written(dev, f.extents)
      /\ meta.extents \in Seq(ExtentSet) /\ Written(dev, meta.extents)
    BY DEF RecoveryInv, Types, File
<1>9. /\ f' \in File /\ f'.extents = f.extents /\ f'.start = f.start
      /\ f'.filepos = f.filepos /\ f'.size = f.size + n
  <2>1. f' = [f EXCEPT !.size = @ + n]
      BY <1>1
  <2>2. f.size + n \in Nat
      BY <1>6, <1>8
  <2>3. f \in File
      BY <1>8
  <2> QED BY <2>1, <2>2, <2>3 DEF File
<1>10. left' \in Seq(DataUnit) /\ Len(left') = Len(left) - n
  <2>1. left \in Seq(DataUnit)
      BY DEF RecoveryInv, Types
  <2> QED BY <1>1, <1>6, <2>1
<1>11. Types'
    BY <1>1, <1>9, <1>10 DEF RecoveryInv, Types, Pcs
<1>12. Written(dev, f.extents)' /\ Written(dev, meta.extents)'
    BY <1>1, <1>7, <1>8, <1>9
<1>13. MetaKept'
    BY <1>1, <1>9 DEF RecoveryInv, MetaKept
<1>14. CallInv'
  <2>1. \E c \in Nat : Len(left') = B * c
      BY <1>6, <1>10
  <2> QED BY <1>1, <1>2, <2>1 DEF RecoveryInv, CallInv
<1>15. ActiveInv'
  <2>1. Wp(active)' = Wp(active) + n
      BY <1>1, <1>3, <1>7 DEF Wp
  <2>a. mode' = "direct" /\ n \in Nat /\ n >= 1
      BY <1>1, <1>6
  <2>2. Pending' = (f.size + n) - f.filepos
      BY <1>9, <2>a DEF Pending
  <2>b. f.start.off + (f.size - f.filepos) <= Wp(active)
      BY <1>4
  <2>c. /\ f.start.off \in Nat /\ f.size \in Nat /\ f.filepos \in Nat
        /\ Wp(active) \in Nat /\ n \in Nat
      BY <1>3, <1>4, <1>8, <2>a
  <2>3. f.start.off + ((f.size + n) - f.filepos) <= Wp(active) + n
      BY <2>b, <2>c, BothGrow
  <2>4. f'.filepos <= f'.size
      BY <1>4, <1>6, <1>8, <1>9
  <2> QED BY <1>1, <1>4, <1>9, <2>1, <2>2, <2>3, <2>4 DEF ActiveInv
<1>16. SparseInv'
    BY <1>1 DEF SparseInv, Sparse
<1> QED BY <1>7, <1>11, <1>12, <1>13, <1>14, <1>15, <1>16 DEF RecoveryInv

(* A write that stops half way leaves whole blocks. *)
LEMMA PartialWrite ==
    ASSUME RecoveryInv, pc = "write", Capacity(active) > 0, NEW n \in Nat, Partial(n)
    PROVE  /\ active \in Zones /\ active # NoZone
           /\ Device'
           /\ Len(dev'[active]) >= Len(dev[active]) /\ Len(dev'[active]) < ZoneCap
           /\ \A es \in Seq(ExtentSet) : Written(dev, es) => Written(dev', es)
           /\ n = 0 => dev' = dev
<1> DEFINE units == IF mode = "direct" THEN First(left, DirectLen) ELSE PieceUnits
           m == n * B
           s == First(units, m)
<1>1. /\ m < Len(units)
      /\ dev' = [dev EXCEPT ![active] = @ \o s]
    BY DEF Partial
<1>2. active \in Zones /\ active # NoZone /\ left # <<>>
    BY DEF RecoveryInv, CallInv, Types
<1>3. Wp(active) \in Nat /\ Wp(active) < ZoneCap /\ Wp(active) = Len(dev[active])
  <2>1. Wp(active) \in Nat
      BY <1>2, WpRange DEF RecoveryInv
  <2>2. ZoneCap - Wp(active) > 0
      BY DEF Capacity
  <2>3. ZoneCap \in Nat
      BY Constants
  <2>4. Wp(active) < ZoneCap
      BY <2>1, <2>2, <2>3
  <2> QED BY <2>1, <2>4 DEF Wp
<1>4. units \in Seq(Unit) /\ Wp(active) + Len(units) <= ZoneCap
  <2>1. CASE mode = "direct"
    <3>1. \E c \in Nat : Len(left) = B * c
        BY <2>1 DEF RecoveryInv, CallInv
    <3>2. /\ Wp(active) + DirectLen <= ZoneCap
          /\ First(left, DirectLen) \in Seq(Unit)
          /\ Len(First(left, DirectLen)) = DirectLen
        BY <1>2, <1>3, <3>1, Direct DEF RecoveryInv
    <3> QED BY <2>1, <3>2
  <2>2. CASE mode # "direct"
      BY <1>2, <1>3, <2>2, Piece DEF RecoveryInv
  <2> QED BY <2>1, <2>2
<1> HIDE DEF units
<1>5. m \in Nat /\ m = B * n /\ Len(units) \in Nat
    BY <1>4, Constants
<1>6. s \in Seq(Unit) /\ Len(s) = m
  <2> HIDE DEF m
  <2> QED BY <1>1, <1>4, <1>5, FirstUnits
<1>7. n = 0 => dev' = dev
  <2> SUFFICES ASSUME n = 0 PROVE dev' = dev
      OBVIOUS
  <2>2. m = 0
      BY Constants
  <2>3. s = <<>>
    <3> HIDE DEF s, m
    <3> QED BY <1>6, <2>2
  <2> HIDE DEF s
  <2>4. dev \in [Zones -> Seq(Unit)] /\ dev[active] \in Seq(Unit)
      BY <1>2 DEF RecoveryInv, Device
  <2>5. dev[active] \o <<>> = dev[active]
      BY <2>4
  <2> QED BY <1>1, <2>3, <2>4, <2>5
<1> HIDE DEF s, m
<1>10. Wp(active) + m < ZoneCap /\ Wp(active) + m <= ZoneCap /\ m \in Nat
  <2>1. m < Len(units) /\ Wp(active) + Len(units) <= ZoneCap
      BY <1>1, <1>4
  <2>2. m \in Nat /\ Len(units) \in Nat /\ Wp(active) \in Nat
      BY <1>3, <1>5
  <2>3. ZoneCap \in Nat
      BY Constants
  <2> QED BY <2>1, <2>2, <2>3
<1>8. /\ Device'
      /\ Len(dev'[active]) = Len(dev[active]) + m
      /\ \A es \in Seq(ExtentSet) : Written(dev, es) => Written(dev', es)
  <2>1. Device /\ Len(s) = B * n /\ Wp(active) + Len(s) <= ZoneCap
    <3>2. Wp(active) + m <= ZoneCap
        BY <1>10
    <3> QED BY <1>5, <1>6, <3>2 DEF RecoveryInv
  <2>2. /\ Device'
        /\ Len(dev'[active]) = Len(dev[active]) + Len(s)
        /\ \A es \in Seq(ExtentSet) : Written(dev, es) => Written(dev', es)
      BY <1>1, <1>2, <1>6, <2>1, GrownFiles
  <2> QED BY <1>6, <2>2
<1>9. Len(dev[active]) + m >= Len(dev[active]) /\ Len(dev[active]) + m < ZoneCap
    BY <1>3, <1>10
<1> QED BY <1>2, <1>7, <1>8, <1>9

(* A write that fails leaves the file as it was. *)
LEMMA WriteFailsInv ==
    ASSUME RecoveryInv, NEW n \in 0 .. ZoneBlocks, WriteFails(n), mishap' = {}
    PROVE  RecoveryInv'
<1>1. /\ pc = "write" /\ Capacity(active) > 0 /\ Partial(n) /\ Fails
      /\ UNCHANGED <<mode, meta, f, active, closing, buffer>>
    BY DEF WriteFails
<1>2. n \in Nat /\ (Sparse => n = 0)
  <2>1. n \in Nat
      BY Constants
  <2>2. ~(Sparse /\ n > 0)
      BY DEF WriteFails
  <2> QED BY <2>1, <2>2
<1>3. /\ active \in Zones /\ active # NoZone
      /\ Device'
      /\ Len(dev'[active]) >= Len(dev[active])
      /\ mode # "direct" => Len(dev'[active]) < ZoneCap
      /\ \A es \in Seq(ExtentSet) : Written(dev, es) => Written(dev', es)
      /\ Sparse => dev' = dev
    BY <1>1, <1>2, PartialWrite
<1>4. /\ pc' = "idle" /\ op' = "none" /\ left' = <<>> /\ left' \in Seq(DataUnit)
      /\ count' \in [units : Nat, other : Nat, crashes : Nat, fails : Nat]
      /\ \E c \in Nat : Len(left') = B * c
    BY <1>1, FailsTypes
<1>5. Types'
    BY <1>1, <1>4 DEF RecoveryInv, Types, Pcs
<1>6. Written(dev, f.extents)' /\ Written(dev, meta.extents)'
  <2>1. /\ f.extents \in Seq(ExtentSet) /\ Written(dev, f.extents)
        /\ meta.extents \in Seq(ExtentSet) /\ Written(dev, meta.extents)
      BY DEF RecoveryInv, Types, File
  <2> QED BY <1>1, <1>3, <2>1
<1>7. MetaKept'
    BY <1>1, <1>4 DEF RecoveryInv, MetaKept
<1>8. CallInv'
    BY <1>1, <1>4 DEF RecoveryInv, CallInv
<1>9. ActiveInv'
  <2>1. /\ f.start # NoExtent /\ f.start.z = active
        /\ f.start.off + Pending <= Wp(active) /\ f.filepos <= f.size
      BY <1>1, <1>3 DEF RecoveryInv, ActiveInv
  <2>2. Pending' = Pending
      BY <1>1 DEF Pending
  <2>3. Wp(active)' = Len(dev'[active]) /\ Wp(active) = Len(dev[active])
      BY <1>1 DEF Wp
  <2>4. Len(dev'[active]) \in Nat /\ Len(dev[active]) \in Nat
      BY <1>3 DEF RecoveryInv, Device
  <2>5. f.start.off \in Nat /\ Pending \in Int
    <3>1. f.start.off \in Nat
        BY <2>1 DEF RecoveryInv, Types, File, StartSet
    <3>2. f.size \in Nat /\ f.filepos \in Nat
        BY DEF RecoveryInv, Types, File
    <3> QED BY <3>1, <3>2 DEF Pending
  <2>6. f.start.off + Pending <= Len(dev'[active])
      BY <1>3, <2>1, <2>3, <2>4, <2>5
  <2> QED BY <1>1, <1>3, <2>1, <2>2, <2>3, <2>6 DEF ActiveInv
<1>10. SparseInv'
  <2> SUFFICES ASSUME Sparse PROVE SparseInv'
      BY <1>1 DEF SparseInv, Sparse
  <2> QED BY <1>1, <1>3, <1>4 DEF RecoveryInv, SparseInv, Sparse
<1> QED BY <1>3, <1>5, <1>6, <1>7, <1>8, <1>9, <1>10 DEF RecoveryInv

(* The other file writes to zones this one does not hold. *)
LEMMA OtherWritesInv ==
    ASSUME RecoveryInv, NEW z \in Zones, OtherWrites(z)
    PROVE  RecoveryInv'
<1> DEFINE s == [i \in 1 .. B |-> Other]
<1>1. /\ pc # "down" /\ z # active /\ Capacity(z) > 0
      /\ dev' = [dev EXCEPT ![z] = @ \o s]
      /\ count' = [count EXCEPT !.other = @ + 1]
      /\ UNCHANGED <<mode, meta, f, active, closing, buffer, op, left, pc>>
    BY DEF OtherWrites
<1>2. s \in Seq(Unit) /\ Len(s) = B
  <2>1. Other \in Unit
      BY DEF Other, Unit, Kinds
  <2> QED BY <2>1, Constants
<1> HIDE DEF s
<1>3. Wp(z) \in Nat /\ Wp(z) < ZoneCap /\ Wp(z) = Len(dev[z])
    BY <1>1, WpRange, Constants DEF RecoveryInv, Capacity, Wp
<1>4. Wp(z) + B <= ZoneCap
  <2>1. Capacity(z) >= B /\ Capacity(z) = ZoneCap - Wp(z)
      BY <1>3, FreeBlocks DEF RecoveryInv, Capacity
  <2> QED BY <2>1, <1>3, Constants
<1>5. /\ Device'
      /\ \A y \in Zones : y # z => dev'[y] = dev[y]
      /\ \A es \in Seq(ExtentSet) : Written(dev, es) => Written(dev', es)
  <2>1. Device /\ Len(s) = B * 1 /\ Wp(z) + Len(s) <= ZoneCap /\ 1 \in Nat
      BY <1>2, <1>4, Constants DEF RecoveryInv
  <2> QED BY <1>1, <1>2, <2>1, GrownFiles
<1>6. Types'
  <2>1. count' \in [units : Nat, other : Nat, crashes : Nat, fails : Nat]
      BY <1>1 DEF RecoveryInv, Types
  <2> QED BY <1>1, <2>1 DEF RecoveryInv, Types
<1>7. Written(dev, f.extents)' /\ Written(dev, meta.extents)'
  <2>1. /\ f.extents \in Seq(ExtentSet) /\ Written(dev, f.extents)
        /\ meta.extents \in Seq(ExtentSet) /\ Written(dev, meta.extents)
      BY DEF RecoveryInv, Types, File
  <2> QED BY <1>1, <1>5, <2>1
<1>8. MetaKept'
    BY <1>1 DEF RecoveryInv, MetaKept
<1>9. CallInv'
  <2>1. Pending' = Pending
      BY <1>1 DEF Pending
  <2> QED BY <1>1, <2>1 DEF RecoveryInv, CallInv
<1>10. ActiveInv'
  <2> SUFFICES ASSUME active # NoZone PROVE ActiveInv'
      BY <1>1 DEF ActiveInv
  <2>1. active \in Zones
      BY DEF RecoveryInv, Types
  <2>2. Wp(active)' = Wp(active)
      BY <1>1, <1>5, <2>1 DEF Wp
  <2>3. Pending' = Pending
      BY <1>1 DEF Pending
  <2> QED BY <1>1, <2>2, <2>3 DEF RecoveryInv, ActiveInv
<1>11. ASSUME NEW y \in Zones, Held(dev, active, f.extents, y)
       PROVE  dev'[y] = dev[y] /\ Held(dev', active, f.extents, y)
  <2>1. y # z
      BY <1>1, <1>3, <1>11 DEF Held
  <2> QED BY <1>5, <1>11, <2>1 DEF Held
<1>12. SparseInv'
  <2> SUFFICES ASSUME Sparse PROVE SparseInv'
      BY <1>1 DEF SparseInv, Sparse
  <2>1. f.start # NoExtent =>
          /\ f.start.off = Len(dev'[f.start.z])
          /\ Held(dev', active, f.extents, f.start.z)
    <3>1. f.start # NoExtent => f.start.z \in Zones
        BY DEF RecoveryInv, Types, File, StartSet
    <3> QED BY <1>1, <1>11, <3>1 DEF RecoveryInv, SparseInv
  <2>2. meta.start # NoExtent =>
          /\ Chained(dev'[meta.start.z], meta.start.off)
          /\ Held(dev', active, f.extents, meta.start.z)
    <3>1. meta.start # NoExtent => meta.start.z \in Zones
        BY DEF RecoveryInv, Types, File, StartSet
    <3> QED BY <1>1, <1>11, <3>1 DEF RecoveryInv, SparseInv
  <2> QED BY <1>1, <2>1, <2>2 DEF SparseInv
<1> QED BY <1>5, <1>6, <1>7, <1>8, <1>9, <1>10, <1>12 DEF RecoveryInv

(* Resetting unused zones keeps the zones with extents of g, and a. *)
LEMMA EmptiedKeeps ==
    ASSUME Device, NEW g \in File, NEW a, dev' = Emptied(Unused(g, a))
    PROVE  /\ Device'
           /\ a \in Zones => dev'[a] = dev[a]
           /\ \A i \in 1 .. Len(g.extents) : dev'[g.extents[i].z] = dev[g.extents[i].z]
<1> DEFINE U == Unused(g, a)
<1>1. dev' = [z \in Zones |-> IF z \in U THEN <<>> ELSE dev[z]]
    BY DEF Emptied
<1>2. U \subseteq Zones \ {a} /\ \A z \in U : \A i \in 1 .. Len(g.extents) : g.extents[i].z # z
    BY DEF Unused
<1> HIDE DEF U
<1>3. dev \in [Zones -> Seq(Unit)]
    BY DEF Device
<1>4. dev' \in [Zones -> Seq(Unit)]
    BY <1>1, <1>3
<1>5. ASSUME NEW z \in Zones PROVE \E c \in 0 .. ZoneBlocks : Wp(z)' = B * c
  <2>1. CASE z \in U
    <3>1. Wp(z)' = 0 /\ 0 \in 0 .. ZoneBlocks /\ B * 0 = 0
        BY <1>1, <2>1, Constants DEF Wp
    <3> QED BY <3>1
  <2>2. CASE z \notin U
      BY <1>1, <2>2 DEF Device, Wp
  <2> QED BY <2>1, <2>2
<1>6. ASSUME NEW i \in 1 .. Len(g.extents)
      PROVE  dev'[g.extents[i].z] = dev[g.extents[i].z]
  <2>1. g.extents[i] \in ExtentSet
      BY DEF File
  <2>2. g.extents[i].z \in Zones
      BY <2>1 DEF ExtentSet
  <2> QED BY <1>1, <1>2, <2>2
<1>7. a \in Zones => dev'[a] = dev[a]
    BY <1>1, <1>2
<1> QED BY <1>4, <1>5, <1>6, <1>7 DEF Device

(* ResetUnusedIOZones spares the zones the file holds, and those in the log. *)
LEMMA ResetUnusedIOZonesInv ==
    ASSUME RecoveryInv, ResetUnusedIOZones
    PROVE  RecoveryInv'
<1>1. /\ pc # "down" /\ dev' = Emptied(Unused(f, active))
      /\ UNCHANGED <<mode, meta, f, active, closing, buffer, op, left, pc, count>>
    BY DEF ResetUnusedIOZones
<1>2. /\ Device'
      /\ active \in Zones => dev'[active] = dev[active]
      /\ \A i \in 1 .. Len(f.extents) : dev'[f.extents[i].z] = dev[f.extents[i].z]
    BY <1>1, EmptiedKeeps DEF RecoveryInv, Types
<1>3. \A i \in 1 .. Len(meta.extents) : dev'[meta.extents[i].z] = dev[meta.extents[i].z]
    BY <1>1, <1>2 DEF RecoveryInv, MetaKept
<1>4. Types'
    BY <1>1 DEF RecoveryInv, Types
<1>5. Written(dev, f.extents)' /\ Written(dev, meta.extents)'
    BY <1>1, <1>2, <1>3 DEF RecoveryInv, Written
<1>6. MetaKept'
    BY <1>1 DEF RecoveryInv, MetaKept
<1>7. Pending' = Pending
    BY <1>1 DEF Pending
<1>8. CallInv'
    BY <1>1, <1>7 DEF RecoveryInv, CallInv
<1>9. ActiveInv'
  <2> SUFFICES ASSUME active # NoZone PROVE ActiveInv'
      BY <1>1 DEF ActiveInv
  <2>1. active \in Zones
      BY DEF RecoveryInv, Types
  <2>2. Wp(active)' = Wp(active)
      BY <1>1, <1>2, <2>1 DEF Wp
  <2> QED BY <1>1, <1>7, <2>2 DEF RecoveryInv, ActiveInv
<1>10. ASSUME NEW z \in Zones, Held(dev, active, f.extents, z)
       PROVE  dev'[z] = dev[z] /\ Held(dev', active, f.extents, z)
    BY <1>2, <1>10 DEF Held
<1>11. SparseInv'
  <2> SUFFICES ASSUME Sparse PROVE SparseInv'
      BY <1>1 DEF SparseInv, Sparse
  <2>1. f.start # NoExtent =>
          /\ f.start.off = Len(dev'[f.start.z])
          /\ Held(dev', active, f.extents, f.start.z)
    <3>1. f.start # NoExtent => f.start.z \in Zones
        BY DEF RecoveryInv, Types, File, StartSet
    <3> QED BY <1>1, <1>10, <3>1 DEF RecoveryInv, SparseInv
  <2>2. meta.start # NoExtent =>
          /\ Chained(dev'[meta.start.z], meta.start.off)
          /\ Held(dev', active, f.extents, meta.start.z)
    <3>1. meta.start # NoExtent => meta.start.z \in Zones
        BY DEF RecoveryInv, Types, File, StartSet
    <3> QED BY <1>1, <1>10, <3>1 DEF RecoveryInv, SparseInv
  <2> QED BY <1>1, <2>1, <2>2 DEF SparseInv
<1> QED BY <1>2, <1>4, <1>5, <1>6, <1>8, <1>9, <1>11 DEF RecoveryInv

-----------------------------------------------------------------------------
(* Crash, recovery and the theorem.                                        *)

(* A file with nothing in it. *)
LEMMA EmptyFile == Empty \in File /\ Empty.extents = <<>> /\ Empty.start = NoExtent
<1>1. <<>> \in Seq(ExtentSet) /\ NoExtent \in StartSet
    BY DEF StartSet
<1> QED BY <1>1 DEF Empty, File

(* An empty buffer. *)
LEMMA NothingLeft == <<>> \in Seq(DataUnit) /\ \E c \in Nat : Len(<<>>) = B * c
<1>1. Len(<<>>) = B * 0
    BY Constants
<1>2. \E c \in Nat : Len(<<>>) = B * c
    BY <1>1
<1> QED BY <1>2

(* A crash keeps the log and what was written. *)
LEMMA CrashInv ==
    ASSUME RecoveryInv, Crash, mishap' = {}
    PROVE  RecoveryInv'
<1>1. /\ count' = [count EXCEPT !.crashes = @ + 1]
      /\ pc' = "down" /\ f' = Empty /\ active' = NoZone /\ closing' = FALSE
      /\ buffer' = <<>> /\ op' = "none" /\ left' = <<>>
      /\ UNCHANGED <<mode, meta>>
    BY DEF Crash
<1>2. /\ Device'
      /\ \A es \in Seq(ExtentSet) : Written(dev, es) => Written(dev', es)
      /\ Sparse => dev' = dev
  <2>1. CASE dev' = dev
      BY <2>1, SameDevice DEF RecoveryInv
  <2>2. CASE /\ pc = "write" /\ Capacity(active) > 0
             /\ \E n \in 1 .. ZoneBlocks : Partial(n)
             /\ ~Sparse
    <3>1. PICK n \in 1 .. ZoneBlocks : Partial(n)
        BY <2>2
    <3>2. n \in Nat
        BY Constants
    <3> QED BY <2>2, <3>1, <3>2, PartialWrite
  <2> QED BY <2>1, <2>2 DEF Crash
<1>3. Types'
  <2>1. count' \in [units : Nat, other : Nat, crashes : Nat, fails : Nat]
    <3>1. count \in [units : Nat, other : Nat, crashes : Nat, fails : Nat]
        BY DEF RecoveryInv, Types
    <3>2. count' = [count EXCEPT !.crashes = @ + 1]
        BY <1>1
    <3> QED BY <3>1, <3>2
  <2> QED BY <1>1, <2>1, EmptyFile, NothingLeft DEF RecoveryInv, Types, Pcs
<1>4. Written(dev, f.extents)' /\ Written(dev, meta.extents)'
  <2>1. meta.extents \in Seq(ExtentSet) /\ Written(dev, meta.extents)
      BY DEF RecoveryInv, Types, File
  <2>2. Written(dev', f'.extents)
      BY <1>1, EmptyFile DEF Written
  <2> QED BY <1>1, <1>2, <2>1, <2>2
<1>5. MetaKept'
    BY <1>1 DEF MetaKept
<1>6. CallInv'
    BY <1>1, NothingLeft DEF CallInv
<1>7. ActiveInv'
    BY <1>1 DEF ActiveInv
<1>8. SparseInv'
  <2> SUFFICES ASSUME Sparse PROVE SparseInv'
      BY <1>1 DEF SparseInv, Sparse
  <2> QED BY <1>1, <1>2 DEF RecoveryInv, SparseInv
<1> QED BY <1>2, <1>3, <1>4, <1>5, <1>6, <1>7, <1>8 DEF RecoveryInv

(* The extents found by following the headers, or made of the whole tail,  *)
(* end at the write pointer. *)
LEMMA TailSound ==
    ASSUME RecoveryInv, meta.start # NoExtent, meta.start.off < Wp(meta.start.z)
    PROVE  RecoverTail(meta.start.z, meta.start.off).extents
             \in Seq(WrittenIn(meta.start.z))
<1> DEFINE z == meta.start.z
           off == meta.start.off
<1>1. z \in Zones /\ off \in Nat
    BY DEF RecoveryInv, Types, File, StartSet
<1>2. CASE Sparse
  <2>1. Chained(dev[z], off)
      BY <1>2 DEF RecoveryInv, SparseInv
  <2>2. SparseExtents(z, off).extents \in Seq(WrittenIn(z))
      BY <1>1, <2>1, WalkSound DEF RecoveryInv
  <2> QED BY <1>2, <2>2 DEF RecoverTail
<1>3. CASE ~Sparse
  <2> DEFINE e == [z |-> z, off |-> off, len |-> Wp(z) - off]
  <2>1. Wp(z) \in Nat /\ off < Wp(z)
      BY <1>1, WpRange DEF RecoveryInv
  <2> HIDE DEF z, off
  <2>2. e \in ExtentSet /\ e.z = z /\ e.off + e.len <= Wp(z)
      BY <1>1, <2>1 DEF ExtentSet
  <2>3. e \in WrittenIn(z)
      BY <2>2 DEF WrittenIn
  <2>4. TailWhole(z, off).extents = <<e>>
      BY DEF TailWhole
  <2> HIDE DEF e
  <2>5. TailWhole(z, off).extents \in Seq(WrittenIn(z))
      BY <2>3, <2>4
  <2> QED BY <1>3, <2>5 DEF RecoverTail, z, off
<1> QED BY <1>2, <1>3

(* Recovered extents after those of the log. *)
LEMMA WrittenJoined ==
    ASSUME NEW es \in Seq(ExtentSet), Written(dev, es), NEW z, NEW t \in Seq(WrittenIn(z))
    PROVE  es \o t \in Seq(ExtentSet) /\ Written(dev, es \o t)
<1>1. t \in Seq(ExtentSet)
  <2>1. WrittenIn(z) \subseteq ExtentSet
      BY DEF WrittenIn
  <2> QED BY <2>1
<1>2. es \o t \in Seq(ExtentSet)
    BY <1>1
<1>3. /\ Len(es \o t) = Len(es) + Len(t)
      /\ Len(es) \in Nat /\ Len(t) \in Nat
    BY <1>1
<1>4. \A p \in 1 .. Len(es) : (es \o t)[p] = es[p]
    BY <1>1, Joined
<1>5. \A p \in 1 .. Len(t) : (es \o t)[Len(es) + p] = t[p]
    BY <1>1, Joined
<1>6. ASSUME NEW i \in 1 .. Len(es \o t)
      PROVE  (es \o t)[i].off + (es \o t)[i].len <= Len(dev[(es \o t)[i].z])
  <2>1. CASE i \in 1 .. Len(es)
      BY <1>4, <2>1 DEF Written
  <2>2. CASE i \notin 1 .. Len(es)
    <3>1. i - Len(es) \in 1 .. Len(t) /\ Len(es) + (i - Len(es)) = i
        BY <1>3, <2>2
    <3>2. (es \o t)[i] = t[i - Len(es)]
        BY <1>5, <3>1
    <3>3. t[i - Len(es)] \in WrittenIn(z)
        BY <3>1
    <3> QED BY <3>2, <3>3 DEF WrittenIn, Wp
  <2> QED BY <2>1, <2>2
<1> QED BY <1>2, <1>6 DEF Written

(* Unless it is misled, GetIOZone finds the zone of the active extent, or  *)
(* an empty one. *)
LEMMA ZoneFound ==
    ASSUME Device, meta \in File, meta.start # NoExtent, ~Misled(meta)
    PROVE  LET g == GetIOZone(meta.start)
           IN  g.z \in Zones /\ g.off \in Nat /\ (Wp(g.z) # g.off => g = meta.start)
<1>1. meta.start.z \in Zones /\ meta.start.off \in Nat
    BY DEF File, StartSet
<1>2. CASE meta.start.off < ZoneSize
    BY <1>1, <1>2 DEF GetIOZone
<1>3. CASE ~(meta.start.off < ZoneSize)
  <2> DEFINE y == Following[meta.start.z]
  <2>1. meta.start.off >= ZoneSize
      BY <1>1, <1>3, FileAssumption DEF FileAssumption
  <2>2. y \in Zones /\ y # NoZone /\ ~(Wp(y) > 0)
      BY <1>1, <2>1, FileAssumption DEF FileAssumption, Misled
  <2>3. GetIOZone(meta.start) = [z |-> y, off |-> 0]
      BY <1>3, <2>2 DEF GetIOZone
  <2>4. Wp(y) = 0
      BY <2>2, WpRange
  <2> QED BY <2>2, <2>3, <2>4
<1> QED BY <1>2, <1>3

(* What Recover makes of the metadata in the log lies below the write      *)
(* pointers. *)
LEMMA RecoverSound ==
    ASSUME RecoveryInv, Recover(meta).ok, ~Misled(meta)
    PROVE  /\ Recover(meta).file \in File
           /\ Recover(meta).file.start = NoExtent
           /\ Written(dev, Recover(meta).file.extents)
<1>0. meta \in File /\ Written(dev, meta.extents) /\ meta.extents \in Seq(ExtentSet)
    BY DEF RecoveryInv, Types, File
<1>1. CASE meta.start = NoExtent
    BY <1>0, <1>1 DEF Recover
<1>2. CASE meta.start # NoExtent
  <2> DEFINE z == GetIOZone(meta.start).z
             off == GetIOZone(meta.start).off
             t == RecoverTail(z, off)
             es == meta.extents \o t.extents
  <2>1. z \in Zones /\ off \in Nat /\ (Wp(z) # off => GetIOZone(meta.start) = meta.start)
      BY <1>0, <1>2, ZoneFound DEF RecoveryInv
  <2>2. Wp(z) \in Nat
      BY <2>1, WpRange DEF RecoveryInv
  <2>3. ~(Wp(z) < off) /\ z # NoZone
      BY <1>2, <2>1, Constants DEF Recover
  <2>4. CASE Wp(z) = off
    <3>1. Recover(meta).file = [meta EXCEPT !.start = NoExtent]
        BY <1>2, <2>3, <2>4 DEF Recover
    <3>2. NoExtent \in StartSet
        BY DEF StartSet
    <3> QED BY <1>0, <3>1, <3>2 DEF File
  <2>5. CASE Wp(z) # off
    <3>1. off < Wp(z)
        BY <2>1, <2>2, <2>3, <2>5
    <3>2. t.extents \in Seq(WrittenIn(z))
        BY <1>2, <2>1, <2>5, <3>1, TailSound
    <3>3. Recover(meta).file = [extents |-> es, start |-> NoExtent,
                                filepos |-> 0, size |-> Size(es)]
        BY <1>2, <2>3, <2>5 DEF Recover
    <3> HIDE DEF t
    <3>4. es \in Seq(ExtentSet) /\ Written(dev, es)
        BY <1>0, <3>2, WrittenJoined
    <3> HIDE DEF es
    <3>5. Size(es) \in Nat /\ NoExtent \in StartSet
        BY <3>4, SizeNat DEF StartSet
    <3> QED BY <3>3, <3>4, <3>5 DEF File
  <2> QED BY <2>4, <2>5
<1> QED BY <1>1, <1>2

(* Mount recovers the file and resets the zones it does not use. *)
LEMMA MountInv ==
    ASSUME RecoveryInv, Mount, "astray" \notin mishap'
    PROVE  RecoveryInv'
<1> DEFINE g == Recover(meta).file
<1>1. /\ pc = "down" /\ Recover(meta).ok
      /\ f' = g /\ meta' = g
      /\ dev' = Emptied(Unused(g, NoZone))
      /\ pc' = "idle"
      /\ UNCHANGED <<mode, active, closing, buffer, op, left, count>>
    BY DEF Mount
<1>2. g \in File /\ g.start = NoExtent /\ Written(dev, g.extents)
  <2>1. ~Misled(meta)
      BY DEF Mount
  <2> QED BY <1>1, <2>1, RecoverSound
<1> HIDE DEF g
<1>3. /\ Device'
      /\ \A i \in 1 .. Len(g.extents) : dev'[g.extents[i].z] = dev[g.extents[i].z]
    BY <1>1, <1>2, EmptiedKeeps DEF RecoveryInv
<1>4. Types'
    BY <1>1, <1>2 DEF RecoveryInv, Types, Pcs
<1>5. Written(dev, f.extents)' /\ Written(dev, meta.extents)'
    BY <1>1, <1>2, <1>3 DEF Written
<1>6. MetaKept'
    BY <1>1 DEF MetaKept
<1>7. active = NoZone /\ ~closing
    BY <1>1 DEF RecoveryInv, CallInv
<1>8. CallInv'
    BY <1>1, <1>7 DEF RecoveryInv, CallInv
<1>9. ActiveInv' /\ SparseInv'
    BY <1>1, <1>2, <1>7 DEF ActiveInv, SparseInv
<1> QED BY <1>3, <1>4, <1>5, <1>6, <1>8, <1>9 DEF RecoveryInv

(* An empty device and an empty file. *)
LEMMA InitRecoveryInv ==
    ASSUME Init
    PROVE  RecoveryInv
<1>1. Types
  <2>1. count \in [units : Nat, other : Nat, crashes : Nat, fails : Nat]
      BY DEF Init
  <2> QED BY <2>1, EmptyFile, NothingLeft DEF Init, Types, Pcs
<1>2. Device
  <2>1. dev \in [Zones -> Seq(Unit)]
      BY DEF Init
  <2>2. ASSUME NEW z \in Zones PROVE \E c \in 0 .. ZoneBlocks : Wp(z) = B * c
    <3>1. Wp(z) = B * 0 /\ 0 \in 0 .. ZoneBlocks
        BY Constants DEF Init, Wp
    <3> QED BY <3>1
  <2> QED BY <2>1, <2>2 DEF Device
<1>3. Written(dev, f.extents) /\ Written(dev, meta.extents) /\ MetaKept
    BY EmptyFile DEF Init, Written, MetaKept
<1>4. CallInv
    BY NothingLeft DEF Init, CallInv
<1>5. ActiveInv /\ SparseInv
    BY EmptyFile DEF Init, ActiveInv, SparseInv
<1> QED BY <1>1, <1>2, <1>3, <1>4, <1>5 DEF RecoveryInv

(* A step that changes nothing. *)
LEMMA StutterRecoveryInv ==
    ASSUME RecoveryInv, UNCHANGED vars
    PROVE  RecoveryInv'
<1>1. UNCHANGED <<mode, dev, meta, f, active, closing, buffer, op, left, pc, count>>
    BY DEF vars
<1>2. Device' /\ \A z \in Zones : Wp(z)' = Wp(z)
    BY <1>1, SameDevice DEF RecoveryInv
<1>3. Types' /\ Written(dev, f.extents)' /\ Written(dev, meta.extents)' /\ MetaKept'
    BY <1>1 DEF RecoveryInv, Types, MetaKept
<1>4. Pending' = Pending /\ Wp(active)' = Wp(active)
    BY <1>1 DEF Pending, Wp
<1>5. CallInv' /\ ActiveInv' /\ SparseInv'
    BY <1>1, <1>4 DEF RecoveryInv, CallInv, ActiveInv, SparseInv, Sparse
<1> QED BY <1>2, <1>3, <1>5 DEF RecoveryInv

(* Every step keeps the invariant. *)
LEMMA NextRecoveryInv ==
    ASSUME RecoveryInv, mishap' = {}, [Next]_vars
    PROVE  RecoveryInv'
<1>1. CASE BufferedWrite
    BY <1>1, BufferedWriteInv
<1>2. CASE \E n \in 1 .. BufBlocks : DirectAppend(n)
    BY <1>2, DirectAppendInv
<1>3. CASE \E o \in {"sync", "fsync", "close"} : DataSync(o)
    BY <1>3, DataSyncInv
<1>4. CASE AllocateNewZone
    BY <1>4, AllocateNewZoneInv
<1>5. CASE AppendPiece
    BY <1>5, AppendPieceInv
<1>6. CASE DirectFull
    BY <1>6, DirectFullInv
<1>7. CASE DirectWrite
    BY <1>7, DirectWriteInv
<1>8. CASE \E n \in 0 .. ZoneBlocks : WriteFails(n)
    BY <1>8, WriteFailsInv
<1>9. CASE AppendEnds
    BY <1>9, AppendEndsInv
<1>10. CASE DataSyncEnds
    BY <1>10, DataSyncEndsInv
<1>11. CASE FsyncPersists
    BY <1>11, FsyncPersistsInv
<1>12. CASE CloseWR
    BY <1>12, CloseWRInv
<1>13. CASE Reopen
    BY <1>13, ReopenInv
<1>14. CASE \E z \in Zones : OtherWrites(z)
    BY <1>14, OtherWritesInv
<1>15. CASE ResetUnusedIOZones
    BY <1>15, ResetUnusedIOZonesInv
<1>16. CASE Crash
    BY <1>16, CrashInv
<1>17. CASE Mount
    BY <1>17, MountInv
<1>18. CASE UNCHANGED vars
    BY <1>18, StutterRecoveryInv
<1> QED BY <1>1, <1>2, <1>3, <1>4, <1>5, <1>6, <1>7, <1>8, <1>9, <1>10, <1>11,
           <1>12, <1>13, <1>14, <1>15, <1>16, <1>17, <1>18 DEF Next

-----------------------------------------------------------------------------
(* A crash at any point can be recovered from.                             *)

HasExtent(es, z) == \E i \in 1 .. Len(es) : es[i].z = z

(* The place where recovery begins, in the log, lies below the write       *)
(* pointer, because its zone is held until the log names another place;    *)
(* that of the file in memory will be the next one in the log.  A zone is  *)
(* held after it was filled because of an extent in it, which a direct     *)
(* writer has or is about to push.                                         *)
StartInv ==
    /\ meta.start # NoExtent => meta.start.off <= Wp(meta.start.z)
    /\ pc # "down" =>
         /\ f.start # NoExtent => /\ f.start.off <= Wp(f.start.z)
                                  /\ Held(dev, active, f.extents, f.start.z)
         /\ meta.start # NoExtent => Held(dev, active, f.extents, meta.start.z)
    /\ active # NoZone /\ Wp(active) = ZoneCap =>
         Pending > 0 \/ HasExtent(f.extents, active)

(* The zone of a start is a zone. *)
LEMMA StartZones ==
    ASSUME RecoveryInv
    PROVE  /\ f.start # NoExtent => f.start.z \in Zones /\ f.start.off \in Nat
           /\ meta.start # NoExtent => meta.start.z \in Zones /\ meta.start.off \in Nat
           /\ active # NoZone => active \in Zones
           /\ \A z \in Zones : Len(dev[z]) \in Nat /\ Len(dev[z]) <= ZoneCap /\ Wp(z) = Len(dev[z])
<1>1. /\ f.start # NoExtent => f.start.z \in Zones /\ f.start.off \in Nat
      /\ meta.start # NoExtent => meta.start.z \in Zones /\ meta.start.off \in Nat
      /\ active # NoZone => active \in Zones
    BY DEF RecoveryInv, Types, File, StartSet
<1>2. \A z \in Zones : Len(dev[z]) \in Nat /\ Len(dev[z]) <= ZoneCap /\ Wp(z) = Len(dev[z])
    BY WpRange DEF RecoveryInv, Wp
<1> QED BY <1>1, <1>2

(* A write makes no zone shorter. *)
LEMMA Longer ==
    ASSUME Device, NEW z \in Zones, NEW s \in Seq(Unit), dev' = [dev EXCEPT ![z] = @ \o s]
    PROVE  \A y \in Zones : Len(dev'[y]) >= Len(dev[y])
<1> SUFFICES ASSUME NEW y \in Zones PROVE Len(dev'[y]) >= Len(dev[y])
    OBVIOUS
<1>1. dev \in [Zones -> Seq(Unit)]
    BY DEF Device
<1>2. dev[y] \in Seq(Unit) /\ dev[z] \in Seq(Unit)
    BY <1>1
<1>3. CASE y = z
  <2>1. dev'[y] = dev[y] \o s
      BY <1>1, <1>3
  <2>2. Len(dev[y] \o s) = Len(dev[y]) + Len(s) /\ Len(s) \in Nat /\ Len(dev[y]) \in Nat
      BY <1>2
  <2> QED BY <2>1, <2>2
<1>4. CASE y # z
  <2>1. dev'[y] = dev[y]
      BY <1>1, <1>4
  <2> QED BY <1>2, <2>1
<1> QED BY <1>3, <1>4

(* A step of the running system that resets no zone the file holds, and    *)
(* gives its active zone up only when it is full and has an extent.        *)
LEMMA StartKept ==
    ASSUME RecoveryInv, RecoveryInv', StartInv, pc # "down", pc' # "down",
           \A z \in Zones : Held(dev, active, f.extents, z) => Len(dev'[z]) >= Len(dev[z]),
           \A z \in Zones : HasExtent(f.extents, z) => HasExtent(f'.extents, z),
           active # NoZone => \/ active' = active
                              \/ /\ Len(dev'[active]) = ZoneCap
                                 /\ HasExtent(f'.extents, active),
           \/ f'.start \in {f.start, NoExtent}
           \/ /\ f'.start.z = active /\ active \in Zones
              /\ f'.start.off <= Len(dev'[active])
           \/ /\ f'.start.z = active' /\ active' \in Zones
              /\ f'.start.off <= Len(dev'[active']),
           meta'.start \in {meta.start, f'.start},
           active' # NoZone /\ Len(dev'[active']) = ZoneCap =>
             Pending' > 0 \/ HasExtent(f'.extents, active')
    PROVE  StartInv'
<1>1. /\ \A z \in Zones : Len(dev[z]) \in Nat /\ Wp(z) = Len(dev[z])
      /\ \A z \in Zones : /\ Len(dev'[z]) \in Nat /\ Len(dev'[z]) <= ZoneCap
                          /\ Wp(z)' = Len(dev'[z])
      /\ active' # NoZone => active' \in Zones
      /\ f.start # NoExtent => f.start.z \in Zones /\ f.start.off \in Nat
      /\ meta.start # NoExtent => meta.start.z \in Zones /\ meta.start.off \in Nat
  <2>1. ASSUME NEW z \in Zones
        PROVE  Len(dev'[z]) \in Nat /\ Len(dev'[z]) <= ZoneCap /\ Wp(z)' = Len(dev'[z])
    <3>1. dev' \in [Zones -> Seq(Unit)] /\ \E c \in 0 .. ZoneBlocks : Wp(z)' = B * c
        BY DEF RecoveryInv, Device
    <3>2. PICK c \in 0 .. ZoneBlocks : Wp(z)' = B * c
        BY <3>1
    <3>3. B * c <= B * ZoneBlocks
        BY Constants
    <3>4. Wp(z)' = Len(dev'[z]) /\ Len(dev'[z]) \in Nat
        BY <3>1 DEF Wp
    <3> QED BY <3>2, <3>3, <3>4, Constants
  <2>2. active' # NoZone => active' \in Zones
      BY DEF RecoveryInv, Types
  <2> QED BY <2>1, <2>2, StartZones
<1>2. ASSUME NEW z \in Zones, Held(dev, active, f.extents, z)
      PROVE  Held(dev', active', f'.extents, z)
  <2>1. CASE z = active
    <3>1. active # NoZone
        BY <2>1, Constants
    <3> QED BY <2>1, <3>1 DEF Held, HasExtent
  <2>2. CASE z # active
    <3>1. Len(dev[z]) = ZoneCap /\ HasExtent(f.extents, z)
        BY <1>2, <2>2 DEF Held, HasExtent
    <3>2. Len(dev'[z]) = ZoneCap
        BY <1>1, <1>2, <3>1, Constants
    <3>3. HasExtent(f'.extents, z)
        BY <3>1
    <3> QED BY <3>2, <3>3 DEF Held, HasExtent
  <2> QED BY <2>1, <2>2
<1>3. ASSUME NEW z \in Zones, NEW off \in Nat, Held(dev, active, f.extents, z), off <= Len(dev[z])
      PROVE  off <= Len(dev'[z])
  <2>1. Len(dev'[z]) >= Len(dev[z])
      BY <1>3
  <2> QED BY <1>1, <1>3, <2>1
<1>4. meta.start # NoExtent =>
        meta.start.off <= Len(dev'[meta.start.z]) /\ Held(dev', active', f'.extents, meta.start.z)
    BY <1>1, <1>2, <1>3 DEF StartInv
<1>5. f'.start # NoExtent =>
        f'.start.off <= Len(dev'[f'.start.z]) /\ Held(dev', active', f'.extents, f'.start.z)
        /\ f'.start.z \in Zones
  <2> SUFFICES ASSUME f'.start # NoExtent
               PROVE  /\ f'.start.off <= Len(dev'[f'.start.z])
                      /\ Held(dev', active', f'.extents, f'.start.z)
                      /\ f'.start.z \in Zones
      OBVIOUS
  <2>1. CASE f'.start = f.start
      BY <1>1, <1>2, <1>3, <2>1 DEF StartInv
  <2>2. CASE f'.start.z = active /\ active \in Zones /\ f'.start.off <= Len(dev'[active])
    <3>1. Held(dev, active, f.extents, active)
        BY DEF Held
    <3> QED BY <1>2, <2>2, <3>1
  <2>3. CASE f'.start.z = active' /\ active' \in Zones /\ f'.start.off <= Len(dev'[active'])
      BY <2>3 DEF Held
  <2> QED BY <2>1, <2>2, <2>3
<1>6. /\ f'.start # NoExtent => Wp(f.start.z)' = Len(dev'[f'.start.z])
      /\ meta'.start # NoExtent => Wp(meta.start.z)' = Len(dev'[meta'.start.z])
      /\ active' # NoZone => Wp(active)' = Len(dev'[active'])
    BY DEF Wp
<1> QED BY <1>1, <1>4, <1>5, <1>6 DEF StartInv

(* The file, the device and the log are as they were. *)
LEMMA StartSame ==
    ASSUME RecoveryInv, RecoveryInv', StartInv, pc # "down", pc' # "down",
           UNCHANGED <<mode, dev, meta, f, active>>
    PROVE  StartInv'
BY DEF StartInv, Pending, Wp

(* One more extent. *)
LEMMA OneMore ==
    ASSUME NEW es \in Seq(ExtentSet), NEW e \in ExtentSet
    PROVE  /\ HasExtent(Append(es, e), e.z)
           /\ \A z : HasExtent(es, z) => HasExtent(Append(es, e), z)
<1>1. /\ Len(Append(es, e)) = Len(es) + 1 /\ Len(es) \in Nat
      /\ Append(es, e)[Len(es) + 1] = e
      /\ \A i \in 1 .. Len(es) : Append(es, e)[i] = es[i]
    OBVIOUS
<1>2. Len(es) + 1 \in 1 .. Len(Append(es, e))
    BY <1>1
<1>3. \A i \in 1 .. Len(es) : i \in 1 .. Len(Append(es, e))
    BY <1>1
<1> QED BY <1>1, <1>2, <1>3 DEF HasExtent

(* Steps that leave the file, the device and the log alone. *)
LEMMA IdleStart ==
    ASSUME RecoveryInv, RecoveryInv', StartInv,
           \/ BufferedWrite
           \/ \E n \in 1 .. BufBlocks : DirectAppend(n)
           \/ \E o \in {"sync", "fsync", "close"} : DataSync(o)
           \/ AppendEnds \/ Reopen
    PROVE  StartInv'
<1>1. pc # "down" /\ pc' # "down" /\ UNCHANGED <<mode, dev, meta, f, active>>
    BY DEF BufferedWrite, DirectAppend, DataSync, AppendEnds, Reopen, Started
<1> QED BY <1>1, StartSame

(* A new zone: the extent begins at its write pointer. *)
LEMMA AllocateStart ==
    ASSUME RecoveryInv, RecoveryInv', StartInv, AllocateNewZone
    PROVE  StartInv'
<1>1. /\ pc = "alloc" /\ pc' # "down" /\ UNCHANGED <<mode, dev>>
      /\ active = NoZone /\ f \in File
    BY DEF AllocateNewZone, Fails, RecoveryInv, CallInv, Types
<1>2. CASE UNCHANGED <<active, f, meta>>
    BY <1>1, <1>2, StartSame
<1>3. CASE \E z \in Zones : /\ Capacity(z) > 0 /\ active' = z /\ f' = NewExtent(z)
                            /\ meta' \in {meta, Saved(NewExtent(z))}
  <2>1. PICK z \in Zones : /\ Capacity(z) > 0 /\ active' = z /\ f' = NewExtent(z)
                           /\ meta' \in {meta, Saved(NewExtent(z))}
      BY <1>3
  <2>2. Wp(z) \in Nat /\ Wp(z) < ZoneCap /\ Wp(z) = Len(dev[z]) /\ Len(dev'[z]) = Len(dev[z])
      BY <1>1, <2>1, StartZones, Constants DEF Capacity
  <2>3. f'.extents = f.extents /\ f'.start = [z |-> z, off |-> Wp(z)]
      BY <1>1, <2>1 DEF NewExtent, File
  <2>4. f' \in File
      BY DEF RecoveryInv, Types
  <2>5. meta'.start \in {meta.start, f'.start}
      BY <2>1, <2>4, SavedFile
  <2>6. \A y \in Zones : Len(dev'[y]) >= Len(dev[y])
      BY <1>1, StartZones
  <2> QED BY <1>1, <2>1, <2>2, <2>3, <2>5, <2>6, StartKept
<1> QED BY <1>1, <1>2, <1>3 DEF AllocateNewZone, PersistNewExtent, Persist

(* A piece: the next extent begins at the new write pointer, in a zone     *)
(* that is active or full.                                                 *)
LEMMA AppendPieceStart ==
    ASSUME RecoveryInv, RecoveryInv', StartInv, AppendPiece
    PROVE  StartInv'
<1> DEFINE wp == Wp(active) + Len(PieceUnits)
<1>1. /\ pc = "write" /\ mode # "direct" /\ pc' # "down"
      /\ dev' = [dev EXCEPT ![active] = @ \o PieceUnits]
      /\ f' = [f EXCEPT !.extents = Append(@, PieceExtent),
                        !.start = [z |-> active, off |-> wp],
                        !.size = @ + PieceLen]
      /\ active' = IF wp = ZoneCap THEN NoZone ELSE active
      /\ UNCHANGED <<mode, meta>>
    BY DEF AppendPiece
<1>2. active \in Zones /\ active # NoZone /\ left # <<>> /\ Wp(active) < ZoneCap
    BY <1>1 DEF RecoveryInv, CallInv, Types, ActiveInv
<1>3. f.start # NoExtent /\ f.start.z = active /\ f.start.off \in Nat /\ f \in File
    BY <1>1, <1>2 DEF RecoveryInv, ActiveInv, Types, File, StartSet
<1>4. PieceUnits \in Seq(Unit) /\ PieceLen \in Nat \ {0} /\ Reserved \in {0, 1}
    BY <1>2, Piece, PieceLength DEF RecoveryInv
<1>5. PieceExtent \in ExtentSet /\ PieceExtent.z = active
  <2>1. f.start.off + Reserved \in Nat
      BY <1>3, <1>4
  <2> QED BY <1>2, <1>3, <1>4, <2>1 DEF PieceExtent, ExtentSet
<1>6. /\ f'.extents = Append(f.extents, PieceExtent)
      /\ f'.start.z = active /\ f'.start.off = wp
    BY <1>1, <1>3 DEF File
<1>7. f.extents \in Seq(ExtentSet)
    BY <1>3 DEF File
<1>8. /\ HasExtent(f'.extents, active)
      /\ \A z \in Zones : HasExtent(f.extents, z) => HasExtent(f'.extents, z)
    BY <1>5, <1>6, <1>7, OneMore
<1>9. \A y \in Zones : Len(dev'[y]) >= Len(dev[y])
    BY <1>1, <1>2, <1>4, Longer DEF RecoveryInv
<1>10. Len(dev'[active]) = wp /\ wp \in Nat
  <2>1. dev[active] \in Seq(Unit) /\ dev'[active] = dev[active] \o PieceUnits
      BY <1>1, <1>2 DEF RecoveryInv, Device
  <2> QED BY <1>4, <2>1 DEF Wp
<1> HIDE DEF wp
<1>11. meta'.start \in {meta.start, f'.start}
    BY <1>1
<1>12. f'.start.z = active /\ active \in Zones /\ f'.start.off <= Len(dev'[active])
    BY <1>2, <1>6, <1>10
<1>13. /\ active' = active \/ (Len(dev'[active]) = ZoneCap /\ HasExtent(f'.extents, active))
       /\ active' # NoZone => HasExtent(f'.extents, active')
    BY <1>1, <1>8, <1>10
<1> QED BY <1>1, <1>8, <1>9, <1>11, <1>12, <1>13, StartKept

(* PushExtent: what a direct writer has written becomes an extent of its   *)
(* zone.                                                                   *)
LEMMA PushedStart ==
    ASSUME RecoveryInv, StartInv, mode = "direct"
    PROVE  /\ \A z \in Zones : HasExtent(f.extents, z) => HasExtent(Pushed(f).extents, z)
           /\ active # NoZone /\ Len(dev[active]) = ZoneCap =>
                HasExtent(Pushed(f).extents, active)
           /\ \/ Pushed(f).start = f.start
              \/ /\ Pushed(f).start.z = active /\ active \in Zones
                 /\ Pushed(f).start.off <= Len(dev[active])
<1>0. f \in File /\ f.extents \in Seq(ExtentSet) /\ f.size \in Nat /\ f.filepos \in Nat
    BY DEF RecoveryInv, Types, File
<1>1. CASE active = NoZone \/ f.size = f.filepos
  <2>1. Pushed(f) = f
      BY <1>1 DEF Pushed
  <2>2. active # NoZone /\ Len(dev[active]) = ZoneCap => HasExtent(f.extents, active)
    <3>1. active # NoZone => Pending = 0
        BY <1>0, <1>1 DEF Pending
    <3> QED BY <3>1 DEF StartInv, Wp
  <2> QED BY <2>1, <2>2
<1>2. CASE active # NoZone /\ f.size # f.filepos
  <2> DEFINE e == [z |-> f.start.z, off |-> f.start.off, len |-> f.size - f.filepos]
  <2>1. f.filepos <= f.size
      BY <1>2 DEF RecoveryInv, ActiveInv
  <2>2. Pending # 0
      BY <1>0, <1>2, <2>1 DEF Pending
  <2>3. f.start # NoExtent /\ f.start.z = active
      BY <1>2, <2>2 DEF RecoveryInv, ActiveInv
  <2>4. active \in Zones /\ f.start.off \in Nat /\ Wp(active) \in Nat /\ Wp(active) = Len(dev[active])
      BY <1>2, <2>3, StartZones
  <2>a. f.size - f.filepos \in Nat \ {0}
      BY <1>0, <1>2, <2>1
  <2>5. e \in ExtentSet /\ e.z = active
      BY <2>3, <2>4, <2>a DEF ExtentSet
  <2>6. Pushed(f) = [f EXCEPT !.extents = Append(f.extents, e),
                              !.start = [z |-> active, off |-> Wp(active)],
                              !.filepos = f.size]
      BY <1>2, Zenon DEF Pushed, e
  <2> HIDE DEF e
  <2>7. /\ Pushed(f).extents = Append(f.extents, e)
        /\ Pushed(f).start = [z |-> active, off |-> Wp(active)]
      BY <1>0, <2>6 DEF File
  <2>8. Pushed(f).start.z = active /\ Pushed(f).start.off <= Len(dev[active])
      BY <2>4, <2>7
  <2>9. /\ HasExtent(Append(f.extents, e), active)
        /\ \A z \in Zones : HasExtent(f.extents, z) => HasExtent(Append(f.extents, e), z)
      BY <1>0, <2>5, OneMore
  <2> QED BY <2>4, <2>7, <2>8, <2>9
<1> QED BY <1>1, <1>2

(* A direct writer closes a full zone, which has an extent by then. *)
LEMMA DirectFullStart ==
    ASSUME RecoveryInv, RecoveryInv', StartInv, DirectFull
    PROVE  StartInv'
<1>1. /\ pc = "write" /\ mode = "direct" /\ Capacity(active) = 0
      /\ f' = Pushed(f) /\ active' = NoZone /\ pc' # "down" /\ UNCHANGED <<dev, meta>>
    BY DEF DirectFull
<1>2. active # NoZone
    BY <1>1 DEF RecoveryInv, CallInv
<1>3. Len(dev[active]) = ZoneCap /\ \A y \in Zones : Len(dev'[y]) >= Len(dev[y])
    BY <1>1, <1>2, StartZones, Constants DEF Capacity
<1>4. /\ \A z \in Zones : HasExtent(f.extents, z) => HasExtent(f'.extents, z)
      /\ HasExtent(f'.extents, active)
      /\ \/ f'.start = f.start
         \/ /\ f'.start.z = active /\ active \in Zones
            /\ f'.start.off <= Len(dev'[active])
    BY <1>1, <1>2, <1>3, PushedStart
<1> QED BY <1>1, <1>3, <1>4, StartKept

(* A direct writer has something to push after a write. *)
LEMMA DirectWriteStart ==
    ASSUME RecoveryInv, RecoveryInv', StartInv, DirectWrite
    PROVE  StartInv'
<1>1. /\ pc = "write" /\ mode = "direct" /\ Capacity(active) > 0
      /\ dev' = [dev EXCEPT ![active] = @ \o First(left, DirectLen)]
      /\ f' = [f EXCEPT !.size = @ + DirectLen]
      /\ pc' # "down" /\ UNCHANGED <<mode, meta, active>>
    BY DEF DirectWrite
<1>2. active \in Zones /\ active # NoZone /\ left # <<>>
    BY <1>1 DEF RecoveryInv, CallInv, Types
<1>3. Wp(active) < ZoneCap
    BY <1>1, <1>2, StartZones, Constants DEF Capacity
<1>4. DirectLen \in Nat /\ DirectLen >= 1 /\ First(left, DirectLen) \in Seq(Unit)
  <2>1. \E c \in Nat : Len(left) = B * c
      BY <1>1 DEF RecoveryInv, CallInv
  <2> QED BY <1>2, <1>3, <2>1, Direct DEF RecoveryInv
<1>5. \A y \in Zones : Len(dev'[y]) >= Len(dev[y])
    BY <1>1, <1>2, <1>4, Longer DEF RecoveryInv
<1>6. f \in File /\ f.size \in Nat /\ f.filepos \in Nat /\ f.filepos <= f.size
    BY <1>2 DEF RecoveryInv, Types, File, ActiveInv
<1>7. /\ f'.extents = f.extents /\ f'.start = f.start /\ f'.filepos = f.filepos
      /\ f'.size = f.size + DirectLen
    BY <1>1, <1>6 DEF File
<1>8. Pending' > 0
  <2>0. mode' = "direct"
      BY <1>1
  <2>1. Pending' = (f.size + DirectLen) - f.filepos
      BY <1>7, <2>0 DEF Pending
  <2> QED BY <1>4, <1>6, <2>1
<1> QED BY <1>1, <1>5, <1>7, <1>8, StartKept

(* A write that fails does not fill the zone. *)
LEMMA WriteFailsStart ==
    ASSUME RecoveryInv, RecoveryInv', StartInv, NEW n \in 0 .. ZoneBlocks, WriteFails(n)
    PROVE  StartInv'
<1>1. /\ pc = "write" /\ Capacity(active) > 0 /\ Partial(n) /\ pc' # "down"
      /\ UNCHANGED <<mode, meta, f, active>>
    BY DEF WriteFails, Fails
<1>2. n \in Nat
    BY Constants
<1>3. /\ active \in Zones /\ Len(dev'[active]) >= Len(dev[active])
      /\ Len(dev'[active]) < ZoneCap
    BY <1>1, <1>2, PartialWrite
<1>4. ASSUME NEW y \in Zones PROVE Len(dev'[y]) >= Len(dev[y])
  <2>1. y # active => dev'[y] = dev[y]
      BY <1>1, <1>3 DEF Partial, RecoveryInv, Device
  <2> QED BY <1>3, <2>1, StartZones
<1>5. Len(dev'[active']) # ZoneCap
  <2>1. Len(dev'[active]) \in Nat
      BY <1>3 DEF RecoveryInv, Device
  <2> QED BY <1>1, <1>3, <2>1, Constants
<1> QED BY <1>1, <1>4, <1>5, StartKept

(* DataSync pushes the extent of a direct writer. *)
LEMMA DataSyncEndsStart ==
    ASSUME RecoveryInv, RecoveryInv', StartInv, DataSyncEnds
    PROVE  StartInv'
<1>1. /\ pc = "flushed" /\ op # "append"
      /\ f' = (IF mode = "direct" THEN Pushed(f) ELSE f)
      /\ UNCHANGED <<mode, dev, active>>
    BY DEF DataSyncEnds
<1>2. op \in {"sync", "fsync", "close"} /\ f \in File
    BY <1>1 DEF RecoveryInv, CallInv, Types
<1>3. pc' # "down"
    BY <1>2 DEF DataSyncEnds, Acknowledged, AfterData, Returns, Fails
<1>4. meta' = meta \/ (mode = "buffered" /\ meta' = Saved(f))
    BY DEF DataSyncEnds, DataSyncPersists, Persist
<1>5. meta'.start \in {meta.start, f'.start}
    BY <1>1, <1>2, <1>4, SavedFile
<1>6. \A y \in Zones : Len(dev'[y]) >= Len(dev[y])
    BY <1>1, StartZones
<1>7. CASE mode = "direct"
  <2>1. /\ \A z \in Zones : HasExtent(f.extents, z) => HasExtent(f'.extents, z)
        /\ active # NoZone /\ Len(dev[active]) = ZoneCap => HasExtent(f'.extents, active)
        /\ \/ f'.start = f.start
           \/ /\ f'.start.z = active /\ active \in Zones
              /\ f'.start.off <= Len(dev[active])
      BY <1>1, <1>7, PushedStart
  <2> QED BY <1>1, <1>3, <1>5, <1>6, <2>1, StartKept
<1>8. CASE mode # "direct"
  <2>1. active' # NoZone /\ Len(dev'[active']) = ZoneCap => HasExtent(f'.extents, active')
    <3>1. Pending = 0
        BY <1>8 DEF Pending
    <3> QED BY <1>1, <1>8, <3>1 DEF StartInv, Wp
  <2> QED BY <1>1, <1>3, <1>5, <1>6, <1>8, <2>1, StartKept
<1> QED BY <1>7, <1>8

(* Fsync, or Close, saves the file; after Close there is no active extent. *)
LEMMA PersistStart ==
    ASSUME RecoveryInv, RecoveryInv', StartInv, FsyncPersists \/ CloseWR
    PROVE  StartInv'
<1>0. f \in File /\ f' \in File
    BY DEF RecoveryInv, Types
<1>1. /\ pc # "down" /\ pc' # "down" /\ UNCHANGED <<mode, dev>>
      /\ f'.extents = f.extents /\ f'.size = f.size /\ f'.filepos = f.filepos
      /\ f'.start \in {f.start, NoExtent}
    BY <1>0 DEF FsyncPersists, CloseWR, Returns, Fails, File
<1>2. meta'.start \in {meta.start, f'.start}
    BY <1>0, SavedFile DEF FsyncPersists, CloseWR, Persist
<1>3. Pending' = Pending
    BY <1>1 DEF Pending
<1>4. CASE active' = active
  <2>1. \A y \in Zones : Len(dev'[y]) >= Len(dev[y])
      BY <1>1, StartZones
  <2>2. active # NoZone /\ Len(dev[active]) = ZoneCap => Pending > 0 \/ HasExtent(f.extents, active)
      BY DEF StartInv, Wp
  <2> QED BY <1>1, <1>2, <1>3, <1>4, <2>1, <2>2, StartKept
<1>5. CASE active' # active
  <2>1. active' = NoZone /\ f'.start = NoExtent /\ meta' = Saved(f')
      BY <1>0, <1>5 DEF FsyncPersists, CloseWR, Persist, File
  <2>2. meta'.start = NoExtent
      BY <1>0, <2>1, SavedFile
  <2> QED BY <2>1, <2>2 DEF StartInv
<1> QED BY <1>4, <1>5

(* The other file, and resets, keep away from the zones that are held. *)
LEMMA OthersStart ==
    ASSUME RecoveryInv, RecoveryInv', StartInv,
           ResetUnusedIOZones \/ \E z \in Zones : OtherWrites(z)
    PROVE  StartInv'
<1>1. pc # "down" /\ pc' # "down" /\ UNCHANGED <<mode, meta, f, active>>
    BY DEF ResetUnusedIOZones, OtherWrites
<1>2. \A y \in Zones : Held(dev, active, f.extents, y) => Len(dev'[y]) >= Len(dev[y])
  <2> SUFFICES ASSUME NEW y \in Zones, Held(dev, active, f.extents, y)
               PROVE  Len(dev'[y]) >= Len(dev[y])
      OBVIOUS
  <2>1. CASE ResetUnusedIOZones
    <3>1. /\ active \in Zones => dev'[active] = dev[active]
          /\ \A i \in 1 .. Len(f.extents) : dev'[f.extents[i].z] = dev[f.extents[i].z]
        BY <2>1, EmptiedKeeps DEF ResetUnusedIOZones, RecoveryInv, Types
    <3>2. dev'[y] = dev[y]
        BY <3>1 DEF Held
    <3> QED BY <3>2, StartZones
  <2>2. CASE \E z \in Zones : OtherWrites(z)
    <3>1. PICK z \in Zones : OtherWrites(z)
        BY <2>2
    <3>2. [i \in 1 .. B |-> Other] \in Seq(Unit)
      <4>1. Other \in Unit
          BY DEF Other, Unit, Kinds
      <4> QED BY <4>1, Constants
    <3>3. \A x \in Zones : Len(dev'[x]) >= Len(dev[x])
        BY <3>1, <3>2, Longer DEF OtherWrites, RecoveryInv
    <3> QED BY <3>3
  <2> QED BY <2>1, <2>2
<1>3. active' # NoZone /\ Len(dev'[active']) = ZoneCap => Pending' > 0 \/ HasExtent(f'.extents, active')
  <2> SUFFICES ASSUME active # NoZone, Len(dev'[active]) = ZoneCap
               PROVE  Pending > 0 \/ HasExtent(f.extents, active)
      BY <1>1 DEF Pending
  <2>1. active \in Zones
      BY StartZones
  <2>2. dev'[active] = dev[active]
    <3>1. CASE ResetUnusedIOZones
        BY <2>1, <3>1, EmptiedKeeps DEF ResetUnusedIOZones, RecoveryInv, Types
    <3>2. CASE \E z \in Zones : OtherWrites(z)
        BY <2>1, <3>2 DEF OtherWrites, RecoveryInv, Device
    <3> QED BY <3>1, <3>2
  <2> QED BY <2>2 DEF StartInv, Wp
<1> QED BY <1>1, <1>2, <1>3, StartKept

(* A crash shortens no zone. *)
LEMMA CrashStart ==
    ASSUME RecoveryInv, StartInv, Crash
    PROVE  StartInv'
<1>1. pc' = "down" /\ active' = NoZone /\ UNCHANGED <<mode, meta>>
    BY DEF Crash
<1>2. meta.start # NoExtent => meta.start.off <= Len(dev'[meta.start.z])
  <2> SUFFICES ASSUME meta.start # NoExtent PROVE meta.start.off <= Len(dev'[meta.start.z])
      OBVIOUS
  <2>1. meta.start.off \in Nat /\ meta.start.z \in Zones /\ meta.start.off <= Len(dev[meta.start.z])
      BY StartZones DEF StartInv, Wp
  <2>2. CASE dev' = dev
      BY <2>1, <2>2
  <2>3. CASE pc = "write" /\ Capacity(active) > 0 /\ \E n \in 1 .. ZoneBlocks : Partial(n)
    <3>1. PICK n \in 1 .. ZoneBlocks : Partial(n)
        BY <2>3
    <3>2. n \in Nat
        BY Constants
    <3>3. Device' /\ active \in Zones /\ Len(dev'[active]) >= Len(dev[active])
        BY <2>3, <3>1, <3>2, PartialWrite
    <3>4. \A y \in Zones : y # active => dev'[y] = dev[y]
        BY <3>1, <3>3 DEF Partial, RecoveryInv, Device
    <3>5. Len(dev'[meta.start.z]) \in Nat /\ Len(dev[meta.start.z]) \in Nat
      <4>1. dev \in [Zones -> Seq(Unit)]
          BY DEF RecoveryInv, Device
      <4>2. dev' \in [Zones -> Seq(Unit)]
          BY <3>3 DEF Device
      <4>3. dev[meta.start.z] \in Seq(Unit) /\ dev'[meta.start.z] \in Seq(Unit)
          BY <2>1, <4>1, <4>2
      <4> QED BY <4>3
    <3>6. Len(dev'[meta.start.z]) >= Len(dev[meta.start.z])
        BY <2>1, <3>3, <3>4, <3>5
    <3> QED BY <2>1, <3>5, <3>6
  <2> QED BY <1>1, <2>2, <2>3 DEF Crash
<1> QED BY <1>1, <1>2 DEF StartInv, Wp

(* A mount leaves no place to begin from. *)
LEMMA MountStart ==
    ASSUME RecoveryInv, Mount, "astray" \notin mishap'
    PROVE  StartInv'
<1>1. f' = Recover(meta).file /\ meta' = f' /\ active' = active /\ Recover(meta).ok /\ pc = "down"
    BY DEF Mount
<1>2. f'.start = NoExtent
  <2>1. ~Misled(meta)
      BY DEF Mount
  <2> QED BY <1>1, <2>1, RecoverSound
<1>3. active' = NoZone
    BY <1>1 DEF RecoveryInv, CallInv
<1> QED BY <1>1, <1>2, <1>3 DEF StartInv

(* Every step keeps the place where recovery begins. *)
LEMMA NextStartInv ==
    ASSUME RecoveryInv, StartInv, mishap' = {}, [Next]_vars
    PROVE  StartInv'
<1>1. RecoveryInv'
    BY NextRecoveryInv
<1>2. CASE \E n \in 0 .. ZoneBlocks : WriteFails(n)
    BY <1>1, <1>2, WriteFailsStart
<1>3. CASE UNCHANGED vars
    BY <1>3 DEF vars, StartInv, Pending, Wp
<1> QED BY <1>1, <1>2, <1>3, IdleStart, AllocateStart, AppendPieceStart, DirectFullStart,
           DirectWriteStart, DataSyncEndsStart, PersistStart, OthersStart, CrashStart,
           MountStart DEF Next

-----------------------------------------------------------------------------
(* Types and sizes.                                                        *)

Seen == Unit \cup {Unwritten}

(* FlattenSeq as the fixpoint it stands for. *)
FlatStep(ss, g, i) == IF i = 1 THEN ss[i] ELSE g[i - 1] \o ss[i]
FlatOf(ss) == CHOOSE g : g = [i \in 1 .. Len(ss) |-> FlatStep(ss, g, i)]

(* FlattenSeq is defined by recursion, which is this fixpoint. *)
LEMMA FlattenIsFlat ==
    ASSUME NEW ss, Len(ss) # 0
    PROVE  FlattenSeq(ss) = FlatOf(ss)[Len(ss)]
BY Zenon DEF FlattenSeq, FlatOf, FlatStep

(* The fixpoint exists: it is built from the first sequence on. *)
LEMMA FlatFixpoint ==
    ASSUME NEW ss, Len(ss) \in Nat
    PROVE  FlatOf(ss) = [i \in 1 .. Len(ss) |-> FlatStep(ss, FlatOf(ss), i)]
<1> DEFINE n == Len(ss)
           Good(g, k) == \A i \in 1 .. n : i <= k => g[i] = FlatStep(ss, g, i)
           S == {k \in Nat : \E g : g = [i \in 1 .. n |-> g[i]] /\ Good(g, k)}
<1> HIDE DEF n
<1>0. n \in Nat
    BY DEF n
<1>1. 0 \in S
  <2> DEFINE g == [i \in 1 .. n |-> 0]
  <2>1. Good(g, 0) /\ g = [i \in 1 .. n |-> g[i]]
      OBVIOUS
  <2> HIDE DEF g, Good
  <2>2. \E u : u = [i \in 1 .. n |-> u[i]] /\ Good(u, 0)
      BY <2>1, Zenon
  <2> QED BY <2>2
<1>2. ASSUME NEW k \in Nat, k \in S PROVE k + 1 \in S
  <2>1. PICK g : g = [i \in 1 .. n |-> g[i]] /\ Good(g, k)
      BY <1>2
  <2> DEFINE h == [i \in 1 .. n |-> FlatStep(ss, g, i)]
  <2>2. ASSUME NEW i \in 1 .. n, i <= k + 1 PROVE h[i] = FlatStep(ss, h, i)
    <3>1. CASE i = 1
        BY <3>1 DEF FlatStep
    <3>2. CASE i # 1
      <4>1. i - 1 \in 1 .. n /\ i - 1 <= k
          BY <1>0, <2>2, <3>2
      <4>2. h[i - 1] = g[i - 1]
          BY <2>1, <4>1
      <4>3. h[i] = FlatStep(ss, g, i)
          OBVIOUS
      <4> HIDE DEF h
      <4> QED BY <3>2, <4>2, <4>3 DEF FlatStep
    <3> QED BY <3>1, <3>2
  <2>3. Good(h, k + 1) /\ h = [i \in 1 .. n |-> h[i]]
      BY <2>2
  <2>4. k + 1 \in Nat
      OBVIOUS
  <2>5. \E u : u = [i \in 1 .. n |-> u[i]] /\ Good(u, k + 1)
    <3> HIDE DEF h, Good
    <3> QED BY <2>3, Zenon
  <2> HIDE DEF Good
  <2> QED BY <2>4, <2>5
<1>3. n \in S
  <2> HIDE DEF S
  <2> QED BY <1>0, <1>1, <1>2, Induction
<1>4. PICK g : g = [i \in 1 .. n |-> g[i]] /\ Good(g, n)
    BY <1>3
<1>5. g = [i \in 1 .. n |-> FlatStep(ss, g, i)]
    BY <1>0, <1>4
<1> QED BY <1>5 DEF FlatOf, n

(* Sequences of sequences make one sequence. *)
LEMMA Flat ==
    ASSUME NEW X, NEW ss \in Seq(Seq(X))
    PROVE  FlattenSeq(ss) \in Seq(X)
<1> DEFINE n == Len(ss)
           G == FlatOf(ss)
           S == {k \in Nat : \A i \in 1 .. n : i <= k => G[i] \in Seq(X)}
<1>0. n \in Nat /\ \A i \in 1 .. n : ss[i] \in Seq(X)
    OBVIOUS
<1>1. G = [i \in 1 .. n |-> FlatStep(ss, G, i)]
    BY <1>0, FlatFixpoint
<1> HIDE DEF G, n
<1>2. 0 \in S
    OBVIOUS
<1>3. ASSUME NEW k \in Nat, k \in S PROVE k + 1 \in S
  <2>1. ASSUME NEW i \in 1 .. n, i <= k + 1 PROVE G[i] \in Seq(X)
    <3>0. G[i] = FlatStep(ss, G, i) /\ ss[i] \in Seq(X)
        BY <1>0, <1>1
    <3>1. CASE i = 1
        BY <3>0, <3>1 DEF FlatStep
    <3>2. CASE i # 1
      <4>1. i - 1 \in 1 .. n /\ i - 1 <= k
          BY <1>0, <2>1, <3>2
      <4>2. G[i - 1] \in Seq(X)
          BY <1>3, <4>1
      <4>3. G[i] = G[i - 1] \o ss[i]
          BY <3>0, <3>2 DEF FlatStep
      <4> QED BY <3>0, <4>2, <4>3
    <3> QED BY <3>1, <3>2
  <2> QED BY <2>1
<1>4. n \in S
  <2> HIDE DEF S
  <2> QED BY <1>0, <1>2, <1>3, Induction
<1>5. CASE n = 0
  <2>1. ss = <<>>
      BY <1>5 DEF n
  <2> QED BY <1>5, <2>1 DEF FlattenSeq, n
<1>6. CASE n # 0
  <2>1. G[n] \in Seq(X)
      BY <1>0, <1>4, <1>6
  <2> QED BY <1>6, <2>1, FlattenIsFlat DEF n, G
<1> QED BY <1>5, <1>6

(* What a reader of a file sees is a sequence of units. *)
LEMMA ReadableUnits ==
    ASSUME Device, NEW g \in File
    PROVE  Readable(g) \in Seq(Seen)
<1> DEFINE es == g.extents
           c == Content(es)
<1>1. es \in Seq(ExtentSet) /\ g.size \in Nat
    BY DEF File
<1>2. ASSUME NEW z, NEW off \in Nat PROVE At(z, off) \in Seen
  <2>1. CASE z \in Zones /\ off < Wp(z)
    <3>1. Wp(z) \in Nat /\ off \in 0 .. Wp(z) - 1
        BY <2>1, WpRange
    <3> QED BY <2>1, <3>1, WpRange DEF Seen
  <2>2. CASE ~(z \in Zones /\ off < Wp(z))
      BY <2>2 DEF At, Seen
  <2> QED BY <2>1, <2>2
<1>3. ASSUME NEW e \in ExtentSet PROVE ExtentUnits(e) \in Seq(Seen)
  <2>1. e.off \in Nat /\ e.len \in Nat
      BY DEF ExtentSet
  <2>2. \A i \in 1 .. e.len : e.off + i - 1 \in Nat
      BY <2>1
  <2>3. \A i \in 1 .. e.len : At(e.z, e.off + i - 1) \in Seen
      BY <1>2, <2>2
  <2> QED BY <2>1, <2>3 DEF ExtentUnits
<1> HIDE DEF es
<1>4. [i \in 1 .. Len(es) |-> ExtentUnits(es[i])] \in Seq(Seq(Seen))
  <2>1. \A i \in 1 .. Len(es) : ExtentUnits(es[i]) \in Seq(Seen)
      BY <1>1, <1>3
  <2>2. Len(es) \in Nat
      BY <1>1
  <2> QED BY <2>1, <2>2
<1>5. c \in Seq(Seen)
    BY <1>4, Flat DEF Content
<1> HIDE DEF c
<1>6. g.size < Len(c) => First(c, g.size) \in Seq(Seen)
  <2> SUFFICES ASSUME g.size < Len(c) PROVE First(c, g.size) \in Seq(Seen)
      OBVIOUS
  <2>1. Len(c) \in Nat /\ g.size <= Len(c)
      BY <1>1, <1>5
  <2> QED BY <1>1, <1>5, <2>1, FirstUnits
<1> QED BY <1>5, <1>6 DEF Readable, c, es

(* What the callers were told: no more was synced than was written. *)
HistoryInv ==
    /\ open \in BOOLEAN /\ closing \in BOOLEAN /\ failed \in BOOLEAN
    /\ want \in Seq(Seen) /\ synced \in Nat /\ synced <= Len(want)

(* Data are units. *)
LEMMA DataSeen == \A i \in Nat : Data(i) \in Seen /\ Data(i) \in DataUnit
BY DEF Data, Seen, Unit, Kinds, DataUnit

(* Appended units keep the history in order. *)
LEMMA WantLonger ==
    ASSUME HistoryInv, NEW s \in Seq(Seen), want' = want \o s, synced' = synced
    PROVE  want' \in Seq(Seen) /\ synced' <= Len(want')
<1>1. want \in Seq(Seen) /\ synced \in Nat /\ synced <= Len(want)
    BY DEF HistoryInv
<1>2. want' \in Seq(Seen) /\ Len(want') = Len(want) + Len(s)
    BY <1>1
<1>3. Len(s) \in Nat /\ Len(want) \in Nat
    BY <1>1
<1> QED BY <1>1, <1>2, <1>3

(* Every step keeps the history in order. *)
LEMMA NextHistoryInv ==
    ASSUME RecoveryInv, HistoryInv, "astray" \notin mishap', [Next]_vars
    PROVE  HistoryInv'
<1>0. /\ open \in BOOLEAN /\ closing \in BOOLEAN /\ failed \in BOOLEAN
      /\ want \in Seq(Seen) /\ synced \in Nat /\ synced <= Len(want)
      /\ Len(want) \in Nat /\ count.units \in Nat
    BY DEF HistoryInv, RecoveryInv, Types
<1>1. ASSUME UNCHANGED <<open, closing, synced, failed>>,
             want' = want \/ want' = Append(want, Data(count.units + 1))
      PROVE  HistoryInv'
  <2>1. CASE want' = want
      BY <1>0, <1>1, <2>1 DEF HistoryInv
  <2>2. CASE want' = Append(want, Data(count.units + 1))
    <3>1. Data(count.units + 1) \in Seen
        BY <1>0, DataSeen
    <3>2. want' \in Seq(Seen) /\ Len(want') = Len(want) + 1
        BY <1>0, <2>2, <3>1
    <3> QED BY <1>0, <1>1, <3>2 DEF HistoryInv
  <2> QED BY <1>1, <2>1, <2>2
<1>2. ASSUME want' = want, open' \in BOOLEAN, closing' \in BOOLEAN, failed' \in BOOLEAN,
             synced' \in {synced, Len(want)}
      PROVE  HistoryInv'
    BY <1>0, <1>2 DEF HistoryInv
<1>3. CASE BufferedWrite \/ AppendEnds
    BY <1>1, <1>3 DEF BufferedWrite, AppendEnds
<1>4. CASE \E n \in 1 .. BufBlocks : DirectAppend(n)
  <2>1. PICK n \in 1 .. BufBlocks : DirectAppend(n)
      BY <1>4
  <2> DEFINE s == [i \in 1 .. n * B |-> Data(count.units + i)]
  <2>2. want' = want \o s /\ UNCHANGED <<open, closing, synced, failed>>
      BY <2>1 DEF DirectAppend
  <2>3. n * B \in Nat
      BY Constants
  <2>4. \A i \in 1 .. n * B : Data(count.units + i) \in Seen
      BY <1>0, <2>3, DataSeen
  <2>5. s \in Seq(Seen)
      BY <2>3, <2>4
  <2> HIDE DEF s
  <2>6. want' \in Seq(Seen) /\ synced' <= Len(want')
      BY <2>2, <2>5, WantLonger
  <2> QED BY <1>0, <2>2, <2>6 DEF HistoryInv
<1>5. CASE \E o \in {"sync", "fsync", "close"} : DataSync(o)
  <2>1. PICK o \in {"sync", "fsync", "close"} : DataSync(o)
      BY <1>5
  <2>2. want' = want /\ synced' = synced /\ open' = open /\ failed' = failed
      BY <2>1 DEF DataSync
  <2>3. closing' = (o = "close")
      BY <2>1 DEF DataSync
  <2>4. closing' \in BOOLEAN
      BY <2>3
  <2> QED BY <1>0, <1>2, <2>2, <2>4
<1>6. CASE AllocateNewZone \/ \E n \in 0 .. ZoneBlocks : WriteFails(n)
  <2>1. UNCHANGED <<want, synced, open, closing>> /\ (failed' = failed \/ failed' = TRUE)
      BY <1>6 DEF AllocateNewZone, WriteFails, Fails
  <2> QED BY <1>0, <1>2, <2>1
<1>7. CASE \/ AppendPiece \/ DirectFull \/ DirectWrite \/ Reopen
           \/ (\E z \in Zones : OtherWrites(z)) \/ ResetUnusedIOZones
           \/ UNCHANGED vars
  <2>1. UNCHANGED <<want, synced, closing, failed>> /\ (open' = open \/ open' = TRUE)
      BY <1>7 DEF AppendPiece, DirectFull, DirectWrite, Reopen, OtherWrites,
                  ResetUnusedIOZones, vars
  <2> QED BY <1>0, <1>2, <2>1
<1>8. CASE DataSyncEnds \/ FsyncPersists \/ CloseWR
  <2>1. want' = want /\ synced' \in {synced, Len(want)}
      BY <1>8 DEF DataSyncEnds, Acknowledged, FsyncPersists, CloseWR, Returns
  <2>2. failed' = failed \/ failed' = TRUE
      BY <1>8 DEF DataSyncEnds, Acknowledged, FsyncPersists, CloseWR, Returns, Fails
  <2>3. (open' = open \/ open' = FALSE) /\ (closing' = closing \/ closing' = FALSE)
      BY <1>8 DEF DataSyncEnds, FsyncPersists, CloseWR
  <2> QED BY <1>0, <1>2, <2>1, <2>2, <2>3
<1>9. CASE Crash
  <2>1. UNCHANGED <<want, synced, failed>> /\ open' = FALSE /\ closing' = FALSE
      BY <1>9 DEF Crash
  <2> QED BY <1>0, <1>2, <2>1
<1>10. CASE Mount
  <2>1. /\ Recover(meta).ok /\ want' = Readable(Recover(meta).file)
        /\ synced' = Len(Readable(Recover(meta).file))
        /\ failed' = FALSE /\ UNCHANGED <<open, closing>>
      BY <1>10 DEF Mount
  <2>2. Readable(Recover(meta).file) \in Seq(Seen)
    <3>1. ~Misled(meta)
        BY <1>10 DEF Mount
    <3> QED BY <2>1, <3>1, RecoverSound, ReadableUnits DEF RecoveryInv
  <2>3. synced' = Len(want') /\ want' \in Seq(Seen)
      BY <2>1, <2>2
  <2>4. Len(want') \in Nat
      BY <2>3
  <2>5. synced' \in Nat /\ synced' <= Len(want')
      BY <2>3, <2>4
  <2> QED BY <1>0, <2>1, <2>3, <2>5 DEF HistoryInv
<1> QED BY <1>3, <1>4, <1>5, <1>6, <1>7, <1>8, <1>9, <1>10 DEF Next

-----------------------------------------------------------------------------
(* The buffer and what is left of it never exceed its size. *)
BufferInv ==
    /\ Len(buffer) <= BufferSize
    /\ mode # "direct" => Len(left) <= BufferSize

(* The buffer has room for a unit. *)
LEMMA BufferRoom == BufferSize \in Nat /\ BufferSize >= 1
<1>1. B \in Nat /\ B > 1 /\ BufBlocks \in Nat /\ BufBlocks > 0
    BY Constants
<1>2. B * BufBlocks \in Nat /\ B * BufBlocks >= B
    BY <1>1
<1> QED BY <1>1, <1>2 DEF BufferSize, HeaderSize

(* The rest moved to the front of a buffer makes it no longer. *)
LEMMA Moved ==
    ASSUME NEW s \in Seq(DataUnit), NEW r \in Seq(DataUnit), NEW m \in Nat,
           Len(s) <= m, Len(r) <= m
    PROVE  Len(r \o SubSeq(s, Len(r) + 1, Len(s))) <= m
<1>1. Len(s) \in Nat /\ Len(r) \in Nat
    OBVIOUS
<1>2. CASE Len(r) < Len(s)
  <2>1. SubSeq(s, Len(r) + 1, Len(s)) \in Seq(DataUnit)
        /\ Len(SubSeq(s, Len(r) + 1, Len(s))) = Len(s) - Len(r)
      BY <1>1, <1>2
  <2> QED BY <1>1, <2>1
<1>3. CASE ~(Len(r) < Len(s))
  <2>1. SubSeq(s, Len(r) + 1, Len(s)) = <<>>
      BY <1>1, <1>3
  <2>2. Len(r \o <<>>) = Len(r)
      OBVIOUS
  <2> QED BY <2>1, <2>2
<1> QED BY <1>2, <1>3

(* Every step keeps to the size of the buffer. *)
LEMMA NextBufferInv ==
    ASSUME RecoveryInv, BufferInv, [Next]_vars
    PROVE  BufferInv'
<1>0. /\ BufferSize \in Nat /\ BufferSize >= 1
      /\ buffer \in Seq(DataUnit) /\ left \in Seq(DataUnit)
      /\ Len(buffer) \in Nat /\ Len(left) \in Nat
      /\ Len(buffer) <= BufferSize /\ (mode # "direct" => Len(left) <= BufferSize)
      /\ mode = "direct" => buffer = <<>>
    BY BufferRoom DEF RecoveryInv, Types, BufferInv, CallInv
<1>1. mode' = mode
    BY DEF Next, BufferedWrite, DirectAppend, DataSync, AllocateNewZone, AppendPiece,
           DirectFull, DirectWrite, WriteFails, AppendEnds, DataSyncEnds, FsyncPersists,
           CloseWR, Reopen, OtherWrites, ResetUnusedIOZones, Crash, Mount, vars
<1>2. BufferSize' = BufferSize
    BY <1>1 DEF BufferSize, Sparse
<1>3. ASSUME buffer' \in {buffer, <<>>}, mode # "direct" => left' \in {left, buffer, <<>>}
      PROVE  BufferInv'
  <2>1. Len(<<>>) = 0
      OBVIOUS
  <2> QED BY <1>0, <1>1, <1>2, <1>3, <2>1 DEF BufferInv
<1>4. CASE BufferedWrite
  <2>1. CASE Len(buffer) < BufferSize /\ buffer' = Append(buffer, Data(count.units + 1)) /\ left' = left
    <3>1. Len(buffer') = Len(buffer) + 1
        BY <1>0, <2>1
    <3>2. Len(buffer') <= BufferSize
        BY <1>0, <2>1, <3>1
    <3> QED BY <1>0, <1>1, <1>2, <2>1, <3>2 DEF BufferInv
  <2>2. CASE buffer' = buffer /\ left' = buffer
      BY <1>3, <2>2
  <2> QED BY <1>4, <2>1, <2>2 DEF BufferedWrite, Started
<1>5. CASE AppendEnds
  <2>1. left' = left /\ (buffer' = buffer \/ buffer' = <<Data(count.units + 1)>>)
      BY <1>5 DEF AppendEnds
  <2>2. CASE buffer' = buffer
      BY <1>3, <2>1, <2>2
  <2>3. CASE buffer' = <<Data(count.units + 1)>>
    <3>1. Len(buffer') = 1
        BY <2>3
    <3> QED BY <1>0, <1>1, <1>2, <2>1, <3>1 DEF BufferInv
  <2> QED BY <2>1, <2>2, <2>3
<1>6. CASE AppendPiece
  <2>1. /\ left' = SubSeq(left, PieceLen + 1, Len(left)) /\ mode # "direct" /\ pc = "write"
        /\ buffer' = left' \o SubSeq(buffer, Len(left') + 1, Len(buffer))
      BY <1>6 DEF AppendPiece
  <2>2. active \in Zones /\ left # <<>> /\ Wp(active) < ZoneCap
      BY <2>1 DEF RecoveryInv, CallInv, Types, ActiveInv
  <2>3. PieceLen \in Nat /\ PieceLen <= Len(left)
      BY <2>2, PieceLength DEF RecoveryInv
  <2>4. left' \in Seq(DataUnit) /\ Len(left') = Len(left) - PieceLen
      BY <1>0, <2>1, <2>3
  <2>5. Len(left') <= BufferSize
      BY <1>0, <2>1, <2>3, <2>4
  <2>6. Len(buffer') <= BufferSize
      BY <1>0, <2>1, <2>4, <2>5, Moved
  <2> QED BY <1>2, <2>5, <2>6 DEF BufferInv
<1>7. CASE \/ \E n \in 1 .. BufBlocks : DirectAppend(n)
           \/ DirectFull \/ DirectWrite
  <2>1. buffer' = buffer /\ mode = "direct"
      BY <1>7 DEF DirectAppend, DirectFull, DirectWrite
  <2> QED BY <1>3, <2>1
<1>8. CASE \/ \E o \in {"sync", "fsync", "close"} : DataSync(o)
           \/ AllocateNewZone
           \/ \E n \in 0 .. ZoneBlocks : WriteFails(n)
           \/ DataSyncEnds \/ FsyncPersists \/ CloseWR \/ Reopen
           \/ \E z \in Zones : OtherWrites(z)
           \/ ResetUnusedIOZones \/ Crash \/ Mount \/ UNCHANGED vars
  <2>1. buffer' \in {buffer, <<>>}
      BY <1>8 DEF DataSync, AllocateNewZone, WriteFails, DataSyncEnds, FsyncPersists, CloseWR,
                  Reopen, OtherWrites, ResetUnusedIOZones, Crash, Mount, vars
  <2>2. left' \in {left, buffer, <<>>}
      BY <1>8 DEF DataSync, Started, AllocateNewZone, WriteFails, Fails, DataSyncEnds,
                  FsyncPersists, CloseWR, Reopen, OtherWrites, ResetUnusedIOZones, Crash,
                  Mount, vars
  <2> QED BY <1>3, <2>1, <2>2
<1> QED BY <1>4, <1>5, <1>6, <1>7, <1>8 DEF Next

-----------------------------------------------------------------------------
(* The size of the file is what its extents add up to, unless it is        *)
(* written directly; a call that fails changes neither.                    *)
SizeInv ==
    /\ pc = "down" => f = Empty
    /\ f.filepos <= f.size /\ meta.filepos = 0
    /\ mode # "direct" => /\ f.size = Size(f.extents)
                          /\ meta.size = Size(meta.extents)

(* The file is as it was, and the log too or it has the file. *)
LEMMA SizeSame ==
    ASSUME RecoveryInv, SizeInv, pc' # "down", UNCHANGED <<mode, f>>,
           meta' = meta \/ meta' = Saved(f)
    PROVE  SizeInv'
<1>1. f \in File
    BY DEF RecoveryInv, Types
<1>2. Saved(f).filepos = 0 /\ Saved(f).size = f.size /\ Saved(f).extents = f.extents
    BY <1>1 DEF Saved, File
<1> QED BY <1>2 DEF SizeInv

(* No file has size 0. *)
LEMMA EmptySize == /\ Empty.size = 0 /\ Empty.filepos = 0 /\ Empty.extents = <<>>
                   /\ Size(<<>>) = 0
<1>1. Size(<<>>) = SizeOf(<<>>)[DOMAIN <<>>] /\ DOMAIN <<>> = 1 .. 0
    BY SizeIsFold
<1>2. SizeOf(<<>>) = [s \in SUBSET (DOMAIN <<>>) |-> SizeStep(<<>>, SizeOf(<<>>), s)]
    BY <1>1, SizeFixpoint
<1>3. DOMAIN <<>> = {} /\ {} \in SUBSET (DOMAIN <<>>)
    BY <1>1
<1>4. SizeOf(<<>>)[{}] = 0
    BY <1>2, <1>3 DEF SizeStep
<1> QED BY <1>1, <1>3, <1>4 DEF Empty

(* Every step keeps the sizes. *)
LEMMA NextSizeInv ==
    ASSUME RecoveryInv, "astray" \notin mishap', SizeInv, [Next]_vars
    PROVE  SizeInv'
<1>0. /\ f \in File /\ meta \in File /\ f.size \in Nat /\ f.filepos \in Nat
      /\ f.extents \in Seq(ExtentSet)
    BY DEF RecoveryInv, Types, File
<1>1. CASE \/ BufferedWrite \/ AppendEnds \/ Reopen \/ FsyncPersists \/ ResetUnusedIOZones
           \/ \E n \in 1 .. BufBlocks : DirectAppend(n)
           \/ \E o \in {"sync", "fsync", "close"} : DataSync(o)
           \/ \E n \in 0 .. ZoneBlocks : WriteFails(n)
           \/ \E z \in Zones : OtherWrites(z)
  <2>1. pc' # "down" /\ UNCHANGED <<mode, f>> /\ (meta' = meta \/ meta' = Saved(f))
      BY <1>1 DEF BufferedWrite, DirectAppend, DataSync, AppendEnds, Reopen, WriteFails,
                  FsyncPersists, OtherWrites, ResetUnusedIOZones, Started, Fails, Returns,
                  Persist
  <2> QED BY <2>1, SizeSame
<1>2. CASE AllocateNewZone
  <2>1. pc' # "down" /\ mode' = mode
      BY <1>2 DEF AllocateNewZone, Fails
  <2>2. CASE UNCHANGED <<f, meta>>
      BY <2>1, <2>2, SizeSame
  <2>3. CASE \E z \in Zones : f' = NewExtent(z) /\ meta' \in {meta, Saved(NewExtent(z))}
    <3>1. PICK z \in Zones : f' = NewExtent(z) /\ meta' \in {meta, Saved(NewExtent(z))}
        BY <2>3
    <3>2. f'.filepos = f.size /\ f'.size = f.size /\ f'.extents = f.extents /\ f' \in File
      <4>1. [z |-> z, off |-> Wp(z)] \in StartSet
          BY WpRange DEF StartSet, RecoveryInv
      <4> QED BY <1>0, <3>1, <4>1 DEF NewExtent, File
    <3>3. Saved(f').filepos = 0 /\ Saved(f').size = f'.size /\ Saved(f').extents = f'.extents
        BY <3>2 DEF Saved, File
    <3> QED BY <1>0, <2>1, <3>1, <3>2, <3>3 DEF SizeInv
  <2> QED BY <1>2, <2>1, <2>2, <2>3 DEF AllocateNewZone, PersistNewExtent, Persist
<1>3. CASE AppendPiece
  <2>1. /\ pc = "write" /\ mode # "direct" /\ pc' # "down" /\ UNCHANGED <<mode, meta>>
        /\ \E s : f' = [f EXCEPT !.extents = Append(@, PieceExtent), !.start = s,
                                 !.size = @ + PieceLen]
      BY <1>3 DEF AppendPiece
  <2>2. active \in Zones /\ active # NoZone /\ left # <<>> /\ Wp(active) < ZoneCap
      BY <2>1 DEF RecoveryInv, CallInv, Types, ActiveInv
  <2>3. f.start # NoExtent /\ f.start.z = active /\ f.start.off \in Nat
      BY <2>1, <2>2 DEF RecoveryInv, ActiveInv, Types, File, StartSet
  <2>4. PieceLen \in Nat \ {0} /\ Reserved \in {0, 1}
      BY <2>2, PieceLength DEF RecoveryInv
  <2>5. PieceExtent \in ExtentSet /\ PieceExtent.len = PieceLen
    <3>1. f.start.off + Reserved \in Nat
        BY <2>3, <2>4
    <3> QED BY <2>2, <2>3, <2>4, <3>1 DEF PieceExtent, ExtentSet
  <2>6. /\ f'.extents = Append(f.extents, PieceExtent) /\ f'.size = f.size + PieceLen
        /\ f'.filepos = f.filepos
      BY <1>0, <2>1 DEF File
  <2>7. Size(f'.extents) = Size(f.extents) + PieceLen
      BY <1>0, <2>5, <2>6, SizeAppend
  <2>8. f'.filepos <= f'.size
      BY <1>0, <2>4, <2>6 DEF SizeInv
  <2> QED BY <2>1, <2>6, <2>7, <2>8 DEF SizeInv
<1>4. CASE DirectWrite
  <2>1. /\ pc = "write" /\ mode = "direct" /\ pc' # "down" /\ UNCHANGED <<mode, meta>>
        /\ f' = [f EXCEPT !.size = @ + DirectLen] /\ Capacity(active) > 0
      BY <1>4 DEF DirectWrite
  <2>2. active \in Zones /\ left # <<>> /\ \E c \in Nat : Len(left) = B * c
      BY <2>1 DEF RecoveryInv, CallInv, Types
  <2>3. Wp(active) < ZoneCap
      BY <2>1, <2>2, StartZones, Constants DEF Capacity
  <2>4. DirectLen \in Nat
      BY <2>2, <2>3, Direct DEF RecoveryInv
  <2>5. f'.size = f.size + DirectLen /\ f'.filepos = f.filepos
      BY <1>0, <2>1 DEF File
  <2>6. f'.filepos <= f'.size
      BY <1>0, <2>4, <2>5 DEF SizeInv
  <2> QED BY <2>1, <2>6 DEF SizeInv
<1>5. CASE DirectFull \/ DataSyncEnds
  <2>1. /\ pc \in {"write", "flushed"} /\ mode' = mode
        /\ f' = IF mode = "direct" THEN Pushed(f) ELSE f
        /\ meta' = meta \/ (mode # "direct" /\ meta' = Saved(f))
      BY <1>5 DEF DirectFull, DataSyncEnds, DataSyncPersists, Persist
  <2>2. pc' # "down"
    <3>1. DataSyncEnds => op \in {"sync", "fsync", "close"}
        BY DEF DataSyncEnds, RecoveryInv, CallInv
    <3> QED BY <1>5, <3>1 DEF DirectFull, DataSyncEnds, Acknowledged, AfterData, Returns, Fails
  <2>3. CASE mode # "direct"
      BY <2>1, <2>2, <2>3, SizeSame
  <2>4. CASE mode = "direct"
    <3>1. f' = f \/ (f'.filepos = f.size /\ f'.size = f.size)
        BY <1>0, <2>1, <2>4 DEF Pushed, File
    <3>2. f'.filepos <= f'.size
        BY <1>0, <3>1 DEF SizeInv
    <3> QED BY <2>1, <2>2, <2>4, <3>2 DEF SizeInv
  <2> QED BY <2>3, <2>4
<1>6. CASE CloseWR
  <2>1. /\ pc' # "down" /\ mode' = mode /\ f' = [f EXCEPT !.start = NoExtent]
        /\ meta' = meta \/ meta' = Saved(f')
      BY <1>6 DEF CloseWR, Persist, Returns, Fails
  <2>2. f'.filepos = f.filepos /\ f'.size = f.size /\ f'.extents = f.extents /\ f' \in File
      BY <1>0, <2>1 DEF File, StartSet
  <2>3. Saved(f').filepos = 0 /\ Saved(f').size = f'.size /\ Saved(f').extents = f'.extents
      BY <2>2 DEF Saved, File
  <2> QED BY <2>1, <2>2, <2>3 DEF SizeInv
<1>7. CASE Crash
  <2>1. f' = Empty /\ UNCHANGED <<mode, meta>>
      BY <1>7 DEF Crash
  <2> QED BY <2>1, EmptySize DEF SizeInv
<1>8. CASE Mount
  <2> DEFINE g == Recover(meta).file
  <2>1. f' = g /\ meta' = g /\ Recover(meta).ok /\ pc' # "down" /\ mode' = mode
      BY <1>8 DEF Mount
  <2>2. g \in File
    <3>1. ~Misled(meta)
        BY <1>8 DEF Mount
    <3> QED BY <2>1, <3>1, RecoverSound
  <2>3. g.filepos = 0 /\ (mode # "direct" => g.size = Size(g.extents))
      BY <1>0 DEF SizeInv, Recover, File
  <2>4. g.filepos <= g.size
      BY <2>2, <2>3 DEF File
  <2> QED BY <2>1, <2>3, <2>4 DEF SizeInv
<1>9. CASE UNCHANGED vars
    BY <1>9 DEF vars, SizeInv
<1> QED BY <1>1, <1>2, <1>3, <1>4, <1>5, <1>6, <1>7, <1>8, <1>9 DEF Next

(* An extent that lies below a write pointer lies in its zone. *)
LEMMA FileInZones ==
    ASSUME Device, NEW g \in File, Written(dev, g.extents), g.filepos <= g.size,
           g.start # NoExtent => g.start.off <= Wp(g.start.z)
    PROVE  FileOK(g)
<1>1. ASSUME NEW i \in 1 .. Len(g.extents) PROVE g.extents[i] \in Extent
  <2> DEFINE e == g.extents[i]
  <2>1. e \in ExtentSet /\ e.off + e.len <= Len(dev[e.z])
      BY DEF File, Written
  <2>2. e.z \in Zones /\ e.off \in Nat /\ e.len \in Nat \ {0}
        /\ e = [z |-> e.z, off |-> e.off, len |-> e.len]
      BY <2>1 DEF ExtentSet
  <2>3. Len(dev[e.z]) \in Nat /\ Len(dev[e.z]) <= ZoneCap
      BY <2>2, WpRange DEF Wp
  <2> HIDE DEF e
  <2>4. e.off \in 0 .. ZoneCap /\ e.len \in 1 .. ZoneCap
      BY <2>1, <2>2, <2>3, Constants
  <2>5. e \in Extent
      BY <2>2, <2>4 DEF Extent
  <2> QED BY <2>5 DEF e
<1>2. g.start = NoExtent \/ g.start \in [z : Zones, off : 0 .. ZoneCap]
  <2> SUFFICES ASSUME g.start # NoExtent PROVE g.start \in [z : Zones, off : 0 .. ZoneCap]
      OBVIOUS
  <2>1. g.start \in [z : Zones, off : Nat] /\ g.start.z \in Zones /\ g.start.off \in Nat
      BY DEF File, StartSet
  <2>2. Wp(g.start.z) \in Nat /\ Wp(g.start.z) <= ZoneCap /\ g.start.off <= Wp(g.start.z)
      BY <2>1, WpRange
  <2>3. g.start.off \in 0 .. ZoneCap
      BY <2>1, <2>2, Constants
  <2> QED BY <2>1, <2>3
<1> QED BY <1>1, <1>2 DEF FileOK

-----------------------------------------------------------------------------
(* The invariant of the specification: as long as no device write of a     *)
(* sparse extent was cut short the file, its record in the log and the     *)
(* device fit together; between a crash that cut one short and the mount   *)
(* what recovery needs is left.                                            *)

Whole == RecoveryInv /\ StartInv /\ HistoryInv /\ BufferInv /\ SizeInv

CutInv ==
    /\ pc = "down" /\ Types /\ Device /\ Written(dev, meta.extents)
    /\ StartInv /\ HistoryInv /\ BufferInv /\ SizeInv
    /\ Sparse /\ meta.start # NoExtent => CutChained(dev[meta.start.z], meta.start.off)

FileInv ==
    /\ mishap \subseteq {"cut", "gap", "hole", "astray"}
    /\ mishap = {} => Whole
    /\ mishap = {"cut"} => CutInv

(* What has happened: a mark stays, but a mount turns "cut" into "hole". *)
LEMMA MishapSteps ==
    ASSUME [Next]_vars
    PROVE  \/ mishap' = mishap
           \/ (\E n \in 0 .. ZoneBlocks : WriteFails(n)) /\ mishap' = mishap \cup {"gap"}
           \/ Crash /\ Sparse /\ mishap' = mishap \cup {"cut"}
           \/ Mount /\ mishap \cap {"cut", "gap"} = {} /\ mishap' = mishap \cup {"astray"}
           \/ Mount /\ mishap \cap {"cut", "gap"} # {} /\ "hole" \in mishap'
                    /\ mishap' \subseteq mishap \cup {"hole", "astray"}
<1>1. CASE Mount
  <2>1. mishap' = (mishap \ {"cut"})
                 \cup (IF mishap \cap {"cut", "gap"} # {} THEN {"hole"} ELSE {})
                 \cup (IF Misled(meta) THEN {"astray"} ELSE {})
      BY <1>1 DEF Mount
  <2>2. CASE mishap \cap {"cut", "gap"} # {}
      BY <1>1, <2>1, <2>2, Zenon
  <2>3. CASE mishap \cap {"cut", "gap"} = {}
    <3>1. mishap \ {"cut"} = mishap
        BY <2>3
    <3> QED BY <1>1, <2>1, <2>3, <3>1
  <2> QED BY <2>2, <2>3
<1>2. CASE Crash
    BY <1>2 DEF Crash
<1>3. CASE \E n \in 0 .. ZoneBlocks : WriteFails(n)
  <2>1. PICK n \in 0 .. ZoneBlocks : WriteFails(n)
      BY <1>3
  <2>2. mishap' = mishap \/ mishap' = mishap \cup {"gap"}
      BY <2>1 DEF WriteFails
  <2> QED BY <1>3, <2>2
<1>4. CASE ~Mount /\ ~Crash /\ ~\E n \in 0 .. ZoneBlocks : WriteFails(n)
  <2>1. mishap' = mishap
      BY <1>4 DEF Next, BufferedWrite, DirectAppend, DataSync, AllocateNewZone, AppendPiece,
             DirectFull, DirectWrite, AppendEnds, DataSyncEnds, FsyncPersists,
             CloseWR, Reopen, OtherWrites, ResetUnusedIOZones, vars
  <2> QED BY <2>1
<1> QED BY <1>1, <1>2, <1>3, <1>4

(* A crash in the middle of a sparse extent leaves its header behind the    *)
(* chain. *)
LEMMA CrashCuts ==
    ASSUME Whole, Crash, Sparse, mishap' # mishap
    PROVE  CutInv'
<1>0. RecoveryInv /\ StartInv /\ HistoryInv /\ BufferInv /\ SizeInv
    BY DEF Whole
<1>1. /\ count' = [count EXCEPT !.crashes = @ + 1]
      /\ pc' = "down" /\ f' = Empty /\ active' = NoZone /\ closing' = FALSE
      /\ buffer' = <<>> /\ op' = "none" /\ left' = <<>> /\ open' = FALSE
      /\ UNCHANGED <<mode, meta, want, synced, failed>>
    BY DEF Crash
<1>2. PICK n \in 1 .. ZoneBlocks : pc = "write" /\ Capacity(active) > 0 /\ Partial(n)
    BY DEF Crash
<1>3. n \in Nat /\ n >= 1
    BY Constants
<1>4. /\ active \in Zones /\ active # NoZone /\ Device'
      /\ \A es \in Seq(ExtentSet) : Written(dev, es) => Written(dev', es)
    BY <1>0, <1>2, <1>3, PartialWrite
<1>5. Types'
  <2>1. count' \in [units : Nat, other : Nat, crashes : Nat, fails : Nat]
    <3>1. count \in [units : Nat, other : Nat, crashes : Nat, fails : Nat]
        BY <1>0 DEF RecoveryInv, Types
    <3>2. count' = [count EXCEPT !.crashes = @ + 1]
        BY <1>1
    <3> QED BY <3>1, <3>2
  <2> QED BY <1>0, <1>1, <2>1, EmptyFile, NothingLeft DEF RecoveryInv, Types, Pcs
<1>6. Written(dev, meta.extents)'
  <2>1. meta.extents \in Seq(ExtentSet) /\ Written(dev, meta.extents)
      BY <1>0 DEF RecoveryInv, Types, File
  <2> QED BY <1>1, <1>4, <2>1
<1>7. StartInv'
    BY <1>0, CrashStart
<1>8. HistoryInv'
    BY <1>0, <1>1 DEF HistoryInv
<1>9. BufferInv'
  <2>1. BufferSize' = BufferSize
      BY <1>1 DEF BufferSize, Sparse
  <2> QED BY <1>1, <2>1, BufferRoom DEF BufferInv
<1>10. SizeInv'
    BY <1>0, <1>1, EmptySize DEF SizeInv
<1>11. ASSUME meta.start # NoExtent PROVE CutChained(dev'[meta.start.z], meta.start.off)
  <2> DEFINE t == First(PieceUnits, n * B)
  <2>1. /\ n * B < Len(PieceUnits) /\ dev' = [dev EXCEPT ![active] = @ \o t]
      BY <1>2 DEF Partial, Sparse
  <2>2. left # <<>> /\ Wp(active) < ZoneCap
      BY <1>0, <1>2, <1>4 DEF RecoveryInv, CallInv, ActiveInv, Sparse
  <2>3. /\ PieceUnits \in Seq(Unit) /\ Len(PieceUnits) = B * Blocks(PieceLen + Reserved)
        /\ PieceUnits[1] = Header(PieceLen)
      BY <1>0, <1>4, <2>2, Piece DEF RecoveryInv
  <2>4. n * B \in Nat /\ n * B >= 1 /\ Len(PieceUnits) \in Nat
    <3>1. B \in Nat /\ B >= 1
        BY Constants
    <3>2. n * B \in Nat /\ n * B >= 1
        BY <1>3, <3>1
    <3> QED BY <2>3, <3>2
  <2>5. t \in Seq(Unit) /\ Len(t) = n * B /\ t[1] = PieceUnits[1]
      BY <2>1, <2>3, <2>4, FirstUnits
  <2>6. t # <<>> /\ t[1].k = "len" /\ t[1].v = PieceLen /\ Reserved = HeaderSize
    <3>1. Len(t) >= 1
        BY <2>4, <2>5
    <3>2. t[1] = [k |-> "len", v |-> PieceLen] /\ Reserved = HeaderSize
        BY <2>3, <2>5 DEF Header, Reserved
    <3> HIDE DEF t
    <3> QED BY <3>1, <3>2
  <2> HIDE DEF t
  <2>7. /\ meta.start.z \in Zones /\ Chained(dev[meta.start.z], meta.start.off)
        /\ dev[meta.start.z] \in Seq(Unit) /\ dev \in [Zones -> Seq(Unit)]
      BY <1>0, <1>11 DEF RecoveryInv, Types, File, StartSet, SparseInv, Device
  <2>8. CASE meta.start.z = active
    <3>1. Len(t) <= Len(PieceUnits) /\ Len(PieceUnits) = B * Blocks(t[1].v + HeaderSize)
        BY <2>1, <2>3, <2>4, <2>5, <2>6
    <3>2. CutChained(dev[active] \o t, meta.start.off)
        BY <2>4, <2>5, <2>6, <2>7, <2>8, <3>1, ChainCut
    <3>3. dev'[active] = dev[active] \o t
        BY <1>4, <2>1, <2>7
    <3> QED BY <2>8, <3>2, <3>3
  <2>9. CASE meta.start.z # active
    <3>1. dev'[meta.start.z] = dev[meta.start.z]
        BY <2>1, <2>7, <2>9
    <3>2. CutChained(dev[meta.start.z], meta.start.off)
        BY <2>7 DEF Chained, CutChained
    <3> QED BY <3>1, <3>2
  <2> QED BY <2>8, <2>9
<1> QED BY <1>1, <1>4, <1>5, <1>6, <1>7, <1>8, <1>9, <1>10, <1>11 DEF CutInv, Sparse

(* Every step keeps the invariant. *)
LEMMA NextFileInv ==
    ASSUME FileInv, [Next]_vars
    PROVE  FileInv'
<1>1. mishap' \subseteq {"cut", "gap", "hole", "astray"}
    BY MishapSteps, Zenon DEF FileInv
<1>2. ASSUME mishap' = {} PROVE Whole'
  <2>1. mishap = {}
      BY <1>2, MishapSteps, Zenon
  <2>2. Whole /\ "astray" \notin mishap'
      BY <1>2, <2>1 DEF FileInv
  <2> QED BY <1>2, <2>2, NextRecoveryInv, NextStartInv, NextHistoryInv, NextBufferInv,
             NextSizeInv DEF Whole
<1>3. ASSUME mishap' = {"cut"} PROVE CutInv'
  <2>1. mishap' = mishap \/ (Crash /\ Sparse /\ mishap' = mishap \cup {"cut"} /\ mishap' # mishap)
      BY <1>3, MishapSteps, Zenon
  <2>2. CASE mishap' = mishap
    <3>1. CutInv /\ pc = "down"
        BY <1>3, <2>2 DEF FileInv, CutInv
    <3>2. ~Mount
        BY <1>3, <2>2 DEF Mount
    <3>3. UNCHANGED vars
        BY <3>1, <3>2 DEF Next, BufferedWrite, DirectAppend, DataSync, AllocateNewZone,
               AppendPiece, DirectFull, DirectWrite, WriteFails, AppendEnds, DataSyncEnds,
               FsyncPersists, CloseWR, Reopen, OtherWrites, ResetUnusedIOZones, Crash
    <3>4. UNCHANGED <<mode, dev, meta, f, active, open, closing, buffer, op, left, pc, want,
                      synced, failed, count>>
        BY <3>3 DEF vars
    <3>5. Device' /\ Types' /\ Written(dev, meta.extents)' /\ pc' = "down"
        BY <3>1, <3>4, SameDevice DEF CutInv, Types
    <3>6. Pending' = Pending /\ BufferSize' = BufferSize
        BY <3>4 DEF Pending, BufferSize, Sparse
    <3>7. StartInv' /\ HistoryInv' /\ BufferInv' /\ SizeInv'
        BY <3>1, <3>4, <3>6 DEF CutInv, StartInv, HistoryInv, BufferInv, SizeInv, Wp
    <3>8. Sparse' /\ meta'.start # NoExtent =>
            CutChained(dev'[meta'.start.z], meta'.start.off)
        BY <3>1, <3>4 DEF CutInv, Sparse
    <3> QED BY <3>5, <3>7, <3>8 DEF CutInv
  <2>3. CASE Crash /\ Sparse /\ mishap' = mishap \cup {"cut"} /\ mishap' # mishap
    <3>1. mishap = {}
        BY <1>3, <2>3, Zenon
    <3> QED BY <2>3, <3>1, CrashCuts DEF FileInv
  <2> QED BY <2>1, <2>2, <2>3
<1> QED BY <1>1, <1>2, <1>3 DEF FileInv

(* The first state. *)
LEMMA InitFileInv ==
    ASSUME Init
    PROVE  FileInv
<1>1. RecoveryInv /\ StartInv
    BY InitRecoveryInv, EmptyFile DEF Init, StartInv
<1>2. HistoryInv
  <2>1. open \in BOOLEAN /\ closing \in BOOLEAN /\ failed \in BOOLEAN
      BY Zenon DEF Init
  <2>2. want = <<>> /\ synced = 0
      BY DEF Init
  <2>3. want \in Seq(Seen) /\ synced \in Nat /\ synced <= Len(want)
      BY <2>2
  <2> QED BY <2>1, <2>3, Zenon DEF HistoryInv
<1>3. BufferInv
    BY BufferRoom DEF Init, BufferInv
<1>4. SizeInv
    BY EmptySize DEF Init, SizeInv
<1> QED BY <1>1, <1>2, <1>3, <1>4 DEF Init, FileInv, Whole

(* In every behaviour the state of the file, its record in the log and the *)
(* device fit together: appends, syncs, failed calls, crashes and mounts   *)
(* keep the chain that RecoverSparseExtents follows, and a crash that cuts *)
(* a sparse extent short keeps it up to that extent.                       *)
THEOREM FileInvariant == Spec => []FileInv
BY InitFileInv, NextFileInv, PTL DEF Spec

(* Sound is the absence of the marks the invariant excuses. *)
LEMMA SoundCases ==
    ASSUME FileInv, Sound
    PROVE  (mishap = {} /\ Whole) \/ (mishap = {"cut"} /\ CutInv)
<1>1. mishap = {} \/ mishap = {"cut"}
    BY Zenon DEF FileInv, Sound
<1> QED BY <1>1 DEF FileInv

(* The extents of the file, among them those that RecoverSparseExtents or  *)
(* Recover has made after a crash, lie below the write pointers of their   *)
(* zones, whatever fails and however often the machine stops, until a      *)
(* sparse extent that was cut short is recovered or written behind, or     *)
(* GetIOZone has led recovery to a foreign zone.                           *)
THEOREM ExtentsStayWritten == Spec => []ExtentsWritten
<1>1. FileInv => ExtentsWritten
  <2> SUFFICES ASSUME FileInv, Sound
               PROVE  \A i \in 1 .. Len(f.extents) :
                        f.extents[i].off + f.extents[i].len <= Wp(f.extents[i].z)
      BY DEF ExtentsWritten
  <2>1. CASE Whole
      BY <2>1 DEF Whole, RecoveryInv, Written, Wp
  <2>2. CASE CutInv
    <3>1. f = Empty /\ Empty.extents = <<>>
        BY <2>2, EmptySize DEF CutInv, SizeInv
    <3> QED BY <3>1
  <2> QED BY <2>1, <2>2, SoundCases
<1> QED BY <1>1, FileInvariant, PTL

(* If the machine stopped at this point, Recover would succeed: the place   *)
(* the log names is not past the write pointer, and sparse extents follow   *)
(* each other from there, also when the crash has cut the last one short.   *)
(* It needs that GetIOZone is not misled by a full zone and that no earlier *)
(* sparse write was cut short; it is the first part of CrashSafe.           *)
THEOREM RecoverySucceeds == Spec => [](Sound /\ ~Misled(meta) => Recover(meta).ok)
<1>1. FileInv => (Sound /\ ~Misled(meta) => Recover(meta).ok)
  <2> SUFFICES ASSUME FileInv, Sound, ~Misled(meta) PROVE Recover(meta).ok
      OBVIOUS
  <2>1. CASE meta.start = NoExtent
      BY <2>1 DEF Recover
  <2>2. CASE meta.start # NoExtent
    <3> DEFINE g == GetIOZone(meta.start)
    <3>1. Types /\ Device /\ StartInv /\ meta \in File
        BY SoundCases DEF Whole, CutInv, RecoveryInv, Types
    <3>2. g.z \in Zones /\ g.off \in Nat /\ (Wp(g.z) # g.off => g = meta.start)
        BY <2>2, <3>1, ZoneFound
    <3>3. Wp(g.z) \in Nat /\ g.z # NoZone
        BY <3>1, <3>2, WpRange, Constants
    <3>4. CASE Wp(g.z) = g.off
      <4>1. ~(Wp(g.z) < g.off)
          BY <3>2, <3>3, <3>4
      <4> QED BY <2>2, <3>3, <3>4, <4>1 DEF Recover
    <3>5. CASE Wp(g.z) # g.off
      <4> DEFINE z == meta.start.z
                 off == meta.start.off
      <4>1. g = meta.start /\ z \in Zones /\ off \in Nat /\ Wp(z) \in Nat /\ off <= Wp(z)
          BY <2>2, <3>1, <3>2, <3>3, <3>5 DEF StartInv
      <4>2. RecoverTail(z, off).ok
        <5>1. CASE Sparse /\ Whole
          <6>1. Chained(dev[z], off)
              BY <2>2, <5>1 DEF Whole, RecoveryInv, SparseInv
          <6>2. SparseExtents(z, off).ok
              BY <3>1, <4>1, <6>1, WalkSound
          <6> QED BY <5>1, <6>2 DEF RecoverTail
        <5>2. CASE Sparse /\ CutInv
          <6>1. CutChained(dev[z], off)
              BY <2>2, <5>2 DEF CutInv
          <6>2. off \in 0 .. Wp(z)
              BY <4>1
          <6>3. SparseExtents(z, off).ok
              BY <3>1, <4>1, <6>1, <6>2, CutWalk
          <6> QED BY <5>2, <6>3 DEF RecoverTail
        <5>3. CASE ~Sparse
            BY <5>3 DEF RecoverTail, TailWhole
        <5> QED BY <5>1, <5>2, <5>3, SoundCases
      <4>3. ~(Wp(z) < off)
          BY <4>1
      <4> QED BY <2>2, <3>3, <3>5, <4>1, <4>2, <4>3 DEF Recover
    <3> QED BY <3>4, <3>5
  <2> QED BY <2>1, <2>2
<1> QED BY <1>1, FileInvariant, PTL

(* The state keeps its types: no write passes the end of a zone or leaves   *)
(* part of a block (Zone::Append), extents are not empty and lie in their   *)
(* zones, the buffer keeps to its size through memmove, no more is          *)
(* acknowledged than was written, and the extents of a file written through *)
(* the buffer add up to its size, whatever fails and after every recovery,  *)
(* until a sparse extent that was cut short is recovered or written behind, *)
(* or recovery has looked at a foreign zone.                                *)
THEOREM RecoveryTypes == Spec => [](Sound => TypeOK)
<1>1. FileInv => (Sound => TypeOK)
  <2> SUFFICES ASSUME FileInv, Sound PROVE TypeOK
      OBVIOUS
  <2>0. /\ Types /\ Device /\ StartInv /\ HistoryInv /\ BufferInv /\ SizeInv
        /\ Written(dev, meta.extents)
      BY SoundCases DEF Whole, CutInv, RecoveryInv
  <2>1. ASSUME NEW z \in Zones PROVE Wp(z) <= ZoneCap /\ Wp(z) % B = 0
    <3>1. PICK c \in 0 .. ZoneBlocks : Wp(z) = B * c
        BY <2>0 DEF Device
    <3>2. B \in Nat /\ B > 0 /\ c \in Nat
        BY <3>1, Constants
    <3>3. (B * c) % B = 0
        BY <3>2
    <3> QED BY <2>0, <3>1, <3>3, WpRange
  <2>2. FileOK(f)
    <3>1. f.start # NoExtent => f.start.off <= Wp(f.start.z)
        BY <2>0, EmptyFile DEF StartInv, SizeInv
    <3>2. Written(dev, f.extents)
      <4>1. CASE Whole
          BY <4>1 DEF Whole, RecoveryInv
      <4>2. CASE CutInv
        <5>1. f.extents = <<>>
            BY <4>2, EmptySize DEF CutInv, SizeInv
        <5> QED BY <5>1 DEF Written
      <4> QED BY <4>1, <4>2, SoundCases
    <3> QED BY <2>0, <3>1, <3>2, FileInZones DEF Types, SizeInv
  <2>3. FileOK(meta)
    <3>1. meta.filepos <= meta.size
        BY <2>0 DEF Types, File, SizeInv
    <3> QED BY <2>0, <3>1, FileInZones DEF Types, StartInv
  <2>4. mode \in Modes /\ active \in Zones \cup {NoZone}
        /\ pc \in {"idle", "alloc", "write", "flushed", "persist", "close", "down"}
      BY <2>0 DEF Types, Pcs
  <2> QED BY <2>0, <2>1, <2>2, <2>3, <2>4 DEF TypeOK, HistoryInv, BufferInv, SizeInv
<1> QED BY <1>1, FileInvariant, PTL
=============================================================================
