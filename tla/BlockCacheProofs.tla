-------------------------- MODULE BlockCacheProofs --------------------------
(***************************************************************************)
(* Proofs about BlockCache, for every size of the disk and of the cache,   *)
(* every set of values and every set of faults: the types with the bound   *)
(* on the cache, the coherence of cache and file, and that the cached disk *)
(* implements BlockDevice.                                                 *)
(***************************************************************************)
EXTENDS BlockCache, FiniteSetTheorems, TLAPS

(* TypeOK without the bound on the cache, which is proved apart. *)
Types ==
    /\ inner \in [Tags -> Values]
    /\ cached \subseteq Tags
    /\ dirty \subseteq cached
    /\ copy \in [Tags -> Values]
    /\ older \subseteq cached \X cached
    /\ offset \in 0 .. Size
    /\ out \in [err : BOOLEAN, val : Values]
    /\ past \in [Tags -> SUBSET Values]

Bounded == Cardinality(cached) <= Capacity

Inv == Types /\ Bounded /\ Coherent

-----------------------------------------------------------------------------
(* What may be evicted: nothing, or one cached tag of a full cache.        *)
LEMMA EvictedIs ==
    ASSUME NEW t, NEW out1 \in Evicted(t)
    PROVE  \/ out1 = {} /\ ~Full
           \/ Full /\ \E v \in cached : out1 = {v}
BY DEF Evicted

(* An eviction keeps the number of items within the capacity.              *)
LEMMA PushBounded ==
    ASSUME Types, Bounded, NEW t \in Tags \ cached, NEW out1 \in Evicted(t),
           cached' = (cached \ out1) \cup {t}
    PROVE  Bounded'
<1>1. IsFiniteSet(cached)
  <2>1. IsFiniteSet(Tags)
    BY CacheAssumption, FS_Interval DEF Tags
  <2> QED
    BY <2>1, FS_Subset DEF Types
<1>2. /\ IsFiniteSet(cached \ out1)
      /\ Cardinality(cached \ out1) + 1 <= Capacity
  <2>1. CASE out1 = {} /\ ~Full
    <3>1. cached \ out1 = cached
      BY <2>1
    <3> QED
      BY <1>1, <2>1, <3>1, FS_CardinalityType, CacheAssumption DEF Full
  <2>2. CASE \E v \in cached : out1 = {v}
    <3>1. PICK v \in cached : out1 = {v}
      BY <2>2
    <3>2. /\ IsFiniteSet(cached \ {v})
          /\ Cardinality(cached \ {v}) = Cardinality(cached) - 1
      BY <1>1, FS_RemoveElement
    <3> QED
      BY <1>1, <3>1, <3>2, FS_CardinalityType, CacheAssumption DEF Bounded
  <2> QED
    BY <2>1, <2>2, EvictedIs
<1>3. Cardinality((cached \ out1) \cup {t}) = Cardinality(cached \ out1) + 1
  <2>1. t \notin cached \ out1
    OBVIOUS
  <2> QED
    BY <1>2, <2>1, FS_AddElement
<1> QED
  BY <1>2, <1>3 DEF Bounded

(* Pushing an item keeps the types.                                        *)
LEMMA PushTypes ==
    ASSUME Types, NEW t \in Tags \ cached, NEW v \in Values,
           NEW out1 \in Evicted(t), NEW b \in BOOLEAN, Push(t, v, out1, b)
    PROVE  /\ cached' \subseteq Tags
           /\ dirty' \subseteq cached'
           /\ copy' \in [Tags -> Values]
           /\ older' \subseteq cached' \X cached'
<1>1. cached' \subseteq Tags
  BY DEF Push, Types
<1>2. dirty' \subseteq cached'
  BY DEF Push, Types
<1>3. copy' \in [Tags -> Values]
  BY CacheAssumption DEF Push, Types
<1>4. older' \subseteq cached' \X cached'
  <2> SUFFICES ASSUME NEW p \in older' PROVE p \in cached' \X cached'
    OBVIOUS
  <2>1. p \in Touch(t) /\ p[1] \notin out1 /\ p[2] \notin out1
    BY DEF Push
  <2>2. CASE p \in older
    BY <2>1, <2>2 DEF Push, Types
  <2>3. CASE \E s \in cached \ {t} : p = <<s, t>>
    BY <2>1, <2>3 DEF Push
  <2> QED
    BY <2>1, <2>2, <2>3 DEF Touch
<1> QED
  BY <1>1, <1>2, <1>3, <1>4

(* Every answer has the type of out, and the cursor after one more unit    *)
(* is still within the disk.                                               *)
LEMMA AnswerTypes ==
    /\ Ok \in [err : BOOLEAN, val : Values]
    /\ Err \in [err : BOOLEAN, val : Values]
    /\ \A v \in Values : Answer(v) \in [err : BOOLEAN, val : Values]
BY CacheAssumption DEF Ok, Err, Answer

LEMMA CursorMoves == \A o \in Tags : o \in 0 .. Size /\ o + 1 \in 0 .. Size
BY CacheAssumption DEF Tags

-----------------------------------------------------------------------------
LEMMA InitInv == Init => Inv
<1> SUFFICES ASSUME Init PROVE Inv
  OBVIOUS
<1>1. Types
  BY CacheAssumption DEF Init, Types, Ok, Tags
<1>2. Bounded
  BY FS_EmptySet, CacheAssumption DEF Init, Bounded
<1>3. Coherent
  BY DEF Init, Coherent, Seen
<1> QED
  BY <1>1, <1>2, <1>3 DEF Inv

(* The effect of a push on what readers see: only tag t, and the evicted   *)
(* one unless it is written back or clean, change.                         *)
LEMMA PushSeen ==
    ASSUME Types, Coherent, NEW t \in Tags \ cached, NEW v \in Values,
           NEW out1 \in Evicted(t), NEW b \in BOOLEAN, Push(t, v, out1, b),
           inner' = WriteBack(out1)
    PROVE  Seen' = [Seen EXCEPT ![t] = v]
<1>1. out1 \subseteq cached
  BY EvictedIs
<1>2. ASSUME NEW s \in Tags PROVE Seen'[s] = [Seen EXCEPT ![t] = v][s]
  BY <1>1, <1>2 DEF Seen, Push, WriteBack, Types, Coherent
<1> QED
  BY <1>2 DEF Seen

LEMMA NextInv == Inv /\ [Next]_vars => Inv'
<1> SUFFICES ASSUME Inv, [Next]_vars PROVE Inv'
  OBVIOUS
<1> USE DEF Inv
<1>1. ASSUME NEW o \in 0 .. Size, Seek(o) PROVE Inv'
  BY <1>1, CacheAssumption DEF Seek, Types, Bounded, Coherent, Seen, Ok
<1>2. ASSUME NEW v \in Values, WriteHit(v) PROVE Inv'
  <2>1. offset \in Tags
    BY <1>2 DEF WriteHit, Types
  <2>2. older' \subseteq cached \X cached
    BY <1>2, <2>1 DEF WriteHit, Touch, Types
  <2>3. Types'
    BY <1>2, <2>1, <2>2, CacheAssumption
    DEF WriteHit, DirtyHit, Types, Ok, Given, Tags
  <2>4. Coherent'
    BY <1>2, <2>1 DEF WriteHit, DirtyHit, Types, Coherent, Seen, Given
  <2> QED
    BY <1>2, <2>3, <2>4 DEF WriteHit, Bounded
<1>3. ASSUME NEW v \in Values, WriteMiss(v) PROVE Inv'
  <2>1. PICK out1 \in Evicted(offset) :
          /\ Push(offset, v, out1, TRUE)
          /\ \/ inner' = WriteBack(out1) /\ offset' = offset + 1 /\ out' = Ok
             \/ UNCHANGED <<inner, offset>> /\ out' = Err
    BY <1>3 DEF WriteMiss
  <2>2. offset \in Tags \ cached /\ past' = Given(v)
    BY <1>3 DEF WriteMiss
  <2>3. out1 \subseteq cached
    BY EvictedIs
  <2>4. inner' \in [Tags -> Values]
    BY <2>1 DEF WriteBack, Types
  <2>5. Types'
    <3>1. offset' \in 0 .. Size /\ out' \in [err : BOOLEAN, val : Values]
      BY <2>1, <2>2, AnswerTypes, CursorMoves
    <3>2. past' \in [Tags -> SUBSET Values]
      BY <2>2 DEF Given, Types
    <3> QED
      BY <2>1, <2>2, <2>4, <3>1, <3>2, PushTypes DEF Types
  <2>6. Bounded'
    BY <2>1, <2>2, PushBounded DEF Push
  <2>7. Coherent'
    <3> SUFFICES ASSUME NEW t \in Tags
                 PROVE  /\ t \in cached' \ dirty' => copy'[t] = inner'[t]
                        /\ inner'[t] \in past'[t]
                        /\ Seen'[t] \in past'[t]
      BY DEF Coherent
    <3>1. /\ t \in cached \ dirty => copy[t] = inner[t]
          /\ inner[t] \in past[t]
          /\ Seen[t] \in past[t]
      BY DEF Coherent
    <3>2. past'[t] = IF t = offset THEN past[t] \cup {v} ELSE past[t]
      BY <2>2 DEF Given, Types
    <3>3. inner'[t] = inner[t] \/ (inner'[t] = copy[t] /\ t \in out1)
      BY <2>1 DEF WriteBack, Types
    <3>4. CASE t = offset
      BY <2>1, <2>2, <2>3, <3>1, <3>2, <3>3, <3>4 DEF Push, Seen
    <3>5. CASE t # offset
      BY <2>1, <2>2, <2>3, <3>1, <3>2, <3>3, <3>5 DEF Push, Seen
    <3> QED
      BY <3>4, <3>5
  <2> QED
    BY <2>5, <2>6, <2>7
<1>4. ASSUME ReadHit PROVE Inv'
  <2>1. older' \subseteq cached \X cached
    BY <1>4 DEF ReadHit, Touch, Types
  <2>2. Types'
    <3>1. offset \in Tags /\ copy[offset] \in Values
      BY <1>4 DEF ReadHit, Types
    <3>2. offset' \in 0 .. Size /\ out' \in [err : BOOLEAN, val : Values]
      BY <1>4, <3>1, AnswerTypes, CursorMoves DEF ReadHit
    <3> QED
      BY <1>4, <2>1, <3>2 DEF ReadHit, Types
  <2> QED
    BY <1>4, <2>2 DEF ReadHit, Bounded, Coherent, Seen
<1>5. ASSUME ReadMiss PROVE Inv'
  <2>1. PICK out1 \in Evicted(offset) :
          /\ Push(offset, inner[offset], out1, FALSE)
          /\ \/ /\ inner' = WriteBack(out1)
                /\ offset' = offset + 1
                /\ out' = Answer(inner[offset])
             \/ UNCHANGED <<inner, offset>> /\ out' = Err
    BY <1>5 DEF ReadMiss
  <2>2. offset \in Tags \ cached /\ past' = past
    BY <1>5 DEF ReadMiss
  <2>3. out1 \subseteq cached
    BY EvictedIs
  <2>4. inner' \in [Tags -> Values] /\ inner[offset] \in Values
    BY <2>1, <2>2 DEF WriteBack, Types
  <2>5. Types'
    <3>1. offset' \in 0 .. Size /\ out' \in [err : BOOLEAN, val : Values]
      BY <2>1, <2>2, <2>4, AnswerTypes, CursorMoves
    <3> QED
      BY <2>1, <2>2, <2>4, <3>1, PushTypes DEF Types
  <2>6. Bounded'
    BY <2>1, <2>2, PushBounded DEF Push
  <2>7. Coherent'
    <3> SUFFICES ASSUME NEW t \in Tags
                 PROVE  /\ t \in cached' \ dirty' => copy'[t] = inner'[t]
                        /\ inner'[t] \in past'[t]
                        /\ Seen'[t] \in past'[t]
      BY DEF Coherent
    <3>1. /\ t \in cached \ dirty => copy[t] = inner[t]
          /\ inner[t] \in past[t]
          /\ Seen[t] \in past[t]
      BY DEF Coherent
    <3>2. inner'[t] = inner[t] \/ (inner'[t] = copy[t] /\ t \in out1)
      BY <2>1 DEF WriteBack, Types
    <3>3. CASE t = offset
      BY <2>1, <2>2, <2>3, <3>1, <3>2, <3>3 DEF Push, Seen
    <3>4. CASE t # offset
      BY <2>1, <2>2, <2>3, <3>1, <3>2, <3>4 DEF Push, Seen
    <3> QED
      BY <3>3, <3>4
  <2> QED
    BY <2>5, <2>6, <2>7
<1>6. ASSUME ReadError PROVE Inv'
  BY <1>6, CacheAssumption DEF ReadError, Types, Bounded, Coherent, Seen, Err
<1>7. ASSUME ClearCache,
             inner' \in [Tags -> Values],
             \A t \in Tags : inner'[t] \in past'[t],
             past' \in [Tags -> SUBSET Values],
             offset' \in 0 .. Size,
             out' \in {Ok, Err}
      PROVE  Inv'
  <2>1. Types'
    <3>1. out' \in [err : BOOLEAN, val : Values]
      BY <1>7, AnswerTypes
    <3> QED
      BY <1>7, <3>1, CacheAssumption DEF ClearCache, Types
  <2>2. Bounded'
    BY <1>7, FS_EmptySet, CacheAssumption DEF ClearCache, Bounded
  <2>3. Coherent'
    BY <1>7 DEF ClearCache, Coherent, Seen
  <2> QED
    BY <2>1, <2>2, <2>3
<1>8. ASSUME Flush PROVE Inv'
  <2>1. \A t \in Tags : Flushed[t] \in Values /\ Seen[t] = Flushed[t]
    BY DEF Flushed, Seen, Types, Coherent
  <2>2. /\ inner' \in [Tags -> Values]
        /\ past' \in [Tags -> SUBSET Values]
        /\ \A t \in Tags : inner'[t] \in past'[t]
    BY <1>8, <2>1 DEF Flush, Flushed
  <2> QED
    BY <1>7, <1>8, <2>2 DEF Flush, Types
<1>9. ASSUME FlushError PROVE Inv'
  <2>1. PICK done \in SUBSET dirty :
          inner' = [t \in Tags |-> IF t \in done THEN copy[t] ELSE inner[t]]
    BY <1>9 DEF FlushError
  <2>2. Types'
    BY <1>9, <2>1, CacheAssumption DEF FlushError, Types, Err
  <2>3. Coherent'
    BY <1>9, <2>1 DEF FlushError, Types, Coherent, Seen
  <2> QED
    BY <1>9, <2>2, <2>3 DEF FlushError, Bounded
<1>10. ASSUME Reset PROVE Inv'
  <2>1. /\ inner' \in [Tags -> Values]
        /\ past' \in [Tags -> SUBSET Values]
        /\ \A t \in Tags : inner'[t] \in past'[t]
    BY <1>10, CacheAssumption DEF Reset
  <2> QED
    BY <1>7, <1>10, <2>1 DEF Reset, Types
<1>11. ASSUME ResetError PROVE Inv'
  <2>1. PICK n \in 0 .. Size - 1 :
          inner' = [t \in Tags |-> IF t < n THEN Blank ELSE Flushed[t]]
    BY <1>11 DEF ResetError
  <2>2. \A t \in Tags : Flushed[t] \in Values
    BY DEF Flushed, Types
  <2>3. inner' \in [Tags -> Values]
    BY <2>1, <2>2, CacheAssumption
  <2>4. /\ past' \in [Tags -> SUBSET Values]
        /\ \A t \in Tags : inner'[t] \in past'[t]
    BY <1>11, <2>3 DEF ResetError
  <2> QED
    BY <1>7, <1>11, <2>3, <2>4 DEF ResetError, Types
<1>12. ASSUME Crash PROVE Inv'
  <2>1. /\ past' \in [Tags -> SUBSET Values]
        /\ \A t \in Tags : inner'[t] \in past'[t]
    BY <1>12 DEF Crash, Types
  <2>2. offset' \in 0 .. Size
    BY <1>12, CacheAssumption DEF Crash
  <2> QED
    BY <1>7, <1>12, <2>1, <2>2 DEF Crash, Types
<1>13. ASSUME UNCHANGED vars PROVE Inv'
  BY <1>13 DEF vars, Types, Bounded, Coherent, Seen
<1> QED
  BY <1>1, <1>2, <1>3, <1>4, <1>5, <1>6, <1>8, <1>9, <1>10, <1>11, <1>12,
     <1>13 DEF Next

(* The inductive invariant holds of every behaviour of the cache.          *)
LEMMA InvHolds == Spec => []Inv
<1> QED
  BY InitInv, NextInv, PTL DEF Spec

(* The types of the cache, and that it never holds more items than its     *)
(* capacity, on the paths of a failed write-back too.                      *)
THEOREM CacheTypes == Spec => []TypeOK
<1>1. Inv => TypeOK
  BY DEF Inv, Types, Bounded, TypeOK
<1> QED
  BY <1>1, InvHolds, PTL

(* Clean items equal the file, and a crash loses only unflushed writes.    *)
THEOREM CacheCoherent == Spec => []Coherent
<1>1. Inv => Coherent
  BY DEF Inv
<1> QED
  BY <1>1, InvHolds, PTL

-----------------------------------------------------------------------------
(* What readers see is a function on the tags.                             *)
LEMMA SeenType == Types => Seen \in [Tags -> Values]
BY DEF Types, Seen

(* A push whose write-back fails sets the evicted tag u back to the file.  *)
LEMMA PushLost ==
    ASSUME Types, Coherent, NEW t \in Tags \ cached, NEW v \in Values,
           NEW out1 \in Evicted(t), NEW b \in BOOLEAN, Push(t, v, out1, b),
           out1 \cap dirty # {}, UNCHANGED inner
    PROVE  \E u \in Tags \ {t} : \E w \in past[u] :
             Seen' = [Seen EXCEPT ![t] = v, ![u] = w]
<1>1. PICK u \in cached : out1 = {u}
  BY EvictedIs
<1>2. u \in Tags \ {t} /\ inner[u] \in past[u]
  BY <1>1 DEF Types, Coherent
<1>3. ASSUME NEW s \in Tags
      PROVE  Seen'[s] = [Seen EXCEPT ![t] = v, ![u] = inner[u]][s]
  BY <1>1, <1>2, <1>3 DEF Seen, Push, Types
<1>4. Seen' = [Seen EXCEPT ![t] = v, ![u] = inner[u]]
  BY <1>3 DEF Seen
<1> QED
  BY <1>2, <1>4

LEMMA InitRefines == Init => Device!Init
<1> SUFFICES ASSUME Init PROVE Device!Init
  OBVIOUS
<1>1. Seen = inner
  BY DEF Init, Seen
<1> QED
  BY <1>1 DEF Init, Device!Init, Device!Tags, Tags, Device!Ok, Ok

(* Every step of the cache is a step of the plain disk, or changes nothing *)
(* that a user of it can see.                                              *)
LEMMA NextRefines == Inv /\ [Next]_vars => [Device!Next]_(Device!vars)
<1> SUFFICES ASSUME Inv, [Next]_vars PROVE [Device!Next]_(Device!vars)
  OBVIOUS
<1> USE DEF Inv, Device!Tags, Device!Ok, Device!Err, Device!Answer, Device!Given
<1>1. ASSUME NEW o \in 0 .. Size, Seek(o) PROVE Device!Next
  <2>1. Seen' = Seen
    BY <1>1 DEF Seek, Seen
  <2>2. Device!Seek(o)
    BY <1>1, <2>1 DEF Seek, Device!Seek, Ok
  <2> QED
    BY <2>2 DEF Device!Next
<1>2. ASSUME NEW v \in Values, WriteHit(v) PROVE Device!Next
  <2>1. offset \in Tags
    BY <1>2 DEF WriteHit, Types
  <2>2. Seen' = [Seen EXCEPT ![offset] = v]
    BY <1>2, <2>1 DEF WriteHit, Seen, Types
  <2>3. Device!Write(v)
    BY <1>2, <2>1, <2>2 DEF WriteHit, Device!Write, Ok, Given, Tags
  <2> QED
    BY <2>3 DEF Device!Next
<1>3. ASSUME NEW v \in Values, WriteMiss(v) PROVE Device!Next
  <2>1. PICK out1 \in Evicted(offset) :
          /\ Push(offset, v, out1, TRUE)
          /\ \/ inner' = WriteBack(out1) /\ offset' = offset + 1 /\ out' = Ok
             \/ /\ UNCHANGED <<inner, offset>>
                /\ out' = Err
                /\ out1 \cap dirty # {}
    BY <1>3 DEF WriteMiss
  <2>2. offset \in Tags \ cached /\ past' = Given(v)
    BY <1>3 DEF WriteMiss
  <2>3. CASE inner' = WriteBack(out1) /\ offset' = offset + 1 /\ out' = Ok
    <3>1. Seen' = [Seen EXCEPT ![offset] = v]
      BY <2>1, <2>2, <2>3, PushSeen
    <3>2. Device!Write(v)
      BY <2>2, <2>3, <3>1 DEF Device!Write, Ok, Given, Tags
    <3> QED
      BY <3>2 DEF Device!Next
  <2>4. CASE UNCHANGED <<inner, offset>> /\ out' = Err /\ out1 \cap dirty # {}
    <3>1. \E u \in Tags \ {offset} : \E w \in past[u] :
            Seen' = [Seen EXCEPT ![offset] = v, ![u] = w]
      BY <2>1, <2>2, <2>4, PushLost
    <3>2. Device!WriteFails(v)
      BY <2>2, <2>4, <3>1 DEF Device!WriteFails, Err, Given, Tags
    <3> QED
      BY <3>2 DEF Device!Next
  <2> QED
    BY <2>1, <2>3, <2>4
<1>4. ASSUME ReadHit PROVE Device!Next
  <2>1. Seen' = Seen /\ offset \in Tags /\ Seen[offset] = copy[offset]
    BY <1>4 DEF ReadHit, Seen, Types
  <2>2. Device!Read
    BY <1>4, <2>1 DEF ReadHit, Device!Read, Answer, Tags
  <2> QED
    BY <2>2 DEF Device!Next
<1>5. ASSUME ReadMiss PROVE Device!Next
  <2>1. PICK out1 \in Evicted(offset) :
          /\ Push(offset, inner[offset], out1, FALSE)
          /\ \/ /\ inner' = WriteBack(out1)
                /\ offset' = offset + 1
                /\ out' = Answer(inner[offset])
             \/ /\ UNCHANGED <<inner, offset>>
                /\ out' = Err
                /\ out1 \cap dirty # {}
    BY <1>5 DEF ReadMiss
  <2>2. /\ offset \in Tags \ cached
        /\ past' = past
        /\ inner[offset] \in Values
        /\ Seen[offset] = inner[offset]
        /\ Seen \in [Tags -> Values]
    BY <1>5, SeenType DEF ReadMiss, Types, Seen
  <2>3. CASE inner' = WriteBack(out1) /\ offset' = offset + 1
             /\ out' = Answer(inner[offset])
    <3>1. Seen' = [Seen EXCEPT ![offset] = inner[offset]]
      BY <2>1, <2>2, <2>3, PushSeen
    <3>2. Seen' = Seen
      BY <2>2, <3>1
    <3>3. Device!Read
      BY <2>2, <2>3, <3>2 DEF Device!Read, Answer, Tags
    <3> QED
      BY <3>3 DEF Device!Next
  <2>4. CASE UNCHANGED <<inner, offset>> /\ out' = Err /\ out1 \cap dirty # {}
    <3>1. PICK u \in Tags \ {offset} : \E w \in past[u] :
            Seen' = [Seen EXCEPT ![offset] = inner[offset], ![u] = w]
      BY <2>1, <2>2, <2>4, PushLost
    <3>2. PICK w \in past[u] :
            Seen' = [Seen EXCEPT ![offset] = inner[offset], ![u] = w]
      BY <3>1
    <3>3. Seen' = [Seen EXCEPT ![u] = w]
      BY <2>2, <3>2
    <3>4. Device!ReadFails
      BY <2>2, <2>4, <3>3 DEF Device!ReadFails, Err, Tags
    <3> QED
      BY <3>4 DEF Device!Next
  <2> QED
    BY <2>1, <2>3, <2>4
<1>6. ASSUME ReadError PROVE Device!Next
  <2>1. Seen' = Seen /\ offset \in Tags /\ Seen \in [Tags -> Values]
    BY <1>6, SeenType DEF ReadError, Seen
  <2>2. Seen' = [Seen EXCEPT ![offset] = Seen[offset]]
    BY <2>1
  <2>3. Device!ReadFails
    BY <1>6, <2>1, <2>2 DEF ReadError, Device!ReadFails, Err, Tags
  <2> QED
    BY <2>3 DEF Device!Next
<1>7. ASSUME Flush PROVE Device!Next
  <2>1. Seen' = Seen
    BY <1>7 DEF Flush, ClearCache, Flushed, Seen, Types, Coherent
  <2>2. Device!Flush
    BY <1>7, <2>1 DEF Flush, Device!Flush, Ok, Tags
  <2> QED
    BY <2>2 DEF Device!Next
<1>8. ASSUME FlushError PROVE Device!Next
  <2>1. PICK done \in SUBSET dirty :
          inner' = [t \in Tags |-> IF t \in done THEN copy[t] ELSE inner[t]]
    BY <1>8 DEF FlushError
  <2>2. Seen' = Seen
    BY <1>8, <2>1 DEF FlushError, Seen, Types
  <2>3. Device!FlushFails
    BY <1>8, <2>2 DEF FlushError, Device!FlushFails, Err
  <2> QED
    BY <2>3 DEF Device!Next
<1>9. ASSUME Reset PROVE Device!Next
  <2>1. Seen' = [t \in Tags |-> Blank]
    BY <1>9 DEF Reset, ClearCache, Seen
  <2>2. Device!Reset
    BY <1>9, <2>1 DEF Reset, Device!Reset, Ok, Tags
  <2> QED
    BY <2>2 DEF Device!Next
<1>10. ASSUME ResetError PROVE Device!Next
  <2>1. PICK n \in 0 .. Size - 1 :
          inner' = [t \in Tags |-> IF t < n THEN Blank ELSE Flushed[t]]
    BY <1>10 DEF ResetError
  <2> DEFINE S == {t \in Tags : t < n}
  <2>2. Seen' = [t \in Tags |-> inner'[t]]
    BY <1>10 DEF ResetError, ClearCache, Seen
  <2>3. \A t \in Tags : Flushed[t] = Seen[t]
    BY DEF Flushed, Seen, Types, Coherent
  <2>4. Seen' = [t \in Tags |-> IF t \in S THEN Blank ELSE Seen[t]]
    BY <2>1, <2>2, <2>3
  <2>5. past' = [t \in Tags |-> {Seen'[t]}]
    BY <1>10, <2>2 DEF ResetError
  <2>6. S \in SUBSET Tags
    OBVIOUS
  <2> HIDE DEF S
  <2>7. Device!ResetFails
    BY <1>10, <2>4, <2>5, <2>6 DEF ResetError, Device!ResetFails, Err, Tags
  <2> QED
    BY <2>7 DEF Device!Next
<1>11. ASSUME Crash PROVE Device!Next
  <2>1. Seen' = inner
    BY <1>11 DEF Crash, ClearCache, Seen, Types
  <2>2. \A t \in Tags : inner[t] \in past[t]
    BY DEF Coherent
  <2>3. Device!Crash
    BY <1>11, <2>1, <2>2 DEF Crash, Device!Crash, Ok, Tags, Types
  <2> QED
    BY <2>3 DEF Device!Next
<1>12. ASSUME UNCHANGED vars PROVE UNCHANGED Device!vars
  BY <1>12 DEF vars, Device!vars, Seen
<1> QED
  BY <1>1, <1>2, <1>3, <1>4, <1>5, <1>6, <1>7, <1>8, <1>9, <1>10, <1>11, <1>12
  DEF Next

(* A disk with the write-back cache in front of it is a plain disk to its  *)
(* users: reads, writes, flushes and resets act as without it, and errors  *)
(* and crashes do no more than BlockDevice allows.                         *)
THEOREM CacheImplementsDevice == Spec => DeviceSpec
<1> QED
  BY InitRefines, NextRefines, InvHolds, PTL DEF Spec, DeviceSpec, Device!Spec
=============================================================================
