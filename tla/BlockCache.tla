----------------------------- MODULE BlockCache -----------------------------
(***************************************************************************)
(* The write-back LRU cache of ExtFS (disk_driver/src/cache.rs) over a     *)
(* file driver (disk_driver/src/file.rs).  Addresses are in units; larger  *)
(* requests are the unit ones in a loop, so each unit is a step.  A write, *)
(* a read or a reset of the file may fail, and the process may die, which  *)
(* loses the cache and keeps the file.                                     *)
(***************************************************************************)
EXTENDS Integers, FiniteSets

CONSTANTS
    Size,       \* info.size, in units
    Values,     \* contents of a unit
    Blank,      \* zeros
    Capacity,   \* the size of the cache
    Faults      \* the inner operations that may fail: "write", "read", "reset"

ASSUME CacheAssumption ==
    /\ Size \in Nat \ {0}
    /\ Capacity \in Nat \ {0}
    /\ Blank \in Values
    /\ Faults \subseteq {"write", "read", "reset"}

VARIABLES
    inner,      \* tag -> what the file holds
    cached,     \* the tags in the cache
    dirty,      \* those whose item is dirty
    copy,       \* tag -> data of its item; Blank if it has none
    older,      \* pairs of cached tags: the first was used before the second
    offset,     \* the cursor of the cache
    out,        \* the answer of the last operation
    past        \* history: tag -> values at the last flush or written since

vars == <<inner, cached, dirty, copy, older, offset, out, past>>

Tags == 0 .. Size - 1
Ok == [err |-> FALSE, val |-> Blank]
Err == [err |-> TRUE, val |-> Blank]
Answer(v) == [err |-> FALSE, val |-> v]

(* What a read of a tag returns. *)
Seen == [t \in Tags |-> IF t \in cached THEN copy[t] ELSE inner[t]]

Init ==
    /\ inner \in [Tags -> Values]
    /\ cached = {}
    /\ dirty = {}
    /\ copy = [t \in Tags |-> Blank]
    /\ older = {}
    /\ offset = 0
    /\ out = Ok
    /\ past = [t \in Tags |-> {inner[t]}]

-----------------------------------------------------------------------------
(* LruCache (a library): get and push make a tag the most recent; push     *)
(* into a full cache takes out the least recent one.                       *)

Touch(t) == {p \in older : p[1] # t /\ p[2] # t}
                \cup {<<s, t>> : s \in cached \ {t}}
Full == Cardinality(cached) >= Capacity
LeastRecent(v) == v \in cached /\ \A s \in cached \ {v} : <<v, s>> \in older

\* Mutant of Evicted: nothing is taken out.
EvictedNever(t) == {{}}

(* The set of tags to take out when tag t is pushed: none or one. *)
Evicted(t) ==
    IF Full THEN {{v} : v \in {w \in cached : LeastRecent(w)}} ELSE {{}}

\* Mutant of WriteBack: the evicted item is dropped.
WriteBackNothing(out1) == inner

(* write_back_item writes the evicted item if it is dirty. *)
WriteBack(out1) ==
    [t \in Tags |-> IF t \in out1 \cap dirty THEN copy[t] ELSE inner[t]]

(* An item is pushed for tag t and those of `out1' leave. *)
Push(t, v, out1, isDirty) ==
    /\ cached' = (cached \ out1) \cup {t}
    /\ dirty' = (dirty \ out1) \cup (IF isDirty THEN {t} ELSE {})
    /\ copy' = [s \in Tags |-> IF s = t THEN v
                               ELSE IF s \in out1 THEN Blank ELSE copy[s]]
    /\ older' = {p \in Touch(t) : p[1] \notin out1 /\ p[2] \notin out1}

Given(v) == [past EXCEPT ![offset] = @ \cup {v}]

-----------------------------------------------------------------------------
(* ddriver_seek *)
Seek(o) ==
    /\ offset' = o
    /\ out' = Ok
    /\ UNCHANGED <<inner, cached, dirty, copy, older, past>>

\* Mutant of DirtyHit: the item is not marked.
DirtyKept == dirty

(* ddriver_write of one unit: the item in the cache is changed. *)
DirtyHit == dirty \cup {offset}

WriteHit(v) ==
    /\ offset \in cached
    /\ copy' = [copy EXCEPT ![offset] = v]
    /\ dirty' = DirtyHit
    /\ older' = Touch(offset)
    /\ offset' = offset + 1
    /\ out' = Ok
    /\ past' = Given(v)
    /\ UNCHANGED <<inner, cached>>

(* ddriver_write of one unit: a new item, without reading the file; the    *)
(* one it replaces is written back.  If that fails the new item stays, the *)
(* old one is gone, and the cursor does not move.                          *)
WriteMiss(v) ==
    /\ offset \in Tags \ cached
    /\ \E out1 \in Evicted(offset) :
         /\ Push(offset, v, out1, TRUE)
         /\ \/ /\ inner' = WriteBack(out1)
               /\ offset' = offset + 1
               /\ out' = Ok
            \/ /\ "write" \in Faults
               /\ out1 \cap dirty # {}
               /\ out' = Err
               /\ UNCHANGED <<inner, offset>>
    /\ past' = Given(v)

(* ddriver_read of one unit that is in the cache. *)
ReadHit ==
    /\ offset \in cached
    /\ out' = Answer(copy[offset])
    /\ offset' = offset + 1
    /\ older' = Touch(offset)
    /\ UNCHANGED <<inner, cached, dirty, copy, past>>

(* ddriver_read of one unit that is not: the file is read, a clean item is *)
(* pushed, and the one it replaces is written back.                        *)
ReadMiss ==
    /\ offset \in Tags \ cached
    /\ \E out1 \in Evicted(offset) :
         /\ Push(offset, inner[offset], out1, FALSE)
         /\ \/ /\ inner' = WriteBack(out1)
               /\ offset' = offset + 1
               /\ out' = Answer(inner[offset])
            \/ /\ "write" \in Faults
               /\ out1 \cap dirty # {}
               /\ out' = Err
               /\ UNCHANGED <<inner, offset>>
    /\ UNCHANGED past

(* The read of the file fails, before anything is changed. *)
ReadError ==
    /\ "read" \in Faults
    /\ offset \in Tags \ cached
    /\ out' = Err
    /\ UNCHANGED <<inner, cached, dirty, copy, older, offset, past>>

ClearCache ==
    /\ cached' = {}
    /\ dirty' = {}
    /\ copy' = [t \in Tags |-> Blank]
    /\ older' = {}

Flushed == [t \in Tags |-> IF t \in dirty THEN copy[t] ELSE inner[t]]

(* ddriver_flush, flush_range and close: every dirty item is written, then *)
(* the cache is empty.                                                     *)
Flush ==
    /\ inner' = Flushed
    /\ ClearCache
    /\ out' = Ok
    /\ past' = [t \in Tags |-> {Seen[t]}]
    /\ UNCHANGED offset

(* One of the writes fails: what comes before is written, and all items    *)
(* stay in the cache, dirty.                                               *)
FlushError ==
    /\ "write" \in Faults
    /\ \E done \in SUBSET dirty :
         /\ done # dirty
         /\ inner' = [t \in Tags |-> IF t \in done THEN copy[t] ELSE inner[t]]
    /\ out' = Err
    /\ UNCHANGED <<cached, dirty, copy, older, offset, past>>

(* ddriver_reset: flush, then the file is written with zeros. *)
Reset ==
    /\ ClearCache
    /\ inner' = [t \in Tags |-> Blank]
    /\ past' = [t \in Tags |-> {Blank}]
    /\ out' = Ok
    /\ UNCHANGED offset

(* The writing of zeros stops half way; the flush is done. *)
ResetError ==
    /\ "reset" \in Faults
    /\ \E n \in 0 .. Size - 1 :
         inner' = [t \in Tags |-> IF t < n THEN Blank ELSE Flushed[t]]
    /\ ClearCache
    /\ past' = [t \in Tags |-> {inner'[t]}]
    /\ out' = Err
    /\ UNCHANGED offset

(* The process dies; new and ddriver_open start with an empty cache. *)
Crash ==
    /\ ClearCache
    /\ offset' = 0
    /\ out' = Ok
    /\ past' = [t \in Tags |-> {inner[t]}]
    /\ UNCHANGED inner

Next ==
    \/ \E o \in 0 .. Size : Seek(o)
    \/ \E v \in Values : WriteHit(v)
    \/ \E v \in Values : WriteMiss(v)
    \/ ReadHit
    \/ ReadMiss
    \/ ReadError
    \/ Flush
    \/ FlushError
    \/ Reset
    \/ ResetError
    \/ Crash

Spec == Init /\ [][Next]_vars

-----------------------------------------------------------------------------
(* Properties                                                              *)

(* The state has its types, and the cache holds no more than its capacity. *)
TypeOK ==
    /\ inner \in [Tags -> Values]
    /\ cached \subseteq Tags
    /\ dirty \subseteq cached
    /\ copy \in [Tags -> Values]
    /\ older \subseteq cached \X cached
    /\ offset \in 0 .. Size
    /\ out \in [err : BOOLEAN, val : Values]
    /\ past \in [Tags -> SUBSET Values]
    /\ Cardinality(cached) <= Capacity

(* A clean item equals the file, so that it may be dropped without being   *)
(* written; the file holds nothing that was not written since the last     *)
(* flush, so that a crash loses only unflushed writes; and what readers    *)
(* see was written.                                                        *)
Coherent ==
    \A t \in Tags :
      /\ t \in cached \ dirty => copy[t] = inner[t]
      /\ inner[t] \in past[t]
      /\ Seen[t] \in past[t]

(* A cached disk behaves as a plain one, apart from what a crash or an     *)
(* error may set back.                                                     *)
Device == INSTANCE BlockDevice WITH content <- Seen
DeviceSpec == Device!Spec
=============================================================================
