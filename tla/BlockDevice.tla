---------------------------- MODULE BlockDevice ----------------------------
(***************************************************************************)
(* What a user of a DiskDriver of ExtFS may rely on, whether or not blocks *)
(* are cached: a read returns the last value written to the block; after a *)
(* flush the values are on the medium; a crash takes each block back to a  *)
(* value it had at the last flush or was given since; an operation that    *)
(* reports an error may do that to one other block.                        *)
(***************************************************************************)
EXTENDS Integers

CONSTANTS
    Size,       \* number of blocks
    Values,     \* contents of a block
    Blank       \* the content of a block after a reset

VARIABLES
    content,    \* block -> what a read returns
    past,       \* block -> the values a crash may leave in it
    offset,     \* the cursor
    out         \* the answer of the last operation

vars == <<content, past, offset, out>>

Tags == 0 .. Size - 1
Ok == [err |-> FALSE, val |-> Blank]
Err == [err |-> TRUE, val |-> Blank]
Answer(v) == [err |-> FALSE, val |-> v]

Init ==
    /\ content \in [Tags -> Values]
    /\ past = [t \in Tags |-> {content[t]}]
    /\ offset = 0
    /\ out = Ok

Seek(o) ==
    /\ offset' = o
    /\ out' = Ok
    /\ UNCHANGED <<content, past>>

Given(v) == [past EXCEPT ![offset] = @ \cup {v}]

Write(v) ==
    /\ offset \in Tags
    /\ content' = [content EXCEPT ![offset] = v]
    /\ past' = Given(v)
    /\ offset' = offset + 1
    /\ out' = Ok

(* The block is written, but another one is set back. *)
WriteFails(v) ==
    /\ offset \in Tags
    /\ \E u \in Tags \ {offset} : \E w \in past[u] :
         content' = [content EXCEPT ![offset] = v, ![u] = w]
    /\ past' = Given(v)
    /\ out' = Err
    /\ UNCHANGED offset

Read ==
    /\ offset \in Tags
    /\ out' = Answer(content[offset])
    /\ offset' = offset + 1
    /\ UNCHANGED <<content, past>>

ReadFails ==
    /\ offset \in Tags
    /\ \E u \in Tags : \E w \in past[u] \cup {content[u]} :
         content' = [content EXCEPT ![u] = w]
    /\ out' = Err
    /\ UNCHANGED <<past, offset>>

Flush ==
    /\ past' = [t \in Tags |-> {content[t]}]
    /\ out' = Ok
    /\ UNCHANGED <<content, offset>>

FlushFails ==
    /\ out' = Err
    /\ UNCHANGED <<content, past, offset>>

Reset ==
    /\ content' = [t \in Tags |-> Blank]
    /\ past' = [t \in Tags |-> {Blank}]
    /\ out' = Ok
    /\ UNCHANGED offset

(* Some blocks are blank, the others are as they were. *)
ResetFails ==
    /\ \E S \in SUBSET Tags :
         content' = [t \in Tags |-> IF t \in S THEN Blank ELSE content[t]]
    /\ past' = [t \in Tags |-> {content'[t]}]
    /\ out' = Err
    /\ UNCHANGED offset

Crash ==
    /\ content' \in [Tags -> Values]
    /\ \A t \in Tags : content'[t] \in past[t]
    /\ past' = [t \in Tags |-> {content'[t]}]
    /\ offset' = 0
    /\ out' = Ok

Next ==
    \/ \E o \in 0 .. Size : Seek(o)
    \/ \E v \in Values : Write(v) \/ WriteFails(v)
    \/ Read
    \/ ReadFails
    \/ Flush
    \/ FlushFails
    \/ Reset
    \/ ResetFails
    \/ Crash

Spec == Init /\ [][Next]_vars
=============================================================================
