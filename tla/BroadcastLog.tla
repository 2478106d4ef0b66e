----------------------------- MODULE BroadcastLog -----------------------------
(***************************************************************************)
(* What a buffer queue promises, without serials, seen counts or pointers.   *)
(* The producer appends buffers 1, 2, ... to a log.  A reader that joins      *)
(* starts at the oldest buffer that is kept and takes the buffers one by one, *)
(* in order, none skipped and none twice.  A buffer is dropped as soon as no  *)
(* reader is left that has to take it, and never before, unless the producer  *)
(* discards the whole log.                                                    *)
(***************************************************************************)
EXTENDS Integers, FiniteSets

CONSTANT Readers

VARIABLES
    tail,     \* number of buffers appended
    low,      \* the oldest buffer that is kept
    present,  \* the readers that have joined
    cursor    \* the next buffer of each reader; 0 for one that is not present

vars == <<tail, low, present, cursor>>

Init ==
    /\ tail = 0
    /\ low = 1
    /\ present = {}
    /\ cursor = [r \in Readers |-> 0]

Append ==
    /\ tail' = tail + 1
    /\ UNCHANGED <<low, present, cursor>>

Join(r) ==
    /\ r \notin present
    /\ present' = present \cup {r}
    /\ cursor' = [cursor EXCEPT ![r] = low]
    /\ UNCHANGED <<tail, low>>

\* low follows the slowest of the present readers.
Take(r) ==
    /\ r \in present
    /\ cursor[r] <= tail
    /\ cursor' = [cursor EXCEPT ![r] = @ + 1]
    /\ low' \in {cursor'[s] : s \in present}
    /\ \A s \in present : low' <= cursor'[s]
    /\ UNCHANGED <<tail, present>>

\* A reader leaves after it has given up everything it had not taken.
Leave(r) ==
    /\ r \in present
    /\ cursor[r] = tail + 1
    /\ present' = present \ {r}
    /\ cursor' = [cursor EXCEPT ![r] = 0]
    /\ UNCHANGED <<tail, low>>

Discard ==
    /\ low' = tail + 1
    /\ cursor' = [r \in Readers |-> IF r \in present THEN tail + 1 ELSE 0]
    /\ UNCHANGED <<tail, present>>

Next ==
    \/ Append
    \/ Discard
    \/ \E r \in Readers : Join(r) \/ Take(r) \/ Leave(r)

Spec == Init /\ [][Next]_vars
=============================================================================
