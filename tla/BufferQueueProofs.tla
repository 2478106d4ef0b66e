-------------------------- MODULE BufferQueueProofs --------------------------
(***************************************************************************)
(* Proofs about BufferQueue for any number of consumers, any width of the    *)
(* serials and any bounds.                                                   *)
(***************************************************************************)
EXTENDS BufferQueue, FiniteSetTheorems, WellFoundedInduction, TLAPS

(***************************************************************************)
(* Type correctness.  It holds for stored and live sources alike, whether or *)
(* not an assertion of the C code fails.                                     *)
(***************************************************************************)

\* A non-empty set of naturals has a least element.
LEMMA MinInSet ==
    ASSUME NEW S \in SUBSET Nat, S # {}
    PROVE  \E m \in S : \A q \in S : m <= q
<1> DEFINE R == {ss \in Nat \X Nat : ss[1] < ss[2]}
<1>1. IsWellFoundedOn(R, Nat)
  BY NatLessThanWellFounded DEF OpToRel
<1> HIDE DEF R
<1>2. PICK m \in S : \A q \in S : <<q, m>> \notin R
  BY <1>1, WFMin, Zenon
<1>3. \A q \in S : ~(q < m)
  BY <1>2 DEF R
<1> QED BY <1>3

\* The target of a move that does not fault is NULL or a queued buffer.
LEMMA TargetType ==
    ASSUME TypeOK, NEW c \in Consumers,
           bq_consumer_confirm_pointer(c) # NULL =>
               bq_consumer_confirm_pointer(c) \in DOMAIN elem
    PROVE  Target(c) \in DOMAIN elem \cup {NULL}
<1>1. DOMAIN elem = first..puts /\ puts \in Nat /\ first \in Nat
  BY DEF TypeOK
<1>2. CASE bq_consumer_confirm_pointer(c) # NULL
  BY <1>1, <1>2 DEF Target, Next_, NULL
<1>3. CASE bq_consumer_confirm_pointer(c) = NULL
  <2>1. CASE c_queue_serial[c] # queue_serial
    BY <1>1, <1>3, <2>1 DEF Target, Head, NULL
  <2>2. CASE c_queue_serial[c] = queue_serial /\ NotYetReturned(c) = {}
    BY <1>3, <2>2 DEF Target
  <2>3. CASE c_queue_serial[c] = queue_serial /\ NotYetReturned(c) # {}
    <3> DEFINE S == NotYetReturned(c)
    <3>1. S \subseteq first..puts
      BY <1>1 DEF NotYetReturned
    <3>2. S # {} /\ S \in SUBSET Nat
      BY <1>1, <2>3, <3>1
    <3> HIDE DEF S
    <3>3. \E m \in S : \A q \in S : m <= q
      BY <3>2, MinInSet
    <3>4. (CHOOSE p \in S : \A q \in S : p <= q) \in S
      BY <3>3
    <3> QED BY <1>1, <1>3, <2>3, <3>1, <3>4 DEF Target, S
  <2> QED BY <2>1, <2>2, <2>3
<1> QED BY <1>2, <1>3

\* Marking a queued buffer keeps the producer's types.
LEMMA UnrefType ==
    ASSUME TypeOK, NEW p \in DOMAIN elem, UnrefAssertions(p),
           bq_consumer_elem_unref(p)
    PROVE  /\ first' \in 1..(puts + 1)
           /\ elem' \in [first'..puts -> [seq_no : Serial, seen : Int]]
           /\ next_serial' \in Serial
           /\ queue_serial' \in Nat
<1>0. SerialModulus \in Nat /\ SerialModulus > 1
  BY ConstantsAssumption
<1>1. CASE elem[p].seen + 1 < consumers
  <2>1. /\ elem' = [elem EXCEPT ![p].seen = @ + 1]
        /\ UNCHANGED <<first, next_serial, queue_serial>>
    BY <1>1 DEF bq_consumer_elem_unref
  <2>2. elem \in [first..puts -> [seq_no : Serial, seen : Int]] /\ p \in first..puts
    BY DEF TypeOK
  <2>3. elem' \in [first..puts -> [seq_no : Serial, seen : Int]]
    BY <2>1, <2>2
  <2> QED BY <2>1, <2>3 DEF TypeOK
<1>2. CASE ~(elem[p].seen + 1 < consumers)
  <2>1. elem[p].seen \in Int /\ consumers \in Int
    BY DEF TypeOK
  <2>2. p = first
    BY <1>2, <2>1 DEF UnrefAssertions
  <2>3. first \in 1..puts /\ puts \in Nat
    BY <2>2 DEF TypeOK
  <2>4. bq_producer_destroy_head
    BY <1>2 DEF bq_consumer_elem_unref
  <2>5. first' = first + 1 /\ elem' = [q \in (first + 1)..puts |-> elem[q]]
    BY <2>4 DEF bq_producer_destroy_head
  <2>6. elem' \in [first'..puts -> [seq_no : Serial, seen : Int]]
    BY <2>3, <2>5 DEF TypeOK
  <2>7. next_serial' \in Serial /\ queue_serial' \in Nat
    BY <1>0, <2>4, SMTT(40) DEF bq_producer_destroy_head, TypeOK, Serial
  <2> QED BY <2>3, <2>5, <2>6, <2>7
<1> QED BY <1>1, <1>2

\* So does a cursor placed on NULL or on a queued buffer.
LEMMA PlaceType ==
    ASSUME TypeOK, NEW c \in Consumers, NEW t \in DOMAIN elem \cup {NULL},
           queue_serial' \in Nat, PlaceCursor(c, t)
    PROVE  /\ c_queue_serial' \in [Consumers -> Nat]
           /\ current' \in [Consumers -> 0..MaxPuts]
           /\ last_serial' \in [Consumers -> Serial]
<1>1. t \in 0..MaxPuts
  BY ConstantsAssumption DEF TypeOK, NULL
<1>2. t # NULL => elem[t].seq_no \in Serial
  BY DEF TypeOK
<1> QED BY <1>1, <1>2 DEF PlaceCursor, TypeOK

\* One move of a cursor keeps every type it touches.
LEMMA MoveType ==
    ASSUME TypeOK, NEW c \in Consumers, fault = "none",
           bq_consumer_move_internal(c)
    PROVE  /\ first' \in 1..(puts + 1)
           /\ elem' \in [first'..puts -> [seq_no : Serial, seen : Int]]
           /\ next_serial' \in Serial
           /\ queue_serial' \in Nat
           /\ c_queue_serial' \in [Consumers -> Nat]
           /\ current' \in [Consumers -> 0..MaxPuts]
           /\ last_serial' \in [Consumers -> Serial]
           /\ fault' \in {"none", "assert", "serial", "dangling"}
<1> DEFINE pointer == bq_consumer_confirm_pointer(c)
<1>1. CASE pointer = NULL
  <2>1. UNCHANGED <<elem, first, next_serial, queue_serial, fault>>
        /\ PlaceCursor(c, Target(c))
    BY <1>1 DEF bq_consumer_move_internal
  <2>2. Target(c) \in DOMAIN elem \cup {NULL}
    BY <1>1, TargetType
  <2>3. queue_serial' \in Nat
    BY <2>1 DEF TypeOK
  <2>4. /\ c_queue_serial' \in [Consumers -> Nat]
        /\ current' \in [Consumers -> 0..MaxPuts]
        /\ last_serial' \in [Consumers -> Serial]
    BY <2>1, <2>2, <2>3, PlaceType
  <2> QED BY <2>1, <2>4 DEF TypeOK
<1>2. CASE pointer # NULL /\ UnrefFault(pointer) = "none"
  <2>1. bq_consumer_elem_unref(pointer) /\ PlaceCursor(c, Target(c)) /\ fault' = "none"
    BY <1>2 DEF bq_consumer_move_internal
  <2>2. pointer \in DOMAIN elem /\ UnrefAssertions(pointer)
    BY <1>2 DEF UnrefFault
  <2>3. Target(c) \in DOMAIN elem \cup {NULL}
    BY <2>2, TargetType
  <2> HIDE DEF pointer
  <2>4. /\ first' \in 1..(puts + 1)
        /\ elem' \in [first'..puts -> [seq_no : Serial, seen : Int]]
        /\ next_serial' \in Serial
        /\ queue_serial' \in Nat
    BY <2>1, <2>2, UnrefType
  <2>5. /\ c_queue_serial' \in [Consumers -> Nat]
        /\ current' \in [Consumers -> 0..MaxPuts]
        /\ last_serial' \in [Consumers -> Serial]
    BY <2>1, <2>3, <2>4, PlaceType
  <2> QED BY <2>1, <2>4, <2>5
<1>3. CASE pointer # NULL /\ UnrefFault(pointer) # "none"
  <2>1. /\ UNCHANGED <<elem, first, next_serial, queue_serial, cursorVars>>
        /\ fault' \in {"assert", "dangling"}
    BY <1>3 DEF bq_consumer_move_internal, UnrefFault
  <2> QED BY <2>1 DEF TypeOK, cursorVars
<1> QED BY <1>1, <1>2, <1>3

\* Every operation of the queue, each atomic under the producer's mutex, keeps the
\* types (bufferqueue.c:278-836).
LEMMA TypeStep ==
    ASSUME TypeOK, [Next]_vars
    PROVE  TypeOK'
<1>0. SerialModulus \in Nat /\ SerialModulus > 1 /\ MaxPuts \in Nat
  BY ConstantsAssumption
<1>1. CASE bq_producer_reset_queue
  BY <1>0, <1>1 DEF bq_producer_reset_queue, bq_producer_reset_queue_internal,
     cursorVars, TypeOK, Serial
<1>2. CASE bq_producer_put
  <2> DEFINE own == OfferedSeqNo = 0
             serial == IF own THEN (next_serial + 1) % SerialModulus ELSE next_serial
             seq == IF own THEN next_serial ELSE OfferedSeqNo
  <2>1. OfferedSeqNo \in Serial
    BY <1>0, ConstantsAssumption DEF OfferedSeqNo, TypeOK, Serial
  <2>2. serial \in Serial /\ seq \in Serial
    BY <1>0, <2>1 DEF TypeOK, Serial
  <2>3. /\ puts < MaxPuts /\ next_serial' = serial /\ puts' = puts + 1
        /\ elem' = [p \in first..(puts + 1) |->
                        IF p = puts + 1 THEN [seq_no |-> seq, seen |-> 0]
                                        ELSE elem[p]]
        /\ UNCHANGED <<first, queue_serial, consumers, stopped, c_queue_serial,
                       current, last_serial, attached, freeing>>
        /\ fault' \in {"none", "serial"}
    BY <1>2 DEF bq_producer_put, cursorVars
  <2> HIDE DEF seq, serial
  <2>4. elem' \in [first'..puts' -> [seq_no : Serial, seen : Int]]
    BY <2>2, <2>3 DEF TypeOK
  <2>5. puts' \in 0..MaxPuts /\ first' \in 1..(puts' + 1)
    BY <1>0, <2>3 DEF TypeOK
  <2> QED BY <2>2, <2>3, <2>4, <2>5 DEF TypeOK
<1>3. CASE bq_producer_unref
  BY <1>0, <1>3 DEF bq_producer_unref, cursorVars, TypeOK, Serial
<1>4. ASSUME NEW c \in Consumers, bq_consumer_new(c) PROVE TypeOK'
  BY <1>0, <1>4, SMTT(40) DEF bq_consumer_new, TypeOK, Serial, NULL
<1>5. ASSUME NEW c \in Consumers, bq_consumer_move(c) PROVE TypeOK'
  <2>1. fault = "none" /\ bq_consumer_move_internal(c)
        /\ UNCHANGED <<puts, consumers, stopped, attached, freeing>>
    BY <1>5 DEF bq_consumer_move, Unlocked
  <2> QED BY <2>1, MoveType DEF TypeOK
<1>6. ASSUME NEW c \in Consumers, bq_consumer_get(c) PROVE TypeOK'
  <2>1. fault = "none" /\ UNCHANGED <<puts, consumers, stopped, attached, freeing>>
    BY <1>6 DEF bq_consumer_get, Unlocked
  <2>2. CASE bq_consumer_confirm_pointer(c) = NULL
    <3>1. bq_consumer_move_internal(c)
      BY <1>6, <2>2 DEF bq_consumer_get
    <3> QED BY <2>1, <3>1, MoveType DEF TypeOK
  <2>3. CASE bq_consumer_confirm_pointer(c) # NULL
    BY <1>6, <2>1, <2>3 DEF bq_consumer_get, TypeOK, cursorVars
  <2> QED BY <2>2, <2>3
<1>7. ASSUME NEW c \in Consumers, bq_consumer_free(c) PROVE TypeOK'
  BY <1>7 DEF bq_consumer_free, producerVars, cursorVars, TypeOK
<1>8. ASSUME NEW c \in Consumers, FreeMoveAll(c) PROVE TypeOK'
  <2>1. fault = "none" /\ bq_consumer_move_internal(c)
        /\ UNCHANGED <<puts, consumers, stopped, attached>>
    BY <1>8 DEF FreeMoveAll
  <2>2. freeing' \in [Consumers -> {"no", "moving", "leaving"}]
    BY <1>8 DEF FreeMoveAll, TypeOK
  <2> QED BY <2>1, <2>2, MoveType DEF TypeOK
<1>9. ASSUME NEW c \in Consumers, bq_decrement_seen_on_free(c) PROVE TypeOK'
  <2>1. elem' = [p \in DOMAIN elem |-> [elem[p] EXCEPT !.seen = @ - 1]]
        /\ UNCHANGED <<first, puts>>
    BY <1>9 DEF bq_decrement_seen_on_free
  <2>2. elem \in [first..puts -> [seq_no : Serial, seen : Int]]
    BY DEF TypeOK
  <2>3. \A p \in first..puts :
           [elem[p] EXCEPT !.seen = @ - 1] \in [seq_no : Serial, seen : Int]
    BY <2>2
  <2>4. elem' \in [first'..puts' -> [seq_no : Serial, seen : Int]]
    BY <2>1, <2>2, <2>3
  <2> QED BY <1>9, <2>4 DEF bq_decrement_seen_on_free, cursorVars, TypeOK
<1>10. CASE UNCHANGED vars
  BY <1>10 DEF vars, producerVars, cursorVars, TypeOK
<1> QED BY <1>1, <1>2, <1>3, <1>4, <1>5, <1>6, <1>7, <1>8, <1>9, <1>10 DEF Next

\* The queue that bq_producer_new makes is well typed (bufferqueue.c:330-356).
LEMMA TypeInit == Init => TypeOK
<1> SUFFICES ASSUME Init PROVE TypeOK
  OBVIOUS
<1>1. elem \in [first..puts -> [seq_no : Serial, seen : Int]]
  BY DEF Init
<1>2. puts \in 0..MaxPuts /\ first \in 1..(puts + 1) /\ next_serial \in Serial
  BY ConstantsAssumption DEF Init, Serial
<1>3. current \in [Consumers -> 0..MaxPuts] /\ last_serial \in [Consumers -> Serial]
  BY ConstantsAssumption DEF Init, Serial, NULL
<1>4. stopped \in BOOLEAN /\ attached \in SUBSET Consumers
  BY DEF Init
<1>5. /\ c_queue_serial \in [Consumers -> Nat]
      /\ freeing \in [Consumers -> {"no", "moving", "leaving"}]
      /\ fault \in {"none", "assert", "serial", "dangling"}
      /\ queue_serial \in Nat /\ consumers \in Int
  BY DEF Init
<1> QED BY <1>1, <1>2, <1>3, <1>4, <1>5 DEF TypeOK

\* Every variable keeps its C type in every behaviour of the buffer queue, for a
\* stored or a live source (bufferqueue.c:73-192).
THEOREM TypeCorrect == Spec => []TypeOK
<1> QED BY TypeInit, TypeStep, PTL DEF Spec

(***************************************************************************)
(* The bookkeeping of the queue.  BookkeepingInv is inductive: counts        *)
(* are exact only because cursors are consistent with the serials, and a     *)
(* consumer meets the head when it completes a count only because nothing    *)
(* that all consumers have passed is left in front of it.                    *)
(***************************************************************************)

\* What the invariant says of the queue while the process lives.
LEMMA QueueFacts ==
    ASSUME BookkeepingInv, fault = "none"
    PROVE  /\ DOMAIN elem = first..puts
           /\ puts \in Nat /\ first \in Nat /\ 1 <= first /\ first <= puts + 1
           /\ NextSeq \in Nat /\ NextSeq >= puts - first + 2
           /\ \A p \in first..puts : /\ elem[p].seq_no = NextSeq - (puts + 1 - p)
                                     /\ elem[p].seq_no \in Nat
                                     /\ elem[p].seen \in Int
           /\ queue_serial \in Nat /\ queue_serial >= 1
           /\ attached \subseteq Consumers
           /\ IsFiniteSet(attached)
           /\ consumers = Cardinality(attached) /\ consumers \in Nat
<1>1. TypeOK /\ SerialsConsecutive /\ queue_serial >= 1 /\ consumers = Cardinality(attached)
  BY DEF BookkeepingInv
<1>2. DOMAIN elem = first..puts
  BY <1>1 DEF TypeOK
<1>3. puts \in Nat /\ first \in Nat /\ 1 <= first /\ first <= puts + 1
      /\ NextSeq \in Nat /\ NextSeq >= puts - first + 2
  BY <1>1, ConstantsAssumption DEF TypeOK, SerialsConsecutive, Serial, NextSeq
<1>4. \A p \in first..puts : /\ elem[p].seq_no = NextSeq - (puts + 1 - p)
                             /\ elem[p].seq_no \in Serial
                             /\ elem[p].seen \in Int
  BY <1>1, <1>2 DEF TypeOK, SerialsConsecutive
<1>5. attached \subseteq Consumers /\ IsFiniteSet(attached)
  BY <1>1, ConstantsAssumption, FS_Subset DEF TypeOK
<1>6. consumers \in Nat
  BY <1>1, <1>5, FS_CardinalityType
<1> QED BY <1>1, <1>2, <1>3, <1>4, <1>5, <1>6, ConstantsAssumption DEF TypeOK, Serial

\* What it says of the cursor of an attached consumer.
LEMMA CursorFacts ==
    ASSUME BookkeepingInv, fault = "none", NEW c \in attached
    PROVE  /\ c_queue_serial[c] \in Nat /\ c_queue_serial[c] <= queue_serial
           /\ current[c] \in Nat /\ last_serial[c] \in Nat
           /\ c_queue_serial[c] = queue_serial =>
                 /\ first <= puts
                 /\ 1 <= last_serial[c] /\ last_serial[c] < NextSeq
                 /\ current[c] # NULL =>
                       /\ current[c] \in first..puts
                       /\ elem[current[c]].seq_no = last_serial[c]
<1>1. TypeOK /\ CursorConsistent(c) /\ c \in Consumers
  BY DEF BookkeepingInv, TypeOK
<1>2. DOMAIN elem = first..puts /\ NextSeq \in Nat
  BY QueueFacts
<1>3. last_serial[c] \in Nat /\ current[c] \in Nat /\ c_queue_serial[c] \in Nat
  BY <1>1, ConstantsAssumption DEF TypeOK, Serial
<1> QED BY <1>1, <1>2, <1>3 DEF CursorConsistent

\* bq_consumer_confirm_pointer only lets a queued buffer through, one that the
\* consumer has selected and not passed.
LEMMA ConfirmedPointer ==
    ASSUME BookkeepingInv, fault = "none", NEW c \in attached
    PROVE  /\ bq_consumer_confirm_pointer(c) # NULL =>
                 /\ bq_consumer_confirm_pointer(c) = current[c]
                 /\ c_queue_serial[c] = queue_serial
                 /\ current[c] \in first..puts
                 /\ elem[current[c]].seq_no = last_serial[c]
                 /\ ~Passed(c, current[c])
           /\ bq_consumer_confirm_pointer(c) = NULL =>
                 current[c] = NULL \/ c_queue_serial[c] # queue_serial
<1>1. CASE current[c] = NULL \/ c_queue_serial[c] # queue_serial
  BY <1>1 DEF bq_consumer_confirm_pointer
<1>2. CASE current[c] # NULL /\ c_queue_serial[c] = queue_serial
  <2>1. /\ first <= puts /\ current[c] \in first..puts
        /\ elem[current[c]].seq_no = last_serial[c]
    BY <1>2, CursorFacts
  <2>2. ~(last_serial[c] < elem[first].seq_no)
    <3>1. /\ puts \in Nat /\ first \in Nat /\ NextSeq \in Nat
          /\ first \in first..puts
      BY <2>1, QueueFacts
    <3>2. /\ elem[first].seq_no = NextSeq - (puts + 1 - first)
          /\ elem[current[c]].seq_no = NextSeq - (puts + 1 - current[c])
      BY <2>1, <3>1, QueueFacts
    <3>3. first <= current[c] /\ current[c] \in Nat
      BY <2>1, <3>1
    <3> QED BY <2>1, <3>1, <3>2, <3>3
  <2>3. bq_consumer_confirm_pointer(c) = current[c]
    BY <1>2, <2>1, <2>2 DEF bq_consumer_confirm_pointer, Head
  <2>4. ~Passed(c, current[c])
    <3>1. elem[current[c]].seq_no \in Nat
      BY <2>1, QueueFacts
    <3> QED BY <1>2, <2>1, <3>1 DEF Passed
  <2> QED BY <1>2, <2>1, <2>3, <2>4
<1> QED BY <1>1, <1>2

\* Consumers that are not in SeenBy(p) leave room in the count.
LEMMA SeenBound ==
    ASSUME BookkeepingInv, fault = "none", NEW p \in first..puts
    PROVE  /\ SeenBy(p) \subseteq attached /\ IsFiniteSet(SeenBy(p))
           /\ elem[p].seen = Cardinality(SeenBy(p)) /\ elem[p].seen \in Nat
           /\ \A c \in attached : ~Passed(c, p) =>
                 /\ c \notin SeenBy(p)
                 /\ Cardinality(SeenBy(p) \cup {c}) = elem[p].seen + 1
                 /\ elem[p].seen + 1 <= consumers
                 /\ elem[p].seen + 1 = consumers => SeenBy(p) \cup {c} = attached
<1>1. DOMAIN elem = first..puts /\ IsFiniteSet(attached) /\ consumers = Cardinality(attached)
  BY QueueFacts
<1>2. SeenBy(p) \subseteq attached
  BY DEF SeenBy
<1>3. IsFiniteSet(SeenBy(p)) /\ elem[p].seen = Cardinality(SeenBy(p))
  BY <1>1, <1>2, FS_Subset DEF BookkeepingInv, SeenExact
<1>4. elem[p].seen \in Nat
  BY <1>3, FS_CardinalityType
<1>5. ASSUME NEW c \in attached, ~Passed(c, p)
      PROVE  /\ c \notin SeenBy(p)
             /\ Cardinality(SeenBy(p) \cup {c}) = elem[p].seen + 1
             /\ elem[p].seen + 1 <= consumers
             /\ elem[p].seen + 1 = consumers => SeenBy(p) \cup {c} = attached
  <2>1. c \notin SeenBy(p)
    BY <1>5 DEF SeenBy
  <2>2. Cardinality(SeenBy(p) \cup {c}) = elem[p].seen + 1
    BY <1>3, <2>1, FS_AddElement
  <2>3. SeenBy(p) \cup {c} \subseteq attached
    BY <1>2
  <2> QED BY <1>1, <2>1, <2>2, <2>3, FS_Subset
<1> QED BY <1>2, <1>3, <1>4, <1>5

\* The assertions hold for the pointer of a moving consumer, and it completes a
\* count only at the head.
LEMMA UnrefSafe ==
    ASSUME BookkeepingInv, fault = "none", NEW c \in attached,
           bq_consumer_confirm_pointer(c) # NULL
    PROVE  UnrefFault(bq_consumer_confirm_pointer(c)) = "none"
<1> DEFINE p == bq_consumer_confirm_pointer(c)
<1>1. /\ p = current[c] /\ p \in first..puts /\ ~Passed(c, p)
      /\ elem[p].seq_no = last_serial[c] /\ c_queue_serial[c] = queue_serial
  BY ConfirmedPointer
<1> HIDE DEF p
<1>2. elem[p].seen \in Nat /\ elem[p].seen + 1 <= consumers
      /\ (elem[p].seen + 1 = consumers => SeenBy(p) \cup {c} = attached)
  BY <1>1, SeenBound
<1>3. consumers \in Nat /\ DOMAIN elem = first..puts /\ first \in Nat /\ first <= p
  BY <1>1, QueueFacts
<1>4. ASSUME elem[p].seen + 1 = consumers PROVE p = first
  <2> SUFFICES ASSUME first < p PROVE FALSE
    BY <1>1, <1>3, QueueFacts
  <2>0. /\ puts \in Nat /\ NextSeq \in Nat /\ p \in Nat /\ p <= puts
        /\ elem[p].seq_no = NextSeq - (puts + 1 - p)
    BY <1>1, <1>3, QueueFacts, SMTT(40)
  <2>1. first \in first..puts /\ elem[first].seq_no < elem[p].seq_no
    <3>1. first \in first..puts
      BY <1>3, <2>0
    <3>2. elem[first].seq_no = NextSeq - (puts + 1 - first)
      BY <3>1, QueueFacts
    <3> QED BY <1>3, <2>0, <3>1, <3>2
  <2>2. PICK d \in attached : ~Passed(d, first)
    BY <1>3, <2>1 DEF BookkeepingInv, NothingLeaks
  <2>3. d # c
    BY <1>1, <2>1, <2>2 DEF Passed
  <2>4. Passed(d, p)
    BY <1>2, <1>4, <2>3 DEF SeenBy
  <2>5. elem[first].seq_no \in Nat /\ elem[p].seq_no \in Nat /\ last_serial[d] \in Nat
    BY <1>1, <2>1, QueueFacts, CursorFacts
  <2> QED BY <2>1, <2>2, <2>4, <2>5 DEF Passed
<1>5. UnrefAssertions(p)
  BY <1>2, <1>3, <1>4 DEF UnrefAssertions
<1> QED BY <1>1, <1>3, <1>5 DEF UnrefFault, p

\* The target of a consumer without a pointer, in a queue of its generation, is
\* the first buffer it has not passed.
LEMMA SearchTarget ==
    ASSUME BookkeepingInv, fault = "none", NEW c \in attached,
           bq_consumer_confirm_pointer(c) = NULL, c_queue_serial[c] = queue_serial
    PROVE  /\ current[c] = NULL
           /\ Target(c) = NULL => \A q \in first..puts : Passed(c, q)
           /\ Target(c) # NULL =>
                 /\ Target(c) \in first..puts
                 /\ elem[Target(c)].seq_no > last_serial[c]
                 /\ \A q \in first..puts : q < Target(c) <=> Passed(c, q)
<1> DEFINE S == NotYetReturned(c)
           t == Target(c)
<1>1. current[c] = NULL
  BY ConfirmedPointer
<1>2. S = {q \in first..puts : elem[q].seq_no > last_serial[c]}
  BY QueueFacts DEF NotYetReturned
<1>3. \A q \in first..puts : q \notin S <=> Passed(c, q)
  <2> TAKE q \in first..puts
  <2>1. elem[q].seq_no \in Nat /\ last_serial[c] \in Nat
    BY QueueFacts, CursorFacts
  <2> QED BY <1>1, <1>2, <2>1 DEF Passed
<1>4. CASE S = {}
  <2>1. t = NULL
    BY <1>4 DEF Target
  <2> QED BY <1>1, <1>3, <1>4, <2>1
<1>5. CASE S # {}
  <2>1. S \in SUBSET Nat
    BY <1>2, QueueFacts
  <2>2. t = CHOOSE m \in S : \A q \in S : m <= q
    BY <1>5 DEF Target
  <2> HIDE DEF S, t
  <2>3. \E m \in S : \A q \in S : m <= q
    BY <1>5, <2>1, MinInSet
  <2>4. t \in S /\ \A q \in S : t <= q
    BY <2>2, <2>3
  <2>5. t \in first..puts /\ elem[t].seq_no > last_serial[c] /\ t # NULL
    BY <1>2, <2>4, QueueFacts DEF NULL
  <2>6. ASSUME NEW q \in first..puts PROVE q < t <=> Passed(c, q)
    <3>1. q < t => q \notin S
      BY <2>1, <2>4, <2>5, QueueFacts
    <3>2. ~(q < t) => q \in S
      <4> SUFFICES ASSUME ~(q < t) PROVE q \in S
        OBVIOUS
      <4>1. /\ elem[q].seq_no = NextSeq - (puts + 1 - q)
            /\ elem[t].seq_no = NextSeq - (puts + 1 - t)
            /\ q \in Nat /\ t \in Nat /\ puts \in Nat /\ NextSeq \in Nat
        BY <2>5, <2>6, QueueFacts
      <4>2. last_serial[c] \in Nat
        BY CursorFacts
      <4> QED BY <1>2, <2>5, <4>1, <4>2
    <3> QED BY <1>3, <3>1, <3>2
  <2> QED BY <1>1, <2>5, <2>6 DEF t
<1> QED BY <1>4, <1>5

\* A consumer without a pointer selects its next buffer; nobody passes anything.
LEMMA SelectStep ==
    ASSUME BookkeepingInv, fault = "none", NEW c \in attached,
           bq_consumer_confirm_pointer(c) = NULL, bq_consumer_move_internal(c),
           UNCHANGED puts
    PROVE  /\ UNCHANGED <<elem, first, next_serial, queue_serial, fault>>
           /\ NextSeq' = NextSeq
           /\ \A d \in attached : CursorConsistent(d)'
           /\ \A d \in attached : \A q \in first..puts : Passed(d, q)' <=> Passed(d, q)
           /\ Target(c) = NULL => \A q \in first..puts : Passed(c, q)
<1> DEFINE t == Target(c)
<1>1. /\ UNCHANGED <<elem, first, next_serial, queue_serial, fault>> /\ PlaceCursor(c, t)
      /\ NextSeq' = NextSeq
  BY DEF bq_consumer_move_internal, NextSeq
<1>2. /\ current \in [Consumers -> Nat] /\ last_serial \in [Consumers -> Nat]
      /\ c_queue_serial \in [Consumers -> Nat] /\ c \in Consumers
  BY ConstantsAssumption DEF BookkeepingInv, TypeOK, Serial
<1>3. \A d \in attached : d # c =>
         /\ current'[d] = current[d] /\ last_serial'[d] = last_serial[d]
         /\ c_queue_serial'[d] = c_queue_serial[d]
  <2> HIDE DEF t
  <2> TAKE d \in attached
  <2>1. d \in Consumers
    BY DEF BookkeepingInv, TypeOK
  <2> QED BY <1>1, <1>2, <2>1 DEF PlaceCursor
<1>4. ASSUME NEW d \in attached, d # c
      PROVE  /\ CursorConsistent(d)'
             /\ \A q \in first..puts : Passed(d, q)' <=> Passed(d, q)
  <2>1. CursorConsistent(d)
    BY DEF BookkeepingInv
  <2> QED BY <1>1, <1>3, <1>4, <2>1 DEF CursorConsistent, Passed
<1>5. CASE t = NULL
  <2>1. current'[c] = NULL /\ last_serial' = last_serial /\ c_queue_serial' = c_queue_serial
    BY <1>1, <1>2, <1>5 DEF PlaceCursor
  <2>2. CursorConsistent(c)
    BY DEF BookkeepingInv
  <2>3. CursorConsistent(c)'
    BY <1>1, <2>1, <2>2 DEF CursorConsistent
  <2>4. CASE c_queue_serial[c] = queue_serial
    <3>1. current[c] = NULL /\ \A q \in first..puts : Passed(c, q)
      BY <1>5, <2>4, SearchTarget
    <3>2. \A q \in first..puts : Passed(c, q)' <=> Passed(c, q)
      BY <1>1, <2>1, <3>1 DEF Passed
    <3> QED BY <1>1, <1>4, <2>3, <3>1, <3>2
  <2>5. CASE c_queue_serial[c] # queue_serial
    <3>1. t = Head
      BY <2>5 DEF Target
    <3>2. first..puts = {}
      BY <1>5, <3>1, QueueFacts DEF Head, NULL
    <3> QED BY <1>1, <1>4, <2>3, <3>2
  <2> QED BY <2>4, <2>5
<1>6. CASE t # NULL
  <2>1. /\ current'[c] = t /\ last_serial'[c] = elem[t].seq_no
        /\ c_queue_serial'[c] = queue_serial
    BY <1>1, <1>2, <1>6 DEF PlaceCursor
  <2>2. t \in first..puts /\ \A q \in first..puts : q < t <=> Passed(c, q)
    <3>1. CASE c_queue_serial[c] = queue_serial
      BY <1>6, <3>1, SearchTarget
    <3>2. CASE c_queue_serial[c] # queue_serial
      <4>1. t = first /\ first <= puts
        BY <1>6, <3>2 DEF Target, Head
      <4> QED BY <3>2, <4>1, QueueFacts, SMTT(40) DEF Passed
    <3> QED BY <3>1, <3>2
  <2> HIDE DEF t
  <2>3. /\ elem[t].seq_no = NextSeq - (puts + 1 - t)
        /\ t \in Nat /\ puts \in Nat /\ NextSeq \in Nat /\ elem[t].seq_no \in Nat
        /\ first \in Nat /\ first <= t /\ t <= puts /\ NextSeq >= puts - first + 2
    BY <2>2, QueueFacts
  <2>4. CursorConsistent(c)'
    <3>1. t \in DOMAIN elem /\ queue_serial \in Nat
      BY <2>2, QueueFacts
    <3>2. elem[t].seq_no \in 1..(NextSeq - 1) /\ first <= puts /\ queue_serial <= queue_serial
      BY <2>3, <3>1
    <3>3. puts' = puts
      OBVIOUS
    <3> QED BY <1>1, <2>1, <3>1, <3>2, <3>3 DEF CursorConsistent
  <2>5. ASSUME NEW q \in first..puts PROVE Passed(c, q)' <=> Passed(c, q)
    <3>1. elem[q].seq_no = NextSeq - (puts + 1 - q) /\ q \in Nat
      BY <2>5, QueueFacts
    <3>2. Passed(c, q)' <=> elem[q].seq_no < elem[t].seq_no
      BY <1>1, <1>6, <2>1 DEF Passed
    <3> QED BY <2>2, <2>3, <3>1, <3>2
  <2> QED BY <1>1, <1>4, <1>6, <2>4, <2>5 DEF t
<1> QED BY <1>5, <1>6

\* A consumer moves past its pointer p: it is counted for p and for nothing else,
\* and p goes when it was the last to be counted.
LEMMA AdvanceStep ==
    ASSUME BookkeepingInv, fault = "none", NEW c \in attached,
           bq_consumer_confirm_pointer(c) # NULL, bq_consumer_move_internal(c),
           UNCHANGED <<puts, consumers, attached>>, TypeOK'
    PROVE  /\ fault' = "none"
           /\ queue_serial' >= 1
           /\ SerialsConsecutive'
           /\ \A d \in attached : CursorConsistent(d)'
           /\ \A d \in attached : d # c =>
                 \A q \in DOMAIN elem' : Passed(d, q)' <=> Passed(d, q)
           /\ SeenExact'
           /\ NothingLeaks'
           /\ DOMAIN elem' \subseteq DOMAIN elem
           /\ Target(c) = NULL => \A q \in DOMAIN elem' : Passed(c, q)'
           /\ \A q \in DOMAIN elem' : Passed(c, q)' <=> Passed(c, q) \/ q = current[c]
           /\ \/ first' = first
              \/ /\ current[c] = first /\ first' = first + 1
                 /\ \A d \in attached : d # c => Passed(d, first)
<1>a. PICK p : p = current[c]
  OBVIOUS
<1>b. PICK t : t = Target(c)
  OBVIOUS
<1>1. /\ bq_consumer_confirm_pointer(c) = p /\ p # NULL /\ p = current[c]
      /\ c_queue_serial[c] = queue_serial /\ p \in first..puts
      /\ elem[p].seq_no = last_serial[c] /\ ~Passed(c, p)
  BY <1>a, ConfirmedPointer
<1>2. UnrefFault(p) = "none"
  BY <1>1, UnrefSafe
<1>3. fault' = "none" /\ bq_consumer_elem_unref(p) /\ PlaceCursor(c, t)
  BY <1>b, <1>1, <1>2 DEF bq_consumer_move_internal
<1>4. t = Next_(p)
  BY <1>b, <1>1 DEF Target
<1>5. /\ DOMAIN elem = first..puts /\ puts \in Nat /\ first \in Nat
      /\ NextSeq \in Nat /\ NextSeq >= puts - first + 2
      /\ \A q \in first..puts : /\ elem[q].seq_no = NextSeq - (puts + 1 - q)
                                /\ elem[q].seq_no \in Nat
      /\ queue_serial \in Nat /\ queue_serial >= 1
  BY QueueFacts
<1>6. p \in Nat /\ first <= p /\ p <= puts /\ elem[p].seq_no = NextSeq - (puts + 1 - p)
  BY <1>1, <1>5
<1>7. t = IF p < puts THEN p + 1 ELSE NULL
  BY <1>4 DEF Next_
<1>8. /\ current \in [Consumers -> Nat] /\ last_serial \in [Consumers -> Nat]
      /\ c_queue_serial \in [Consumers -> Nat] /\ c \in Consumers
      /\ attached \subseteq Consumers
  BY ConstantsAssumption DEF BookkeepingInv, TypeOK, Serial
<1>9. \A d \in attached : d # c =>
         /\ current'[d] = current[d] /\ last_serial'[d] = last_serial[d]
         /\ c_queue_serial'[d] = c_queue_serial[d]
  BY <1>3, <1>8 DEF PlaceCursor
<1>10. current'[c] = t
       /\ (t # NULL => last_serial'[c] = elem[t].seq_no /\ c_queue_serial'[c] = queue_serial')
       /\ (t = NULL => last_serial'[c] = last_serial[c] /\ c_queue_serial'[c] = c_queue_serial[c])
  BY <1>3, <1>8 DEF PlaceCursor
<1>11. elem[p].seen \in Nat /\ elem[p].seen + 1 <= consumers /\ consumers \in Nat
  BY <1>1, SeenBound, QueueFacts
<1>12. \A d \in attached : CursorConsistent(d)
  BY DEF BookkeepingInv
<1>13. CASE elem[p].seen + 1 < consumers
  <2>1. /\ elem' = [elem EXCEPT ![p].seen = @ + 1]
        /\ UNCHANGED <<first, next_serial, queue_serial>> /\ NextSeq' = NextSeq
    BY <1>3, <1>13 DEF bq_consumer_elem_unref, NextSeq
  <2>2. /\ DOMAIN elem' = first..puts
        /\ \A q \in first..puts : /\ elem'[q].seq_no = elem[q].seq_no
                                  /\ q # p => elem'[q].seen = elem[q].seen
        /\ elem'[p].seen = elem[p].seen + 1
    <3>1. elem \in [first..puts -> [seq_no : Serial, seen : Int]]
      BY DEF BookkeepingInv, TypeOK
    <3> QED BY <1>1, <2>1, <3>1
  <2>3. SerialsConsecutive'
    BY <1>5, <2>1, <2>2 DEF SerialsConsecutive
  <2>4. ASSUME NEW d \in attached, d # c
        PROVE  CursorConsistent(d)' /\ \A q \in first..puts : Passed(d, q)' <=> Passed(d, q)
    BY <1>5, <1>9, <1>12, <2>1, <2>2, <2>4, ZenonT(60) DEF CursorConsistent, Passed
  <2>5. CursorConsistent(c)' /\ \A q \in first..puts : Passed(c, q)' <=> Passed(c, q) \/ q = p
    <3>1. CASE p < puts
      <4>1. t = p + 1 /\ t # NULL /\ t \in first..puts
        BY <1>5, <1>6, <1>7, <3>1 DEF NULL
      <4>2. /\ elem[t].seq_no = NextSeq - (puts + 1 - t)
            /\ elem[t].seq_no \in 1..(NextSeq - 1)
        <5>1. elem[t].seq_no = NextSeq - (puts + 1 - t) /\ elem[t].seq_no \in Nat
          BY <1>5, <4>1
        <5> HIDE DEF NextSeq
        <5>2. NextSeq - (puts + 1 - t) \in 1..(NextSeq - 1)
          BY <1>5, <4>1
        <5> QED BY <5>1, <5>2
      <4>3. CursorConsistent(c)'
        <5>1. /\ current'[c] \in DOMAIN elem' /\ elem'[current'[c]].seq_no = last_serial'[c]
              /\ last_serial'[c] \in 1..(NextSeq' - 1)
          BY <1>10, <2>1, <2>2, <4>1, <4>2
        <5>2. c_queue_serial'[c] = queue_serial' /\ queue_serial' \in Nat /\ first' <= puts'
          BY <1>5, <1>6, <1>10, <2>1, <4>1
        <5> QED BY <5>1, <5>2 DEF CursorConsistent
      <4>4. ASSUME NEW q \in first..puts PROVE Passed(c, q)' <=> Passed(c, q) \/ q = p
        <5>1. elem[q].seq_no = NextSeq - (puts + 1 - q) /\ q \in Nat
          BY <1>5
        <5>2. Passed(c, q)' <=> elem[q].seq_no < elem[t].seq_no
          BY <1>10, <2>1, <2>2, <4>1 DEF Passed
        <5>3. Passed(c, q) <=> elem[q].seq_no < elem[p].seq_no
          BY <1>1 DEF Passed
        <5> QED BY <1>5, <1>6, <4>1, <4>2, <5>1, <5>2, <5>3
      <4> QED BY <4>3, <4>4
    <3>2. CASE ~(p < puts)
      <4>1. t = NULL /\ p = puts
        BY <1>6, <1>7, <3>2, <1>5
      <4>2. CursorConsistent(c)'
        BY <1>1, <1>10, <1>12, <2>1, <2>2, <4>1 DEF CursorConsistent
      <4>3. ASSUME NEW q \in first..puts PROVE Passed(c, q)' <=> Passed(c, q) \/ q = p
        <5>1. elem[q].seq_no = NextSeq - (puts + 1 - q) /\ q \in Nat /\ q <= puts
          BY <1>5
        <5>2. Passed(c, q)'
          BY <1>1, <1>5, <1>6, <1>10, <2>1, <2>2, <4>1, <5>1 DEF Passed
        <5>3. Passed(c, q) <=> elem[q].seq_no < elem[p].seq_no
          BY <1>1 DEF Passed
        <5> QED BY <1>5, <1>6, <4>1, <5>1, <5>2, <5>3
      <4> QED BY <4>2, <4>3
    <3> QED BY <3>1, <3>2
  <2>6. SeenBy(p)' = SeenBy(p) \cup {c} /\ \A q \in first..puts : q # p => SeenBy(q)' = SeenBy(q)
    <3>1. SeenBy(p)' = {d \in attached : Passed(d, p)'}
      BY DEF SeenBy
    <3>2. \A d \in attached : Passed(d, p)' <=> (Passed(d, p) \/ d = c)
      <4>1. Passed(c, p)'
        BY <1>1, <2>5
      <4>2. \A d \in attached : d # c => (Passed(d, p)' <=> Passed(d, p))
        BY <1>1, <2>4
      <4> QED BY <4>1, <4>2
    <3>3. ASSUME NEW q \in first..puts, q # p PROVE SeenBy(q)' = SeenBy(q)
      <4>1. \A d \in attached : Passed(d, q)' <=> Passed(d, q)
        BY <2>4, <2>5, <3>3
      <4> QED BY <4>1 DEF SeenBy
    <3> QED BY <3>1, <3>2, <3>3 DEF SeenBy
  <2>7. SeenExact'
    <3>1. Cardinality(SeenBy(p) \cup {c}) = elem[p].seen + 1
      BY <1>1, SeenBound
    <3>2. \A q \in first..puts : elem[q].seen = Cardinality(SeenBy(q))
      BY SeenBound
    <3>3. ASSUME NEW q \in DOMAIN elem' PROVE elem'[q].seen = Cardinality(SeenBy(q)')
      <4>1. CASE q = p
        <5>1. Cardinality(SeenBy(p)') = Cardinality(SeenBy(p) \cup {c})
          BY <2>6
        <5> QED BY <2>2, <3>1, <4>1, <5>1
      <4>2. CASE q # p
        <5>1. SeenBy(q)' = SeenBy(q)
          BY <2>2, <2>6, <4>2
        <5> QED BY <2>2, <3>2, <4>2, <5>1
      <4> QED BY <4>1, <4>2
    <3> QED BY <3>3 DEF SeenExact
  <2>8. NothingLeaks'
    <3>1. ASSUME NEW q \in first..puts PROVE \E d \in attached : ~Passed(d, q)'
      <4>1. CASE q = p
        <5>1. SeenBy(p) \cup {c} # attached
          <6>1. Cardinality(SeenBy(p) \cup {c}) = elem[p].seen + 1
            BY <1>1, SeenBound
          <6>2. Cardinality(attached) = consumers
            BY QueueFacts
          <6> QED BY <1>11, <1>13, <6>1, <6>2
        <5>2. PICK d \in attached : d \notin SeenBy(p) \cup {c}
          BY <5>1 DEF SeenBy
        <5> QED BY <2>4, <4>1, <5>2 DEF SeenBy
      <4>2. CASE q # p
        <5>1. PICK d \in attached : ~Passed(d, q)
          BY <1>5, <3>1 DEF BookkeepingInv, NothingLeaks
        <5> QED BY <2>4, <2>5, <4>2, <5>1
      <4> QED BY <4>1, <4>2
    <3> QED BY <2>2, <3>1 DEF NothingLeaks
  <2>9. t = NULL => \A q \in first..puts : Passed(c, q)'
    <3> SUFFICES ASSUME t = NULL, NEW q \in first..puts PROVE Passed(c, q)'
      OBVIOUS
    <3>1. p = puts
      BY <1>5, <1>6, <1>7 DEF NULL
    <3>2. elem[q].seq_no = NextSeq - (puts + 1 - q) /\ q \in Nat /\ q <= puts
      BY <1>5
    <3> QED BY <1>1, <1>5, <1>6, <1>10, <2>1, <2>2, <3>1, <3>2 DEF Passed
  <2> QED BY <1>b, <1>1, <1>3, <1>5, <2>1, <2>2, <2>3, <2>4, <2>5, <2>7, <2>8, <2>9
<1>14. CASE ~(elem[p].seen + 1 < consumers)
  <2>0. \A d \in attached : d # c => Passed(d, p)
    <3>1. elem[p].seen + 1 = consumers
      BY <1>11, <1>14
    <3>2. SeenBy(p) \cup {c} = attached
      BY <1>1, <3>1, SeenBound
    <3> QED BY <3>2 DEF SeenBy
  <2>1. p = first /\ bq_producer_destroy_head
    <3>1. UnrefAssertions(p)
      BY <1>2 DEF UnrefFault
    <3> QED BY <1>3, <1>11, <1>14, <3>1 DEF bq_consumer_elem_unref, UnrefAssertions
  <2>2. /\ first' = first + 1 /\ elem' = [q \in (first + 1)..puts |-> elem[q]]
        /\ DOMAIN elem' = (first + 1)..puts
        /\ \A q \in (first + 1)..puts : elem'[q] = elem[q] /\ q \in first..puts
    BY <1>5, <2>1 DEF bq_producer_destroy_head
  <2>3. CASE first = puts
    <3>1. queue_serial' = queue_serial + 1 /\ (NextSeq' = 1 \/ NextSeq' = NextSeq)
      BY <2>1, <2>3 DEF bq_producer_destroy_head, NextSeq
    <3>2. DOMAIN elem' = {}
      BY <1>5, <2>2, <2>3
    <3>3. t = NULL
      BY <1>5, <1>7, <2>1, <2>3
    <3>4. SerialsConsecutive'
      <4>1. NextSeq >= 1
        BY <1>5, <2>3
      <4>2. NextSeq' \in Nat /\ NextSeq' >= 1
        BY <1>5, <3>1, <4>1
      <4>3. puts' - first' + 2 = 1
        BY <1>5, <2>2, <2>3
      <4> QED BY <3>2, <4>2, <4>3 DEF SerialsConsecutive
    <3>5. ASSUME NEW d \in attached PROVE CursorConsistent(d)'
      <4>1. c_queue_serial'[d] = c_queue_serial[d]
        BY <1>9, <1>10, <3>3
      <4>2. c_queue_serial[d] \in Nat /\ c_queue_serial[d] <= queue_serial
        BY CursorFacts
      <4> QED BY <1>5, <3>1, <4>1, <4>2 DEF CursorConsistent
    <3> QED BY <1>1, <1>3, <1>5, <2>0, <2>1, <2>2, <3>1, <3>2, <3>4, <3>5 DEF SeenExact, NothingLeaks
  <2>4. CASE first # puts
    <3>1. UNCHANGED <<queue_serial, next_serial>> /\ NextSeq' = NextSeq
      BY <2>1, <2>4 DEF bq_producer_destroy_head, NextSeq
    <3>2. t = first + 1 /\ t # NULL /\ t \in (first + 1)..puts
      BY <1>5, <1>6, <1>7, <2>1, <2>4 DEF NULL
    <3>3. SerialsConsecutive'
      BY <1>5, <2>2, <3>1 DEF SerialsConsecutive
    <3>5. ASSUME NEW d \in attached, d # c
          PROVE  /\ CursorConsistent(d)'
                 /\ \A q \in (first + 1)..puts : Passed(d, q)' <=> Passed(d, q)
      <4>1. Passed(d, p)
        BY <2>0, <3>5
      <4>2. /\ c_queue_serial[d] = queue_serial
            /\ last_serial[d] \in Nat /\ last_serial[d] >= elem[p].seq_no
            /\ last_serial[d] = elem[p].seq_no => current[d] = NULL
        BY <1>1, <1>5, <4>1, CursorFacts DEF Passed
      <4>3. current[d] # NULL => current[d] \in (first + 1)..puts
        <5> SUFFICES ASSUME current[d] # NULL PROVE current[d] \in (first + 1)..puts
          OBVIOUS
        <5>1. current[d] \in first..puts /\ elem[current[d]].seq_no = last_serial[d]
          BY <4>2, CursorFacts
        <5>2. current[d] # first
          BY <2>1, <4>2, <5>1
        <5> QED BY <1>5, <5>1, <5>2
      <4>4. CursorConsistent(d)
        BY <1>12
      <4>5. CursorConsistent(d)'
        <5>1. first + 1 <= puts
          <6>1. first \in Nat /\ puts \in Nat /\ first <= puts /\ first # puts
            BY <1>5, <1>6, <2>1, <2>4
          <6> QED BY <6>1
        <5>2. /\ current'[d] = current[d] /\ last_serial'[d] = last_serial[d]
              /\ c_queue_serial'[d] = c_queue_serial[d]
          BY <1>9, <3>5
        <5>3. current[d] # NULL => elem'[current[d]] = elem[current[d]]
          BY <2>2, <4>3
        <5> QED BY <2>2, <3>1, <4>2, <4>3, <4>4, <5>1, <5>2, <5>3 DEF CursorConsistent
      <4>6. \A q \in (first + 1)..puts : Passed(d, q)' <=> Passed(d, q)
        BY <1>9, <2>2, <3>1, <3>5 DEF Passed
      <4> QED BY <4>5, <4>6
    <3>6. /\ elem[t].seq_no = NextSeq - (puts + 1 - t)
          /\ elem[t].seq_no \in 1..(NextSeq - 1)
      BY <1>5, <3>2
    <3>7. CursorConsistent(c)'
      BY <1>5, <1>10, <2>2, <3>1, <3>2, <3>6 DEF CursorConsistent
    <3>8. ASSUME NEW q \in (first + 1)..puts PROVE ~Passed(c, q)' /\ ~Passed(c, q)
      <4>1. elem[q].seq_no = NextSeq - (puts + 1 - q) /\ q \in Nat /\ q > first
        BY <1>5, <2>2
      <4>2. ~Passed(c, q)
        BY <1>1, <1>5, <1>6, <2>1, <4>1, SMTT(40) DEF Passed
      <4>3. ~Passed(c, q)'
        BY <1>5, <1>10, <2>2, <3>2, <3>6, <4>1 DEF Passed
      <4> QED BY <4>2, <4>3
    <3>9. \A q \in (first + 1)..puts : SeenBy(q)' = SeenBy(q)
      BY <3>5, <3>8 DEF SeenBy
    <3>10. SeenExact'
      <4>1. \A q \in (first + 1)..puts : elem[q].seen = Cardinality(SeenBy(q))
        BY <2>2, SeenBound
      <4> QED BY <2>2, <3>9, <4>1 DEF SeenExact
    <3>11. NothingLeaks'
      BY <2>2, <3>8 DEF NothingLeaks
    <3>12. \A q \in DOMAIN elem' : Passed(c, q)' <=> Passed(c, q) \/ q = current[c]
      BY <1>1, <1>5, <2>1, <2>2, <3>8
    <3> QED BY <1>b, <1>1, <1>3, <1>5, <2>0, <2>1, <2>2, <3>1, <3>2, <3>3, <3>5, <3>7, <3>10,
               <3>11, <3>12
  <2> QED BY <2>3, <2>4
<1> QED BY <1>13, <1>14

\* A move of an attached consumer, whichever way it goes, keeps everything but
\* FreeExclusive, which depends on who calls it.
LEMMA MoveStep ==
    ASSUME BookkeepingInv, fault = "none", NEW c \in attached,
           bq_consumer_move_internal(c),
           UNCHANGED <<puts, consumers, attached>>, TypeOK'
    PROVE  /\ fault' = "none"
           /\ queue_serial' >= 1
           /\ SerialsConsecutive'
           /\ \A d \in attached : CursorConsistent(d)'
           /\ SeenExact'
           /\ NothingLeaks'
           /\ Target(c) = NULL => \A q \in DOMAIN elem' : Passed(c, q)'
<1>1. CASE bq_consumer_confirm_pointer(c) # NULL
  BY <1>1, AdvanceStep
<1>2. CASE bq_consumer_confirm_pointer(c) = NULL
  <2>1. /\ UNCHANGED <<elem, first, next_serial, queue_serial, fault>>
        /\ NextSeq' = NextSeq
        /\ \A d \in attached : CursorConsistent(d)'
        /\ \A d \in attached : \A q \in first..puts : Passed(d, q)' <=> Passed(d, q)
        /\ Target(c) = NULL => \A q \in first..puts : Passed(c, q)
    BY <1>2, SelectStep
  <2>2. DOMAIN elem' = first..puts /\ DOMAIN elem = first..puts
    BY <2>1, QueueFacts
  <2>3. queue_serial' >= 1 /\ SerialsConsecutive'
    BY <2>1 DEF BookkeepingInv, SerialsConsecutive
  <2>4. SeenExact'
    <3>1. \A q \in first..puts : SeenBy(q)' = SeenBy(q)
      BY <2>1 DEF SeenBy
    <3>2. \A q \in first..puts : elem[q].seen = Cardinality(SeenBy(q))
      BY SeenBound
    <3> QED BY <2>1, <2>2, <3>1, <3>2 DEF SeenExact
  <2>5. NothingLeaks'
    <3>1. attached # {} => \A q \in first..puts : \E d \in attached : ~Passed(d, q)
      BY <2>2 DEF BookkeepingInv, NothingLeaks
    <3> QED BY <2>1, <2>2, <3>1 DEF NothingLeaks
  <2> QED BY <2>1, <2>2, <2>3, <2>4, <2>5
<1> QED BY <1>1, <1>2

\* The invariant holds of the queue bq_producer_new makes.
LEMMA BookkeepingInit == ASSUME NoWrap PROVE Init => BookkeepingInv
<1> SUFFICES ASSUME Init PROVE BookkeepingInv
  OBVIOUS
<1>1. TypeOK
  BY TypeInit
<1>2. DOMAIN elem = {} /\ attached = {} /\ fault = "none" /\ ~stopped
  BY DEF Init
<1>3. Cardinality(attached) = 0
  BY <1>2, FS_EmptySet
<1>4. SerialsConsecutive
  BY <1>2, ConstantsAssumption DEF Init, SerialsConsecutive, NextSeq, NoWrap
<1>5. FreeExclusive
  BY <1>2 DEF Init, FreeExclusive
<1> QED BY <1>1, <1>2, <1>3, <1>4, <1>5
        DEF Init, BookkeepingInv, NoCountFault, SeenExact, NothingLeaks

\* A step taken while somebody holds the mutex is not an Unlocked one.
LEMMA UnlockedFree ==
    ASSUME Unlocked
    PROVE  fault = "none" /\ ~stopped /\ \A c \in Consumers : freeing[c] = "no"
BY DEF Unlocked

\* A step that changes no variable keeps the invariant.
LEMMA BookkeepingStutter ==
    ASSUME BookkeepingInv, UNCHANGED vars
    PROVE  BookkeepingInv'
<1>1. UNCHANGED <<elem, first, puts, next_serial, queue_serial, consumers, stopped,
                  c_queue_serial, current, last_serial, attached, freeing, fault>>
      /\ NextSeq' = NextSeq
  BY DEF vars, producerVars, cursorVars, NextSeq
<1>2. TypeOK' /\ NoCountFault'
  BY <1>1 DEF BookkeepingInv, TypeOK, NoCountFault
<1>3. ASSUME fault = "none"
      PROVE  /\ queue_serial' >= 1 /\ consumers' = Cardinality(attached')
             /\ SerialsConsecutive' /\ \A c \in attached' : CursorConsistent(c)'
             /\ FreeExclusive' /\ SeenExact' /\ NothingLeaks'
  <2>1. /\ queue_serial >= 1 /\ consumers = Cardinality(attached)
        /\ SerialsConsecutive /\ (\A c \in attached : CursorConsistent(c))
        /\ FreeExclusive /\ SeenExact /\ NothingLeaks
    BY <1>3 DEF BookkeepingInv
  <2>2. SerialsConsecutive' /\ \A c \in attached' : CursorConsistent(c)'
    BY <1>1, <2>1 DEF SerialsConsecutive, CursorConsistent
  <2>3. FreeExclusive'
    BY <1>1, <2>1 DEF FreeExclusive, Passed
  <2>4. SeenExact' /\ NothingLeaks'
    BY <1>1, <2>1 DEF SeenExact, SeenBy, NothingLeaks, Passed
  <2> QED BY <1>1, <2>1, <2>2, <2>3, <2>4
<1> QED BY <1>1, <1>2, <1>3 DEF BookkeepingInv

\* bq_producer_put appends a buffer nobody has passed.
LEMMA PutStep ==
    ASSUME NoWrap, BookkeepingInv, bq_producer_put, TypeOK'
    PROVE  BookkeepingInv'
<1>1. fault = "none" /\ ~stopped /\ \A c \in Consumers : freeing[c] = "no"
  BY UnlockedFree DEF bq_producer_put
<1>2. /\ fault' \in {"none", "serial"}
      /\ puts' = puts + 1 /\ puts < MaxPuts
      /\ UNCHANGED <<first, queue_serial, consumers, stopped, c_queue_serial,
                     current, last_serial, attached, freeing>>
  BY DEF bq_producer_put, cursorVars
<1>3. CASE fault' # "none"
  BY <1>2, <1>3 DEF BookkeepingInv, NoCountFault
<1>4. CASE fault' = "none"
  <2>1. /\ next_serial \in 0..(SerialModulus - 1) /\ SerialModulus \in Nat /\ SerialModulus > 1
        /\ puts \in Nat /\ FirstLiveSeq \in Nat /\ MaxPuts \in Nat /\ Live \in BOOLEAN
    BY ConstantsAssumption DEF BookkeepingInv, TypeOK, Serial
  <2>2. /\ NextSeq' = NextSeq + 1
        /\ elem' = [p \in first..(puts + 1) |->
                       IF p = puts + 1 THEN [seq_no |-> NextSeq, seen |-> 0] ELSE elem[p]]
    <3>1. CASE Live
      <4>1. OfferedSeqNo = FirstLiveSeq + puts /\ OfferedSeqNo # 0
        BY <1>2, <2>1, <3>1 DEF OfferedSeqNo, NoWrap
      <4> QED BY <1>2, <2>1, <3>1, <4>1 DEF bq_producer_put, NextSeq
    <3>2. CASE ~Live
      <4>1. OfferedSeqNo = 0
        BY <3>2 DEF OfferedSeqNo
      <4>2. next_serial' = (next_serial + 1) % SerialModulus /\ next_serial' # 0
        BY <1>4, <4>1 DEF bq_producer_put
      <4>3. next_serial' = next_serial + 1
        BY <2>1, <4>2
      <4> QED BY <3>2, <4>1, <4>3 DEF bq_producer_put, NextSeq
    <3> QED BY <3>1, <3>2
  <2>3. /\ DOMAIN elem = first..puts /\ puts \in Nat /\ first \in Nat /\ first <= puts + 1
        /\ NextSeq \in Nat /\ NextSeq >= puts - first + 2
        /\ \A p \in first..puts : elem[p].seq_no = NextSeq - (puts + 1 - p)
        /\ queue_serial >= 1 /\ consumers = Cardinality(attached)
    BY <1>1, QueueFacts
  <2>4. /\ DOMAIN elem' = first..(puts + 1)
        /\ \A p \in first..puts : elem'[p] = elem[p] /\ p \in first..(puts + 1)
        /\ elem'[puts + 1].seq_no = NextSeq /\ elem'[puts + 1].seen = 0
        /\ \A p \in first..(puts + 1) : p \in first..puts \/ p = puts + 1
    BY <2>2, <2>3
  <2>5. SerialsConsecutive'
    BY <1>2, <2>2, <2>3, <2>4 DEF SerialsConsecutive
  <2>6. PICK n \in Nat : n = puts + 1
    BY <2>3
  <2>7. ASSUME NEW c \in attached
        PROVE  /\ CursorConsistent(c)'
               /\ \A p \in first..puts : Passed(c, p)' <=> Passed(c, p)
               /\ ~Passed(c, n)'
    <3>1. /\ c_queue_serial[c] \in Nat /\ c_queue_serial[c] <= queue_serial
          /\ current[c] \in Nat /\ last_serial[c] \in Nat
          /\ c_queue_serial[c] = queue_serial =>
                /\ first <= puts
                /\ 1 <= last_serial[c] /\ last_serial[c] < NextSeq
                /\ current[c] # NULL => /\ current[c] \in first..puts
                                        /\ elem[current[c]].seq_no = last_serial[c]
      BY <1>1, CursorFacts
    <3>2. CursorConsistent(c)'
      BY <1>2, <2>2, <2>3, <2>4, <3>1 DEF CursorConsistent
    <3>3. \A p \in first..puts : Passed(c, p)' <=> Passed(c, p)
      BY <1>2, <2>4 DEF Passed
    <3>4. ~Passed(c, n)'
      BY <1>2, <2>3, <2>4, <2>6, <3>1 DEF Passed
    <3> QED BY <3>2, <3>3, <3>4
  <2>8. SeenBy(n)' = {} /\ \A p \in first..puts : SeenBy(p)' = SeenBy(p)
    BY <1>2, <2>7 DEF SeenBy
  <2>9. SeenExact'
    <3>1. \A p \in first..puts : elem'[p].seen = Cardinality(SeenBy(p)')
      <4>1. \A p \in first..puts : elem[p].seen = Cardinality(SeenBy(p))
        BY <1>1, SeenBound
      <4> QED BY <2>4, <2>8, <4>1
    <3>2. elem'[n].seen = Cardinality(SeenBy(n)')
      BY <2>4, <2>6, <2>8, FS_EmptySet
    <3>3. \A p \in DOMAIN elem' : p \in first..puts \/ p = n
      BY <2>4, <2>6
    <3> QED BY <3>1, <3>2, <3>3 DEF SeenExact
  <2>10. NothingLeaks'
    <3>1. attached # {} => \A p \in first..puts : \E c \in attached : ~Passed(c, p)
      BY <1>1, <2>3 DEF BookkeepingInv, NothingLeaks
    <3>2. \A p \in DOMAIN elem' : p \in first..puts \/ p = n
      BY <2>4, <2>6
    <3>3. attached # {} => \A p \in DOMAIN elem' : \E c \in attached : ~Passed(c, p)'
      BY <2>7, <3>1, <3>2
    <3> QED BY <1>2, <3>3 DEF NothingLeaks
  <2>11. FreeExclusive'
    BY <1>1, <1>2 DEF BookkeepingInv, FreeExclusive
  <2> QED BY <1>2, <1>4, <2>3, <2>5, <2>7, <2>9, <2>10, <2>11 DEF BookkeepingInv, NoCountFault
<1> QED BY <1>3, <1>4

\* An emptied queue of a later generation is consistent with any cursors.
LEMMA EmptyQueueStep ==
    ASSUME BookkeepingInv, Unlocked, TypeOK', elem' = [p \in (puts + 1)..puts |-> elem[p]],
           first' = puts + 1, puts' = puts, fault' = "none",
           UNCHANGED <<consumers, attached, freeing, c_queue_serial, current, last_serial>>
    PROVE  /\ DOMAIN elem' = {}
           /\ consumers' = Cardinality(attached')
           /\ SeenExact' /\ NothingLeaks'
           /\ (stopped' => attached = {}) => FreeExclusive'
<1>1. fault = "none" /\ puts \in Nat /\ consumers = Cardinality(attached)
      /\ \A c \in Consumers : freeing[c] = "no"
  BY UnlockedFree, QueueFacts
<1>2. DOMAIN elem' = {}
  BY <1>1
<1> QED BY <1>1, <1>2 DEF SeenExact, NothingLeaks, FreeExclusive

\* A new consumer has passed nothing.
LEMMA NewStep ==
    ASSUME BookkeepingInv, NEW c \in Consumers, bq_consumer_new(c), TypeOK'
    PROVE  BookkeepingInv'
<1>1. fault = "none" /\ ~stopped /\ \A d \in Consumers : freeing[d] = "no"
  BY UnlockedFree DEF bq_consumer_new
<1>2. /\ c \notin attached /\ attached' = attached \cup {c} /\ consumers' = consumers + 1
      /\ UNCHANGED <<elem, first, puts, next_serial, queue_serial, stopped, freeing, fault>>
      /\ c_queue_serial' = [c_queue_serial EXCEPT ![c] = 0]
      /\ current' = [current EXCEPT ![c] = NULL]
      /\ last_serial' = [last_serial EXCEPT ![c] = 0]
      /\ NextSeq' = NextSeq
  BY DEF bq_consumer_new, NextSeq
<1>3. /\ c_queue_serial \in [Consumers -> Nat] /\ current \in [Consumers -> 0..MaxPuts]
      /\ last_serial \in [Consumers -> Serial] /\ attached \subseteq Consumers
  BY DEF BookkeepingInv, TypeOK
<1>4. /\ c_queue_serial'[c] = 0
      /\ \A d \in attached : /\ c_queue_serial'[d] = c_queue_serial[d]
                             /\ current'[d] = current[d]
                             /\ last_serial'[d] = last_serial[d]
  BY <1>2, <1>3
<1>5. /\ DOMAIN elem = first..puts /\ queue_serial \in Nat /\ queue_serial >= 1
      /\ IsFiniteSet(attached) /\ consumers = Cardinality(attached)
  BY <1>1, QueueFacts
<1>6. consumers' = Cardinality(attached')
  BY <1>2, <1>5, FS_AddElement
<1>7. ASSUME NEW d \in attached' PROVE CursorConsistent(d)'
  <2>1. CASE d = c
    BY <1>2, <1>4, <1>5, <2>1 DEF CursorConsistent
  <2>2. CASE d # c
    <3>1. d \in attached /\ CursorConsistent(d)
      BY <1>1, <1>2, <2>2 DEF BookkeepingInv
    <3> QED BY <1>2, <1>4, <3>1 DEF CursorConsistent
  <2> QED BY <2>1, <2>2
<1>8. \A q \in first..puts : /\ ~Passed(c, q)'
                             /\ \A d \in attached : Passed(d, q)' <=> Passed(d, q)
  BY <1>2, <1>4, <1>5 DEF Passed
<1>9. SeenExact'
  <2>1. \A q \in first..puts : SeenBy(q)' = SeenBy(q)
    BY <1>2, <1>8 DEF SeenBy
  <2>2. \A q \in first..puts : elem[q].seen = Cardinality(SeenBy(q))
    BY <1>1, SeenBound
  <2> QED BY <1>2, <1>5, <2>1, <2>2 DEF SeenExact
<1>10. NothingLeaks'
  BY <1>2, <1>5, <1>8 DEF NothingLeaks
<1>11. FreeExclusive'
  BY <1>1, <1>2 DEF FreeExclusive
<1>12. SerialsConsecutive'
  BY <1>1, <1>2 DEF BookkeepingInv, SerialsConsecutive
<1> QED BY <1>1, <1>2, <1>5, <1>6, <1>7, <1>9, <1>10, <1>11, <1>12
        DEF BookkeepingInv, NoCountFault

\* A consumer that has passed everything is taken out of every count.
LEMMA LeaveStep ==
    ASSUME BookkeepingInv, NEW c \in Consumers, bq_decrement_seen_on_free(c), TypeOK'
    PROVE  BookkeepingInv'
<1>1. /\ fault = "none" /\ freeing[c] = "leaving"
      /\ freeing' = [freeing EXCEPT ![c] = "no"]
      /\ elem' = [p \in DOMAIN elem |-> [elem[p] EXCEPT !.seen = @ - 1]]
      /\ attached' = attached \ {c} /\ consumers' = consumers - 1
      /\ UNCHANGED <<first, puts, next_serial, queue_serial, stopped, c_queue_serial,
                     current, last_serial, fault>>
      /\ NextSeq' = NextSeq
  BY DEF bq_decrement_seen_on_free, cursorVars, NextSeq
<1>2. /\ c \in attached /\ \A q \in DOMAIN elem : Passed(c, q)
      /\ \A d \in Consumers : freeing[d] # "no" => d = c
      /\ ~stopped
  BY <1>1 DEF BookkeepingInv, FreeExclusive
<1>3. /\ DOMAIN elem = first..puts /\ queue_serial \in Nat /\ queue_serial >= 1
      /\ IsFiniteSet(attached) /\ consumers = Cardinality(attached)
  BY <1>1, QueueFacts
<1>4. /\ DOMAIN elem' = first..puts
      /\ \A q \in first..puts : /\ elem'[q].seq_no = elem[q].seq_no
                                /\ elem'[q].seen = elem[q].seen - 1
  <2>1. elem \in [first..puts -> [seq_no : Serial, seen : Int]]
    BY DEF BookkeepingInv, TypeOK
  <2> QED BY <1>1, <2>1
<1>5. consumers' = Cardinality(attached')
  BY <1>1, <1>2, <1>3, FS_RemoveElement
<1>6. SerialsConsecutive'
  <2>1. SerialsConsecutive
    BY <1>1 DEF BookkeepingInv
  <2> QED BY <1>1, <1>3, <1>4, <2>1 DEF SerialsConsecutive
<1>7. ASSUME NEW d \in attached'
      PROVE  CursorConsistent(d)' /\ \A q \in first..puts : Passed(d, q)' <=> Passed(d, q)
  <2>1. CursorConsistent(d)
    BY <1>1 DEF BookkeepingInv
  <2> QED BY <1>1, <1>3, <1>4, <2>1 DEF CursorConsistent, Passed
<1>8. \A q \in first..puts : SeenBy(q)' = SeenBy(q) \ {c} /\ c \in SeenBy(q)
  BY <1>1, <1>2, <1>3, <1>7 DEF SeenBy
<1>9. SeenExact'
  <2>1. ASSUME NEW q \in first..puts PROVE elem'[q].seen = Cardinality(SeenBy(q)')
    <3>1. IsFiniteSet(SeenBy(q)) /\ elem[q].seen = Cardinality(SeenBy(q))
      BY <1>1, SeenBound
    <3>2. Cardinality(SeenBy(q) \ {c}) = Cardinality(SeenBy(q)) - 1
      BY <1>8, <3>1, FS_RemoveElement
    <3> QED BY <1>4, <1>8, <3>1, <3>2
  <2> QED BY <1>4, <2>1 DEF SeenExact
<1>10. NothingLeaks'
  <2>1. ASSUME NEW q \in first..puts PROVE \E d \in attached' : ~Passed(d, q)'
    <3>1. PICK d \in attached : ~Passed(d, q)
      BY <1>1, <1>2, <1>3 DEF BookkeepingInv, NothingLeaks
    <3>2. d # c
      BY <1>2, <1>3, <3>1
    <3> QED BY <1>1, <1>7, <3>1, <3>2
  <2> QED BY <1>4, <2>1 DEF NothingLeaks
<1>11. FreeExclusive'
  <2>1. freeing \in [Consumers -> {"no", "moving", "leaving"}]
    BY DEF BookkeepingInv, TypeOK
  <2>2. \A d \in Consumers : freeing'[d] = "no"
    BY <1>1, <1>2, <2>1
  <2> QED BY <1>1, <1>2, <2>2 DEF FreeExclusive
<1> QED BY <1>1, <1>3, <1>5, <1>6, <1>7, <1>9, <1>10, <1>11 DEF BookkeepingInv, NoCountFault

\* Every operation of the queue keeps the invariant, of a stored source or of a
\* live one that has not wrapped: one step per function of bufferqueue.c.
LEMMA BookkeepingStep ==
    ASSUME NoWrap, BookkeepingInv, [Next]_vars
    PROVE  BookkeepingInv'
<1>0. TypeOK /\ TypeOK'
  BY TypeStep DEF BookkeepingInv
<1>1. CASE bq_producer_reset_queue
  <2>1. /\ Unlocked /\ fault = "none" /\ ~stopped
        /\ elem' = [p \in (puts + 1)..puts |-> elem[p]] /\ first' = puts + 1
        /\ queue_serial' = queue_serial + 1 /\ (NextSeq' = 1 \/ NextSeq' = NextSeq)
        /\ UNCHANGED <<puts, consumers, stopped, c_queue_serial, current, last_serial,
                       attached, freeing, fault>>
    BY <1>1, UnlockedFree DEF bq_producer_reset_queue, bq_producer_reset_queue_internal,
       cursorVars, NextSeq
  <2>2. /\ DOMAIN elem' = {} /\ consumers' = Cardinality(attached')
        /\ SeenExact' /\ NothingLeaks' /\ FreeExclusive'
    BY <1>0, <2>1, EmptyQueueStep
  <2>3. SerialsConsecutive' /\ queue_serial' >= 1
    BY <2>1, <2>2, QueueFacts DEF SerialsConsecutive
  <2>4. ASSUME NEW c \in attached PROVE CursorConsistent(c)'
    <3>1. c_queue_serial[c] \in Nat /\ c_queue_serial[c] <= queue_serial
      BY <2>1, CursorFacts
    <3> QED BY <2>1, <3>1, QueueFacts DEF CursorConsistent
  <2> QED BY <1>0, <2>1, <2>2, <2>3, <2>4 DEF BookkeepingInv, NoCountFault
<1>2. CASE bq_producer_put
  BY <1>0, <1>2, PutStep
<1>3. CASE bq_producer_unref
  <2>1. /\ Unlocked /\ fault = "none" /\ attached = {}
        /\ fault' = IF consumers # 0 THEN "assert" ELSE "none"
        /\ elem' = [p \in (puts + 1)..puts |-> elem[p]] /\ first' = puts + 1
        /\ UNCHANGED <<puts, next_serial, queue_serial, consumers, c_queue_serial,
                       current, last_serial, attached, freeing>>
        /\ NextSeq' = NextSeq
    BY <1>3, UnlockedFree DEF bq_producer_unref, cursorVars, NextSeq
  <2>2. fault' = "none"
    BY <2>1, QueueFacts, FS_EmptySet
  <2>3. /\ DOMAIN elem' = {} /\ consumers' = Cardinality(attached')
        /\ SeenExact' /\ NothingLeaks' /\ FreeExclusive'
    BY <1>0, <2>1, <2>2, EmptyQueueStep
  <2>4. SerialsConsecutive' /\ queue_serial' >= 1
    <3>1. NextSeq \in Nat /\ NextSeq >= 1 /\ puts \in Nat /\ queue_serial >= 1
      BY <2>1, QueueFacts
    <3> QED BY <2>1, <2>3, <3>1 DEF SerialsConsecutive
  <2> QED BY <1>0, <2>1, <2>2, <2>3, <2>4 DEF BookkeepingInv, NoCountFault
<1>4. ASSUME NEW c \in Consumers, bq_consumer_new(c) PROVE BookkeepingInv'
  BY <1>0, <1>4, NewStep
<1>5. ASSUME NEW c \in Consumers, c \in attached, Unlocked, bq_consumer_move_internal(c),
             UNCHANGED <<puts, consumers, stopped, attached, freeing>>
      PROVE  BookkeepingInv'
  <2>1. fault = "none" /\ ~stopped /\ \A d \in Consumers : freeing[d] = "no"
    BY <1>5, UnlockedFree
  <2>2. /\ fault' = "none" /\ queue_serial' >= 1 /\ SerialsConsecutive'
        /\ \A d \in attached : CursorConsistent(d)'
        /\ SeenExact' /\ NothingLeaks'
    BY <1>0, <1>5, <2>1, MoveStep
  <2>3. consumers' = Cardinality(attached')
    BY <1>5, <2>1, QueueFacts
  <2>4. FreeExclusive'
    BY <1>5, <2>1 DEF FreeExclusive
  <2> QED BY <1>0, <1>5, <2>2, <2>3, <2>4 DEF BookkeepingInv, NoCountFault
<1>6. ASSUME NEW c \in Consumers, bq_consumer_move(c) PROVE BookkeepingInv'
  BY <1>5, <1>6 DEF bq_consumer_move
<1>7. ASSUME NEW c \in Consumers, bq_consumer_get(c) PROVE BookkeepingInv'
  <2>1. c \in attached /\ Unlocked /\ fault = "none"
        /\ UNCHANGED <<puts, consumers, stopped, attached, freeing>>
    BY <1>7, UnlockedFree DEF bq_consumer_get
  <2>2. CASE bq_consumer_confirm_pointer(c) = NULL
    BY <1>5, <1>7, <2>1, <2>2 DEF bq_consumer_get
  <2>3. CASE bq_consumer_confirm_pointer(c) # NULL
    <3>1. current[c] \in DOMAIN elem
      BY <2>1, <2>3, ConfirmedPointer, QueueFacts
    <3>2. UNCHANGED vars
      BY <1>7, <2>1, <2>3, <3>1 DEF bq_consumer_get, vars, producerVars, cursorVars
    <3> QED BY <3>2, BookkeepingStutter
  <2> QED BY <2>2, <2>3
<1>8. ASSUME NEW c \in Consumers, bq_consumer_free(c) PROVE BookkeepingInv'
  <2>1. /\ c \in attached /\ fault = "none" /\ ~stopped
        /\ \A d \in Consumers : freeing[d] = "no"
        /\ freeing' = [freeing EXCEPT ![c] = "moving"]
        /\ fault' = IF consumers > 0 THEN "none" ELSE "assert"
        /\ UNCHANGED <<elem, first, puts, next_serial, queue_serial, consumers, stopped,
                       c_queue_serial, current, last_serial, attached>>
        /\ NextSeq' = NextSeq
    BY <1>8, UnlockedFree DEF bq_consumer_free, producerVars, cursorVars, NextSeq
  <2>2. fault' = "none"
    <3>1. IsFiniteSet(attached) /\ consumers = Cardinality(attached) /\ consumers \in Nat
      BY <2>1, QueueFacts
    <3>2. consumers # 0
      BY <2>1, <3>1, FS_EmptySet
    <3> QED BY <2>1, <3>1, <3>2
  <2>3. FreeExclusive'
    <3>1. freeing \in [Consumers -> {"no", "moving", "leaving"}]
      BY <1>0 DEF TypeOK
    <3>2. freeing'[c] = "moving" /\ \A d \in Consumers : d # c => freeing'[d] = "no"
      BY <2>1, <3>1
    <3> QED BY <2>1, <3>2 DEF FreeExclusive
  <2>4. SeenExact' /\ NothingLeaks' /\ SerialsConsecutive'
        /\ (\A d \in attached : CursorConsistent(d)') /\ queue_serial' >= 1
        /\ consumers' = Cardinality(attached')
    BY <2>1, <2>2 DEF BookkeepingInv, SeenExact, SeenBy, NothingLeaks, SerialsConsecutive,
       CursorConsistent, Passed
  <2> QED BY <1>0, <2>1, <2>2, <2>3, <2>4 DEF BookkeepingInv, NoCountFault
<1>9. ASSUME NEW c \in Consumers, FreeMoveAll(c) PROVE BookkeepingInv'
  <2>1. /\ fault = "none" /\ freeing[c] = "moving" /\ bq_consumer_move_internal(c)
        /\ freeing' = [freeing EXCEPT ![c] = IF Target(c) = NULL THEN "leaving" ELSE @]
        /\ UNCHANGED <<puts, consumers, stopped, attached>>
    BY <1>9 DEF FreeMoveAll
  <2>2. /\ c \in attached /\ ~stopped
        /\ \A d \in Consumers : freeing[d] # "no" => d = c
    BY <2>1 DEF BookkeepingInv, FreeExclusive
  <2>3. /\ fault' = "none" /\ queue_serial' >= 1 /\ SerialsConsecutive'
        /\ \A d \in attached : CursorConsistent(d)'
        /\ SeenExact' /\ NothingLeaks'
        /\ Target(c) = NULL => \A q \in DOMAIN elem' : Passed(c, q)'
    BY <1>0, <2>1, <2>2, MoveStep
  <2>4. consumers' = Cardinality(attached')
    BY <2>1, QueueFacts
  <2>5. FreeExclusive'
    <3>1. freeing \in [Consumers -> {"no", "moving", "leaving"}]
      BY <1>0 DEF TypeOK
    <3>2. /\ \A d \in Consumers : d # c => freeing'[d] = "no"
          /\ freeing'[c] = "leaving" => Target(c) = NULL
      BY <2>1, <2>2, <3>1
    <3> QED BY <2>1, <2>2, <2>3, <3>2 DEF FreeExclusive
  <2> QED BY <1>0, <2>1, <2>3, <2>4, <2>5 DEF BookkeepingInv, NoCountFault
<1>10. ASSUME NEW c \in Consumers, bq_decrement_seen_on_free(c) PROVE BookkeepingInv'
  BY <1>0, <1>10, LeaveStep
<1>11. CASE UNCHANGED vars
  BY <1>11, BookkeepingStutter
<1> QED BY <1>1, <1>2, <1>3, <1>4, <1>6, <1>7, <1>8, <1>9, <1>10, <1>11 DEF Next

\* For a stored source, or a live one whose 16 bit numbers have not wrapped, for
\* any number of clients and any order of their calls: the seen counts are exact,
\* no buffer leaks and none of the assertions about counts and positions can fail;
\* only the 16 bit serial can end the process.
THEOREM BookkeepingSafe == ASSUME NoWrap PROVE Spec => []BookkeepingInv
<1> QED BY BookkeepingInit, BookkeepingStep, PTL DEF Spec

\* The seen count of a queued buffer is the number of registered consumers that
\* moved past it (bufferqueue.c:51-60).
THEOREM SeenExactSafe == ASSUME NoWrap PROVE Spec => []SeenExact
<1>1. BookkeepingInv => SeenExact
  BY DEF BookkeepingInv, SeenExact
<1> QED BY <1>1, BookkeepingSafe, PTL

\* No buffer that every registered consumer has passed stays queued.
THEOREM NothingLeaksSafe == ASSUME NoWrap PROVE Spec => []NothingLeaks
<1>1. BookkeepingInv => NothingLeaks
  BY DEF BookkeepingInv, NothingLeaks
<1> QED BY <1>1, BookkeepingSafe, PTL

\* No assertion about counts and positions fails and no freed buffer is read.
THEOREM NoCountFaultSafe == ASSUME NoWrap PROVE Spec => []NoCountFault
<1>1. BookkeepingInv => NoCountFault
  BY DEF BookkeepingInv
<1> QED BY <1>1, BookkeepingSafe, PTL

\* A pointer that bq_consumer_confirm_pointer lets through is still queued.
THEOREM PointerReliableSafe == ASSUME NoWrap PROVE Spec => []PointerReliable
<1>1. BookkeepingInv => PointerReliable
  BY ConfirmedPointer, QueueFacts DEF PointerReliable
<1> QED BY <1>1, BookkeepingSafe, PTL

\* bq_consumer_unseen never reports less than what is waiting for the consumer, for
\* a stored source (bufferqueue.c:698-721): the buffers a cursor of this generation
\* has not passed are those from its last serial on, and the serials are
\* consecutive; for a cursor of another generation next_serial alone exceeds the
\* length of the queue.
THEOREM UnseenCoversWaitingSafe == ASSUME ~Live PROVE Spec => []UnseenCoversWaiting
<1>1. NoWrap
  BY DEF NoWrap
<1>2. BookkeepingInv => UnseenCoversWaiting
  <2> SUFFICES ASSUME BookkeepingInv, fault = "none", NEW c \in attached
               PROVE  bq_consumer_unseen(c) >= Waiting(c)
    BY DEF UnseenCoversWaiting
  <2> DEFINE U == {p \in DOMAIN elem : ~Passed(c, p)}
  <2>1. /\ DOMAIN elem = first..puts /\ puts \in Nat /\ first \in Nat /\ 1 <= first
        /\ next_serial \in Nat /\ next_serial >= puts - first + 2
        /\ \A p \in first..puts : elem[p].seq_no = next_serial - (puts + 1 - p)
    BY QueueFacts DEF NextSeq
  <2>2. ASSUME NEW a \in Int, U \subseteq a..puts
        PROVE  Cardinality(U) \in Nat /\ Cardinality(U) <= IF a > puts THEN 0 ELSE puts - a + 1
    <3>1. IsFiniteSet(a..puts) /\ Cardinality(a..puts) = IF a > puts THEN 0 ELSE puts - a + 1
      BY <2>1, FS_Interval
    <3>2. IsFiniteSet(U) /\ Cardinality(U) <= Cardinality(a..puts)
      BY <2>2, <3>1, FS_Subset
    <3> QED BY <3>1, <3>2, FS_CardinalityType
  <2>3. CASE c_queue_serial[c] # queue_serial
    <3>1. U \subseteq first..puts /\ first \in Int
      BY <2>1
    <3>2. Cardinality(U) \in Nat /\ Cardinality(U) <= IF first > puts THEN 0 ELSE puts - first + 1
      BY <2>2, <3>1
    <3>3. bq_consumer_unseen(c) = next_serial
      BY <2>3 DEF bq_consumer_unseen
    <3> HIDE DEF U
    <3>4. next_serial >= Cardinality(U)
      BY <2>1, <3>2
    <3> QED BY <3>3, <3>4 DEF Waiting, U
  <2>4. CASE c_queue_serial[c] = queue_serial
    <3>1. first <= puts /\ last_serial[c] \in Nat /\ last_serial[c] < next_serial
      BY <2>4, CursorFacts DEF NextSeq
    <3>2. Head # NULL
      BY <2>1, <3>1 DEF Head, NULL
    <3>3. bq_consumer_unseen(c) = next_serial - last_serial[c]
      BY <2>4, <3>2 DEF bq_consumer_unseen
    <3> DEFINE a == last_serial[c] + puts + 1 - next_serial
    <3>4. ASSUME NEW p \in U PROVE p \in a..puts
      <4>1. p \in first..puts /\ elem[p].seq_no = next_serial - (puts + 1 - p)
        BY <2>1
      <4>2. ~(elem[p].seq_no < last_serial[c])
        BY <2>4 DEF Passed
      <4> QED BY <2>1, <3>1, <4>1, <4>2
    <3>5. U \subseteq a..puts /\ a \in Int
      BY <2>1, <3>1, <3>4
    <3> HIDE DEF a
    <3>6. Cardinality(U) \in Nat /\ Cardinality(U) <= IF a > puts THEN 0 ELSE puts - a + 1
      BY <2>2, <3>5
    <3> HIDE DEF U
    <3>7. next_serial - last_serial[c] >= Cardinality(U)
      BY <2>1, <3>1, <3>6 DEF a
    <3> QED BY <3>3, <3>7 DEF Waiting, U
  <2> QED BY <2>3, <2>4
<1> QED BY <1>1, <1>2, BookkeepingSafe, PTL
=============================================================================
