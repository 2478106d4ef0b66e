----------------------------- MODULE BufferQueue -----------------------------
(***************************************************************************)
(* The buffer queue of bufferqueue.c: one producer (the demuxer of a track)  *)
(* feeds every consumer (the RTP sessions of the clients) from one queue.    *)
(* Each queued buffer counts the consumers that have moved past it and is    *)
(* freed when the count reaches the number of registered consumers.          *)
(*                                                                           *)
(* Every function takes the producer's mutex, so each is one action.  The    *)
(* loop of bq_consumer_free is unrolled into steps that keep the mutex.      *)
(*                                                                           *)
(* Buffers are named by allocation order 1, 2, ...  The GQueue is pushed at  *)
(* the tail, popped at the head and cleared, so it always holds the buffers  *)
(* first..puts, and elem is the part of the heap it owns: a pointer outside  *)
(* DOMAIN elem points to freed memory.                                       *)
(***************************************************************************)
EXTENDS Integers, FiniteSets

CONSTANTS
    Consumers,      \* the consumer objects the clients may allocate
    SerialModulus,  \* 2^16: next_serial, seq_no are uint16_t
    Live,           \* TRUE: buffers carry the RTP sequence number of a live source
    FirstLiveSeq,   \* the sequence number the live source starts from
    MaxPuts,        \* bound: buffers ever put
    MaxQueueSerial  \* bound: queue generations started by a reset

ASSUME ConstantsAssumption ==
    /\ IsFiniteSet(Consumers)
    /\ SerialModulus \in Nat /\ SerialModulus > 1
    /\ Live \in BOOLEAN
    /\ FirstLiveSeq \in 0..(SerialModulus - 1)
    /\ MaxPuts \in Nat
    /\ MaxQueueSerial \in Nat

VARIABLES
    elem,            \* queued buffers: [seq_no, seen], over first..puts
    first,           \* the buffer at queue->head, puts + 1 when empty
    puts,            \* number of buffers ever put
    next_serial,     \* BufferQueue_Producer::next_serial
    queue_serial,    \* BufferQueue_Producer::queue_serial
    consumers,       \* BufferQueue_Producer::consumers
    stopped,         \* BufferQueue_Producer::stopped (the producer is gone)
    attached,        \* the consumer objects that are allocated
    c_queue_serial,  \* BufferQueue_Consumer::queue_serial
    current,         \* BufferQueue_Consumer::current_element_pointer
    last_serial,     \* BufferQueue_Consumer::last_element_serial
    freeing,         \* where a consumer is in bq_consumer_free
    fault            \* the g_assert or freed pointer that ended the process

producerVars == <<elem, first, puts, next_serial, queue_serial, consumers, stopped>>
cursorVars == <<c_queue_serial, current, last_serial>>
vars == <<producerVars, cursorVars, attached, freeing, fault>>

NULL == 0

-----------------------------------------------------------------------------

\* queue->head, and GList::next of an element.
Head == IF first <= puts THEN first ELSE NULL

Next_(p) == IF p < puts THEN p + 1 ELSE NULL

\* Nobody is inside a critical section, and the process and producer live.
Unlocked ==
    /\ fault = "none"
    /\ ~stopped
    /\ \A c \in Consumers : freeing[c] = "no"

\* bq_producer_new: g_slice_new0, then bq_producer_reset_queue_internal.
Init ==
    /\ elem = [p \in 1..0 |-> [seq_no |-> 0, seen |-> 0]]
    /\ first = 1
    /\ puts = 0
    /\ next_serial = 1
    /\ queue_serial = 1
    /\ consumers = 0
    /\ stopped = FALSE
    /\ attached = {}
    /\ c_queue_serial = [c \in Consumers |-> 0]
    /\ current = [c \in Consumers |-> NULL]
    /\ last_serial = [c \in Consumers |-> 0]
    /\ freeing = [c \in Consumers |-> "no"]
    /\ fault = "none"

-----------------------------------------------------------------------------
(* Producer operations *)

\* Mutant: the generation is not advanced.
ResetKeepsGeneration ==
    /\ elem' = [p \in (puts + 1)..puts |-> elem[p]]
    /\ first' = puts + 1
    /\ queue_serial' = queue_serial
    /\ next_serial' = 1

\* The queue is replaced by an empty one of the next generation.
bq_producer_reset_queue_internal ==
    /\ elem' = [p \in (puts + 1)..puts |-> elem[p]]
    /\ first' = puts + 1
    /\ queue_serial' = queue_serial + 1
    /\ next_serial' = 1

bq_producer_reset_queue ==
    /\ Unlocked
    /\ queue_serial < MaxQueueSerial
    /\ bq_producer_reset_queue_internal
    /\ UNCHANGED <<puts, consumers, stopped, cursorVars, attached, freeing, fault>>

\* seq_no of the offered buffer: mparser_buffer_write sets 0, while
\* mparser_live_buffer_write passes on the uint16_t of the RTP header.
OfferedSeqNo == IF Live THEN (FirstLiveSeq + puts) % SerialModulus ELSE 0

\* Mutant: the serial of the buffer is not consumed.
PutReusesSerial ==
    /\ Unlocked
    /\ puts < MaxPuts
    /\ puts' = puts + 1
    /\ elem' = [p \in first..(puts + 1) |->
                    IF p = puts + 1 THEN [seq_no |-> next_serial, seen |-> 0]
                                    ELSE elem[p]]
    /\ UNCHANGED <<first, next_serial, queue_serial, consumers, stopped,
                   cursorVars, attached, freeing, fault>>

\* A buffer without a number takes next_serial++; the assertion that follows
\* is about the incremented, 16 bit wide, value.
bq_producer_put ==
    LET own == OfferedSeqNo = 0
        serial == IF own THEN (next_serial + 1) % SerialModulus ELSE next_serial
        seq == IF own THEN next_serial ELSE OfferedSeqNo
    IN  /\ Unlocked
        /\ puts < MaxPuts
        /\ next_serial' = serial
        /\ fault' = IF serial = 0 THEN "serial" ELSE "none"
        /\ puts' = puts + 1
        /\ elem' = [p \in first..(puts + 1) |->
                        IF p = puts + 1 THEN [seq_no |-> seq, seen |-> 0]
                                        ELSE elem[p]]
        /\ UNCHANGED <<first, queue_serial, consumers, stopped, cursorVars,
                       attached, freeing>>

\* track_free is the only caller; rtsp_session_free has freed the consumers of
\* the track before the resource is closed.  bq_producer_free_internal asserts
\* consumers == 0, frees the queue and then the producer.
bq_producer_unref ==
    /\ Unlocked
    /\ attached = {}
    /\ stopped' = TRUE
    /\ fault' = IF consumers # 0 THEN "assert" ELSE "none"
    /\ elem' = [p \in (puts + 1)..puts |-> elem[p]]
    /\ first' = puts + 1
    /\ UNCHANGED <<puts, next_serial, queue_serial, consumers, cursorVars,
                   attached, freeing>>

-----------------------------------------------------------------------------
(* Consumer operations *)

bq_consumer_new(c) ==
    /\ Unlocked
    /\ c \notin attached
    /\ attached' = attached \cup {c}
    /\ consumers' = consumers + 1
    /\ c_queue_serial' = [c_queue_serial EXCEPT ![c] = 0]
    /\ current' = [current EXCEPT ![c] = NULL]
    /\ last_serial' = [last_serial EXCEPT ![c] = 0]
    /\ UNCHANGED <<elem, first, puts, next_serial, queue_serial, stopped,
                   freeing, fault>>

\* Mutant: the serial of the queue is not compared.
ConfirmIgnoresGeneration(c) ==
    IF \/ current[c] = NULL
       \/ Head # NULL /\ last_serial[c] < elem[Head].seq_no
    THEN NULL ELSE current[c]

\* The current element pointer after the checks that make it reliable.
bq_consumer_confirm_pointer(c) ==
    IF \/ current[c] = NULL
       \/ c_queue_serial[c] # queue_serial
       \/ Head # NULL /\ last_serial[c] < elem[Head].seq_no
    THEN NULL ELSE current[c]

\* Mutant: the popped element is not released.
DestroyLeaksHead ==
    /\ first' = first + 1
    /\ UNCHANGED <<elem, next_serial, queue_serial>>

\* Mutant: the serials restart, but the queue keeps its generation.
DestroyKeepsGeneration ==
    /\ first' = first + 1
    /\ elem' = [q \in (first + 1)..puts |-> elem[q]]
    /\ next_serial' = IF first = puts THEN 1 ELSE next_serial
    /\ UNCHANGED queue_serial

\* The pop: an emptied queue counts as a new one.
bq_producer_destroy_head ==
    /\ first' = first + 1
    /\ elem' = [q \in (first + 1)..puts |-> elem[q]]
    /\ IF first = puts
       THEN /\ queue_serial' = queue_serial + 1
            /\ next_serial' = 1
       ELSE UNCHANGED <<queue_serial, next_serial>>

\* The assertions of bq_consumer_elem_unref and bq_producer_destroy_head, for
\* the count seen before this consumer adds to it.
UnrefAssertions(p) ==
    /\ elem[p].seen # consumers
    /\ elem[p].seen + 1 >= consumers => p = first /\ elem[p].seen + 1 = consumers

\* What ends the process when p is marked: p was freed, or an assertion fails.
UnrefFault(p) ==
    IF p \notin DOMAIN elem THEN "dangling"
    ELSE IF ~UnrefAssertions(p) THEN "assert" ELSE "none"

\* Marks the confirmed, non-NULL pointer p as seen, and frees it after the last
\* consumer.
bq_consumer_elem_unref(p) ==
    IF elem[p].seen + 1 < consumers
    THEN /\ elem' = [elem EXCEPT ![p].seen = @ + 1]
         /\ UNCHANGED <<first, next_serial, queue_serial>>
    ELSE bq_producer_destroy_head

\* Where the cursor goes: past the confirmed pointer, to the head of a queue of
\* another generation, or to the first element after the last one returned.
NotYetReturned(c) == {p \in DOMAIN elem : elem[p].seq_no > last_serial[c]}

\* Mutant: an exhausted consumer starts over at the head.
TargetRestarts(c) ==
    IF bq_consumer_confirm_pointer(c) # NULL
    THEN Next_(bq_consumer_confirm_pointer(c))
    ELSE Head

Target(c) ==
    IF bq_consumer_confirm_pointer(c) # NULL
    THEN Next_(bq_consumer_confirm_pointer(c))
    ELSE IF c_queue_serial[c] # queue_serial THEN Head
    ELSE IF NotYetReturned(c) = {} THEN NULL
    ELSE CHOOSE p \in NotYetReturned(c) : \A q \in NotYetReturned(c) : p <= q

\* Only a non-NULL target updates the serials.
PlaceCursor(c, target) ==
    /\ current' = [current EXCEPT ![c] = target]
    /\ IF target # NULL
       THEN /\ last_serial' = [last_serial EXCEPT ![c] = elem[target].seq_no]
            /\ c_queue_serial' = [c_queue_serial EXCEPT ![c] = queue_serial']
       ELSE UNCHANGED <<last_serial, c_queue_serial>>

\* Mutant: bq_consumer_elem_unref is not called.
MoveWithoutUnref(c) ==
    /\ UNCHANGED <<elem, first, next_serial, queue_serial, fault>>
    /\ PlaceCursor(c, Target(c))

bq_consumer_move_internal(c) ==
    LET pointer == bq_consumer_confirm_pointer(c)
    IN  IF pointer = NULL
        THEN /\ UNCHANGED <<elem, first, next_serial, queue_serial, fault>>
             /\ PlaceCursor(c, Target(c))
        ELSE /\ fault' = UnrefFault(pointer)
             /\ IF UnrefFault(pointer) = "none"
                THEN bq_consumer_elem_unref(pointer) /\ PlaceCursor(c, Target(c))
                ELSE UNCHANGED <<elem, first, next_serial, queue_serial, cursorVars>>

bq_consumer_move(c) ==
    /\ Unlocked
    /\ c \in attached
    /\ bq_consumer_move_internal(c)
    /\ UNCHANGED <<puts, consumers, stopped, attached, freeing>>

\* A consumer without a reliable selection moves to one; the selected buffer is
\* returned, and reading a freed one is the fault.
bq_consumer_get(c) ==
    /\ Unlocked
    /\ c \in attached
    /\ IF bq_consumer_confirm_pointer(c) = NULL
       THEN bq_consumer_move_internal(c)
       ELSE /\ fault' = IF current[c] \in DOMAIN elem THEN "none" ELSE "dangling"
            /\ UNCHANGED <<elem, first, next_serial, queue_serial, cursorVars>>
    /\ UNCHANGED <<puts, consumers, stopped, attached, freeing>>

\* Mutant: the rest of the queue is not marked before the counts drop.
FreeWithoutMoving(c) ==
    /\ Unlocked
    /\ c \in attached
    /\ freeing' = [freeing EXCEPT ![c] = "leaving"]
    /\ UNCHANGED <<producerVars, cursorVars, attached, fault>>

\* bq_consumer_free: lock and assert consumers > 0; move to the end; take this
\* consumer out of every count; unlock.
bq_consumer_free(c) ==
    /\ Unlocked
    /\ c \in attached
    /\ freeing' = [freeing EXCEPT ![c] = "moving"]
    /\ fault' = IF consumers > 0 THEN "none" ELSE "assert"
    /\ UNCHANGED <<producerVars, cursorVars, attached>>

FreeMoveAll(c) ==
    /\ fault = "none"
    /\ freeing[c] = "moving"
    /\ bq_consumer_move_internal(c)
    /\ freeing' = [freeing EXCEPT ![c] = IF Target(c) = NULL THEN "leaving" ELSE @]
    /\ UNCHANGED <<puts, consumers, stopped, attached>>

\* Mutant: bq_decrement_seen_on_free is not applied.
FreeKeepsSeen(c) ==
    /\ fault = "none"
    /\ freeing[c] = "leaving"
    /\ freeing' = [freeing EXCEPT ![c] = "no"]
    /\ attached' = attached \ {c}
    /\ consumers' = consumers - 1
    /\ UNCHANGED <<elem, first, puts, next_serial, queue_serial, stopped,
                   cursorVars, fault>>

bq_decrement_seen_on_free(c) ==
    /\ fault = "none"
    /\ freeing[c] = "leaving"
    /\ freeing' = [freeing EXCEPT ![c] = "no"]
    /\ elem' = [p \in DOMAIN elem |-> [elem[p] EXCEPT !.seen = @ - 1]]
    /\ attached' = attached \ {c}
    /\ consumers' = consumers - 1
    /\ UNCHANGED <<first, puts, next_serial, queue_serial, stopped, cursorVars,
                   fault>>

\* What bq_consumer_unseen reports; r_fill keeps reading while it is low.  The
\* difference of the two uint16_t is an int that becomes a gulong.
bq_consumer_unseen(c) ==
    IF c_queue_serial[c] # queue_serial THEN next_serial
    ELSE IF Head = NULL THEN 0
    ELSE next_serial - last_serial[c]

-----------------------------------------------------------------------------

Next ==
    \/ bq_producer_reset_queue
    \/ bq_producer_put
    \/ bq_producer_unref
    \/ \E c \in Consumers :
          \/ bq_consumer_new(c)
          \/ bq_consumer_move(c)
          \/ bq_consumer_get(c)
          \/ bq_consumer_free(c)
          \/ FreeMoveAll(c)
          \/ bq_decrement_seen_on_free(c)

Spec == Init /\ [][Next]_vars

\* rtp_write_cb moves the consumer each time its timer fires, and a thread that
\* holds the mutex runs on; nothing makes the demuxer or new clients turn up.
Fairness ==
    \A c \in Consumers : WF_vars(bq_consumer_move(c))
                         /\ WF_vars(FreeMoveAll(c))
                         /\ WF_vars(bq_decrement_seen_on_free(c))

FairSpec == Spec /\ Fairness

-----------------------------------------------------------------------------
(* Properties *)

Serial == 0..(SerialModulus - 1)

\* Every variable has its C type; elem is exactly the queued buffers.
TypeOK ==
    /\ puts \in 0..MaxPuts
    /\ first \in 1..(puts + 1)
    /\ elem \in [first..puts -> [seq_no : Serial, seen : Int]]
    /\ next_serial \in Serial
    /\ queue_serial \in Nat
    /\ consumers \in Int
    /\ stopped \in BOOLEAN
    /\ attached \in SUBSET Consumers
    /\ c_queue_serial \in [Consumers -> Nat]
    /\ current \in [Consumers -> 0..MaxPuts]
    /\ last_serial \in [Consumers -> Serial]
    /\ freeing \in [Consumers -> {"no", "moving", "leaving"}]
    /\ fault \in {"none", "assert", "serial", "dangling"}

\* Consumer c has moved past the queued buffer p: it selected a later one, or p
\* was its selection and has been marked with nothing after it.
Passed(c, p) ==
    /\ c_queue_serial[c] = queue_serial
    /\ \/ elem[p].seq_no < last_serial[c]
       \/ elem[p].seq_no = last_serial[c] /\ current[c] = NULL

SeenBy(p) == {c \in attached : Passed(c, p)}

\* bufferqueue.c:204-206: a pointer that passes bq_consumer_confirm_pointer
\* points to a buffer that is still queued.
PointerReliable ==
    fault = "none" =>
        \A c \in attached :
            bq_consumer_confirm_pointer(c) \in DOMAIN elem \cup {NULL}

\* bufferqueue.c:51-60: the seen count of a queued buffer is the number of
\* registered consumers that moved past it, through joins, leaves and resets.
SeenExact ==
    fault = "none" =>
        \A p \in DOMAIN elem :
            elem[p].seen = Cardinality(SeenBy(p))

\* No g_assert about counts and positions can fail and no consumer follows a
\* pointer to a freed buffer (bufferqueue.c:361, 499, 500, 544, 671).
NoCountFault == fault \notin {"assert", "dangling"}

\* bufferqueue.c:58-60: a buffer stays queued only while some registered
\* consumer still has to see it, so nothing all have seen is left to leak.
NothingLeaks ==
    (fault = "none" /\ attached # {}) =>
        \A p \in DOMAIN elem : \E c \in attached : ~Passed(c, p)

\* r_fill relies on bq_consumer_unseen to know that a consumer has enough to
\* send: it never reports less than what is waiting for the consumer.
Waiting(c) == Cardinality({p \in DOMAIN elem : ~Passed(c, p)})

UnseenCoversWaiting ==
    fault = "none" => \A c \in attached : bq_consumer_unseen(c) >= Waiting(c)

\* Once the set of clients settles, every buffer reaches all of them and the
\* queue drains: no consumer is stuck behind another one or behind a reset.
QueueDrains == <>[](attached = Consumers) => <>[](Head = NULL)

-----------------------------------------------------------------------------
(* The inductive invariant *)

\* No buffer of a live source has come with the number 0: the numbers have not
\* wrapped (yet, since MaxPuts is only a bound).  A stored source may be of any
\* length, its serials restart when the queue runs empty.
NoWrap == Live => FirstLiveSeq > 0 /\ FirstLiveSeq + MaxPuts <= SerialModulus

\* The number of the next buffer.
NextSeq == IF Live THEN FirstLiveSeq + puts ELSE next_serial

\* The queued buffers carry consecutive numbers that end at NextSeq - 1, and none
\* of them is 0.
SerialsConsecutive ==
    /\ NextSeq >= puts - first + 2
    /\ \A p \in DOMAIN elem : elem[p].seq_no = NextSeq - (puts + 1 - p)

\* A cursor of the current generation is over a non-empty queue and remembers a
\* serial already given out; its pointer, if any, is the buffer of that serial.
CursorConsistent(c) ==
    /\ c_queue_serial[c] <= queue_serial
    /\ c_queue_serial[c] = queue_serial =>
          /\ first <= puts
          /\ last_serial[c] \in 1..(NextSeq - 1)
          /\ current[c] # NULL =>
                current[c] \in DOMAIN elem /\ elem[current[c]].seq_no = last_serial[c]

\* One thread at a time is in bq_consumer_free; a consumer about to leave has
\* moved past everything.
FreeExclusive ==
    /\ stopped => attached = {}
    /\ \A c \in Consumers : freeing[c] # "no" =>
          /\ c \in attached
          /\ \A d \in Consumers : freeing[d] # "no" => d = c
          /\ freeing[c] = "leaving" => \A p \in DOMAIN elem : Passed(c, p)

\* Everything the bookkeeping of the queue relies on while the process lives.
BookkeepingInv ==
    /\ TypeOK
    /\ NoCountFault
    /\ fault = "none" =>
          /\ queue_serial >= 1
          /\ consumers = Cardinality(attached)
          /\ SerialsConsecutive
          /\ \A c \in attached : CursorConsistent(c)
          /\ FreeExclusive
          /\ SeenExact
          /\ NothingLeaks

-----------------------------------------------------------------------------
(* Refinement *)

\* The next buffer consumer c has to move past: the cursor of an abstract reader.
Cursor(c) ==
    LET unseen == {p \in DOMAIN elem : ~Passed(c, p)}
    IN  IF c \notin attached THEN 0
        ELSE IF unseen = {} THEN puts + 1
        ELSE CHOOSE p \in unseen : \A q \in unseen : p <= q

Log == INSTANCE BroadcastLog
          WITH Readers <- Consumers, tail <- puts, low <- first,
               present <- attached, cursor <- [c \in Consumers |-> Cursor(c)]

\* The queue with its counts, serials and pointers implements the broadcast
\* log: every consumer moves past the buffers in order, without gap or repeat,
\* and a buffer goes exactly when the last consumer has passed it.
ImplementsLog == Log!Spec
=============================================================================
