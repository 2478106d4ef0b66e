------------------------ MODULE SharedResourceProofs ------------------------
(***************************************************************************)
(* Proofs about SharedResource, for any number of clients.                   *)
(***************************************************************************)
EXTENDS SharedResource, FiniteSetTheorems, TLAPS

\* The queue of the track, with what is proved about it.
QP == INSTANCE BufferQueueLogProofs

\* The two names of finiteness and cardinality mean the same.
LEMMA SameSets ==
    \A S : (IsFiniteSet(S) <=> QP!IsFiniteSet(S)) /\ Cardinality(S) = QP!Cardinality(S)
<1>1. \A S : IsFiniteSet(S) <=> QP!IsFiniteSet(S)
  BY DEF IsFiniteSet, QP!IsFiniteSet
<1>2. \A S : Cardinality(S) = QP!Cardinality(S)
  BY DEF Cardinality, QP!Cardinality
<1> QED BY <1>1, <1>2

(***************************************************************************)
(* The clients and the fill thread only ever call the queue's functions.     *)
(***************************************************************************)

\* The functions of the queue a live resource uses, by either name of the queue.
LEMMA SameQueue ==
    /\ BQ!bq_producer_put <=> QP!bq_producer_put
    /\ BQ!bq_producer_reset_queue <=> QP!bq_producer_reset_queue
    /\ \A c : BQ!bq_consumer_new(c) <=> QP!bq_consumer_new(c)
    /\ \A c : BQ!bq_consumer_move(c) <=> QP!bq_consumer_move(c)
    /\ \A c : BQ!bq_consumer_free(c) <=> QP!bq_consumer_free(c)
    /\ \A c : BQ!FreeMoveAll(c) <=> QP!FreeMoveAll(c)
    /\ \A c : BQ!bq_decrement_seen_on_free(c) <=> QP!bq_decrement_seen_on_free(c)
<1> USE DEF BQ!cursorVars, QP!cursorVars, BQ!producerVars, QP!producerVars, BQ!NULL, QP!NULL,
            BQ!Unlocked, QP!Unlocked
<1>1. BQ!bq_producer_put <=> QP!bq_producer_put
  BY DEF BQ!bq_producer_put, QP!bq_producer_put, BQ!OfferedSeqNo, QP!OfferedSeqNo
<1>2. BQ!bq_producer_reset_queue <=> QP!bq_producer_reset_queue
  BY DEF BQ!bq_producer_reset_queue, QP!bq_producer_reset_queue,
     BQ!bq_producer_reset_queue_internal, QP!bq_producer_reset_queue_internal
<1>3. \A c : BQ!bq_consumer_new(c) <=> QP!bq_consumer_new(c)
  BY DEF BQ!bq_consumer_new, QP!bq_consumer_new
<1>4. \A c : BQ!bq_consumer_free(c) <=> QP!bq_consumer_free(c)
  BY DEF BQ!bq_consumer_free, QP!bq_consumer_free
<1>5. \A c : BQ!bq_decrement_seen_on_free(c) <=> QP!bq_decrement_seen_on_free(c)
  BY DEF BQ!bq_decrement_seen_on_free, QP!bq_decrement_seen_on_free
<1>6. \A c : BQ!Target(c) = QP!Target(c)
  BY DEF BQ!Target, QP!Target, BQ!bq_consumer_confirm_pointer, QP!bq_consumer_confirm_pointer,
     BQ!Head, QP!Head, BQ!Next_, QP!Next_, BQ!NotYetReturned, QP!NotYetReturned
<1>7. \A c : BQ!bq_consumer_confirm_pointer(c) = QP!bq_consumer_confirm_pointer(c)
  BY DEF BQ!bq_consumer_confirm_pointer, QP!bq_consumer_confirm_pointer, BQ!Head, QP!Head
<1>8. \A p : BQ!UnrefFault(p) = QP!UnrefFault(p)
  BY DEF BQ!UnrefFault, QP!UnrefFault, BQ!UnrefAssertions, QP!UnrefAssertions
<1>9. \A p : BQ!bq_consumer_elem_unref(p) <=> QP!bq_consumer_elem_unref(p)
  BY DEF BQ!bq_consumer_elem_unref, QP!bq_consumer_elem_unref,
     BQ!bq_producer_destroy_head, QP!bq_producer_destroy_head
<1>10. \A c, t : BQ!PlaceCursor(c, t) <=> QP!PlaceCursor(c, t)
  BY DEF BQ!PlaceCursor, QP!PlaceCursor
<1>11. \A c : BQ!bq_consumer_move_internal(c) <=> QP!bq_consumer_move_internal(c)
  BY <1>6, <1>7, <1>8, <1>9, <1>10
     DEF BQ!bq_consumer_move_internal, QP!bq_consumer_move_internal
<1>12. \A c : BQ!bq_consumer_move(c) <=> QP!bq_consumer_move(c)
  BY <1>11 DEF BQ!bq_consumer_move, QP!bq_consumer_move
<1>13. \A c : BQ!FreeMoveAll(c) <=> QP!FreeMoveAll(c)
  BY <1>6, <1>11 DEF BQ!FreeMoveAll, QP!FreeMoveAll
<1> QED BY <1>1, <1>2, <1>3, <1>4, <1>5, <1>12, <1>13

\* A live resource uses the queue as BufferQueue describes it.
THEOREM ResourceUsesQueue == Spec => QP!Spec
<1>1. Init => QP!Init
  BY DEF Init, BQ!Init, QP!Init, BQ!NULL, QP!NULL
<1>2. [Next]_vars => [QP!Next]_(QP!vars)
  <2> SUFFICES ASSUME [Next]_vars PROVE QP!Next \/ UNCHANGED queueVars
    BY DEF queueVars, QP!vars, QP!producerVars, QP!cursorVars
  <2>1. CASE r_read_cb
    <3>1. BQ!bq_producer_put \/ UNCHANGED queueVars
      BY <2>1 DEF r_read_cb, TakeJob, CheckPool, LockResource, ReadFragment,
         ReadPacket, EndOfResource
    <3> QED BY <3>1, SameQueue DEF QP!Next
  <2>2. ASSUME NEW c \in Consumers, r_open_hashed(c) \/ StartFill(c) \/ r_close(c)
        PROVE  UNCHANGED queueVars
    BY <2>2 DEF r_open_hashed, StartFill, r_close
  <2>3. ASSUME NEW c \in Consumers, Stream(c) PROVE QP!Next
    BY <2>3, SameQueue DEF Stream, QP!Next
  <2>4. ASSUME NEW c \in Consumers, r_stop_fill(c) PROVE QP!Next
    BY <2>4, SameQueue DEF r_stop_fill, QP!Next
  <2>5. CASE UNCHANGED vars
    BY <2>5 DEF vars
  <2> QED BY <2>1, <2>2, <2>3, <2>4, <2>5 DEF Next
<1> QED BY <1>1, <1>2, PTL DEF Spec, QP!Spec

\* The queue of a live resource keeps its types.
LEMMA ResourceQueueTyped == Spec => []QP!TypeOK
<1>1. QP!Spec => []QP!TypeOK
  BY QueueAssumption, SameSets, QP!TypeCorrect
<1> QED BY <1>1, ResourceUsesQueue, PTL

(***************************************************************************)
(* The inductive invariant of the clients and the fill thread.               *)
(* shared_resources_lock makes start and stop exclusive; between them the    *)
(* pool is there exactly while a client is in, which the count only knows    *)
(* because it is exact; and nobody keeps a consumer past r_close.            *)
(***************************************************************************)

OwnTypes ==
    /\ fill_pool \in BOOLEAN /\ job \in BOOLEAN /\ eor \in BOOLEAN
    /\ shared_resources_lock \subseteq Consumers
    /\ lock \subseteq {"fill"}
    /\ fill_at \in {"idle", "pool", "lock", "read"}
    /\ at \in [Consumers -> {"out", "start", "in", "stop"}]

\* The lock is held by the one client that starts or stops the fill thread.
LockInv ==
    /\ \A c \in Consumers : c \in shared_resources_lock <=> at[c] \in {"start", "stop"}
    /\ \A c, d \in shared_resources_lock : c = d

\* The pool is there while a client is in; its thread ends before the next start, when
\* the queue has been emptied.
PoolInv ==
    /\ fill_pool <=> \E c \in Consumers : at[c] = "in"
    /\ fill_pool => shared_resources_lock = {}
    /\ job => fill_pool /\ fill_at = "idle"
    /\ fill_pool => eor \/ job \/ fill_at # "idle"
    /\ ~fill_pool /\ (\A c \in Consumers : at[c] # "stop") =>
          fill_at = "idle" /\ first = puts + 1

ResourceInv ==
    /\ OwnTypes
    /\ CountExact
    /\ LockInv
    /\ PoolInv
    /\ \A c \in attached : c \in Consumers => at[c] = "in"

LEMMA ResourceInit == Init => ResourceInv
<1> SUFFICES ASSUME Init PROVE ResourceInv
  OBVIOUS
<1>1. /\ count = 0 /\ shared_resources_lock = {} /\ lock = {} /\ ~fill_pool /\ ~job
      /\ fill_pool \in BOOLEAN /\ job \in BOOLEAN /\ eor \in BOOLEAN
      /\ fill_at = "idle" /\ at = [c \in Consumers |-> "out"]
      /\ first = 1 /\ puts = 0 /\ attached = {}
  BY DEF Init, BQ!Init
<1>2. Holders = {}
  BY <1>1 DEF Holders
<1>3. CountExact
  BY <1>1, <1>2, FS_EmptySet DEF CountExact
<1> QED BY <1>1, <1>3 DEF ResourceInv, OwnTypes, LockInv, PoolInv

\* What the invariant says of the count.
LEMMA HoldersFacts ==
    ASSUME ResourceInv
    PROVE  /\ IsFiniteSet(Holders) /\ count = Cardinality(Holders) /\ count \in Nat
           /\ Cardinality(Consumers) \in Nat /\ count <= Cardinality(Consumers)
<1>1. Holders \subseteq Consumers /\ IsFiniteSet(Consumers)
  BY QueueAssumption DEF Holders
<1>2. count = Cardinality(Holders)
  BY DEF ResourceInv, CountExact
<1> QED BY <1>1, <1>2, FS_Subset, FS_CardinalityType

\* A step of the fill thread leaves the clients alone.
LEMMA FillStep ==
    ASSUME ResourceInv, r_read_cb
    PROVE  ResourceInv'
<1>1. UNCHANGED <<count, shared_resources_lock, fill_pool, at>>
  BY DEF r_read_cb, TakeJob, CheckPool, LockResource, ReadFragment, ReadPacket, EndOfResource,
     fillVars
<1>2. CountExact' /\ LockInv'
  BY <1>1 DEF ResourceInv, CountExact, Holders, LockInv
<1>3. attached' = attached
  BY DEF r_read_cb, TakeJob, CheckPool, LockResource, ReadFragment, ReadPacket, EndOfResource,
     queueVars, BQ!bq_producer_put
<1>4. OwnTypes'
  BY <1>1 DEF ResourceInv, OwnTypes, r_read_cb, TakeJob, CheckPool, LockResource,
     ReadFragment, ReadPacket, EndOfResource, fillVars
<1>5. PoolInv'
  <2>1. OwnTypes /\ PoolInv
    BY DEF ResourceInv
  <2>2. CASE TakeJob \/ CheckPool \/ LockResource \/ EndOfResource
    BY <1>1, <2>1, <2>2 DEF PoolInv, OwnTypes, TakeJob, CheckPool, LockResource, EndOfResource,
       queueVars
  <2>3. CASE ReadFragment \/ ReadPacket
    <3>1. fill_at = "read" /\ fill_at' \in {"read", IF eor THEN "idle" ELSE "pool"}
          /\ UNCHANGED <<job, eor>>
      BY <2>3 DEF ReadFragment, ReadPacket, fillVars
    <3>2. CASE fill_pool
      BY <1>1, <2>1, <3>1, <3>2 DEF PoolInv, OwnTypes
    <3>3. CASE ~fill_pool
      <4>1. PICK c \in Consumers : at[c] = "stop"
        BY <2>1, <3>1, <3>3 DEF PoolInv
      <4> QED BY <1>1, <2>1, <3>1, <3>3, <4>1 DEF PoolInv
    <3> QED BY <3>2, <3>3
  <2> QED BY <2>2, <2>3 DEF r_read_cb
<1> QED BY <1>1, <1>2, <1>3, <1>4, <1>5 DEF ResourceInv

\* r_open_hashed (resource.c:330-400): a client is counted in before it waits.
LEMMA OpenStep ==
    ASSUME ResourceInv, NEW c \in Consumers, r_open_hashed(c)
    PROVE  ResourceInv'
<1>1. /\ at[c] = "out" /\ shared_resources_lock = {} /\ count' = count + 1
      /\ at' = [at EXCEPT ![c] = IF fill_pool THEN "in" ELSE "start"]
      /\ shared_resources_lock' = (IF fill_pool THEN shared_resources_lock ELSE {c})
      /\ UNCHANGED <<first, puts, attached, job, fill_at, eor, lock, fill_pool>>
  BY DEF r_open_hashed, Goto, queueVars, fillVars
<1>2. OwnTypes /\ CountExact /\ LockInv /\ PoolInv
  BY DEF ResourceInv
<1>3. /\ at'[c] = (IF fill_pool THEN "in" ELSE "start")
      /\ \A d \in Consumers : d # c => at'[d] = at[d]
      /\ at' \in [Consumers -> {"out", "start", "in", "stop"}]
  BY <1>1, <1>2 DEF OwnTypes
<1>4. CountExact'
  <2>1. Holders' = Holders \cup {c} /\ c \notin Holders
    BY <1>1, <1>3 DEF Holders
  <2>2. Cardinality(Holders') = Cardinality(Holders) + 1
    BY <2>1, HoldersFacts, FS_AddElement
  <2> QED BY <1>1, <2>2, HoldersFacts DEF CountExact
<1>5. OwnTypes'
  BY <1>1, <1>2, <1>3 DEF OwnTypes
<1>6. LockInv'
  BY <1>1, <1>2, <1>3 DEF LockInv
<1>7. PoolInv'
  BY <1>1, <1>2, <1>3 DEF PoolInv
<1>8. \A d \in attached' : d \in Consumers => at'[d] = "in"
  BY <1>1, <1>3 DEF ResourceInv
<1> QED BY <1>4, <1>5, <1>6, <1>7, <1>8 DEF ResourceInv

\* The start of the fill thread: nobody else is starting or stopping it.
LEMMA StartStep ==
    ASSUME ResourceInv, NEW c \in Consumers, StartFill(c)
    PROVE  ResourceInv'
<1>1. /\ at[c] = "start" /\ fill_pool' = TRUE /\ job' = TRUE /\ shared_resources_lock' = {}
      /\ at' = [at EXCEPT ![c] = "in"]
      /\ UNCHANGED <<first, puts, attached, count, fill_at, eor, lock>>
  BY DEF StartFill, Goto, queueVars
<1>2. OwnTypes /\ CountExact /\ LockInv /\ PoolInv
  BY DEF ResourceInv
<1>3. /\ at'[c] = "in" /\ \A d \in Consumers : d # c => at'[d] = at[d]
      /\ at' \in [Consumers -> {"out", "start", "in", "stop"}]
  BY <1>1, <1>2 DEF OwnTypes
<1>4. c \in shared_resources_lock /\ \A d \in Consumers : d # c => at[d] \notin {"start", "stop"}
  BY <1>1, <1>2 DEF LockInv
<1>5. CountExact'
  <2>1. Holders' = Holders
    BY <1>1, <1>3 DEF Holders
  <2> QED BY <1>1, <1>2, <2>1 DEF CountExact
<1>6. OwnTypes' /\ LockInv'
  BY <1>1, <1>2, <1>3, <1>4 DEF OwnTypes, LockInv
<1>7. fill_at = "idle"
  <2>1. ~fill_pool /\ \A d \in Consumers : at[d] # "stop"
    BY <1>1, <1>2, <1>4 DEF PoolInv
  <2> QED BY <1>2, <2>1 DEF PoolInv
<1>8. PoolInv'
  BY <1>1, <1>3, <1>7 DEF PoolInv
<1>9. \A d \in attached' : d \in Consumers => at'[d] = "in"
  BY <1>1, <1>3 DEF ResourceInv
<1> QED BY <1>5, <1>6, <1>8, <1>9 DEF ResourceInv

\* r_close (resource.c:440-515): the client that finds itself the only one takes the
\* pool away, and it is the only one.
LEMMA CloseStep ==
    ASSUME ResourceInv, NEW c \in Consumers, r_close(c)
    PROVE  ResourceInv'
<1>1. /\ at[c] = "in" /\ c \notin attached /\ shared_resources_lock = {} /\ count' = count - 1
      /\ at' = [at EXCEPT ![c] = IF count = 1 THEN "stop" ELSE "out"]
      /\ count = 1 => shared_resources_lock' = {c} /\ fill_pool' = FALSE /\ job' = FALSE
      /\ count # 1 => UNCHANGED <<shared_resources_lock, fill_pool, job>>
      /\ UNCHANGED <<first, puts, attached, lock, fill_at, eor>>
  BY DEF r_close, Goto, queueVars
<1>2. OwnTypes /\ CountExact /\ LockInv /\ PoolInv
  BY DEF ResourceInv
<1>3. /\ at'[c] = (IF count = 1 THEN "stop" ELSE "out")
      /\ \A d \in Consumers : d # c => at'[d] = at[d]
      /\ at' \in [Consumers -> {"out", "start", "in", "stop"}]
  BY <1>1, <1>2 DEF OwnTypes
<1>4. c \in Holders /\ Holders' = Holders \ {c}
  BY <1>1, <1>3 DEF Holders
<1>5. CountExact'
  <2>1. Cardinality(Holders') = Cardinality(Holders) - 1
    BY <1>4, HoldersFacts, FS_RemoveElement
  <2> QED BY <1>1, <2>1, HoldersFacts DEF CountExact
<1>6. \A d \in Consumers : at[d] \notin {"start", "stop"}
  BY <1>1, <1>2 DEF LockInv
<1>7. count = 1 => \A d \in Consumers : d # c => at[d] = "out"
  <2> SUFFICES ASSUME count = 1, NEW d \in Consumers, d # c PROVE at[d] = "out"
    OBVIOUS
  <2>1. PICK x : Holders = {x}
    BY HoldersFacts, FS_Singleton
  <2>2. d \notin Holders
    BY <1>4, <2>1
  <2> QED BY <1>2, <1>6, <2>2 DEF Holders, OwnTypes
<1>8. count # 1 => \E d \in Consumers : d # c /\ at[d] = "in"
  <2> SUFFICES ASSUME count # 1 PROVE \E d \in Consumers : d # c /\ at[d] = "in"
    OBVIOUS
  <2>1. Holders # {c}
    BY HoldersFacts, FS_Singleton
  <2>2. PICK d \in Holders : d # c
    BY <1>4, <2>1
  <2> QED BY <1>6, <2>2 DEF Holders
<1>9. OwnTypes' /\ LockInv'
  <2>1. CASE count = 1
    BY <1>1, <1>2, <1>3, <1>6, <2>1 DEF OwnTypes, LockInv
  <2>2. CASE count # 1
    BY <1>1, <1>2, <1>3, <1>6, <2>2 DEF OwnTypes, LockInv
  <2> QED BY <2>1, <2>2
<1>10. PoolInv'
  <2>1. CASE count = 1
    BY <1>1, <1>3, <1>7, <2>1 DEF PoolInv
  <2>2. CASE count # 1
    <3>1. PICK d \in Consumers : d # c /\ at[d] = "in" /\ at'[d] = "in"
      BY <1>3, <1>8, <2>2
    <3>2. fill_pool /\ fill_pool' = fill_pool
      BY <1>1, <1>2, <2>2, <3>1 DEF PoolInv
    <3> QED BY <1>1, <1>2, <2>2, <3>1, <3>2 DEF PoolInv
  <2> QED BY <2>1, <2>2
<1>11. \A d \in attached' : d \in Consumers => at'[d] = "in"
  BY <1>1, <1>3 DEF ResourceInv
<1> QED BY <1>5, <1>9, <1>10, <1>11 DEF ResourceInv

\* r_stop_fill, when the thread of the pool has ended: the next client finds the queue
\* empty and may start a thread.
LEMMA StopStep ==
    ASSUME ResourceInv, NEW c \in Consumers, r_stop_fill(c)
    PROVE  ResourceInv'
<1>1. /\ at[c] = "stop" /\ fill_at = "idle" /\ shared_resources_lock' = {}
      /\ first' = puts + 1 /\ at' = [at EXCEPT ![c] = "out"]
      /\ UNCHANGED <<puts, attached, job, fill_at, eor, count, lock, fill_pool>>
  BY DEF r_stop_fill, Goto, fillVars, BQ!bq_producer_reset_queue,
     BQ!bq_producer_reset_queue_internal
<1>2. OwnTypes /\ CountExact /\ LockInv /\ PoolInv
  BY DEF ResourceInv
<1>3. /\ at'[c] = "out" /\ \A d \in Consumers : d # c => at'[d] = at[d]
      /\ at' \in [Consumers -> {"out", "start", "in", "stop"}]
  BY <1>1, <1>2 DEF OwnTypes
<1>4. c \in shared_resources_lock /\ \A d \in Consumers : d # c => at[d] \notin {"start", "stop"}
  BY <1>1, <1>2 DEF LockInv
<1>5. Holders' = Holders
  BY <1>1, <1>3 DEF Holders
<1>6. CountExact'
  BY <1>1, <1>2, <1>5 DEF CountExact
<1>7. OwnTypes' /\ LockInv'
  BY <1>1, <1>2, <1>3, <1>4 DEF OwnTypes, LockInv
<1>8. ~fill_pool /\ ~job
  BY <1>2, <1>4 DEF PoolInv
<1>9. \A d \in Consumers : at'[d] # "in"
  BY <1>2, <1>3, <1>8 DEF PoolInv
<1>10. PoolInv'
  BY <1>1, <1>8, <1>9 DEF PoolInv
<1>11. \A d \in attached' : d \in Consumers => at'[d] = "in"
  BY <1>1, <1>3 DEF ResourceInv
<1> QED BY <1>6, <1>7, <1>10, <1>11 DEF ResourceInv

\* Streaming touches the queue only, of a resource that is fed.
LEMMA StreamStep ==
    ASSUME ResourceInv, NEW c \in Consumers, Stream(c)
    PROVE  ResourceInv'
<1>1. at[c] = "in" /\ UNCHANGED <<job, fill_at, eor, count, shared_resources_lock, lock,
                                  fill_pool, at>>
  BY DEF Stream, fillVars
<1>2. attached' \subseteq attached \cup {c}
  BY DEF Stream, BQ!bq_consumer_new, BQ!bq_consumer_move, BQ!bq_consumer_free, BQ!FreeMoveAll,
     BQ!bq_decrement_seen_on_free
<1>3. fill_pool
  BY <1>1 DEF ResourceInv, PoolInv
<1>4. PoolInv'
  BY <1>1, <1>3 DEF ResourceInv, PoolInv
<1>5. OwnTypes' /\ CountExact' /\ LockInv'
  BY <1>1 DEF ResourceInv, OwnTypes, CountExact, Holders, LockInv
<1>6. \A d \in attached' : d \in Consumers => at'[d] = "in"
  BY <1>1, <1>2 DEF ResourceInv
<1> QED BY <1>4, <1>5, <1>6 DEF ResourceInv

LEMMA ResourceStep ==
    ASSUME ResourceInv, [Next]_vars
    PROVE  ResourceInv'
<1>1. CASE r_read_cb
  BY <1>1, FillStep
<1>2. ASSUME NEW c \in Consumers, r_open_hashed(c) PROVE ResourceInv'
  BY <1>2, OpenStep
<1>3. ASSUME NEW c \in Consumers, StartFill(c) PROVE ResourceInv'
  BY <1>3, StartStep
<1>4. ASSUME NEW c \in Consumers, Stream(c) PROVE ResourceInv'
  BY <1>4, StreamStep
<1>5. ASSUME NEW c \in Consumers, r_close(c) PROVE ResourceInv'
  BY <1>5, CloseStep
<1>6. ASSUME NEW c \in Consumers, r_stop_fill(c) PROVE ResourceInv'
  BY <1>6, StopStep
<1>7. CASE UNCHANGED vars
  BY <1>7 DEF vars, queueVars, fillVars, ResourceInv, OwnTypes, CountExact, Holders, LockInv,
     PoolInv
<1> QED BY <1>1, <1>2, <1>3, <1>4, <1>5, <1>6, <1>7 DEF Next

\* The invariant of the clients and the fill thread.
THEOREM ResourceSafe == Spec => []ResourceInv
<1> QED BY ResourceInit, ResourceStep, PTL DEF Spec

\* Resource::count is the number of clients that use the resource, however many open
\* and close it at the same time (media/demuxer.h:68-75, resource.c:330-515).
THEOREM CountExactSafe == Spec => []CountExact
<1>1. ResourceInv => CountExact
  BY DEF ResourceInv
<1> QED BY <1>1, ResourceSafe, PTL

\* The shared state and the queue keep their types.
THEOREM ResourceTypeCorrect == Spec => []TypeOK
<1>1. ResourceInv /\ QP!TypeOK => TypeOK
  <2> SUFFICES ASSUME ResourceInv, QP!TypeOK PROVE TypeOK
    OBVIOUS
  <2>1. BQ!TypeOK
    BY DEF BQ!TypeOK, QP!TypeOK, BQ!Serial, QP!Serial
  <2>2. OwnTypes
    BY DEF ResourceInv
  <2>3. count \in 0..Cardinality(Consumers)
    BY HoldersFacts
  <2> QED BY <2>1, <2>2, <2>3 DEF TypeOK, OwnTypes
<1> QED BY <1>1, ResourceSafe, ResourceQueueTyped, PTL

\* resource.c:493-495: a client that holds the resource has a fill thread until the source
\* ends, and after the last r_close nothing runs and no buffer is kept.
THEOREM FedWhileUsedSafe == Spec => []FedWhileUsed
<1>1. ResourceInv /\ QP!TypeOK => FedWhileUsed
  <2> SUFFICES ASSUME ResourceInv, QP!TypeOK PROVE FedWhileUsed
    OBVIOUS
  <2>1. OwnTypes /\ PoolInv /\ puts \in Nat
    BY QueueAssumption DEF ResourceInv, QP!TypeOK
  <2>2. ASSUME NEW c \in Consumers, at[c] = "in"
        PROVE  fill_pool /\ (eor \/ job \/ fill_at # "idle")
    BY <2>1, <2>2 DEF PoolInv
  <2>3. ASSUME \A c \in Consumers : at[c] = "out"
        PROVE  ~fill_pool /\ ~job /\ fill_at = "idle" /\ BQ!Head = BQ!NULL
    <3>1. ~fill_pool /\ ~job /\ fill_at = "idle" /\ first = puts + 1
      BY <2>1, <2>3 DEF PoolInv
    <3> QED BY <2>1, <3>1 DEF BQ!Head, BQ!NULL
  <2> QED BY <2>2, <2>3 DEF FedWhileUsed
<1> QED BY <1>1, ResourceSafe, ResourceQueueTyped, PTL

\* resource.c:508-511: the last r_close resets the queue when nobody consumes from it, and
\* no client opens the resource in between, whatever the source and its numbers do.
THEOREM ResetAloneSafe == Spec => []ResetAlone
<1>1. ResourceInv /\ QP!TypeOK => ResetAlone
  <2> SUFFICES ASSUME ResourceInv, QP!TypeOK, NEW c \in Consumers, at[c] = "stop"
               PROVE  attached = {} /\ Holders = {}
    BY DEF ResetAlone
  <2>1. c \in shared_resources_lock
    BY DEF ResourceInv, LockInv
  <2>2. \A d \in Consumers : at[d] \notin {"in", "start"}
    <3>1. \A d \in Consumers : at[d] # "in"
      BY <2>1 DEF ResourceInv, PoolInv
    <3>2. ASSUME NEW d \in Consumers, at[d] = "start" PROVE FALSE
      <4>1. d = c
        BY <2>1, <3>2 DEF ResourceInv, LockInv
      <4> QED BY <3>2, <4>1
    <3> QED BY <3>1, <3>2
  <2>3. attached \subseteq Consumers
    BY DEF QP!TypeOK
  <2> QED BY <2>2, <2>3 DEF ResourceInv, Holders
<1> QED BY <1>1, ResourceSafe, ResourceQueueTyped, PTL
=============================================================================
