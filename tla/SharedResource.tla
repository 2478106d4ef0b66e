--------------------------- MODULE SharedResource ---------------------------
(***************************************************************************)
(* A live resource, shared by the clients through the hash of resource.c     *)
(* (the code under LIVE_STREAMING).                                          *)
(* r_open_hashed finds or opens it, counts the client and starts the fill    *)
(* thread; r_close of the last client stops the thread and resets the queue, *)
(* and the resource stays in the hash, to be found by the next client.       *)
(*                                                                           *)
(* Every client runs in a thread of its own.  shared_resources_lock covers   *)
(* r_open_hashed and r_close, Resource::lock the start of the fill thread    *)
(* and each read of the demuxer (external).  The resource has one track, of  *)
(* which a client takes one consumer.                                        *)
(***************************************************************************)
EXTENDS Integers, FiniteSets

CONSTANTS Consumers, SerialModulus, Live, FirstLiveSeq, MaxPuts, MaxQueueSerial

ASSUME QueueAssumption ==
    /\ IsFiniteSet(Consumers)
    /\ SerialModulus \in Nat /\ SerialModulus > 1
    /\ Live \in BOOLEAN
    /\ FirstLiveSeq \in 0..(SerialModulus - 1)
    /\ MaxPuts \in Nat
    /\ MaxQueueSerial \in Nat

ASSUME LiveAssumption == Live

VARIABLES elem, first, puts, next_serial, queue_serial, consumers, stopped,
          attached, c_queue_serial, current, last_serial, freeing, fault

BQ == INSTANCE BufferQueue

VARIABLES
    count,                  \* Resource::count
    shared_resources_lock,  \* the clients that hold it
    lock,                   \* who holds Resource::lock
    fill_pool,              \* Resource::fill_pool is not NULL
    job,                    \* the pushed job waits in the pool
    fill_at,                \* where the pool's thread is in r_read_cb
    eor,                    \* Resource::eor
    at                      \* where each client is

queueVars == <<elem, first, puts, next_serial, queue_serial, consumers, stopped,
               attached, c_queue_serial, current, last_serial, freeing, fault>>
fillVars == <<job, fill_at, eor>>
vars == <<queueVars, fillVars, count, shared_resources_lock, lock, fill_pool, at>>

Init ==
    /\ BQ!Init
    /\ count = 0 /\ shared_resources_lock = {} /\ lock = {}
    /\ fill_pool = FALSE /\ job = FALSE /\ fill_at = "idle" /\ eor = FALSE
    /\ at = [c \in Consumers |-> "out"]

Goto(c, place) == at' = [at EXCEPT ![c] = place]

-----------------------------------------------------------------------------
(* The clients *)

\* Mutant: a client that finds the pool running is not counted.
OpenUncounted(c) ==
    /\ at[c] = "out" /\ shared_resources_lock = {}
    /\ IF fill_pool
       THEN Goto(c, "in") /\ UNCHANGED <<count, shared_resources_lock>>
       ELSE Goto(c, "start") /\ count' = count + 1 /\ shared_resources_lock' = {c}
    /\ UNCHANGED <<queueVars, fillVars, lock, fill_pool>>

\* r_open_hashed, once the resource is in the hash: both checks of fill_pool happen
\* under shared_resources_lock, held until the fill thread has been started.
r_open_hashed(c) ==
    /\ at[c] = "out" /\ shared_resources_lock = {}
    /\ count' = count + 1
    /\ IF fill_pool
       THEN Goto(c, "in") /\ UNCHANGED shared_resources_lock
       ELSE Goto(c, "start") /\ shared_resources_lock' = {c}
    /\ UNCHANGED <<queueVars, fillVars, lock, fill_pool>>

\* r_resume and the push, under Resource::lock.
StartFill(c) ==
    /\ at[c] = "start" /\ lock = {}
    /\ fill_pool' = TRUE
    /\ job' = TRUE
    /\ shared_resources_lock' = {}
    /\ Goto(c, "in")
    /\ UNCHANGED <<queueVars, count, lock, fill_at, eor>>

\* SETUP takes a consumer, the rtp_writer timer moves it, rtp_session_free gives
\* it back; r_pause and r_fill do nothing for a live resource.
Stream(c) ==
    /\ at[c] = "in"
    /\ \/ BQ!bq_consumer_new(c)
       \/ BQ!bq_consumer_move(c)
       \/ BQ!bq_consumer_free(c)
       \/ BQ!FreeMoveAll(c)
       \/ BQ!bq_decrement_seen_on_free(c)
    /\ UNCHANGED <<fillVars, count, shared_resources_lock, lock, fill_pool, at>>

\* Mutant: the pool is freed without waiting for its thread.
CloseWithoutWait(c) ==
    /\ at[c] = "in" /\ c \notin attached /\ shared_resources_lock = {}
    /\ count' = count - 1
    /\ IF count = 1
       THEN BQ!bq_producer_reset_queue /\ fill_pool' = FALSE /\ job' = FALSE
       ELSE UNCHANGED <<queueVars, fill_pool, job>>
    /\ Goto(c, "out")
    /\ UNCHANGED <<shared_resources_lock, lock, fill_at, eor>>

\* r_close, after rtsp_session_free has freed the client's consumer: the last
\* client takes the pool away and waits for its thread in r_stop_fill.
r_close(c) ==
    /\ at[c] = "in" /\ c \notin attached /\ shared_resources_lock = {}
    /\ count' = count - 1
    /\ IF count = 1
       THEN /\ Goto(c, "stop")
            /\ shared_resources_lock' = {c}
            /\ fill_pool' = FALSE
            /\ job' = FALSE
       ELSE /\ Goto(c, "out")
            /\ UNCHANGED <<shared_resources_lock, fill_pool, job>>
    /\ UNCHANGED <<queueVars, lock, fill_at, eor>>

\* g_thread_pool_free returns and the queue is reset.
r_stop_fill(c) ==
    /\ at[c] = "stop" /\ fill_at = "idle"
    /\ BQ!bq_producer_reset_queue
    /\ shared_resources_lock' = {}
    /\ Goto(c, "out")
    /\ UNCHANGED <<fillVars, count, lock, fill_pool>>

-----------------------------------------------------------------------------
(* r_read_cb for a live resource: it reads until the pool is taken away *)

TakeJob ==
    /\ fill_at = "idle" /\ job
    /\ job' = FALSE
    /\ fill_at' = "pool"
    /\ UNCHANGED <<queueVars, count, shared_resources_lock, lock, fill_pool, eor, at>>

\* Mutant: the signal to stop is not looked at.
CheckNothing ==
    /\ fill_at = "pool"
    /\ fill_at' = "lock"
    /\ UNCHANGED <<queueVars, count, shared_resources_lock, lock, fill_pool, job, eor, at>>

CheckPool ==
    /\ fill_at = "pool"
    /\ fill_at' = IF fill_pool THEN "lock" ELSE "idle"
    /\ UNCHANGED <<queueVars, count, shared_resources_lock, lock, fill_pool, job, eor, at>>

LockResource ==
    /\ fill_at = "lock" /\ lock = {}
    /\ lock' = {"fill"}
    /\ fill_at' = "read"
    /\ UNCHANGED <<queueVars, count, shared_resources_lock, fill_pool, job, eor, at>>

\* read_packet puts a buffer (through mparser_live_buffer_write, whose call of
\* bq_producer_put is commented out here, or itself) and has more of the frame.
ReadFragment ==
    /\ fill_at = "read"
    /\ BQ!bq_producer_put
    /\ UNCHANGED <<fillVars, count, shared_resources_lock, lock, fill_pool, at>>

\* read_packet returns after its last buffer, or had none yet; the bound MaxPuts
\* leaves it only the second.
ReadPacket ==
    /\ fill_at = "read"
    /\ \/ BQ!bq_producer_put
       \/ BQ!Unlocked /\ UNCHANGED queueVars
    /\ lock' = {}
    /\ fill_at' = IF eor THEN "idle" ELSE "pool"
    /\ UNCHANGED <<count, shared_resources_lock, fill_pool, job, eor, at>>

\* The end of the source, or an error of it.
EndOfResource ==
    /\ fill_at = "read"
    /\ eor' = TRUE
    /\ lock' = {}
    /\ fill_at' = "idle"
    /\ UNCHANGED <<queueVars, count, shared_resources_lock, fill_pool, job, at>>

r_read_cb ==
    \/ TakeJob \/ CheckPool \/ LockResource
    \/ ReadFragment \/ ReadPacket \/ EndOfResource

-----------------------------------------------------------------------------

\* The bound on generations of the queue holds back new clients, not closing.
Next ==
    \/ r_read_cb
    \/ \E c \in Consumers :
          \/ queue_serial < MaxQueueSerial - MaxPuts /\ r_open_hashed(c)
          \/ StartFill(c)
          \/ Stream(c)
          \/ r_close(c)
          \/ r_stop_fill(c)

Spec == Init /\ [][Next]_vars

\* The threads run on; what the clients ask for is up to them.
Fairness ==
    /\ WF_vars(r_read_cb)
    /\ \A c \in Consumers : WF_vars(StartFill(c)) /\ WF_vars(r_stop_fill(c))

FairSpec == Spec /\ Fairness

-----------------------------------------------------------------------------
(* Properties *)

Holders == {c \in Consumers : at[c] \in {"in", "start"}}

\* Types of the shared state, and of the queue.
TypeOK ==
    /\ BQ!TypeOK
    /\ fill_pool \in BOOLEAN /\ job \in BOOLEAN /\ eor \in BOOLEAN
    /\ count \in 0..Cardinality(Consumers)
    /\ shared_resources_lock \subseteq Consumers
    /\ lock \subseteq {"fill"}
    /\ fill_at \in {"idle", "pool", "lock", "read"}
    /\ at \in [Consumers -> {"out", "start", "in", "stop"}]

\* media/demuxer.h:68-75: count is the number of clients using the resource,
\* between 0 and the number of clients.
CountExact == count = Cardinality(Holders)

\* resource.c:508-511: the last r_close resets the queue when nobody consumes from
\* it, and no client gets hold of the resource until that is done.
ResetAlone ==
    \A c \in Consumers : at[c] = "stop" => attached = {} /\ Holders = {}

\* resource.c:493-495: a client that holds the resource has a fill thread, until the
\* source ends; after the last r_close no thread reads and no buffer is kept, so that
\* the next client starts with an empty queue.
FedWhileUsed ==
    /\ \A c \in Consumers :
          at[c] = "in" => fill_pool /\ (eor \/ job \/ fill_at # "idle")
    /\ (\A c \in Consumers : at[c] = "out") =>
          ~fill_pool /\ ~job /\ fill_at = "idle" /\ BQ!Head = BQ!NULL

\* r_close of the last client comes back, however long the source goes on.
CloseReturns == \A c \in Consumers : at[c] = "stop" ~> at[c] = "out"
=============================================================================
