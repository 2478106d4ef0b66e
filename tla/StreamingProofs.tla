-------------------------- MODULE StreamingProofs --------------------------
(***************************************************************************)
(* Proofs about Streaming, for any number of sessions, any length of the     *)
(* media and any number of packets.                                          *)
(***************************************************************************)
EXTENDS Streaming, FiniteSetTheorems, SequenceTheorems, TLAPS

\* The queue of the track, with what is proved about it.
QP == INSTANCE BufferQueueLogProofs

\* The two names of finiteness and cardinality mean the same.
LEMMA SameSets ==
    \A S : (IsFiniteSet(S) <=> QP!IsFiniteSet(S)) /\ Cardinality(S) = QP!Cardinality(S)
<1>1. \A S : IsFiniteSet(S) <=> QP!IsFiniteSet(S)
  BY DEF IsFiniteSet, QP!IsFiniteSet
<1>2. \A S : Cardinality(S) = QP!Cardinality(S)
  BY DEF Cardinality, QP!Cardinality
<1> QED BY <1>1, <1>2

\* The media of a stored resource is not numbered by its source.
LEMMA Stored == QP!NoWrap
BY StreamingAssumption DEF QP!NoWrap

(***************************************************************************)
(* Both threads only ever call the queue's functions.                        *)
(***************************************************************************)

\* The functions of the queue a stored resource uses, by either name of the queue.
LEMMA SameQueue ==
    /\ BQ!bq_producer_put <=> QP!bq_producer_put
    /\ BQ!bq_producer_reset_queue <=> QP!bq_producer_reset_queue
    /\ BQ!bq_producer_unref <=> QP!bq_producer_unref
    /\ \A c : BQ!bq_consumer_new(c) <=> QP!bq_consumer_new(c)
    /\ \A c : BQ!bq_consumer_get(c) <=> QP!bq_consumer_get(c)
    /\ \A c : BQ!bq_consumer_move(c) <=> QP!bq_consumer_move(c)
    /\ \A c : BQ!bq_consumer_free(c) <=> QP!bq_consumer_free(c)
    /\ \A c : BQ!FreeMoveAll(c) <=> QP!FreeMoveAll(c)
    /\ \A c : BQ!bq_decrement_seen_on_free(c) <=> QP!bq_decrement_seen_on_free(c)
    /\ \A c : BQ!bq_consumer_confirm_pointer(c) = QP!bq_consumer_confirm_pointer(c)
<1> USE DEF BQ!cursorVars, QP!cursorVars, BQ!producerVars, QP!producerVars, BQ!NULL, QP!NULL,
            BQ!Unlocked, QP!Unlocked
<1>1. BQ!bq_producer_put <=> QP!bq_producer_put
  BY DEF BQ!bq_producer_put, QP!bq_producer_put, BQ!OfferedSeqNo, QP!OfferedSeqNo
<1>2. BQ!bq_producer_reset_queue <=> QP!bq_producer_reset_queue
  BY DEF BQ!bq_producer_reset_queue, QP!bq_producer_reset_queue,
     BQ!bq_producer_reset_queue_internal, QP!bq_producer_reset_queue_internal
<1>3. \A c : BQ!bq_consumer_new(c) <=> QP!bq_consumer_new(c)
  BY DEF BQ!bq_consumer_new, QP!bq_consumer_new
<1>4. \A c : BQ!bq_consumer_free(c) <=> QP!bq_consumer_free(c)
  BY DEF BQ!bq_consumer_free, QP!bq_consumer_free
<1>5. \A c : BQ!bq_decrement_seen_on_free(c) <=> QP!bq_decrement_seen_on_free(c)
  BY DEF BQ!bq_decrement_seen_on_free, QP!bq_decrement_seen_on_free
<1>6. \A c : BQ!Target(c) = QP!Target(c)
  BY DEF BQ!Target, QP!Target, BQ!bq_consumer_confirm_pointer, QP!bq_consumer_confirm_pointer,
     BQ!Head, QP!Head, BQ!Next_, QP!Next_, BQ!NotYetReturned, QP!NotYetReturned
<1>7. \A c : BQ!bq_consumer_confirm_pointer(c) = QP!bq_consumer_confirm_pointer(c)
  BY DEF BQ!bq_consumer_confirm_pointer, QP!bq_consumer_confirm_pointer, BQ!Head, QP!Head
<1>8. \A p : BQ!UnrefFault(p) = QP!UnrefFault(p)
  BY DEF BQ!UnrefFault, QP!UnrefFault, BQ!UnrefAssertions, QP!UnrefAssertions
<1>9. \A p : BQ!bq_consumer_elem_unref(p) <=> QP!bq_consumer_elem_unref(p)
  BY DEF BQ!bq_consumer_elem_unref, QP!bq_consumer_elem_unref,
     BQ!bq_producer_destroy_head, QP!bq_producer_destroy_head
<1>10. \A c, t : BQ!PlaceCursor(c, t) <=> QP!PlaceCursor(c, t)
  BY DEF BQ!PlaceCursor, QP!PlaceCursor
<1>11. \A c : BQ!bq_consumer_move_internal(c) <=> QP!bq_consumer_move_internal(c)
  BY <1>6, <1>7, <1>8, <1>9, <1>10
     DEF BQ!bq_consumer_move_internal, QP!bq_consumer_move_internal
<1>12. \A c : BQ!bq_consumer_move(c) <=> QP!bq_consumer_move(c)
  BY <1>11 DEF BQ!bq_consumer_move, QP!bq_consumer_move
<1>13. \A c : BQ!FreeMoveAll(c) <=> QP!FreeMoveAll(c)
  BY <1>6, <1>11 DEF BQ!FreeMoveAll, QP!FreeMoveAll
<1>14. \A c : BQ!bq_consumer_get(c) <=> QP!bq_consumer_get(c)
  BY <1>7, <1>11 DEF BQ!bq_consumer_get, QP!bq_consumer_get
<1>15. BQ!bq_producer_unref <=> QP!bq_producer_unref
  BY DEF BQ!bq_producer_unref, QP!bq_producer_unref
<1> QED BY <1>1, <1>2, <1>3, <1>4, <1>5, <1>7, <1>12, <1>13, <1>14, <1>15

(***************************************************************************)
(* Lists of sessions.                                                        *)
(***************************************************************************)

Elems(q) == {q[i] : i \in 1..Len(q)}

Distinct(q) == \A i, j \in 1..Len(q) : q[i] = q[j] => i = j

LEMMA EmptyList == Elems(<<>>) = {} /\ Distinct(<<>>)
BY DEF Elems, Distinct

LEMMA ListOf ==
    ASSUME NEW S, NEW q \in Seq(S)
    PROVE  Elems(q) \subseteq S /\ (q # <<>> => q[1] \in Elems(q) /\ q[1] = Head(q))
BY DEF Elems

LEMMA AppendToList ==
    ASSUME NEW S, NEW q \in Seq(S), NEW x \in S
    PROVE  /\ Append(q, x) \in Seq(S) /\ Append(q, x) # <<>>
           /\ Len(Append(q, x)) = Len(q) + 1
           /\ Elems(Append(q, x)) = Elems(q) \cup {x}
           /\ Distinct(q) /\ x \notin Elems(q) => Distinct(Append(q, x))
<1>1. /\ Append(q, x) \in Seq(S) /\ Len(Append(q, x)) = Len(q) + 1 /\ Len(q) \in Nat
      /\ Append(q, x)[Len(q) + 1] = x
      /\ \A i \in 1..Len(q) : Append(q, x)[i] = q[i]
  OBVIOUS
<1>2. Elems(Append(q, x)) = Elems(q) \cup {x}
  BY <1>1 DEF Elems
<1>3. Distinct(q) /\ x \notin Elems(q) => Distinct(Append(q, x))
  BY <1>1 DEF Elems, Distinct
<1> QED BY <1>1, <1>2, <1>3

LEMMA TailOfList ==
    ASSUME NEW S, NEW q \in Seq(S), q # <<>>
    PROVE  /\ Tail(q) \in Seq(S)
           /\ Len(q) > 1 \/ Len(q) = 1
           /\ Len(q) = 1 => ~(Len(q) > 1) /\ Tail(q) = <<>>
           /\ Len(q) > 1 => Tail(q) # <<>>
           /\ Elems(q) = Elems(Tail(q)) \cup {q[1]}
           /\ Distinct(q) => Distinct(Tail(q)) /\ q[1] \notin Elems(Tail(q))
<1>1. /\ Tail(q) \in Seq(S) /\ Len(q) \in Nat /\ Len(q) > 0 /\ Len(Tail(q)) = Len(q) - 1
      /\ \A i \in 1..Len(Tail(q)) : Tail(q)[i] = q[i + 1]
  OBVIOUS
<1>2. \A r \in Seq(S) : r = <<>> <=> Len(r) = 0
  BY EmptySeq
<1>3. (Len(q) = 1 => Tail(q) = <<>>) /\ (Len(q) > 1 => Tail(q) # <<>>)
  <2>1. Tail(q) = <<>> <=> Len(q) - 1 = 0
    BY <1>1, <1>2
  <2> QED BY <1>1, <2>1
<1>4. Elems(q) = Elems(Tail(q)) \cup {q[1]}
  <2>1. ASSUME NEW i \in 1..Len(q) PROVE q[i] \in Elems(Tail(q)) \cup {q[1]}
    <3>1. i # 1 => i - 1 \in 1..Len(Tail(q)) /\ Tail(q)[i - 1] = q[i]
      BY <1>1
    <3> QED BY <3>1 DEF Elems
  <2>2. ASSUME NEW i \in 1..Len(Tail(q)) PROVE Tail(q)[i] \in Elems(q)
    <3>1. i + 1 \in 1..Len(q) /\ Tail(q)[i] = q[i + 1]
      BY <1>1
    <3> QED BY <3>1 DEF Elems
  <2>3. q[1] \in Elems(q)
    BY <1>1 DEF Elems
  <2> QED BY <2>1, <2>2, <2>3 DEF Elems
<1>5. ASSUME Distinct(q) PROVE Distinct(Tail(q)) /\ q[1] \notin Elems(Tail(q))
  BY <1>1, <1>5 DEF Distinct, Elems
<1> QED BY <1>1, <1>3, <1>4, <1>5

(***************************************************************************)
(* The control state of both threads.  A handler goes through a list of      *)
(* sessions whose consumers are alive; without a pool there is no job and,   *)
(* once the client's thread has waited, no fill thread; only sessions of a   *)
(* playing client have timers.                                               *)
(***************************************************************************)

Pausing == {"pause", "pausewait", "paused"}
Leaving == {"free", "freewait", "leave", "close"}
InTimer == {"empty", "send", "next", "fill"}

OwnTypes ==
    /\ seekable \in BOOLEAN
    /\ lock \in {"free", "client", "fill"}
    /\ fill_pool \in BOOLEAN /\ eor \in BOOLEAN /\ ended \in BOOLEAN
    /\ jobs \in Seq(Consumers) /\ fill_for \in Consumers
    /\ fill_at \in {"idle", "pool", "unseen", "lock", "read"}
    /\ fragments \in 0..(MaxFragments - 1) /\ pos \in 0..MediaLength
    /\ state \in {"INIT", "READY", "PLAYING", "CLOSED"}
    /\ sessions \in Seq(Consumers) /\ todo \in Seq(Consumers)
    /\ at \in {"loop", "resume"} \cup Pausing \cup Leaving \cup InTimer
    /\ at # "loop" /\ at # "close" => todo # <<>>

\* The sessions are the consumers of the track, and a handler still has those it has
\* to go through.
ListInv ==
    /\ Distinct(sessions) /\ Distinct(todo)
    /\ attached \subseteq Elems(sessions)
    /\ at \notin Leaving => Elems(sessions) \subseteq attached
    /\ at \notin {"loop", "close"} => Elems(todo) \subseteq attached
    /\ state \in {"READY", "PLAYING"} => sessions # <<>>
    /\ state = "CLOSED" => sessions = <<>>
    /\ at = "close" => todo = <<>>

\* r_pause leaves no job, and after the wait no thread.
PoolInv ==
    /\ ~fill_pool => jobs = <<>>
    /\ ~fill_pool /\ at \notin {"pausewait", "freewait"} => fill_at = "idle"
    /\ at \in {"pausewait", "freewait", "leave"} => ~fill_pool
    /\ Elems(jobs) \subseteq attached
    /\ fill_at # "idle" => fill_for \in attached

\* Which timers may be armed.
TimerInv ==
    /\ writing \subseteq Elems(sessions)
    /\ state # "PLAYING" => writing = {}
    /\ at = "resume" => state = "PLAYING"
    /\ at \in Pausing \cup Leaving => writing \subseteq Elems(todo)
    /\ at = "leave" => Session \notin writing
    /\ at \in InTimer => Session \in writing

ControlInv ==
    /\ OwnTypes
    /\ ListInv
    /\ PoolInv
    /\ TimerInv
    /\ attached \subseteq Consumers

LEMMA ControlInit == Init => ControlInv
<1> SUFFICES ASSUME Init PROVE ControlInv
  OBVIOUS
<1>1. /\ seekable \in BOOLEAN /\ lock = "free" /\ fill_pool = FALSE /\ jobs = <<>>
      /\ fill_at = "idle" /\ fill_for \in Consumers /\ eor = FALSE /\ fragments = 0
      /\ pos = 0 /\ ended = FALSE
      /\ state = "INIT" /\ sessions = <<>> /\ writing = {} /\ at = "loop" /\ todo = <<>>
      /\ attached = {}
  BY DEF Init, BQ!Init
<1>2. OwnTypes
  <2>1. fragments \in 0..(MaxFragments - 1) /\ pos \in 0..MediaLength
    BY <1>1, StreamingAssumption
  <2>2. <<>> \in Seq(Consumers)
    BY EmptySeq
  <2> QED BY <1>1, <2>1, <2>2 DEF OwnTypes
<1> QED BY <1>1, <1>2, EmptyList DEF ControlInv, ListInv, PoolInv, TimerInv, Leaving, Pausing,
           InTimer

\* RTSP_setup (rtsp_method_setup.c:234-340): a session is a new consumer.
LEMMA SetupControl ==
    ASSUME ControlInv, NEW s \in Consumers, RTSP_setup(s), UNCHANGED seekable
    PROVE  ControlInv'
<1>1. /\ at = "loop" /\ state # "CLOSED" /\ s \notin attached /\ attached' = attached \cup {s}
      /\ sessions' = Append(sessions, s)
      /\ state' = IF state = "INIT" THEN "READY" ELSE state
      /\ UNCHANGED <<lock, fill_pool, jobs, fill_at, fill_for, eor, fragments, pos, ended, writing, at,
                     todo, seekable>>
  BY DEF RTSP_setup, BQ!bq_consumer_new, fillVars, poolVars
<1>2. OwnTypes /\ ListInv /\ PoolInv /\ TimerInv /\ attached \subseteq Consumers
  BY DEF ControlInv
<1>3. s \notin Elems(sessions)
  BY <1>1, <1>2 DEF ListInv, Leaving
<1>4. /\ sessions' \in Seq(Consumers) /\ sessions' # <<>>
      /\ Elems(sessions') = Elems(sessions) \cup {s} /\ Distinct(sessions')
  BY <1>1, <1>2, <1>3, AppendToList DEF OwnTypes, ListInv
<1>5. OwnTypes'
  BY <1>1, <1>2, <1>4 DEF OwnTypes
<1>6. ListInv'
  BY <1>1, <1>2, <1>4 DEF ListInv, OwnTypes
<1>7. PoolInv'
  BY <1>1, <1>2 DEF PoolInv
<1>8. TimerInv'
  BY <1>1, <1>2, <1>4 DEF TimerInv, OwnTypes, Session
<1> QED BY <1>1, <1>2, <1>5, <1>6, <1>7, <1>8 DEF ControlInv

\* PLAY: every session is resumed, whether the media was positioned or not.
LEMMA PlayControl ==
    ASSUME ControlInv, at = "loop", state = "READY", StartPlaying, pos' \in 0..MediaLength,
           ended' \in BOOLEAN,
           UNCHANGED <<attached, fill_at, fill_for, eor, fragments, poolVars, seekable>>
    PROVE  ControlInv'
<1>1. /\ state' = "PLAYING" /\ at' = "resume" /\ todo' = sessions
      /\ UNCHANGED <<sessions, writing, lock, fill_pool, jobs>>
  BY DEF StartPlaying, poolVars
<1>2. OwnTypes /\ ListInv /\ PoolInv /\ TimerInv /\ attached \subseteq Consumers
  BY DEF ControlInv
<1>3. OwnTypes'
  BY <1>1, <1>2 DEF OwnTypes, ListInv
<1>4. ListInv' /\ PoolInv' /\ TimerInv'
  BY <1>1, <1>2 DEF ListInv, PoolInv, TimerInv, Leaving, Pausing, InTimer
<1> QED BY <1>2, <1>3, <1>4 DEF ControlInv

\* rtsp_do_pause, rtsp_session_free: the handler starts with all sessions.
LEMMA ListControl ==
    ASSUME ControlInv, rtsp_do_pause \/ rtsp_session_free, UNCHANGED seekable
    PROVE  ControlInv'
<1>1. /\ at = "loop" /\ todo' = sessions
      /\ \/ state = "PLAYING" /\ at' = "pause"
         \/ sessions # <<>> /\ at' = "free"
         \/ sessions = <<>> /\ at' = "close"
      /\ UNCHANGED <<lock, fill_pool, jobs, fill_at, fill_for, eor, fragments, pos, ended, writing,
                     sessions, state, seekable, attached>>
  BY DEF rtsp_do_pause, rtsp_session_free, fillVars, poolVars, queueVars
<1>2. OwnTypes /\ ListInv /\ PoolInv /\ TimerInv /\ attached \subseteq Consumers
  BY DEF ControlInv
<1>3. OwnTypes'
  BY <1>1, <1>2 DEF OwnTypes, ListInv, Pausing, Leaving
<1>4. ListInv'
  BY <1>1, <1>2 DEF ListInv, Leaving
<1>5. PoolInv'
  BY <1>1, <1>2 DEF PoolInv
<1>6. TimerInv'
  BY <1>1, <1>2 DEF TimerInv, Leaving, Pausing, InTimer
<1> QED BY <1>1, <1>2, <1>3, <1>4, <1>5, <1>6 DEF ControlInv

\* What is left when a handler is done with a session.
LEMMA NextSessionFacts ==
    ASSUME ControlInv, at # "loop", at # "close", NEW again, NEW done, NextSession(again, done)
    PROVE  /\ Session \in Elems(todo) /\ Session \in attached /\ Session \in Consumers
           /\ todo' \in Seq(Consumers) /\ Elems(todo) = Elems(todo') \cup {Session}
           /\ Distinct(todo') /\ Session \notin Elems(todo')
           /\ \/ at' = again /\ todo' # <<>> /\ Len(todo) # 1
              \/ at' = done /\ todo' = <<>> /\ Len(todo) = 1
<1>1. todo \in Seq(Consumers) /\ todo # <<>> /\ Distinct(todo) /\ Elems(todo) \subseteq attached
      /\ attached \subseteq Consumers
  BY DEF ControlInv, OwnTypes, ListInv
<1>2. todo' = Tail(todo) /\ at' = IF Len(todo) > 1 THEN again ELSE done
  BY DEF NextSession
<1>3. /\ todo' \in Seq(Consumers)
      /\ Elems(todo) = Elems(todo') \cup {Session}
      /\ Distinct(todo') /\ Session \notin Elems(todo')
  BY <1>1, <1>2, TailOfList DEF Session
<1>4. \/ at' = again /\ todo' # <<>> /\ Len(todo) # 1
      \/ at' = done /\ todo' = <<>> /\ Len(todo) = 1
  <2>1. CASE Len(todo) > 1
    <3>1. todo' # <<>> /\ Len(todo) # 1
      BY <1>1, <1>2, <2>1, TailOfList
    <3> QED BY <1>2, <2>1, <3>1
  <2>2. CASE Len(todo) = 1
    <3>1. todo' = <<>> /\ ~(Len(todo) > 1)
      BY <1>1, <1>2, <2>2, TailOfList
    <3> QED BY <1>2, <2>2, <3>1
  <2> QED BY <1>1, <2>1, <2>2, TailOfList
<1>5. Session \in Elems(todo)
  BY <1>1, ListOf DEF Session
<1> QED BY <1>1, <1>3, <1>4, <1>5

\* rtp_session_resume (rtp.c:362-418), with r_resume and r_fill.
LEMMA ResumeControl ==
    ASSUME ControlInv, rtp_session_resume, UNCHANGED seekable
    PROVE  ControlInv'
<1>1. /\ at = "resume" /\ fill_pool' = TRUE /\ jobs' = Append(jobs, Session)
      /\ writing' = writing \cup {Session} /\ NextSession("resume", "loop")
      /\ UNCHANGED <<fill_at, fill_for, eor, fragments, pos, ended, lock, state, sessions, seekable,
                     attached>>
  BY DEF rtp_session_resume, fillVars, queueVars
<1>2. OwnTypes /\ ListInv /\ PoolInv /\ TimerInv /\ attached \subseteq Consumers
  BY DEF ControlInv
<1>3. /\ Session \in Elems(todo) /\ Session \in attached /\ Session \in Consumers
      /\ todo' \in Seq(Consumers) /\ Elems(todo) = Elems(todo') \cup {Session}
      /\ Distinct(todo')
      /\ \/ at' = "resume" /\ todo' # <<>>
         \/ at' = "loop" /\ todo' = <<>>
  BY <1>1, NextSessionFacts
<1>4. jobs' \in Seq(Consumers) /\ Elems(jobs') = Elems(jobs) \cup {Session}
  BY <1>1, <1>2, <1>3, AppendToList DEF OwnTypes
<1>5. OwnTypes'
  BY <1>1, <1>2, <1>3, <1>4 DEF OwnTypes
<1>6. ListInv'
  BY <1>1, <1>2, <1>3 DEF ListInv, Leaving
<1>7. PoolInv'
  BY <1>1, <1>2, <1>3, <1>4 DEF PoolInv
<1>8. TimerInv'
  BY <1>1, <1>2, <1>3 DEF TimerInv, ListInv, Leaving, Pausing, InTimer
<1> QED BY <1>1, <1>2, <1>5, <1>6, <1>7, <1>8 DEF ControlInv

\* r_pause, in a pause and in a free: after it neither a job nor a thread is left.
LEMMA PauseControl ==
    ASSUME ControlInv, rtp_session_pause \/ rtp_session_free, UNCHANGED seekable
    PROVE  ControlInv'
<1>1. /\ \/ /\ at = "pause" /\ fill_pool /\ ~fill_pool' /\ fill_pool' \in BOOLEAN
            /\ jobs' = <<>> /\ at' = "pausewait" /\ lock' = "client"
         \/ /\ at = "pause" /\ ~fill_pool /\ at' = "paused"
            /\ UNCHANGED <<lock, fill_pool, jobs>>
         \/ /\ at = "pausewait" /\ fill_at = "idle" /\ at' = "paused" /\ lock' = "free"
            /\ UNCHANGED <<fill_pool, jobs>>
         \/ /\ at = "free" /\ fill_pool /\ ~fill_pool' /\ fill_pool' \in BOOLEAN
            /\ jobs' = <<>> /\ at' = "freewait" /\ lock' = "client"
         \/ /\ at = "free" /\ ~fill_pool /\ at' = "leave"
            /\ UNCHANGED <<lock, fill_pool, jobs>>
         \/ /\ at = "freewait" /\ fill_at = "idle" /\ at' = "leave" /\ lock' = "free"
            /\ UNCHANGED <<fill_pool, jobs>>
      /\ at \in {"pause", "pausewait"} => writing' = writing
      /\ at \in {"free", "freewait"} => writing' = writing \ {Session}
      /\ UNCHANGED <<fill_at, fill_for, eor, fragments, pos, ended, state, sessions, todo, seekable,
                     attached>>
  BY DEF rtp_session_pause, rtp_session_free, r_pause, PoolFreed, fillVars, poolVars, queueVars
<1>2. OwnTypes /\ ListInv /\ PoolInv /\ TimerInv /\ attached \subseteq Consumers
  BY DEF ControlInv
<1>3. OwnTypes'
  <2>1. at \in Pausing \cup Leaving /\ at' \in (Pausing \cup Leaving) \ {"close"} /\ at # "close"
    BY <1>1 DEF Pausing, Leaving
  <2>2. at # "loop"
    BY <1>1
  <2>3. lock' \in {"free", "client", "fill"} /\ fill_pool' \in BOOLEAN /\ jobs' \in Seq(Consumers)
    BY <1>1, <1>2, EmptySeq DEF OwnTypes
  <2>4. todo' = todo /\ todo # <<>>
    BY <1>1, <1>2, <2>1, <2>2 DEF OwnTypes
  <2> QED BY <1>1, <1>2, <2>1, <2>3, <2>4 DEF OwnTypes
<1>4. ListInv'
  BY <1>1, <1>2 DEF ListInv, Leaving
<1>5. PoolInv'
  BY <1>1, <1>2, EmptyList DEF PoolInv
<1>6. TimerInv'
  BY <1>1, <1>2 DEF TimerInv, Session, Leaving, Pausing, InTimer
<1> QED BY <1>1, <1>2, <1>3, <1>4, <1>5, <1>6 DEF ControlInv

\* The timer of a paused session is stopped.
LEMMA PausedControl ==
    ASSUME ControlInv, SessionPaused, UNCHANGED seekable
    PROVE  ControlInv'
<1>1. /\ at = "paused" /\ writing' = writing \ {Session} /\ NextSession("pause", "loop")
      /\ state' = IF Len(todo) = 1 THEN "READY" ELSE state
      /\ UNCHANGED <<fill_at, fill_for, eor, fragments, pos, ended, lock, fill_pool, jobs, sessions,
                     seekable, attached>>
  BY DEF SessionPaused, fillVars, poolVars, queueVars
<1>2. OwnTypes /\ ListInv /\ PoolInv /\ TimerInv /\ attached \subseteq Consumers
  BY DEF ControlInv
<1>3. /\ Session \in Elems(todo) /\ Session \in attached
      /\ todo' \in Seq(Consumers) /\ Elems(todo) = Elems(todo') \cup {Session}
      /\ Distinct(todo')
      /\ \/ at' = "pause" /\ todo' # <<>> /\ state' = state
         \/ at' = "loop" /\ todo' = <<>> /\ state' = "READY"
  BY <1>1, NextSessionFacts
<1>4. sessions # <<>>
  BY <1>2, <1>3, EmptyList DEF ListInv
<1>5. OwnTypes'
  BY <1>1, <1>2, <1>3 DEF OwnTypes, Pausing
<1>6. ListInv'
  BY <1>1, <1>2, <1>3, <1>4 DEF ListInv, Leaving
<1>7. PoolInv'
  BY <1>1, <1>2, <1>3 DEF PoolInv
<1>8. TimerInv'
  BY <1>1, <1>2, <1>3, EmptyList DEF TimerInv, Leaving, Pausing, InTimer
<1> QED BY <1>1, <1>2, <1>5, <1>6, <1>7, <1>8 DEF ControlInv

\* bq_consumer_free: the consumer goes when nothing refers to it any more.
LEMMA LeaveControl ==
    ASSUME ControlInv, FreeConsumer, UNCHANGED seekable
    PROVE  ControlInv'
<1>1. /\ at = "leave"
      /\ \/ UNCHANGED <<attached, at, todo>>
         \/ attached' = attached \ {Session} /\ NextSession("free", "close")
      /\ UNCHANGED <<fill_at, fill_for, eor, fragments, pos, ended, lock, fill_pool, jobs, state, sessions,
                     writing, seekable>>
  BY DEF FreeConsumer, BQ!bq_consumer_free, BQ!FreeMoveAll, BQ!bq_decrement_seen_on_free,
     fillVars, poolVars
<1>2. OwnTypes /\ ListInv /\ PoolInv /\ TimerInv /\ attached \subseteq Consumers
  BY DEF ControlInv
<1>3. ~fill_pool /\ jobs = <<>> /\ fill_at = "idle"
  BY <1>1, <1>2 DEF PoolInv
<1>4. CASE UNCHANGED <<attached, at, todo>>
  BY <1>1, <1>2, <1>4 DEF ControlInv, OwnTypes, ListInv, PoolInv, TimerInv, Session
<1>5. CASE attached' = attached \ {Session} /\ NextSession("free", "close")
  <2>1. /\ todo' \in Seq(Consumers) /\ Elems(todo) = Elems(todo') \cup {Session}
        /\ Distinct(todo') /\ Session \notin Elems(todo')
        /\ \/ at' = "free" /\ todo' # <<>>
           \/ at' = "close" /\ todo' = <<>>
    BY <1>1, <1>5, NextSessionFacts
  <2>2. OwnTypes'
    BY <1>1, <1>2, <2>1 DEF OwnTypes, Leaving
  <2>3. ListInv'
    BY <1>1, <1>2, <1>5, <2>1 DEF ListInv, Leaving
  <2>4. PoolInv'
    BY <1>1, <1>3, <2>1, EmptyList DEF PoolInv
  <2>5. TimerInv'
    BY <1>1, <1>2, <2>1 DEF TimerInv, Leaving, Pausing, InTimer
  <2> QED BY <1>2, <1>5, <2>2, <2>3, <2>4, <2>5 DEF ControlInv
<1> QED BY <1>1, <1>4, <1>5

\* r_free: the resource goes with its queue and its pool.
LEMMA CloseControl ==
    ASSUME ControlInv, r_free, UNCHANGED seekable
    PROVE  ControlInv'
<1>1. /\ at = "close" /\ fill_at = "idle" /\ attached = {} /\ ~fill_pool'
      /\ fill_pool' \in BOOLEAN /\ jobs' = <<>>
      /\ state' = "CLOSED" /\ at' = "loop" /\ sessions' = <<>>
      /\ UNCHANGED <<fill_at, fill_for, eor, fragments, pos, ended, lock, writing, todo, seekable, attached>>
  BY DEF r_free, BQ!bq_producer_unref, fillVars
<1>2. OwnTypes /\ ListInv /\ PoolInv /\ TimerInv
  BY DEF ControlInv
<1>3. writing = {}
  BY <1>1, <1>2, EmptyList DEF TimerInv, ListInv, Leaving
<1>4. OwnTypes'
  BY <1>1, <1>2, EmptySeq DEF OwnTypes
<1>5. ListInv' /\ PoolInv' /\ TimerInv'
  BY <1>1, <1>2, <1>3, EmptyList DEF ListInv, PoolInv, TimerInv, Leaving, Pausing, InTimer
<1> QED BY <1>1, <1>4, <1>5 DEF ControlInv

\* rtp_write_cb (rtp.c:250-355), until it is back in the event loop.
LEMMA TimerControl ==
    ASSUME ControlInv, UNCHANGED seekable,
           \/ \E s \in Consumers : rtp_write_cb(s)
           \/ NothingToRead \/ rtp_packet_send \/ ScheduleNext \/ r_fill
    PROVE  ControlInv'
<1>1. OwnTypes /\ ListInv /\ PoolInv /\ TimerInv /\ attached \subseteq Consumers
  BY DEF ControlInv
<1>2. UNCHANGED <<fill_at, fill_for, eor, fragments, pos, ended, lock, fill_pool, state, sessions,
                  attached, seekable>>
  BY DEF rtp_write_cb, NothingToRead, rtp_packet_send, ScheduleNext, r_fill, fillVars, poolVars,
     queueVars, BQ!bq_consumer_get, BQ!bq_consumer_move
<1>3. ASSUME NEW s \in Consumers, rtp_write_cb(s) PROVE ControlInv'
  <2>1. /\ at = "loop" /\ s \in writing /\ s \in attached /\ todo' = <<s>>
        /\ at' \in {"empty", "send"} /\ UNCHANGED <<jobs, writing>>
    BY <1>3 DEF rtp_write_cb, BQ!bq_consumer_get, poolVars
  <2>2. todo' \in Seq(Consumers) /\ todo' # <<>> /\ Elems(todo') = {s} /\ Distinct(todo')
        /\ Session' = s
    BY <2>1 DEF Elems, Distinct, Session
  <2>3. OwnTypes'
    BY <1>1, <1>2, <2>1, <2>2 DEF OwnTypes, InTimer
  <2>4. ListInv' /\ PoolInv' /\ TimerInv'
    BY <1>1, <1>2, <2>1, <2>2 DEF ListInv, PoolInv, TimerInv, Leaving, Pausing, InTimer
  <2> QED BY <1>1, <1>2, <2>3, <2>4 DEF ControlInv
<1>4. CASE NothingToRead \/ rtp_packet_send \/ ScheduleNext
  <2>1. /\ at \in InTimer /\ jobs' = jobs
        /\ \/ at' = "loop" /\ writing' = writing \ {Session} /\ todo' = <<>>
           \/ at' \in InTimer /\ UNCHANGED <<writing, todo>>
    BY <1>4 DEF NothingToRead, rtp_packet_send, ScheduleNext, poolVars, InTimer
  <2>2. OwnTypes'
    <3>1. todo' \in Seq(Consumers) /\ (at' # "loop" => todo' # <<>>)
      BY <1>1, <2>1, EmptySeq DEF OwnTypes, InTimer
    <3>2. at' \in {"loop", "resume"} \cup Pausing \cup Leaving \cup InTimer
      BY <2>1
    <3> QED BY <1>1, <1>2, <2>1, <3>1, <3>2 DEF OwnTypes
  <2>3. ListInv'
    BY <1>1, <1>2, <2>1, EmptyList DEF ListInv, Leaving, InTimer
  <2>4. PoolInv'
    BY <1>1, <1>2, <2>1 DEF PoolInv, InTimer
  <2>5. TimerInv'
    BY <1>1, <1>2, <2>1 DEF TimerInv, Session, Leaving, Pausing, InTimer
  <2> QED BY <1>1, <1>2, <2>2, <2>3, <2>4, <2>5 DEF ControlInv
<1>5. CASE r_fill
  <2>1. /\ at = "fill" /\ at' = "loop" /\ todo' = <<>> /\ writing' = writing
        /\ jobs' = IF fill_pool THEN Append(jobs, Session) ELSE jobs
    BY <1>5 DEF r_fill
  <2>2. Session \in attached /\ Session \in Consumers
    BY <1>1, <2>1, ListOf DEF ListInv, OwnTypes, Session, InTimer
  <2>3. jobs' \in Seq(Consumers) /\ Elems(jobs') \subseteq attached /\ (~fill_pool => jobs' = jobs)
    BY <1>1, <2>1, <2>2, AppendToList DEF OwnTypes, PoolInv
  <2>4. OwnTypes'
    BY <1>1, <1>2, <2>1, <2>3 DEF OwnTypes
  <2>5. ListInv' /\ PoolInv' /\ TimerInv'
    BY <1>1, <1>2, <2>1, <2>3, EmptyList DEF ListInv, PoolInv, TimerInv, Leaving, Pausing, InTimer
  <2> QED BY <1>1, <1>2, <2>4, <2>5 DEF ControlInv
<1> QED BY <1>3, <1>4, <1>5

\* r_read_cb (resource.c:411-452): the fill thread works for jobs it was given.
LEMMA FillControl ==
    ASSUME ControlInv, r_read_cb, UNCHANGED seekable
    PROVE  ControlInv'
<1>1. OwnTypes /\ ListInv /\ PoolInv /\ TimerInv /\ attached \subseteq Consumers
  BY DEF ControlInv
<1>2. UNCHANGED <<fill_pool, state, sessions, writing, at, todo, attached, seekable>>
  BY DEF r_read_cb, TakeJob, CheckPool, CheckUnseen, LockResource, ReadFragment, ReadPacket,
     WritePacket, EndOfResource, poolVars, clientVars, queueVars, BQ!bq_producer_put
<1>3. OwnTypes' /\ PoolInv'
  <2>1. CASE TakeJob
    <3>1. /\ jobs # <<>> /\ fill_for' = Head(jobs) /\ jobs' = Tail(jobs) /\ fill_at' = "pool"
          /\ UNCHANGED <<lock, eor, fragments, pos, ended>>
      BY <2>1 DEF TakeJob
    <3>2. /\ jobs' \in Seq(Consumers) /\ Elems(jobs) = Elems(jobs') \cup {fill_for'}
          /\ fill_for' \in Consumers
      BY <1>1, <3>1, TailOfList, ListOf DEF OwnTypes
    <3> QED BY <1>1, <1>2, <3>1, <3>2 DEF OwnTypes, PoolInv
  <2>2. CASE CheckPool \/ CheckUnseen \/ LockResource \/ EndOfResource
    <3>1. /\ fill_at # "idle" /\ fill_at' \in {"idle", "pool", "unseen", "lock", "read"}
          /\ lock' \in {"free", "client", "fill"} /\ eor' \in BOOLEAN /\ ended' \in BOOLEAN
          /\ fragments' \in {fragments, 0} /\ UNCHANGED <<jobs, fill_for, pos>>
      BY <1>1, <2>2 DEF CheckPool, CheckUnseen, LockResource, EndOfResource, OwnTypes, poolVars
    <3>2. fragments' \in 0..(MaxFragments - 1)
      BY <1>1, <3>1, StreamingAssumption DEF OwnTypes
    <3> QED BY <1>1, <1>2, <3>1, <3>2 DEF OwnTypes, PoolInv
  <2>3. CASE ReadFragment \/ ReadPacket
    <3>1. /\ fill_at = "read" /\ fill_at' \in {"idle", "pool", "read"}
          /\ lock' = "free" \/ lock' = lock
          /\ pos < MediaLength /\ pos' = pos + 1 /\ UNCHANGED <<jobs, fill_for, eor, ended>>
          /\ fragments' = 0 \/ (fragments + 1 < MaxFragments /\ fragments' = fragments + 1)
      <4>1. CASE ReadFragment
        BY <4>1 DEF ReadFragment, WritePacket
      <4>2. CASE ReadPacket
        BY <4>2 DEF ReadPacket, WritePacket
      <4> QED BY <2>3, <4>1, <4>2
    <3>2. fragments' \in 0..(MaxFragments - 1) /\ pos' \in 0..MediaLength
      BY <1>1, <3>1, StreamingAssumption DEF OwnTypes
    <3> QED BY <1>1, <1>2, <3>1, <3>2 DEF OwnTypes, PoolInv
  <2> QED BY <2>1, <2>2, <2>3 DEF r_read_cb
<1>4. ListInv' /\ TimerInv'
  BY <1>1, <1>2 DEF ListInv, TimerInv, Session
<1> QED BY <1>1, <1>2, <1>3, <1>4 DEF ControlInv

LEMMA ControlStep ==
    ASSUME ControlInv, [Next]_vars
    PROVE  ControlInv'
<1>1. ASSUME NEW s \in Consumers, RTSP_setup(s), UNCHANGED seekable PROVE ControlInv'
  BY <1>1, SetupControl
<1>2. ASSUME NEW time \in 0..(MediaLength - 1), do_play(time), UNCHANGED seekable
      PROVE  ControlInv'
  <2>1. time \in 0..MediaLength
    BY StreamingAssumption
  <2> QED BY <1>2, <2>1, PlayControl DEF do_play, r_seek, BQ!bq_producer_reset_queue
<1>3. CASE do_play_invalid /\ UNCHANGED seekable
  <2>1. UNCHANGED <<fillVars, poolVars, clientVars, attached, seekable>>
    BY <1>3 DEF do_play_invalid, r_seek, BQ!bq_producer_reset_queue
  <2> QED BY <2>1 DEF ControlInv, OwnTypes, ListInv, PoolInv, TimerInv, Session, fillVars,
             poolVars, clientVars
<1>4. CASE do_play_unseekable /\ UNCHANGED seekable
  BY <1>4, PlayControl DEF do_play_unseekable, queueVars, fillVars, ControlInv, OwnTypes
<1>5. CASE (rtsp_do_pause \/ rtsp_session_free) /\ UNCHANGED seekable
  BY <1>5, ListControl
<1>6. CASE Handler /\ UNCHANGED seekable
  BY <1>6, ResumeControl, PauseControl, PausedControl, LeaveControl, CloseControl, TimerControl
     DEF Handler
<1>7. ASSUME NEW s \in Consumers, rtp_write_cb(s), UNCHANGED seekable PROVE ControlInv'
  BY <1>7, TimerControl
<1>8. CASE r_read_cb /\ UNCHANGED seekable
  BY <1>8, FillControl
<1>9. CASE UNCHANGED vars
  BY <1>9 DEF vars, queueVars, fillVars, poolVars, clientVars, ControlInv, OwnTypes, ListInv,
     PoolInv, TimerInv, Session
<1> QED BY <1>1, <1>2, <1>3, <1>4, <1>5, <1>6, <1>7, <1>8, <1>9 DEF Next, Request

\* The invariant of the control state.
THEOREM ControlSafe == Spec => []ControlInv
<1> QED BY ControlInit, ControlStep, PTL DEF Spec

\* Playing uses the queue as BufferQueue describes it.
THEOREM StreamingUsesQueue == Spec => QP!Spec
<1>1. Init => QP!Init
  BY DEF Init, BQ!Init, QP!Init, BQ!NULL, QP!NULL
<1>2. [Next]_vars /\ ControlInv => [QP!Next]_(QP!vars)
  <2> SUFFICES ASSUME [Next]_vars, ControlInv PROVE QP!Next \/ UNCHANGED queueVars
    BY DEF queueVars, QP!vars, QP!producerVars, QP!cursorVars
  <2>1. CASE Request
    BY <2>1, SameQueue DEF Request, RTSP_setup, do_play, r_seek, do_play_invalid,
       do_play_unseekable, rtsp_do_pause, rtsp_session_free, QP!Next
  <2>2. CASE Handler
    <3>1. at # "loop" /\ at # "close" => Session \in Consumers
      BY ListOf DEF ControlInv, OwnTypes, Session
    <3>2. CASE FreeConsumer \/ r_free
      BY <3>1, <3>2, SameQueue DEF FreeConsumer, r_free, QP!Next
    <3>3. CASE rtp_packet_send \/ ScheduleNext
      BY <3>1, <3>3, SameQueue DEF rtp_packet_send, ScheduleNext, QP!Next
    <3> QED BY <2>2, <3>2, <3>3 DEF Handler, rtp_session_resume, rtp_session_pause,
               SessionPaused, rtp_session_free, NothingToRead, r_fill
  <2>3. ASSUME NEW s \in Consumers, rtp_write_cb(s) PROVE QP!Next
    BY <2>3, SameQueue DEF rtp_write_cb, QP!Next
  <2>4. CASE r_read_cb
    <3>1. BQ!bq_producer_put \/ UNCHANGED queueVars
      BY <2>4 DEF r_read_cb, TakeJob, CheckPool, CheckUnseen, LockResource, ReadFragment,
         ReadPacket, WritePacket, EndOfResource
    <3> QED BY <3>1, SameQueue DEF QP!Next
  <2>5. CASE UNCHANGED vars
    BY <2>5 DEF vars
  <2> QED BY <2>1, <2>2, <2>3, <2>4, <2>5 DEF Next
<1> QED BY <1>1, <1>2, ControlSafe, PTL DEF Spec, QP!Spec

(***************************************************************************)
(* What the queue guarantees.                                                *)
(***************************************************************************)

QueueShape ==
    /\ puts \in Nat /\ first \in Nat /\ 1 <= first /\ first <= puts + 1
    /\ DOMAIN elem = first..puts
    /\ attached \subseteq Consumers
    /\ c_queue_serial \in [Consumers -> Nat]
    /\ current \in [Consumers -> Nat]
    /\ fault \in {"none", "serial"}

\* A selection of the current generation passes bq_consumer_confirm_pointer.
SelectionConfirmed ==
    fault = "none" =>
        \A c \in attached :
            c_queue_serial[c] = queue_serial /\ current[c] # QP!NULL =>
                /\ QP!bq_consumer_confirm_pointer(c) = current[c]
                /\ current[c] \in DOMAIN elem

\* The cursor of a consumer, in the queue, counts what waits for it; a confirmed
\* selection is the cursor.
CursorShape ==
    fault = "none" =>
        \A c \in attached :
            /\ QP!Cursor(c) \in Nat /\ first <= QP!Cursor(c) /\ QP!Cursor(c) <= puts + 1
            /\ QP!Waiting(c) = puts + 1 - QP!Cursor(c)
            /\ QP!bq_consumer_confirm_pointer(c) # QP!NULL => QP!Cursor(c) = current[c]

QueueInv ==
    /\ QP!BookkeepingInv
    /\ QueueShape
    /\ SelectionConfirmed
    /\ CursorShape
    /\ QP!UnseenCoversWaiting

LEMMA QueueSafe == Spec => []QueueInv
<1>1. QP!Spec => []QP!BookkeepingInv
  BY QueueAssumption, SameSets, Stored, QP!BookkeepingSafe
<1>2. QP!BookkeepingInv => QueueShape
  <2> SUFFICES ASSUME QP!BookkeepingInv PROVE QueueShape
    OBVIOUS
  <2>1. QP!TypeOK /\ QP!NoCountFault
    BY DEF QP!BookkeepingInv
  <2> QED BY <2>1, QueueAssumption DEF QP!TypeOK, QP!NoCountFault, QueueShape
<1>3. QP!BookkeepingInv => SelectionConfirmed
  <2> SUFFICES ASSUME QP!BookkeepingInv, fault = "none", NEW c \in attached,
                      c_queue_serial[c] = queue_serial, current[c] # QP!NULL
               PROVE  /\ QP!bq_consumer_confirm_pointer(c) = current[c]
                      /\ current[c] \in DOMAIN elem
    BY DEF SelectionConfirmed
  <2>1. DOMAIN elem = first..puts
    BY QueueAssumption, SameSets, QP!QueueFacts
  <2>2. QP!bq_consumer_confirm_pointer(c) # QP!NULL
    BY QueueAssumption, SameSets, QP!ConfirmedPointer
  <2> QED BY <2>1, <2>2, QueueAssumption, SameSets, QP!ConfirmedPointer
<1>4. QP!BookkeepingInv => CursorShape
  <2> SUFFICES ASSUME QP!BookkeepingInv, fault = "none", NEW c \in attached
               PROVE  /\ QP!Cursor(c) \in Nat /\ first <= QP!Cursor(c)
                      /\ QP!Cursor(c) <= puts + 1
                      /\ QP!Waiting(c) = puts + 1 - QP!Cursor(c)
                      /\ QP!bq_consumer_confirm_pointer(c) # QP!NULL =>
                            QP!Cursor(c) = current[c]
    BY DEF CursorShape
  <2>1. QP!Cursor(c) \in Nat /\ first <= QP!Cursor(c) /\ QP!Cursor(c) <= puts + 1
    BY QueueAssumption, SameSets, QP!CursorRange
  <2>2. QP!Waiting(c) = puts + 1 - QP!Cursor(c)
    BY QueueAssumption, SameSets, QP!WaitingIs
  <2>3. QP!bq_consumer_confirm_pointer(c) # QP!NULL => QP!Cursor(c) = current[c]
    BY QueueAssumption, SameSets, QP!PointerIsCursor
  <2> QED BY <2>1, <2>2, <2>3
<1>5. QP!Spec => []QP!UnseenCoversWaiting
  BY QueueAssumption, SameSets, StreamingAssumption, QP!UnseenCoversWaitingSafe
<1>6. QP!BookkeepingInv /\ QP!UnseenCoversWaiting => QueueInv
  BY <1>2, <1>3, <1>4 DEF QueueInv
<1> QED BY <1>1, <1>5, <1>6, StreamingUsesQueue, PTL

\* resource.c, rtp.c: the track of a stored resource, between the fill thread that puts and the
\* writers that move, is a broadcast log: whatever both threads do, every session sees
\* every packet put since it joined, once and in order, and what nobody waits for is forgotten.
THEOREM StreamingImplementsLog == Spec => QP!ImplementsLog
<1>1. QP!Spec => QP!ImplementsLog
  BY QueueAssumption, SameSets, Stored, QP!QueueImplementsLog
<1> QED BY <1>1, StreamingUsesQueue

\* A move leaves a selection of the current generation, or none.
LEMMA MoveSelects ==
    ASSUME QueueInv, NEW s \in Consumers, QP!bq_consumer_move_internal(s), fault = "none",
           fault' \in {"none", "serial"}
    PROVE  /\ fault' = "none"
           /\ current'[s] # QP!NULL => c_queue_serial'[s] = queue_serial'
           /\ first' \in {first, first + 1}
<1>1. c_queue_serial \in [Consumers -> Nat] /\ current \in [Consumers -> Nat]
  BY DEF QueueInv, QueueShape
<1>2. fault' = "none"
  BY DEF QP!bq_consumer_move_internal, QP!UnrefFault
<1>3. ASSUME NEW t, QP!PlaceCursor(s, t), current'[s] # QP!NULL
      PROVE  c_queue_serial'[s] = queue_serial'
  BY <1>1, <1>3 DEF QP!PlaceCursor
<1>4. CASE QP!bq_consumer_confirm_pointer(s) = QP!NULL
  BY <1>2, <1>3, <1>4 DEF QP!bq_consumer_move_internal
<1>5. CASE QP!bq_consumer_confirm_pointer(s) # QP!NULL
  <2>1. QP!UnrefFault(QP!bq_consumer_confirm_pointer(s)) = "none"
    BY <1>2, <1>5 DEF QP!bq_consumer_move_internal
  <2>2. /\ QP!bq_consumer_elem_unref(QP!bq_consumer_confirm_pointer(s))
        /\ QP!PlaceCursor(s, QP!Target(s))
    BY <1>5, <2>1 DEF QP!bq_consumer_move_internal
  <2>3. first' \in {first, first + 1}
    BY <2>2 DEF QP!bq_consumer_elem_unref, QP!bq_producer_destroy_head
  <2> QED BY <1>2, <1>3, <2>2, <2>3
<1> QED BY <1>4, <1>5

\* What the calls of the client's thread do to the buffers and to one's selection.
LEMMA GetCall ==
    ASSUME QueueInv, QueueInv', NEW s \in Consumers, BQ!bq_consumer_get(s)
    PROVE  /\ QP!bq_consumer_get(s) /\ s \in attached /\ fault = "none" /\ fault' = "none"
           /\ UNCHANGED <<puts, attached>> /\ first' \in {first, first + 1}
           /\ current'[s] # QP!NULL => c_queue_serial'[s] = queue_serial'
<1>1. QP!bq_consumer_get(s)
  BY SameQueue
<1>2. /\ s \in attached /\ fault = "none" /\ UNCHANGED <<puts, attached>>
      /\ fault' \in {"none", "serial"}
  BY <1>1 DEF QP!bq_consumer_get, QP!Unlocked, QueueInv, QueueShape
<1>3. CASE QP!bq_consumer_confirm_pointer(s) = QP!NULL
  BY <1>1, <1>2, <1>3, MoveSelects DEF QP!bq_consumer_get
<1>4. CASE QP!bq_consumer_confirm_pointer(s) # QP!NULL
  <2>1. fault' = "none" /\ UNCHANGED <<first, c_queue_serial, current, queue_serial>>
    BY <1>1, <1>2, <1>4 DEF QP!bq_consumer_get, QP!cursorVars
  <2>2. c_queue_serial[s] = queue_serial
    BY <1>4 DEF QP!bq_consumer_confirm_pointer
  <2> QED BY <1>1, <1>2, <2>1, <2>2
<1> QED BY <1>3, <1>4

LEMMA MoveCall ==
    ASSUME QueueInv, QueueInv', NEW s \in Consumers, BQ!bq_consumer_move(s)
    PROVE  /\ QP!bq_consumer_move(s) /\ s \in attached /\ fault = "none" /\ fault' = "none"
           /\ UNCHANGED <<puts, attached>> /\ first' \in {first, first + 1}
           /\ current'[s] # QP!NULL => c_queue_serial'[s] = queue_serial'
<1>1. QP!bq_consumer_move(s)
  BY SameQueue
<1>2. /\ s \in attached /\ fault = "none" /\ UNCHANGED <<puts, attached>>
      /\ fault' \in {"none", "serial"} /\ QP!bq_consumer_move_internal(s)
  BY <1>1 DEF QP!bq_consumer_move, QP!Unlocked, QueueInv, QueueShape
<1> QED BY <1>1, <1>2, MoveSelects

LEMMA FreeCall ==
    ASSUME QueueInv, QueueInv', NEW s \in Consumers,
           BQ!bq_consumer_free(s) \/ BQ!FreeMoveAll(s) \/ BQ!bq_decrement_seen_on_free(s)
    PROVE  /\ puts' = puts /\ first' \in {first, first + 1}
<1>1. CASE BQ!bq_consumer_free(s)
  BY <1>1 DEF BQ!bq_consumer_free, BQ!producerVars
<1>2. CASE BQ!FreeMoveAll(s)
  <2>1. QP!bq_consumer_move_internal(s) /\ fault = "none" /\ puts' = puts
    BY <1>2, SameQueue DEF QP!FreeMoveAll
  <2>2. fault' \in {"none", "serial"}
    BY DEF QueueInv, QueueShape
  <2> QED BY <2>1, <2>2, MoveSelects
<1>3. CASE BQ!bq_decrement_seen_on_free(s)
  BY <1>3 DEF BQ!bq_decrement_seen_on_free
<1> QED BY <1>1, <1>2, <1>3

(***************************************************************************)
(* The packets in the queue are consecutive and end before the demuxer's     *)
(* position, and what rtp_write_cb holds without a lock stays queued: only   *)
(* this thread moves its cursor, and no other call frees what it has not     *)
(* passed.                                                                   *)
(***************************************************************************)

PayloadInv ==
    /\ payload \in [DOMAIN elem -> 0..(MediaLength - 1)]
    /\ \A p \in DOMAIN elem : payload[p] = pos - (puts + 1 - p)

HeldInv ==
    at \in {"send", "next"} =>
        /\ current[Session] \in DOMAIN elem
        /\ QP!bq_consumer_confirm_pointer(Session) = current[Session]

PacketInv ==
    /\ PayloadInv
    /\ HeldInv
    /\ due \in [Consumers -> AnyPacket..MediaLength]

LEMMA PacketInit == Init => PacketInv
<1> SUFFICES ASSUME Init PROVE PacketInv
  OBVIOUS
<1>1. payload = <<>> /\ DOMAIN elem = {} /\ at = "loop" /\ due = [s \in Consumers |-> AnyPacket]
  BY DEF Init, BQ!Init
<1>2. AnyPacket \in AnyPacket..MediaLength
  BY StreamingAssumption DEF AnyPacket
<1>3. payload \in [{} -> 0..(MediaLength - 1)]
  BY <1>1
<1> QED BY <1>1, <1>2, <1>3 DEF PacketInv, PayloadInv, HeldInv

\* Buffers that leave take their packets with them.
LEMMA PayloadKept ==
    ASSUME QueueInv, QueueInv', PayloadInv, KeepPayload,
           UNCHANGED <<puts, pos>>, first' \in {first, first + 1}
    PROVE  PayloadInv'
<1>1. DOMAIN elem' \subseteq DOMAIN elem
  BY DEF QueueInv, QueueShape
<1>2. payload' = [p \in DOMAIN elem' |-> payload[p]]
  BY DEF KeepPayload
<1>3. \A p \in DOMAIN elem' : payload'[p] = payload[p]
  BY <1>2
<1> QED BY <1>1, <1>2, <1>3 DEF PayloadInv

LEMMA PayloadEmptied ==
    ASSUME QueueInv, QueueInv', KeepPayload, puts' = puts, first' = puts + 1
    PROVE  PayloadInv'
<1>1. DOMAIN elem' = {}
  BY DEF QueueInv, QueueShape
<1> QED BY <1>1 DEF PayloadInv, KeepPayload

\* read_packet puts the packet at the demuxer's position.
LEMMA PayloadRead ==
    ASSUME QueueInv, QueueInv', ControlInv, PacketInv, WritePacket
    PROVE  PacketInv'
<1>1. /\ BQ!bq_producer_put /\ pos < MediaLength /\ pos' = pos + 1
      /\ payload' = [p \in DOMAIN elem' |-> IF p = puts' THEN pos ELSE payload[p]]
      /\ UNCHANGED <<state, sessions, writing, at, todo, due>>
  BY DEF WritePacket, clientVars
<1>2. /\ puts' = puts + 1 /\ UNCHANGED <<first, queue_serial, c_queue_serial, current,
                                         last_serial, attached>>
      /\ elem' = [p \in first..(puts + 1) |->
                     IF p = puts + 1 THEN elem'[puts + 1] ELSE elem[p]]
  BY <1>1 DEF BQ!bq_producer_put, BQ!cursorVars
<1>3. /\ puts \in Nat /\ first \in Nat /\ 1 <= first /\ DOMAIN elem = first..puts
      /\ DOMAIN elem' = first..(puts + 1)
  BY <1>2 DEF QueueInv, QueueShape
<1>4. pos \in 0..MediaLength /\ MediaLength \in Nat
  BY StreamingAssumption DEF ControlInv, OwnTypes
<1>5. PayloadInv'
  <2>1. ASSUME NEW p \in DOMAIN elem'
        PROVE  payload'[p] \in 0..(MediaLength - 1) /\ payload'[p] = pos' - (puts' + 1 - p)
    <3>1. CASE p = puts + 1
      BY <1>1, <1>2, <1>3, <1>4, <2>1, <3>1
    <3>2. CASE p # puts + 1
      <4>1. p \in DOMAIN elem /\ payload'[p] = payload[p] /\ p \in Int
        BY <1>1, <1>2, <1>3, <2>1, <3>2
      <4> QED BY <1>1, <1>2, <1>3, <1>4, <4>1 DEF PacketInv, PayloadInv
    <3> QED BY <3>1, <3>2
  <2> QED BY <1>1, <2>1 DEF PayloadInv
<1>6. HeldInv'
  <2> SUFFICES ASSUME at' \in {"send", "next"}
               PROVE  /\ current'[Session'] \in DOMAIN elem'
                      /\ QP!bq_consumer_confirm_pointer(Session)' = current'[Session']
    BY DEF HeldInv
  <2>1. /\ Session' = Session /\ current[Session] \in first..puts
        /\ QP!bq_consumer_confirm_pointer(Session) = current[Session]
    BY <1>1, <1>3 DEF PacketInv, HeldInv, Session
  <2>2. first <= puts /\ elem'[first] = elem[first] /\ current[Session] # 0
    BY <1>2, <1>3, <2>1
  <2> QED BY <1>2, <1>3, <2>1, <2>2 DEF QP!bq_consumer_confirm_pointer, QP!Head, QP!NULL
<1> QED BY <1>1, <1>5, <1>6 DEF PacketInv

\* A selection that has just been made.
LEMMA SelectionHeld ==
    ASSUME QueueInv', NEW s \in Consumers, s \in attached', fault' = "none",
           current'[s] # QP!NULL, c_queue_serial'[s] = queue_serial', Session' = s
    PROVE  HeldInv'
<1>1. /\ QP!bq_consumer_confirm_pointer(s)' = current'[s]
      /\ current'[s] \in DOMAIN elem'
  BY DEF QueueInv, SelectionConfirmed
<1> QED BY <1>1 DEF HeldInv

LEMMA PacketStep ==
    ASSUME QueueInv, QueueInv', ControlInv, ControlInv', PacketInv, [Next]_vars
    PROVE  PacketInv'
<1>0. PayloadInv /\ HeldInv /\ due \in [Consumers -> AnyPacket..MediaLength]
      /\ attached \subseteq Consumers /\ MediaLength \in Nat
  BY StreamingAssumption DEF PacketInv, ControlInv
<1>1. ASSUME NEW s \in Consumers, RTSP_setup(s) PROVE PacketInv'
  <2>1. /\ at' = "loop" /\ due' = due /\ UNCHANGED <<elem, payload, pos, puts>>
    BY <1>1 DEF RTSP_setup, BQ!bq_consumer_new, fillVars
  <2> QED BY <1>0, <2>1 DEF PacketInv, PayloadInv, HeldInv
<1>2. ASSUME NEW time \in 0..(MediaLength - 1), do_play(time) PROVE PacketInv'
  <2>1. /\ KeepPayload /\ puts' = puts /\ first' = puts + 1 /\ at' = "resume"
        /\ due' = [s \in Consumers |-> time]
    BY <1>2 DEF do_play, r_seek, BQ!bq_producer_reset_queue,
       BQ!bq_producer_reset_queue_internal, StartPlaying
  <2>2. time \in AnyPacket..MediaLength
    BY <1>0 DEF AnyPacket
  <2> QED BY <2>1, <2>2, PayloadEmptied DEF PacketInv, HeldInv
<1>3. CASE do_play_invalid
  <2>1. KeepPayload /\ puts' = puts /\ first' = puts + 1 /\ at' = "loop" /\ due' = due
    BY <1>3 DEF do_play_invalid, r_seek, BQ!bq_producer_reset_queue,
       BQ!bq_producer_reset_queue_internal, clientVars
  <2> QED BY <1>0, <2>1, PayloadEmptied DEF PacketInv, HeldInv
<1>4. CASE r_free
  <2>1. KeepPayload /\ puts' = puts /\ first' = puts + 1 /\ at' = "loop" /\ due' = due
    BY <1>4 DEF r_free, BQ!bq_producer_unref
  <2> QED BY <1>0, <2>1, PayloadEmptied DEF PacketInv, HeldInv
<1>5. CASE FreeConsumer
  <2>1. at = "leave" /\ KeepPayload /\ due' = due /\ pos' = pos /\ at' \notin {"send", "next"}
    BY <1>5 DEF FreeConsumer, NextSession, fillVars
  <2>2. Session \in Consumers
    BY <2>1, ListOf DEF ControlInv, OwnTypes, Session
  <2>3. puts' = puts /\ first' \in {first, first + 1}
    BY <1>5, <2>2, FreeCall DEF FreeConsumer
  <2> QED BY <1>0, <2>1, <2>3, PayloadKept DEF PacketInv, HeldInv
<1>6. ASSUME NEW s \in Consumers, rtp_write_cb(s) PROVE PacketInv'
  <2>1. /\ BQ!bq_consumer_get(s) /\ KeepPayload /\ due' = due /\ pos' = pos /\ todo' = <<s>>
        /\ at' = IF current'[s] = QP!NULL THEN "empty" ELSE "send"
    BY <1>6 DEF rtp_write_cb, fillVars, BQ!NULL, QP!NULL
  <2>2. /\ s \in attached' /\ fault' = "none" /\ puts' = puts /\ first' \in {first, first + 1}
        /\ current'[s] # QP!NULL => c_queue_serial'[s] = queue_serial'
    BY <2>1, GetCall
  <2>3. PayloadInv'
    BY <1>0, <2>1, <2>2, PayloadKept
  <2>4. HeldInv'
    <3>1. CASE current'[s] = QP!NULL
      BY <2>1, <3>1 DEF HeldInv
    <3>2. CASE current'[s] # QP!NULL
      BY <2>1, <2>2, <3>2, SelectionHeld DEF Session
    <3> QED BY <3>1, <3>2
  <2> QED BY <1>0, <2>1, <2>3, <2>4 DEF PacketInv
<1>7. CASE rtp_packet_send
  <2>1. /\ at = "send" /\ BQ!bq_consumer_move(Session) /\ KeepPayload /\ pos' = pos
        /\ todo' = todo /\ due' = [due EXCEPT ![Session] = payload[current[Session]] + 1]
        /\ at' = IF current'[Session] = QP!NULL THEN "fill" ELSE "next"
    BY <1>7 DEF rtp_packet_send, fillVars, BQ!NULL, QP!NULL
  <2>2. Session \in Consumers /\ Session' = Session
    BY <2>1, ListOf DEF ControlInv, OwnTypes, Session
  <2>3. /\ Session \in attached' /\ fault' = "none" /\ puts' = puts
        /\ first' \in {first, first + 1}
        /\ current'[Session] # QP!NULL => c_queue_serial'[Session] = queue_serial'
    BY <2>1, <2>2, MoveCall
  <2>4. PayloadInv'
    BY <1>0, <2>1, <2>3, PayloadKept
  <2>5. HeldInv'
    <3>1. CASE current'[Session] = QP!NULL
      BY <2>1, <3>1 DEF HeldInv
    <3>2. CASE current'[Session] # QP!NULL
      BY <2>2, <2>3, <3>2, SelectionHeld
    <3> QED BY <3>1, <3>2
  <2>6. payload[current[Session]] + 1 \in AnyPacket..MediaLength
    <3>1. payload[current[Session]] \in 0..(MediaLength - 1)
      BY <1>0, <2>1 DEF HeldInv, PayloadInv
    <3> QED BY <1>0, <3>1 DEF AnyPacket
  <2>7. due' \in [Consumers -> AnyPacket..MediaLength]
    BY <1>0, <2>1, <2>6
  <2> QED BY <2>4, <2>5, <2>7 DEF PacketInv
<1>8. CASE ScheduleNext
  <2>1. /\ at = "next" /\ BQ!bq_consumer_get(Session) /\ KeepPayload /\ due' = due
        /\ pos' = pos /\ at' = "fill"
    BY <1>8 DEF ScheduleNext, fillVars
  <2>2. Session \in Consumers
    BY <2>1, ListOf DEF ControlInv, OwnTypes, Session
  <2>3. puts' = puts /\ first' \in {first, first + 1}
    BY <2>1, <2>2, GetCall
  <2> QED BY <1>0, <2>1, <2>3, PayloadKept DEF PacketInv, HeldInv
<1>9. CASE ReadFragment \/ ReadPacket
  BY <1>9, PayloadRead DEF ReadFragment, ReadPacket
<1>10. ASSUME UNCHANGED <<queueVars, payload, pos, due>>,
              UNCHANGED <<at, todo>> \/ at' \notin {"send", "next"}
       PROVE  PacketInv'
  <2>1. UNCHANGED <<elem, first, puts, queue_serial, c_queue_serial, current, last_serial>>
    BY <1>10 DEF queueVars
  <2>2. PayloadInv'
    BY <1>0, <1>10, <2>1 DEF PayloadInv
  <2>3. HeldInv'
    BY <1>0, <1>10, <2>1 DEF HeldInv, Session, QP!bq_consumer_confirm_pointer, QP!Head
  <2> QED BY <1>0, <1>10, <2>2, <2>3 DEF PacketInv
<1>11. CASE do_play_unseekable \/ rtsp_do_pause \/ rtsp_session_free
  <2>1. UNCHANGED <<queueVars, payload, pos, due>> /\ at' \notin {"send", "next"}
    BY <1>11 DEF do_play_unseekable, StartPlaying, rtsp_do_pause, rtsp_session_free, fillVars
  <2> QED BY <1>10, <2>1
<1>12. CASE rtp_session_resume \/ rtp_session_pause \/ SessionPaused \/ rtp_session_free
  <2>1. UNCHANGED <<queueVars, payload, pos, due>> /\ at' \notin {"send", "next"}
    BY <1>12 DEF rtp_session_resume, rtp_session_pause, SessionPaused, rtp_session_free,
       NextSession, r_pause, PoolFreed, fillVars
  <2> QED BY <1>10, <2>1
<1>13. CASE NothingToRead \/ r_fill
  <2>1. UNCHANGED <<queueVars, payload, pos, due>> /\ at' \notin {"send", "next"}
    BY <1>13 DEF NothingToRead, r_fill, fillVars
  <2> QED BY <1>10, <2>1
<1>14. CASE TakeJob \/ CheckPool \/ CheckUnseen \/ LockResource \/ EndOfResource
  <2>1. UNCHANGED <<queueVars, payload, pos, due, at, todo>>
    BY <1>14 DEF TakeJob, CheckPool, CheckUnseen, LockResource, EndOfResource, clientVars
  <2> QED BY <1>10, <2>1
<1>15. CASE UNCHANGED vars
  BY <1>10, <1>15 DEF vars, fillVars, clientVars
<1> QED BY <1>1, <1>2, <1>3, <1>4, <1>5, <1>6, <1>7, <1>8, <1>9, <1>11, <1>12, <1>13, <1>14,
           <1>15 DEF Next, Request, Handler, r_read_cb

\* The invariant of the packets.
THEOREM PacketSafe == Spec => []PacketInv
<1>1. QueueInv /\ QueueInv' /\ ControlInv /\ ControlInv' /\ PacketInv /\ [Next]_vars => PacketInv'
  BY PacketStep
<1> QED BY <1>1, PacketInit, QueueSafe, ControlSafe, PTL DEF Spec

(***************************************************************************)
(* Order.  What a session sends next, due, is the packet under its cursor:   *)
(* the seek of PLAY puts both at the begin time, and from then on each       *)
(* packet sent moves both by one.  On a resource that cannot seek this holds *)
(* of every session; on one that can, of those whose timer runs or is about  *)
(* to, since PLAY positions the others anew.                                 *)
(***************************************************************************)

Aligned(s) == due[s] = AnyPacket \/ due[s] = pos - (puts + 1 - QP!Cursor(s))

Streamed ==
    IF at \in Leaving THEN {}
    ELSE IF ~seekable THEN attached
    ELSE writing \cup (IF at = "resume" THEN Elems(todo) ELSE {})

AlignedInv == fault = "none" => \A s \in Streamed : Aligned(s)

\* Without a seek nothing is due to a session that has not been set up.
NothingDue ==
    ~seekable /\ state # "CLOSED" => \A s \in Consumers \ Elems(sessions) : due[s] = AnyPacket

OrderInv ==
    /\ AlignedInv
    /\ NothingDue
    /\ SentInOrder

LEMMA OrderInit == Init => OrderInv
<1> SUFFICES ASSUME Init PROVE OrderInv
  OBVIOUS
<1>1. due = [s \in Consumers |-> AnyPacket] /\ attached = {} /\ writing = {} /\ at = "loop"
  BY DEF Init, BQ!Init
<1> QED BY <1>1 DEF OrderInv, AlignedInv, NothingDue, SentInOrder, Streamed, Leaving

LEMMA StreamedAttached == ASSUME ControlInv PROVE Streamed \subseteq attached
BY DEF ControlInv, ListInv, TimerInv, Streamed

\* Cursors that stay, over a queue and a media position that stay.
LEMMA AlignedKept ==
    ASSUME AlignedInv, fault = "none", UNCHANGED <<pos, puts, due>>, Streamed' \subseteq Streamed,
           \A s \in Streamed : QP!Cursor(s)' = QP!Cursor(s)
    PROVE  AlignedInv'
BY DEF AlignedInv, Aligned

\* The demuxer's position and the end of the queue move together.
LEMMA OrderRead ==
    ASSUME QueueInv, QueueInv', ControlInv, PacketInv, OrderInv, WritePacket, UNCHANGED seekable
    PROVE  OrderInv'
<1>1. /\ BQ!bq_producer_put /\ QP!bq_producer_put /\ pos' = pos + 1
      /\ payload' = [p \in DOMAIN elem' |-> IF p = puts' THEN pos ELSE payload[p]]
      /\ UNCHANGED <<state, sessions, writing, at, todo, due>>
  BY SameQueue DEF WritePacket, clientVars
<1>2. fault = "none" /\ puts' = puts + 1 /\ UNCHANGED <<first, current, attached>>
  BY <1>1 DEF BQ!bq_producer_put, BQ!cursorVars, BQ!Unlocked
<1>3. /\ puts \in Nat /\ first \in Nat /\ DOMAIN elem = first..puts
      /\ DOMAIN elem' = first..(puts + 1) /\ attached \subseteq Consumers
  BY <1>2 DEF QueueInv, QueueShape
<1>4. AlignedInv'
  <2> SUFFICES ASSUME NEW s \in Streamed PROVE Aligned(s)'
    BY <1>1, <1>2 DEF AlignedInv, Streamed
  <2>1. s \in attached /\ Aligned(s)
    BY <1>2, StreamedAttached DEF OrderInv, AlignedInv
  <2>2. QP!Cursor(s)' = QP!Cursor(s)
    BY <1>1, <1>3, <2>1, QueueAssumption, SameSets, Stored, QP!PutKeepsCursors DEF QueueInv
  <2>3. QP!Cursor(s) \in Nat /\ pos \in Nat
    BY <1>2, <2>1, StreamingAssumption DEF QueueInv, CursorShape, ControlInv, OwnTypes
  <2>4. pos - (puts + 1 - QP!Cursor(s)) = (pos + 1) - ((puts + 1) + 1 - QP!Cursor(s))
    BY <1>3, <2>3
  <2>5. due' = due /\ pos' = pos + 1 /\ puts' = puts + 1
    BY <1>1, <1>2
  <2> QED BY <2>1, <2>2, <2>4, <2>5 DEF Aligned
<1>5. NothingDue'
  BY <1>1 DEF OrderInv, NothingDue
<1>6. SentInOrder'
  <2> SUFFICES ASSUME at = "send"
               PROVE  due[Session] \in {AnyPacket, payload'[current[Session]]}
    BY <1>1, <1>2 DEF SentInOrder, Session
  <2>1. current[Session] \in first..puts
    BY <1>3 DEF PacketInv, HeldInv
  <2>2. payload'[current[Session]] = payload[current[Session]]
    BY <1>1, <1>2, <1>3, <2>1
  <2> QED BY <2>2 DEF OrderInv, SentInOrder
<1> QED BY <1>4, <1>5, <1>6 DEF OrderInv

\* A timer finds the due packet under the cursor.
LEMMA OrderTimer ==
    ASSUME QueueInv, QueueInv', ControlInv, PacketInv, PacketInv', OrderInv,
           NEW s \in Consumers, rtp_write_cb(s), UNCHANGED seekable
    PROVE  OrderInv'
<1>1. /\ at = "loop" /\ s \in writing /\ BQ!bq_consumer_get(s) /\ todo' = <<s>>
      /\ at' \in {"empty", "send"}
      /\ UNCHANGED <<pos, due, state, sessions, writing>>
  BY DEF rtp_write_cb, fillVars
<1>2. /\ QP!bq_consumer_get(s) /\ s \in attached /\ fault = "none" /\ fault' = "none"
      /\ UNCHANGED <<puts, attached>>
  BY <1>1, GetCall
<1>3. \A c \in attached : QP!Cursor(c)' = QP!Cursor(c)
  BY <1>2, QueueAssumption, SameSets, QP!GetKeepsCursors DEF QueueInv
<1>4. Streamed' = Streamed /\ s \in Streamed
  BY <1>1, <1>2 DEF Streamed, Leaving
<1>5. AlignedInv'
  BY <1>1, <1>2, <1>3, <1>4, AlignedKept, StreamedAttached DEF OrderInv
<1>6. NothingDue'
  BY <1>1 DEF OrderInv, NothingDue
<1>7. SentInOrder'
  <2> SUFFICES ASSUME at' = "send"
               PROVE  due'[s] \in {AnyPacket, payload'[current'[s]]}
    BY <1>1 DEF SentInOrder, Session
  <2>1. Session' = s
    BY <1>1 DEF Session
  <2>2. /\ current'[s] \in DOMAIN elem'
        /\ QP!bq_consumer_confirm_pointer(s)' = current'[s]
    BY <2>1 DEF PacketInv, HeldInv
  <2>3. current'[s] # QP!NULL
    BY <2>2 DEF QueueInv, QueueShape, QP!NULL
  <2>4. QP!Cursor(s)' = current'[s]
    BY <1>2, <2>2, <2>3 DEF QueueInv, CursorShape
  <2>5. payload'[current'[s]] = pos' - (puts' + 1 - current'[s])
    BY <2>2 DEF PacketInv, PayloadInv
  <2>6. Aligned(s)'
    BY <1>2, <1>4, <1>5 DEF AlignedInv
  <2> QED BY <2>4, <2>5, <2>6 DEF Aligned
<1> QED BY <1>5, <1>6, <1>7 DEF OrderInv

\* The packet that is sent is the one under the cursor.
LEMMA OrderSend ==
    ASSUME QueueInv, QueueInv', ControlInv, PacketInv, OrderInv, rtp_packet_send,
           UNCHANGED seekable
    PROVE  OrderInv'
<1>1. /\ at = "send" /\ BQ!bq_consumer_move(Session)
      /\ due' = [due EXCEPT ![Session] = payload[current[Session]] + 1]
      /\ at' \in {"fill", "next"}
      /\ UNCHANGED <<pos, todo, state, sessions, writing>>
  BY DEF rtp_packet_send, fillVars
<1>2. Session \in Consumers
  BY <1>1, ListOf DEF ControlInv, OwnTypes, Session
<1>3. /\ QP!bq_consumer_move(Session) /\ Session \in attached /\ fault = "none"
      /\ UNCHANGED <<puts, attached>>
  BY <1>1, <1>2, MoveCall
<1>4. /\ current[Session] \in DOMAIN elem
      /\ QP!bq_consumer_confirm_pointer(Session) = current[Session]
  BY <1>1 DEF PacketInv, HeldInv
<1>5. /\ QP!bq_consumer_confirm_pointer(Session) # QP!NULL /\ current[Session] \in Nat
      /\ puts \in Nat /\ pos \in Nat
  BY <1>2, <1>4, StreamingAssumption
     DEF QueueInv, QueueShape, QP!NULL, ControlInv, OwnTypes
<1>6. PICK s \in Consumers : s = Session
  BY <1>2
<1>7. /\ QP!Cursor(s) = current[s] /\ QP!Cursor(s)' = QP!Cursor(s) + 1
      /\ \A c \in attached : c # s => QP!Cursor(c)' = QP!Cursor(c)
  <2>1. QP!BookkeepingInv /\ QP!TypeOK' /\ QP!bq_consumer_move(s)
        /\ QP!bq_consumer_confirm_pointer(s) # QP!NULL
    BY <1>3, <1>5, <1>6 DEF QueueInv, QP!BookkeepingInv
  <2> QED BY <1>6, <2>1, QueueAssumption, SameSets, QP!MoveTakesOne
<1>8. /\ due \in [Consumers -> AnyPacket..MediaLength]
      /\ payload[current[Session]] = pos - (puts + 1 - current[Session])
  BY <1>4 DEF PacketInv, PayloadInv
<1>9. Streamed' = Streamed /\ Streamed \subseteq attached
  BY <1>1, <1>3, StreamedAttached DEF Streamed, Leaving
<1>10. AlignedInv'
  <2> SUFFICES ASSUME NEW c \in Streamed PROVE Aligned(c)'
    BY <1>9 DEF AlignedInv
  <2>1. Aligned(c) /\ c \in attached /\ c \in Consumers
    BY <1>3, <1>9 DEF OrderInv, AlignedInv, ControlInv
  <2>2. CASE c = s
    <3>1. due'[s] = payload[current[s]] + 1
      BY <1>1, <1>6, <1>8
    <3>2. due'[s] = pos - (puts + 1 - (current[s] + 1))
      BY <1>5, <1>6, <1>8, <3>1
    <3> QED BY <1>1, <1>3, <1>7, <2>2, <3>2 DEF Aligned
  <2>3. CASE c # s
    <3>1. due'[c] = due[c]
      BY <1>1, <1>6, <1>8, <2>1, <2>3
    <3> QED BY <1>1, <1>3, <1>7, <2>1, <2>3, <3>1 DEF Aligned
  <2> QED BY <2>2, <2>3
<1>11. NothingDue'
  <2>1. Session \in Elems(sessions)
    BY <1>3 DEF ControlInv, ListInv
  <2> QED BY <1>1, <1>8, <2>1 DEF OrderInv, NothingDue
<1>12. SentInOrder'
  BY <1>1 DEF SentInOrder
<1> QED BY <1>10, <1>11, <1>12 DEF OrderInv

\* PLAY puts the demuxer and every cursor at the begin time.
LEMMA OrderPlay ==
    ASSUME QueueInv, QueueInv', ControlInv, NEW time \in 0..(MediaLength - 1), do_play(time),
           UNCHANGED seekable
    PROVE  OrderInv'
<1>1. /\ at = "loop" /\ state = "READY" /\ seekable /\ BQ!bq_producer_reset_queue
      /\ QP!bq_producer_reset_queue /\ pos' = time /\ due' = [s \in Consumers |-> time]
      /\ at' = "resume" /\ todo' = sessions /\ UNCHANGED <<sessions, writing>>
  BY SameQueue DEF do_play, r_seek, StartPlaying
<1>2. UNCHANGED <<puts, attached>>
  BY <1>1 DEF BQ!bq_producer_reset_queue
<1>3. Streamed' \subseteq attached /\ attached \subseteq Consumers /\ puts \in Nat
  BY <1>1 DEF ControlInv, ListInv, TimerInv, Streamed, Leaving, QueueInv, QueueShape
<1>4. \A s \in attached : QP!Cursor(s)' = puts + 1
  BY <1>1, QueueAssumption, SameSets, QP!ResetCursors DEF QueueInv
<1>5. ASSUME NEW s \in Streamed' PROVE Aligned(s)'
  <2>1. QP!Cursor(s)' = puts + 1 /\ due'[s] = time /\ time \in Int
    BY <1>1, <1>3, <1>4
  <2> QED BY <1>1, <1>2, <1>3, <2>1 DEF Aligned
<1> QED BY <1>1, <1>5 DEF OrderInv, AlignedInv, NothingDue, SentInOrder

LEMMA OrderStep ==
    ASSUME QueueInv, QueueInv', ControlInv, ControlInv', PacketInv, PacketInv', OrderInv,
           [Next]_vars
    PROVE  OrderInv'
<1>0. AlignedInv /\ NothingDue /\ SentInOrder /\ Streamed \subseteq attached
  BY StreamedAttached DEF OrderInv
<1>1. ASSUME NEW s \in Consumers, RTSP_setup(s), UNCHANGED seekable PROVE OrderInv'
  <2>1. /\ at = "loop" /\ state # "CLOSED" /\ BQ!bq_consumer_new(s) /\ QP!bq_consumer_new(s)
        /\ sessions' = Append(sessions, s)
        /\ UNCHANGED <<pos, writing, at, todo, due>>
    BY <1>1, SameQueue DEF RTSP_setup, fillVars
  <2>2. s \notin attached /\ attached' = attached \cup {s} /\ puts' = puts /\ fault = "none"
    BY <2>1 DEF BQ!bq_consumer_new, BQ!Unlocked
  <2>3. Elems(sessions') = Elems(sessions) \cup {s} /\ s \notin Elems(sessions)
    BY <2>1, <2>2, AppendToList DEF ControlInv, OwnTypes, ListInv, Leaving
  <2>4. \A c \in attached : QP!Cursor(c)' = QP!Cursor(c)
    BY <2>1, QueueAssumption, SameSets, QP!JoinKeepsCursors DEF QueueInv
  <2>5. ASSUME NEW c \in Streamed' PROVE Aligned(c)'
    <3>1. CASE c = s /\ ~seekable
      BY <1>0, <2>1, <2>3, <3>1 DEF NothingDue, Aligned
    <3>2. CASE ~(c = s /\ ~seekable)
      <4>1. c \in Streamed
        BY <1>1, <2>1, <2>2, <2>5, <3>2 DEF Streamed
      <4> QED BY <1>0, <2>1, <2>2, <2>4, <4>1 DEF AlignedInv, Aligned
    <3> QED BY <3>1, <3>2
  <2>6. NothingDue'
    BY <1>0, <1>1, <2>1, <2>3 DEF NothingDue
  <2> QED BY <2>1, <2>5, <2>6 DEF OrderInv, AlignedInv, SentInOrder
<1>2. ASSUME NEW time \in 0..(MediaLength - 1), do_play(time), UNCHANGED seekable
      PROVE  OrderInv'
  BY <1>2, OrderPlay
<1>3. CASE do_play_invalid /\ UNCHANGED seekable
  <2>1. at = "loop" /\ state = "READY" /\ seekable /\ UNCHANGED <<clientVars, seekable>>
    BY <1>3 DEF do_play_invalid
  <2>2. Streamed' = {}
    BY <2>1 DEF Streamed, clientVars, ControlInv, TimerInv, Leaving
  <2> QED BY <2>1, <2>2 DEF clientVars, OrderInv, AlignedInv, NothingDue, SentInOrder
<1>4. CASE FreeConsumer /\ UNCHANGED seekable
  <2>1. at' \in Leaving /\ UNCHANGED <<state, sessions, due, seekable>>
    BY <1>4 DEF FreeConsumer, NextSession, Leaving
  <2> QED BY <1>0, <2>1 DEF OrderInv, AlignedInv, NothingDue, SentInOrder, Streamed, Leaving
<1>5. CASE r_free /\ UNCHANGED seekable
  <2>1. at' = "loop" /\ state' = "CLOSED" /\ attached' = {}
    BY <1>5 DEF r_free, BQ!bq_producer_unref
  <2>2. Streamed' = {}
    BY <2>1 DEF Streamed, ControlInv, TimerInv, Leaving
  <2> QED BY <2>1, <2>2 DEF OrderInv, AlignedInv, NothingDue, SentInOrder
<1>6. ASSUME NEW s \in Consumers, rtp_write_cb(s), UNCHANGED seekable PROVE OrderInv'
  BY <1>6, OrderTimer
<1>7. CASE rtp_packet_send /\ UNCHANGED seekable
  BY <1>7, OrderSend
<1>8. CASE ScheduleNext /\ UNCHANGED seekable
  <2>1. /\ at = "next" /\ BQ!bq_consumer_get(Session) /\ at' = "fill"
        /\ UNCHANGED <<pos, due, state, sessions, writing, seekable>>
    BY <1>8 DEF ScheduleNext, fillVars
  <2>2. Session \in Consumers
    BY <2>1, ListOf DEF ControlInv, OwnTypes, Session
  <2>3. QP!bq_consumer_get(Session) /\ fault = "none" /\ UNCHANGED <<puts, attached>>
    BY <2>1, <2>2, GetCall
  <2>4. \A c \in attached : QP!Cursor(c)' = QP!Cursor(c)
    BY <2>2, <2>3, QueueAssumption, SameSets, QP!GetKeepsCursors DEF QueueInv
  <2>5. Streamed' = Streamed
    BY <2>1, <2>3 DEF Streamed, Leaving
  <2>6. AlignedInv'
    BY <1>0, <2>1, <2>3, <2>4, <2>5, AlignedKept
  <2> QED BY <1>0, <2>1, <2>6 DEF OrderInv, NothingDue, SentInOrder
<1>9. CASE (ReadFragment \/ ReadPacket) /\ UNCHANGED seekable
  BY <1>9, OrderRead DEF ReadFragment, ReadPacket
<1>10. ASSUME UNCHANGED <<queueVars, payload, pos, due, sessions, seekable>>,
              Streamed' \subseteq Streamed, state' = "CLOSED" \/ state # "CLOSED" \/ state' = state,
              UNCHANGED <<at, todo>> \/ at' # "send"
       PROVE  OrderInv'
  <2>1. UNCHANGED <<elem, first, puts, queue_serial, attached, c_queue_serial, current,
                    last_serial, fault>>
    BY <1>10 DEF queueVars
  <2>2. \A s : QP!Cursor(s)' = QP!Cursor(s)
    BY <2>1 DEF QP!Cursor, QP!Passed
  <2>3. AlignedInv'
    BY <1>0, <1>10, <2>1, <2>2 DEF AlignedInv, Aligned
  <2>4. NothingDue'
    BY <1>0, <1>10 DEF NothingDue
  <2>5. SentInOrder'
    BY <1>0, <1>10, <2>1 DEF SentInOrder, Session
  <2> QED BY <2>3, <2>4, <2>5 DEF OrderInv
<1>11. CASE do_play_unseekable /\ UNCHANGED seekable
  <2>1. /\ UNCHANGED <<queueVars, payload, pos, due, sessions, seekable>> /\ ~seekable
        /\ at = "loop" /\ at' = "resume" /\ state = "READY"
    BY <1>11 DEF do_play_unseekable, StartPlaying, fillVars
  <2>2. Streamed' = Streamed
    BY <2>1 DEF Streamed, Leaving, queueVars
  <2> QED BY <1>10, <2>1, <2>2
<1>12. CASE (rtsp_do_pause \/ rtsp_session_free \/ rtp_session_pause \/ rtp_session_free)
            /\ UNCHANGED seekable
  <2>1. /\ UNCHANGED <<queueVars, payload, pos, due, sessions, state, seekable>>
        /\ at' \in Pausing \cup Leaving /\ (at \in Leaving => at' \in Leaving)
        /\ at' \in Pausing => writing' = writing
    BY <1>12 DEF rtsp_do_pause, rtsp_session_free, rtp_session_pause, rtp_session_free,
       r_pause, PoolFreed, fillVars, Pausing, Leaving
  <2>2. Streamed' \subseteq Streamed /\ at' # "send"
    BY <2>1 DEF Streamed, Leaving, Pausing, queueVars
  <2> QED BY <1>10, <2>1, <2>2
<1>13. CASE rtp_session_resume /\ UNCHANGED seekable
  <2>1. /\ UNCHANGED <<queueVars, payload, pos, due, sessions, state, seekable>>
        /\ at = "resume" /\ writing' = writing \cup {Session} /\ NextSession("resume", "loop")
    BY <1>13 DEF rtp_session_resume, fillVars
  <2>2. /\ at' \in {"resume", "loop"} /\ Elems(todo) = Elems(todo') \cup {Session}
    BY <2>1, NextSessionFacts
  <2>3. Streamed' \subseteq Streamed
    BY <2>1, <2>2 DEF Streamed, Leaving, queueVars
  <2> QED BY <1>10, <2>1, <2>2, <2>3
<1>14. CASE (SessionPaused \/ NothingToRead \/ r_fill) /\ UNCHANGED seekable
  <2>1. /\ UNCHANGED <<queueVars, payload, pos, due, sessions, seekable>>
        /\ at \notin Leaving /\ at # "resume"
        /\ at' \notin Leaving /\ at' # "resume" /\ at' # "send"
        /\ writing' \subseteq writing /\ (state' = state \/ state' = "READY")
    BY <1>14 DEF SessionPaused, NothingToRead, r_fill, NextSession, fillVars, Leaving
  <2>2. Streamed' \subseteq Streamed
    BY <2>1 DEF Streamed, queueVars
  <2>3. state = "CLOSED" => state' = state
    <3> SUFFICES ASSUME state = "CLOSED" PROVE at \notin {"paused", "empty", "fill"}
      BY <1>14, <2>1 DEF SessionPaused, NothingToRead, r_fill
    <3>1. attached = {}
      BY EmptyList DEF ControlInv, ListInv
    <3> QED BY <3>1, ListOf DEF ControlInv, OwnTypes, ListInv
  <2> QED BY <1>10, <2>1, <2>2, <2>3
<1>15. CASE (TakeJob \/ CheckPool \/ CheckUnseen \/ LockResource \/ EndOfResource)
            /\ UNCHANGED seekable
  <2>1. UNCHANGED <<queueVars, payload, pos, due, at, todo, sessions, state, writing, seekable>>
    BY <1>15 DEF TakeJob, CheckPool, CheckUnseen, LockResource, EndOfResource, clientVars
  <2>2. Streamed' = Streamed
    BY <2>1 DEF Streamed, queueVars
  <2> QED BY <1>10, <2>1, <2>2
<1>16. CASE UNCHANGED vars
  <2>1. Streamed' = Streamed
    BY <1>16 DEF Streamed, vars, queueVars, clientVars
  <2> QED BY <1>10, <1>16, <2>1 DEF vars, fillVars, clientVars
<1> QED BY <1>1, <1>2, <1>3, <1>4, <1>5, <1>6, <1>7, <1>8, <1>9, <1>11, <1>12, <1>13, <1>14,
           <1>15, <1>16 DEF Next, Request, Handler, r_read_cb

\* The invariant of the order.
THEOREM OrderSafe == Spec => []OrderInv
<1>1. /\ QueueInv /\ QueueInv' /\ ControlInv /\ ControlInv' /\ PacketInv /\ PacketInv' /\ OrderInv
      /\ [Next]_vars
      => OrderInv'
  BY OrderStep
<1> QED BY <1>1, OrderInit, QueueSafe, ControlSafe, PacketSafe, PTL DEF Spec

(***************************************************************************)
(* The length of the queue.  Between the test of bq_consumer_unseen and the  *)
(* packet it lets through, a lone session only ever takes packets away; a    *)
(* session that joins makes two of them, and nothing is queued before the    *)
(* first.                                                                    *)
(***************************************************************************)

BoundInv ==
    /\ sessions = <<>> /\ state # "CLOSED" => puts = 0
    /\ Len(sessions) = 1 =>
          \A c \in attached :
              /\ QP!Waiting(c) <= BufferedFrames + MaxFragments - 1
              /\ fill_at \in {"lock", "read"} => QP!Waiting(c) < BufferedFrames + fragments

LEMMA BoundInit == Init => BoundInv
BY DEF Init, BQ!Init, BoundInv

LEMMA FragmentsNat == ASSUME ControlInv PROVE fragments \in Nat
BY StreamingAssumption DEF ControlInv, OwnTypes

LEMMA WaitingNat ==
    ASSUME QueueInv, NEW c \in attached
    PROVE  QP!Waiting(c) \in Nat
<1>1. DOMAIN elem = first..puts /\ first \in Int /\ puts \in Int
  BY DEF QueueInv, QueueShape
<1>2. IsFiniteSet(DOMAIN elem)
  BY <1>1, FS_Interval
<1>3. PICK U : U = {p \in DOMAIN elem : ~QP!Passed(c, p)}
  OBVIOUS
<1>4. Cardinality(U) \in Nat
  BY <1>2, <1>3, FS_Subset, FS_CardinalityType
<1> QED BY <1>3, <1>4, SameSets DEF QP!Waiting

\* The consumers of a lone session.
LEMMA LoneSession ==
    ASSUME ControlInv, Len(sessions) = 1, NEW c \in attached, NEW d \in attached
    PROVE  c = d
BY DEF ControlInv, ListInv, Elems

\* r_read_cb asks for the length of the queue when it has the lock of the queue only.
LEMMA BoundTested ==
    ASSUME QueueInv, ControlInv, BoundInv, CheckUnseen, Len(sessions) = 1, NEW c \in attached,
           fill_at' = "lock"
    PROVE  QP!Waiting(c) < BufferedFrames
<1>1. fill_at = "unseen" /\ fault = "none" /\ ~(BQ!bq_consumer_unseen(fill_for) >= BufferedFrames)
  BY DEF CheckUnseen, Enough, BQ!Unlocked
<1>2. fill_for \in attached /\ fill_for = c
  BY <1>1, LoneSession DEF ControlInv, PoolInv
<1>3. BQ!bq_consumer_unseen(c) = QP!bq_consumer_unseen(c)
  BY DEF BQ!bq_consumer_unseen, QP!bq_consumer_unseen, BQ!Head, QP!Head, BQ!NULL, QP!NULL
<1>4. QP!bq_consumer_unseen(c) >= QP!Waiting(c)
  BY <1>1 DEF QueueInv, QP!UnseenCoversWaiting
<1>5. QP!bq_consumer_unseen(c) \in Int
  <2>1. next_serial \in Int /\ last_serial[c] \in Int
    BY QueueAssumption DEF QueueInv, QueueShape, QP!BookkeepingInv, QP!TypeOK, QP!Serial
  <2> QED BY <2>1 DEF QP!bq_consumer_unseen
<1> QED BY <1>1, <1>2, <1>3, <1>4, <1>5, WaitingNat, StreamingAssumption

\* A put adds one.
LEMMA BoundRead ==
    ASSUME QueueInv, QueueInv', ControlInv, BoundInv, ReadFragment \/ ReadPacket
    PROVE  BoundInv'
<1>1. /\ BQ!bq_producer_put /\ fill_at = "read" /\ UNCHANGED <<state, sessions>>
      /\ fill_at' \in {"idle", "pool"} \/ fragments' = fragments + 1
  BY DEF ReadFragment, ReadPacket, WritePacket, clientVars
<1>2. /\ puts' = puts + 1 /\ UNCHANGED <<first, queue_serial, c_queue_serial, current,
                                         last_serial, attached>>
      /\ elem' = [p \in first..(puts + 1) |->
                     IF p = puts + 1 THEN elem'[puts + 1] ELSE elem[p]]
  BY <1>1 DEF BQ!bq_producer_put, BQ!cursorVars
<1>3. /\ puts \in Nat /\ first \in Nat /\ DOMAIN elem = first..puts
      /\ DOMAIN elem' = first..(puts + 1)
  BY <1>2 DEF QueueInv, QueueShape
<1>4. sessions # <<>>
  BY <1>1, EmptyList DEF ControlInv, PoolInv, ListInv
<1>5. ASSUME Len(sessions) = 1, NEW c \in attached
      PROVE  /\ QP!Waiting(c)' <= BufferedFrames + MaxFragments - 1
             /\ QP!Waiting(c)' < BufferedFrames + fragments + 1
  <2>1. PICK U : U = {p \in DOMAIN elem : ~QP!Passed(c, p)}
    OBVIOUS
  <2>2. PICK V : V = {p \in DOMAIN elem' : ~QP!Passed(c, p)'}
    OBVIOUS
  <2>3. V \subseteq U \cup {puts + 1}
    <3> SUFFICES ASSUME NEW p \in V, p # puts + 1 PROVE p \in U
      OBVIOUS
    <3>1. p \in DOMAIN elem /\ elem'[p] = elem[p]
      BY <1>2, <1>3, <2>2
    <3> QED BY <1>2, <2>1, <2>2, <3>1 DEF QP!Passed
  <2>4. U \subseteq first..puts /\ IsFiniteSet(first..puts)
    BY <1>3, <2>1, FS_Interval
  <2>5. IsFiniteSet(U)
    BY <2>4, FS_Subset
  <2>6. Cardinality(U) \in Nat
    BY <2>5, FS_CardinalityType
  <2>7. puts + 1 \notin U
    BY <1>3, <2>1
  <2>8. IsFiniteSet(U \cup {puts + 1}) /\ Cardinality(U \cup {puts + 1}) = Cardinality(U) + 1
    BY <2>5, <2>7, FS_AddElement
  <2>9. Cardinality(V) <= Cardinality(U) + 1 /\ Cardinality(V) \in Nat
    BY <2>3, <2>8, FS_Subset, FS_CardinalityType
  <2>10. QP!Waiting(c) = Cardinality(U) /\ QP!Waiting(c)' = Cardinality(V)
    BY <2>1, <2>2, SameSets DEF QP!Waiting
  <2>11. Cardinality(U) < BufferedFrames + fragments
    BY <1>1, <1>5, <2>10 DEF BoundInv
  <2>12. fragments \in 0..(MaxFragments - 1)
    BY DEF ControlInv, OwnTypes
  <2> QED BY <2>6, <2>9, <2>10, <2>11, <2>12, StreamingAssumption
<1>6. fragments' = fragments + 1 => BufferedFrames + fragments' = BufferedFrames + fragments + 1
  BY FragmentsNat, StreamingAssumption
<1>7. fill_at' \in {"lock", "read"} => fragments' = fragments + 1
  BY <1>1
<1> QED BY <1>1, <1>2, <1>4, <1>5, <1>6, <1>7 DEF BoundInv

\* A call that takes nothing back leaves no more to wait for.
LEMMA BoundMoved ==
    ASSUME QueueInv, QueueInv', BoundInv, fault = "none", fault' = "none",
           UNCHANGED <<puts, attached, sessions, state, fill_at, fragments>>, fragments \in Nat,
           \A c \in attached : QP!Cursor(c)' \in {QP!Cursor(c), QP!Cursor(c) + 1}
    PROVE  BoundInv'
<1> SUFFICES ASSUME Len(sessions) = 1, NEW c \in attached
             PROVE  /\ QP!Waiting(c)' <= BufferedFrames + MaxFragments - 1
                    /\ fill_at \in {"lock", "read"} => QP!Waiting(c)' < BufferedFrames + fragments
  BY DEF BoundInv
<1>1. QP!Waiting(c) = puts + 1 - QP!Cursor(c) /\ QP!Cursor(c) \in Nat /\ puts \in Nat
  BY DEF QueueInv, CursorShape, QueueShape
<1>2. QP!Waiting(c)' = puts + 1 - QP!Cursor(c)'
  BY DEF QueueInv, CursorShape
<1>3. QP!Waiting(c) <= BufferedFrames + MaxFragments - 1
      /\ (fill_at \in {"lock", "read"} => QP!Waiting(c) < BufferedFrames + fragments)
  BY DEF BoundInv
<1> QED BY <1>1, <1>2, <1>3, StreamingAssumption

\* An empty queue.
LEMMA BoundEmptied ==
    ASSUME QueueInv, QueueInv', BoundInv, first' = puts + 1,
           UNCHANGED <<puts, attached, sessions, fill_at, fragments>>, fragments \in Nat,
           (state = "CLOSED") = (state' = "CLOSED")
    PROVE  BoundInv'
<1> SUFFICES ASSUME Len(sessions) = 1, NEW c \in attached
             PROVE  /\ QP!Waiting(c)' <= BufferedFrames + MaxFragments - 1
                    /\ fill_at \in {"lock", "read"} => QP!Waiting(c)' < BufferedFrames + fragments
  BY DEF BoundInv
<1>1. DOMAIN elem' = {}
  BY DEF QueueInv, QueueShape
<1>2. QP!Waiting(c)' = 0
  BY <1>1, SameSets, FS_EmptySet DEF QP!Waiting
<1>3. QP!Waiting(c) \in Nat
  BY WaitingNat
<1>4. QP!Waiting(c) <= BufferedFrames + MaxFragments - 1
      /\ (fill_at \in {"lock", "read"} => QP!Waiting(c) < BufferedFrames + fragments)
  BY DEF BoundInv
<1> QED BY <1>2, <1>3, <1>4, StreamingAssumption

\* A step that does not touch the queue, and does not let a packet through.
LEMMA BoundQuiet ==
    ASSUME BoundInv, UNCHANGED <<elem, puts, queue_serial, c_queue_serial, current, last_serial,
                                 attached, sessions>>,
           (state = "CLOSED") = (state' = "CLOSED"),
           fill_at' \in {"lock", "read"} =>
               fill_at \in {"lock", "read"} /\ fragments' = fragments
    PROVE  BoundInv'
<1>1. \A c : QP!Waiting(c)' = QP!Waiting(c)
  BY DEF QP!Waiting, QP!Passed
<1> QED BY <1>1 DEF BoundInv

\* bq_consumer_free gives up what was waiting.
LEMMA BoundLeave ==
    ASSUME QueueInv, QueueInv', ControlInv, ControlInv', BoundInv, FreeConsumer
    PROVE  BoundInv'
<1>1. at = "leave" /\ UNCHANGED <<fill_at, fragments, sessions, state>>
  BY DEF FreeConsumer, fillVars
<1>2. Session \in Consumers /\ Session \in attached
  BY <1>1, ListOf DEF ControlInv, OwnTypes, ListInv, Session
<1>3. PICK s \in Consumers : s = Session /\ s \in attached
  BY <1>2
<1>4. CASE BQ!bq_consumer_free(s)
  BY <1>1, <1>4, BoundQuiet DEF BQ!bq_consumer_free, BQ!producerVars, BQ!cursorVars
<1>5. CASE BQ!FreeMoveAll(s)
  <2>1. /\ QP!bq_consumer_move_internal(s) /\ fault = "none"
        /\ UNCHANGED <<puts, consumers, attached>>
    BY <1>5, SameQueue DEF QP!FreeMoveAll
  <2>2. QP!BookkeepingInv /\ QP!TypeOK' /\ fault' \in {"none", "serial"}
    BY DEF QueueInv, QueueShape, QP!BookkeepingInv
  <2>3. \A c \in attached : QP!Cursor(c)' \in {QP!Cursor(c), QP!Cursor(c) + 1}
    BY <1>3, <2>1, <2>2, QueueAssumption, SameSets, QP!MoveKeepsOrder
  <2>4. fault' = "none"
    BY <1>3, <2>1, <2>2, MoveSelects
  <2> QED BY <1>1, <2>1, <2>3, <2>4, BoundMoved, FragmentsNat
<1>6. CASE BQ!bq_decrement_seen_on_free(s)
  <2>1. attached' = attached \ {s} /\ puts' = puts
    BY <1>6 DEF BQ!bq_decrement_seen_on_free
  <2>2. Len(sessions) = 1 => attached' = {}
    BY <1>3, <2>1, LoneSession
  <2> QED BY <1>1, <2>1, <2>2 DEF BoundInv
<1> QED BY <1>3, <1>4, <1>5, <1>6 DEF FreeConsumer

LEMMA BoundStep ==
    ASSUME QueueInv, QueueInv', ControlInv, ControlInv', BoundInv, PacketInv, [Next]_vars
    PROVE  BoundInv'
<1>1. ASSUME NEW s \in Consumers, RTSP_setup(s) PROVE BoundInv'
  <2>1. /\ at = "loop" /\ state # "CLOSED" /\ sessions' = Append(sessions, s)
        /\ UNCHANGED <<fill_at, puts, elem>>
    BY <1>1 DEF RTSP_setup, BQ!bq_consumer_new, fillVars
  <2>2. sessions' # <<>>
    BY <2>1, AppendToList DEF ControlInv, OwnTypes
  <2>3. ASSUME Len(sessions') = 1, NEW c \in attached'
        PROVE  /\ QP!Waiting(c)' <= BufferedFrames + MaxFragments - 1
               /\ fill_at' \in {"lock", "read"} => QP!Waiting(c)' < BufferedFrames + fragments'
    <3>1. sessions = <<>>
      <4>1. sessions \in Seq(Consumers) /\ Len(sessions') = Len(sessions) + 1
        BY <2>1, AppendToList DEF ControlInv, OwnTypes
      <4>2. Len(sessions) \in Nat
        BY <4>1, LenProperties
      <4>3. Len(sessions) = 0
        BY <2>3, <4>1, <4>2
      <4> QED BY <4>1, <4>3, EmptySeq
    <3>2. puts = 0 /\ DOMAIN elem' = {}
      BY <2>1, <3>1 DEF BoundInv, QueueInv, QueueShape
    <3>3. QP!Waiting(c)' = 0
      BY <3>2, SameSets, FS_EmptySet DEF QP!Waiting
    <3>4. fill_at = "idle"
      BY <3>1, EmptyList DEF ControlInv, ListInv, PoolInv
    <3> QED BY <2>1, <3>3, <3>4, StreamingAssumption
  <2> QED BY <2>2, <2>3 DEF BoundInv
<1>2. ASSUME NEW time \in 0..(MediaLength - 1), do_play(time) PROVE BoundInv'
  <2>1. /\ first' = puts + 1 /\ UNCHANGED <<puts, attached, sessions, fill_at, fragments>>
        /\ state = "READY" /\ state' = "PLAYING"
    BY <1>2 DEF do_play, r_seek, BQ!bq_producer_reset_queue,
       BQ!bq_producer_reset_queue_internal, StartPlaying
  <2> QED BY <2>1, BoundEmptied, FragmentsNat
<1>3. CASE do_play_invalid
  <2>1. first' = puts + 1 /\ UNCHANGED <<puts, attached, sessions, state, fill_at, fragments>>
    BY <1>3 DEF do_play_invalid, r_seek, BQ!bq_producer_reset_queue,
       BQ!bq_producer_reset_queue_internal, fillVars, clientVars
  <2> QED BY <2>1, BoundEmptied, FragmentsNat
<1>4. CASE r_free
  <2>1. sessions' = <<>> /\ state' = "CLOSED"
    BY <1>4 DEF r_free
  <2> QED BY <2>1 DEF BoundInv
<1>5. CASE FreeConsumer
  BY <1>5, BoundLeave
<1>6. ASSUME NEW s \in Consumers, BQ!bq_consumer_get(s), UNCHANGED <<sessions, state, fill_at, fragments>>
      PROVE  BoundInv'
  <2>1. /\ QP!bq_consumer_get(s) /\ fault = "none" /\ fault' = "none"
        /\ UNCHANGED <<puts, attached>>
    BY <1>6, GetCall
  <2>2. \A c \in attached : QP!Cursor(c)' = QP!Cursor(c)
    BY <2>1, QueueAssumption, SameSets, QP!GetKeepsCursors DEF QueueInv
  <2> QED BY <1>6, <2>1, <2>2, BoundMoved, FragmentsNat
<1>7. ASSUME NEW s \in Consumers, rtp_write_cb(s) PROVE BoundInv'
  BY <1>6, <1>7 DEF rtp_write_cb, fillVars
<1>8. CASE ScheduleNext
  <2>1. Session \in Consumers
    BY <1>8, ListOf DEF ScheduleNext, ControlInv, OwnTypes, Session
  <2> QED BY <1>6, <1>8, <2>1 DEF ScheduleNext, fillVars
<1>9. CASE rtp_packet_send
  <2>1. at = "send" /\ BQ!bq_consumer_move(Session) /\ UNCHANGED <<sessions, state, fill_at, fragments>>
    BY <1>9 DEF rtp_packet_send, fillVars
  <2>2. PICK s \in Consumers : s = Session
    BY <2>1, ListOf DEF ControlInv, OwnTypes, Session
  <2>3. /\ QP!bq_consumer_move(s) /\ s \in attached /\ fault = "none" /\ fault' = "none"
        /\ UNCHANGED <<puts, attached>>
    BY <2>1, <2>2, MoveCall
  <2>4. QP!BookkeepingInv /\ QP!TypeOK' /\ QP!bq_consumer_move_internal(s)
        /\ UNCHANGED <<puts, consumers, attached>>
    BY <2>3 DEF QueueInv, QP!BookkeepingInv, QP!bq_consumer_move
  <2>5. \A c \in attached : QP!Cursor(c)' \in {QP!Cursor(c), QP!Cursor(c) + 1}
    BY <2>3, <2>4, QueueAssumption, SameSets, QP!MoveKeepsOrder
  <2> QED BY <2>1, <2>3, <2>5, BoundMoved, FragmentsNat
<1>10. CASE ReadFragment \/ ReadPacket
  BY <1>10, BoundRead
<1>11. CASE CheckUnseen
  <2>1. /\ fill_at' \in {"idle", "lock"}
        /\ UNCHANGED <<elem, puts, queue_serial, c_queue_serial, current, last_serial, attached,
                       sessions, state, fragments>>
    BY <1>11 DEF CheckUnseen, queueVars, clientVars
  <2>2. CASE fill_at' = "idle"
    BY <2>1, <2>2, BoundQuiet
  <2>3. CASE fill_at' = "lock"
    <3>1. \A c : QP!Waiting(c)' = QP!Waiting(c)
      BY <2>1 DEF QP!Waiting, QP!Passed
    <3>2. ASSUME Len(sessions) = 1, NEW c \in attached
          PROVE  /\ QP!Waiting(c) <= BufferedFrames + MaxFragments - 1
                 /\ QP!Waiting(c) < BufferedFrames + fragments
      <4>1. QP!Waiting(c) < BufferedFrames
        BY <1>11, <2>3, <3>2, BoundTested
      <4>2. QP!Waiting(c) \in Nat /\ fragments \in Nat
        BY <3>2, WaitingNat, StreamingAssumption DEF ControlInv, OwnTypes
      <4> QED BY <4>1, <4>2, StreamingAssumption
    <3> QED BY <2>1, <3>1, <3>2 DEF BoundInv
  <2> QED BY <2>1, <2>2, <2>3
<1>12. ASSUME UNCHANGED <<queueVars, sessions>>, (state = "CLOSED") = (state' = "CLOSED"),
              fill_at' \in {"lock", "read"} =>
               fill_at \in {"lock", "read"} /\ fragments' = fragments
       PROVE  BoundInv'
  BY <1>12, BoundQuiet DEF queueVars
<1>13. CASE do_play_unseekable \/ rtsp_do_pause \/ rtsp_session_free
  BY <1>12, <1>13 DEF do_play_unseekable, StartPlaying, rtsp_do_pause, rtsp_session_free,
     fillVars
<1>14. CASE rtp_session_resume \/ rtp_session_pause \/ rtp_session_free \/ NothingToRead \/ r_fill
  BY <1>12, <1>14 DEF rtp_session_resume, rtp_session_pause, rtp_session_free, NothingToRead,
     r_fill, fillVars
<1>15. CASE SessionPaused
  <2>1. /\ UNCHANGED <<queueVars, sessions, fill_at, fragments>> /\ at = "paused"
        /\ state' = state \/ state' = "READY"
    BY <1>15 DEF SessionPaused, fillVars
  <2>2. state # "CLOSED"
    BY <2>1, EmptyList, ListOf DEF ControlInv, OwnTypes, ListInv
  <2> QED BY <1>12, <2>1, <2>2
<1>16. CASE TakeJob \/ CheckPool \/ LockResource \/ EndOfResource
  BY <1>12, <1>16 DEF TakeJob, CheckPool, LockResource, EndOfResource, clientVars
<1>17. CASE UNCHANGED vars
  BY <1>12, <1>17 DEF vars, fillVars, clientVars
<1> QED BY <1>1, <1>2, <1>3, <1>4, <1>5, <1>7, <1>8, <1>9, <1>10, <1>11, <1>13, <1>14, <1>15,
           <1>16, <1>17 DEF Next, Request, Handler, r_read_cb

\* The invariant of the length of the queue.
THEOREM BoundSafe == Spec => []BoundInv
<1>1. /\ QueueInv /\ QueueInv' /\ ControlInv /\ ControlInv' /\ PacketInv /\ BoundInv
      /\ [Next]_vars
      => BoundInv'
  BY BoundStep
<1> QED BY <1>1, BoundInit, QueueSafe, ControlSafe, PacketSafe, PTL DEF Spec

(***************************************************************************)
(* What the runs check, for every number of sessions and packets.            *)
(***************************************************************************)

\* Both threads, the lists and the queue keep their types.
THEOREM StreamingTypeCorrect == Spec => []TypeOK
<1>1. QueueInv /\ ControlInv /\ PacketInv => TypeOK
  <2> SUFFICES ASSUME QueueInv, ControlInv, PacketInv PROVE TypeOK
    OBVIOUS
  <2>1. BQ!TypeOK
    BY DEF QueueInv, QP!BookkeepingInv, BQ!TypeOK, QP!TypeOK, BQ!Serial, QP!Serial
  <2>2. writing \subseteq Consumers
    BY ListOf DEF ControlInv, OwnTypes, TimerInv
  <2>3. OwnTypes /\ PayloadInv /\ due \in [Consumers -> AnyPacket..MediaLength]
    BY DEF ControlInv, PacketInv
  <2> QED BY <2>1, <2>2, <2>3 DEF TypeOK, OwnTypes, PayloadInv, Pausing, Leaving, InTimer
<1> QED BY <1>1, QueueSafe, ControlSafe, PacketSafe, PTL

\* rtp.c:58-63: a consumer is freed only after the fill thread is done with it, however
\* pauses, tear-downs and the jobs of the pool interleave.
THEOREM FillConsumerAliveSafe == Spec => []FillConsumerAlive
<1>1. ControlInv => FillConsumerAlive
  BY DEF ControlInv, PoolInv, FillConsumerAlive, Elems
<1> QED BY <1>1, ControlSafe, PTL

\* rtp.c:338-340: the buffer that is sent without a lock is still queued, and after a
\* successful move there is a buffer to schedule.
THEOREM BufferHeldSafe == Spec => []BufferHeld
<1>1. PacketInv => BufferHeld
  BY SameQueue DEF PacketInv, HeldInv, BufferHeld
<1> QED BY <1>1, PacketSafe, PTL

\* After PLAY every session sends the packets from the begin time on, in order: none is
\* lost in the queue, repeated or left over from before the seek.
THEOREM SentInOrderSafe == Spec => []SentInOrder
<1>1. OrderInv => SentInOrder
  BY DEF OrderInv
<1> QED BY <1>1, OrderSafe, PTL

\* resource.c:435-436: what waits for a lone session never exceeds BufferedFrames by more
\* than the further packets of one frame, however many packets read_packet makes of it.
THEOREM QueueBoundedSafe == Spec => []QueueBounded
<1>1. BoundInv => QueueBounded
  <2>1. \A S : BQ!Cardinality(S) = QP!Cardinality(S)
    BY DEF BQ!Cardinality, QP!Cardinality
  <2>2. \A c, p : BQ!Passed(c, p) <=> QP!Passed(c, p)
    BY DEF BQ!Passed, QP!Passed, BQ!NULL, QP!NULL
  <2>3. \A c : {p \in DOMAIN elem : ~BQ!Passed(c, p)} = {p \in DOMAIN elem : ~QP!Passed(c, p)}
    BY <2>2
  <2>4. \A c : BQ!Waiting(c) = QP!Waiting(c)
    BY <2>1, <2>3 DEF BQ!Waiting, QP!Waiting
  <2> QED BY <2>4 DEF BoundInv, QueueBounded
<1> QED BY <1>1, BoundSafe, PTL
=============================================================================
