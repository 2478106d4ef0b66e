------------------------------ MODULE Streaming ------------------------------
(***************************************************************************)
(* How a stored resource is played: resource.c, rtp.c and the PLAY, PAUSE    *)
(* and TEARDOWN handlers on top of the buffer queue.                         *)
(*                                                                           *)
(* Two threads share the resource.  The client's thread runs its event loop: *)
(* the RTSP requests, and the rtp_writer timer of each RTP session, which    *)
(* takes buffers from the queue, sends them and asks for more.  The one      *)
(* thread of Resource::fill_pool runs r_read_cb for the consumers pushed by  *)
(* r_fill and reads packets from the demuxer into the queue.  They meet at   *)
(* Resource::lock, at the atomics fill_pool and eor, and at the mutex of     *)
(* the queue.                                                                *)
(*                                                                           *)
(* The resource has one track; every SETUP of it adds an RTP session, that   *)
(* is a consumer of the same queue.  A packet is its position in the media.  *)
(* One Demuxer::read_packet (external, as is seek) may cut a frame into      *)
(* several packets and puts a buffer for each.  It has to call               *)
(* bq_producer_put itself: the call in mparser_buffer_write is commented out.*)
(***************************************************************************)
EXTENDS Integers, Sequences, FiniteSets

CONSTANTS
    Consumers, SerialModulus, Live, FirstLiveSeq, MaxPuts, MaxQueueSerial,
    BufferedFrames,  \* feng_srv.buffered_frames
    MediaLength,     \* packets in the media
    MaxFragments,    \* the packets one read_packet may write
    MaxJobs          \* bound: consumers pushed to the pool and not yet taken

ASSUME QueueAssumption ==
    /\ IsFiniteSet(Consumers)
    /\ SerialModulus \in Nat /\ SerialModulus > 1
    /\ Live \in BOOLEAN
    /\ FirstLiveSeq \in 0..(SerialModulus - 1)
    /\ MaxPuts \in Nat
    /\ MaxQueueSerial \in Nat

ASSUME StreamingAssumption ==
    /\ ~Live
    /\ BufferedFrames \in Nat
    /\ MediaLength \in Nat \ {0}
    /\ MaxFragments \in Nat \ {0}
    /\ MediaLength <= MaxPuts
    /\ MaxJobs \in Nat \ {0}

\* The buffer queue of the track.
VARIABLES elem, first, puts, next_serial, queue_serial, consumers, stopped,
          attached, c_queue_serial, current, last_serial, freeing, fault

BQ == INSTANCE BufferQueue

VARIABLES
    seekable,   \* Resource::seekable, set when the resource is opened
    lock,       \* who holds Resource::lock
    fill_pool,  \* Resource::fill_pool is not NULL
    jobs,       \* the consumers waiting in the pool
    fill_at,    \* where the pool's thread is in r_read_cb
    fill_for,   \* the consumer r_read_cb was called for
    eor,        \* Resource::eor
    fragments,  \* the packets the current read_packet has written
    pos,        \* the demuxer's position in the media
    ended,      \* read_packet has not returned RESOURCE_OK since the last seek
    payload,    \* the packet in each queued buffer
    state,      \* RTSP_session::cur_state
    sessions,   \* RTSP_session::rtp_sessions
    writing,    \* the sessions whose rtp_writer timer is active
    at,         \* where the client's thread is in a handler
    todo,       \* the sessions the handler still has to go through
    due         \* the packet each session has to send next, AnyPacket before PLAY

queueVars == <<elem, first, puts, next_serial, queue_serial, consumers, stopped,
               attached, c_queue_serial, current, last_serial, freeing, fault>>
fillVars == <<fill_at, fill_for, eor, fragments, pos, ended>>
poolVars == <<lock, fill_pool, jobs>>
clientVars == <<state, sessions, writing, at, todo, due>>
vars == <<queueVars, fillVars, poolVars, clientVars, payload, seekable>>

AnyPacket == -1
Session == todo[1]

Init ==
    /\ BQ!Init
    /\ seekable \in BOOLEAN
    /\ lock = "free" /\ fill_pool = FALSE /\ jobs = <<>>
    /\ fill_at = "idle" /\ fill_for \in Consumers /\ eor = FALSE
    /\ fragments = 0 /\ pos = 0 /\ ended = FALSE /\ payload = <<>>
    /\ state = "INIT" /\ sessions = <<>> /\ writing = {}
    /\ at = "loop" /\ todo = <<>> /\ due = [s \in Consumers |-> AnyPacket]

\* The buffers that left the queue take their packets with them.
KeepPayload == payload' = [p \in DOMAIN elem' |-> payload[p]]

-----------------------------------------------------------------------------
(* RTSP requests, handled while the event loop is idle *)

\* RTSP_setup, up to the consumer that rtp_session_new registers.  SETUP is
\* accepted in every state.
RTSP_setup(s) ==
    /\ at = "loop"
    /\ state # "CLOSED"
    /\ BQ!bq_consumer_new(s)
    /\ sessions' = Append(sessions, s)
    /\ state' = IF state = "INIT" THEN "READY" ELSE state
    /\ UNCHANGED <<fillVars, poolVars, payload, writing, at, todo, due>>

\* Mutant: the queues are not reset.
SeekKeepsQueue == UNCHANGED queueVars

\* r_seek holds the lock while the demuxer seeks and the queues are reset.
r_seek == lock = "free" /\ BQ!bq_producer_reset_queue

StartPlaying ==
    /\ state' = "PLAYING"
    /\ at' = "resume"
    /\ todo' = sessions
    /\ UNCHANGED <<sessions, writing>>

\* do_play on a seekable resource, the guard on puts being the bound MaxPuts.
do_play(time) ==
    /\ at = "loop" /\ state = "READY" /\ seekable
    /\ puts + MediaLength - time <= MaxPuts
    /\ r_seek
    /\ pos' = time
    /\ ended' = FALSE
    /\ due' = [s \in Consumers |-> time]
    /\ StartPlaying
    /\ KeepPayload
    /\ UNCHANGED <<fill_at, fill_for, eor, fragments, poolVars>>

\* Demuxer::seek fails: RTSP_InvalidRange, but the queues have been reset.
do_play_invalid ==
    /\ at = "loop" /\ state = "READY" /\ seekable
    /\ r_seek
    /\ KeepPayload
    /\ UNCHANGED <<fillVars, poolVars, clientVars>>

\* Without Demuxer::seek the media goes on where it was left.
do_play_unseekable ==
    /\ at = "loop" /\ state = "READY" /\ ~seekable
    /\ StartPlaying
    /\ UNCHANGED <<queueVars, fillVars, poolVars, payload, due>>

\* Mutant: the loop goes on after the last session.
NextSessionAgain(again, done) ==
    /\ todo' = Tail(todo)
    /\ at' = IF Len(todo) > 0 THEN again ELSE done

\* The rest of the list, and where to go after the last session.
NextSession(again, done) ==
    /\ todo' = Tail(todo)
    /\ at' = IF Len(todo) > 1 THEN again ELSE done

\* r_resume creates the pool, r_fill pushes the consumer under the lock.
rtp_session_resume ==
    /\ at = "resume" /\ lock = "free"
    /\ fill_pool' = TRUE
    /\ jobs' = Append(jobs, Session)
    /\ writing' = writing \cup {Session}
    /\ NextSession("resume", "loop")
    /\ UNCHANGED <<queueVars, fillVars, payload, lock, state, sessions, due>>

\* RTSP_pause; a PLAY of VLC in state PLAYING runs rtsp_do_pause first as well.
rtsp_do_pause ==
    /\ at = "loop" /\ state = "PLAYING"
    /\ at' = "pause"
    /\ todo' = sessions
    /\ UNCHANGED <<queueVars, fillVars, poolVars, payload, state, sessions, writing, due>>

\* Mutant: the pool is released without waiting for its thread.
PauseWithoutWait(from, wait, done) ==
    /\ at = from
    /\ lock = "free"
    /\ fill_pool' = FALSE
    /\ jobs' = <<>>
    /\ at' = done
    /\ UNCHANGED lock

\* r_pause: with the lock held, the pool is taken away, its waiting jobs are
\* dropped and g_thread_pool_free waits for the thread.
r_pause(from, wait, done) ==
    /\ at = from
    /\ IF fill_pool
       THEN /\ lock = "free"
            /\ lock' = "client"
            /\ fill_pool' = FALSE
            /\ jobs' = <<>>
            /\ at' = wait
       ELSE /\ at' = done
            /\ UNCHANGED poolVars

\* g_thread_pool_free returns when the thread is done.
PoolFreed(wait, done) ==
    /\ at = wait
    /\ fill_at = "idle"
    /\ lock' = "free"
    /\ at' = done
    /\ UNCHANGED <<fill_pool, jobs>>

rtp_session_pause ==
    /\ r_pause("pause", "pausewait", "paused") \/ PoolFreed("pausewait", "paused")
    /\ UNCHANGED <<queueVars, fillVars, payload, state, sessions, writing, todo, due>>

\* ev_periodic_stop; READY after the last session.
SessionPaused ==
    /\ at = "paused"
    /\ writing' = writing \ {Session}
    /\ NextSession("pause", "loop")
    /\ state' = IF Len(todo) = 1 THEN "READY" ELSE state
    /\ UNCHANGED <<queueVars, fillVars, poolVars, payload, sessions, due>>

\* RTSP_teardown, or the end of the connection: rtsp_session_free.
rtsp_session_free ==
    /\ at = "loop" /\ state # "CLOSED"
    /\ at' = IF sessions = <<>> THEN "close" ELSE "free"
    /\ todo' = sessions
    /\ UNCHANGED <<queueVars, fillVars, poolVars, payload, state, sessions, writing, due>>

\* rtp_session_free: stop the timer, r_pause, bq_consumer_free.
rtp_session_free ==
    /\ r_pause("free", "freewait", "leave") \/ PoolFreed("freewait", "leave")
    /\ writing' = writing \ {Session}
    /\ UNCHANGED <<queueVars, fillVars, payload, state, sessions, todo, due>>

FreeConsumer ==
    /\ at = "leave"
    /\ \/ freeing[Session] = "no" /\ BQ!bq_consumer_free(Session) /\ UNCHANGED <<at, todo>>
       \/ BQ!FreeMoveAll(Session) /\ UNCHANGED <<at, todo>>
       \/ BQ!bq_decrement_seen_on_free(Session) /\ NextSession("free", "close")
    /\ KeepPayload
    /\ UNCHANGED <<fillVars, poolVars, state, sessions, writing, due>>

\* r_close, r_free: r_stop_fill without the lock, then the tracks are freed.
r_free ==
    /\ at = "close"
    /\ fill_at = "idle"
    /\ BQ!bq_producer_unref
    /\ fill_pool' = FALSE
    /\ jobs' = <<>>
    /\ state' = "CLOSED"
    /\ at' = "loop"
    /\ sessions' = <<>>
    /\ KeepPayload
    /\ UNCHANGED <<fillVars, lock, writing, todo, due>>

-----------------------------------------------------------------------------
(* rtp_write_cb *)

\* The timer of session s fires; the guard on jobs is the bound MaxJobs.
rtp_write_cb(s) ==
    /\ at = "loop" /\ s \in writing
    /\ Len(jobs) < MaxJobs
    /\ BQ!bq_consumer_get(s)
    /\ todo' = <<s>>
    /\ at' = IF current'[s] = BQ!NULL THEN "empty" ELSE "send"
    /\ KeepPayload
    /\ UNCHANGED <<fillVars, poolVars, state, sessions, writing, due>>

\* Nothing to send: at the end of the resource RTCP BYE goes out and the timer
\* is not armed again.
NothingToRead ==
    /\ at = "empty"
    /\ IF eor
       THEN at' = "loop" /\ writing' = writing \ {Session} /\ todo' = <<>>
       ELSE at' = "fill" /\ UNCHANGED <<writing, todo>>
    /\ UNCHANGED <<queueVars, fillVars, poolVars, payload, state, sessions, due>>

\* The packet is sent from the buffer, without any lock, before the move.
rtp_packet_send ==
    /\ at = "send"
    /\ BQ!bq_consumer_move(Session)
    /\ due' = [due EXCEPT ![Session] = payload[current[Session]] + 1]
    /\ at' = IF current'[Session] = BQ!NULL THEN "fill" ELSE "next"
    /\ KeepPayload
    /\ UNCHANGED <<fillVars, poolVars, state, sessions, writing, todo>>

\* The delivery time of the next buffer sets the timer.
ScheduleNext ==
    /\ at = "next"
    /\ BQ!bq_consumer_get(Session)
    /\ at' = "fill"
    /\ KeepPayload
    /\ UNCHANGED <<fillVars, poolVars, state, sessions, writing, todo, due>>

\* Mutant: the consumer is not pushed.
FillForgotten ==
    /\ at = "fill" /\ lock = "free"
    /\ at' = "loop"
    /\ todo' = <<>>
    /\ UNCHANGED <<queueVars, fillVars, payload, poolVars, state, sessions, writing, due>>

\* The timer is armed again, and more frames are asked for.
r_fill ==
    /\ at = "fill" /\ lock = "free"
    /\ jobs' = IF fill_pool THEN Append(jobs, Session) ELSE jobs
    /\ at' = "loop"
    /\ todo' = <<>>
    /\ UNCHANGED <<queueVars, fillVars, payload, lock, fill_pool, state, sessions,
                   writing, due>>

-----------------------------------------------------------------------------
(* r_read_cb, in the thread of the pool *)

TakeJob ==
    /\ fill_at = "idle" /\ jobs # <<>>
    /\ fill_for' = Head(jobs)
    /\ jobs' = Tail(jobs)
    /\ fill_at' = "pool"
    /\ UNCHANGED <<queueVars, payload, lock, fill_pool, eor, fragments, pos, ended,
                   clientVars>>

\* fill_pool is read without a lock: NULL is the signal to stop.
CheckPool ==
    /\ fill_at = "pool"
    /\ fill_at' = IF fill_pool THEN "unseen" ELSE "idle"
    /\ UNCHANGED <<queueVars, payload, poolVars, fill_for, eor, fragments, pos, ended,
                   clientVars>>

\* Mutant: one frame too many.
EnoughOffByOne == BQ!bq_consumer_unseen(fill_for) > BufferedFrames

Enough == BQ!bq_consumer_unseen(fill_for) >= BufferedFrames

CheckUnseen ==
    /\ fill_at = "unseen" /\ BQ!Unlocked
    /\ fill_at' = IF Enough THEN "idle" ELSE "lock"
    /\ UNCHANGED <<queueVars, payload, poolVars, fill_for, eor, fragments, pos, ended,
                   clientVars>>

LockResource ==
    /\ fill_at = "lock" /\ lock = "free"
    /\ lock' = "fill"
    /\ fill_at' = "read"
    /\ UNCHANGED <<queueVars, payload, fill_pool, jobs, fill_for, eor, fragments, pos,
                   ended, clientVars>>

\* read_packet writes the next packet to the queue.
WritePacket ==
    /\ fill_at = "read" /\ pos < MediaLength
    /\ BQ!bq_producer_put
    /\ payload' = [p \in DOMAIN elem' |-> IF p = puts' THEN pos ELSE payload[p]]
    /\ pos' = pos + 1
    /\ UNCHANGED <<fill_pool, jobs, fill_for, eor, ended, clientVars>>

\* A fragment of the frame that is not the last: read_packet goes on, with the
\* lock held and the queue not looked at again.
ReadFragment ==
    /\ WritePacket
    /\ pos + 1 < MediaLength /\ fragments + 1 < MaxFragments
    /\ fragments' = fragments + 1
    /\ UNCHANGED <<lock, fill_at>>

\* The last packet of the frame: read_packet returns RESOURCE_OK.  Only this
\* thread writes eor, which it tests after the unlock.
ReadPacket ==
    /\ WritePacket
    /\ fragments' = 0
    /\ lock' = "free"
    /\ fill_at' = IF eor THEN "idle" ELSE "pool"

\* RESOURCE_EOF, or an error, that is treated alike.
EndOfResource ==
    /\ fill_at = "read"
    /\ eor' = TRUE
    /\ ended' = TRUE
    /\ fragments' = 0
    /\ lock' = "free"
    /\ fill_at' = "idle"
    /\ UNCHANGED <<queueVars, payload, fill_pool, jobs, fill_for, pos, clientVars>>

r_read_cb ==
    \/ TakeJob \/ CheckPool \/ CheckUnseen \/ LockResource
    \/ ReadFragment \/ ReadPacket \/ EndOfResource

-----------------------------------------------------------------------------

Request ==
    \/ \E s \in Consumers : RTSP_setup(s)
    \/ \E time \in 0..(MediaLength - 1) : do_play(time)
    \/ do_play_invalid
    \/ do_play_unseekable
    \/ rtsp_do_pause
    \/ rtsp_session_free

\* What the client's thread does until it is back in the event loop.
Handler ==
    \/ rtp_session_resume
    \/ rtp_session_pause
    \/ SessionPaused
    \/ rtp_session_free
    \/ FreeConsumer
    \/ r_free
    \/ NothingToRead
    \/ rtp_packet_send
    \/ ScheduleNext
    \/ r_fill

Next ==
    /\ \/ Request
       \/ Handler
       \/ \E s \in Consumers : rtp_write_cb(s)
       \/ r_read_cb
    /\ UNCHANGED seekable

Spec == Init /\ [][Next]_vars

\* Both threads run on, and the event loop serves every timer that is armed, the
\* handlers of the others in between.  Requests need not come.
Fairness ==
    /\ WF_vars(Handler /\ UNCHANGED seekable)
    /\ WF_vars(r_read_cb /\ UNCHANGED seekable)
    /\ \A s \in Consumers : SF_vars(rtp_write_cb(s) /\ UNCHANGED seekable)

FairSpec == Spec /\ Fairness

-----------------------------------------------------------------------------
(* Properties *)

\* Control points and lists stay within the handlers.
TypeOK ==
    /\ BQ!TypeOK
    /\ seekable \in BOOLEAN
    /\ lock \in {"free", "client", "fill"}
    /\ fill_pool \in BOOLEAN /\ eor \in BOOLEAN /\ ended \in BOOLEAN
    /\ jobs \in Seq(Consumers) /\ fill_for \in Consumers
    /\ fill_at \in {"idle", "pool", "unseen", "lock", "read"}
    /\ fragments \in 0..(MaxFragments - 1) /\ pos \in 0..MediaLength
    /\ payload \in [DOMAIN elem -> 0..(MediaLength - 1)]
    /\ state \in {"INIT", "READY", "PLAYING", "CLOSED"}
    /\ sessions \in Seq(Consumers) /\ todo \in Seq(Consumers)
    /\ writing \subseteq Consumers
    /\ at \in {"loop", "resume", "pause", "pausewait", "paused", "free", "freewait",
               "leave", "close", "empty", "send", "next", "fill"}
    /\ at # "loop" /\ at # "close" => todo # <<>>
    /\ due \in [Consumers -> AnyPacket..MediaLength]

\* rtp.c:58-63: a consumer is freed only after the fill thread is done with it,
\* so no job of the pool refers to a freed consumer.
FillConsumerAlive ==
    /\ \A i \in 1..Len(jobs) : jobs[i] \in attached
    /\ fill_at # "idle" => fill_for \in attached

\* The buffer that rtp_packet_send copies without a lock is still queued, and
\* the bq_consumer_get that follows a successful move (rtp.c:338-340, which
\* does not test its result) has a buffer to return.
BufferHeld ==
    /\ at = "send" => current[Session] \in DOMAIN elem
    /\ at = "next" => BQ!bq_consumer_confirm_pointer(Session) \in DOMAIN elem

\* After PLAY with a range every session sends the packets from its begin time
\* on, in order, none lost in the queue, repeated or left over from before.
SentInOrder ==
    at = "send" => due[Session] \in {AnyPacket, payload[current[Session]]}

\* resource.c:435-436: the fill thread stops when the queue is long enough.  It
\* looks before each frame, without a lock that keeps the client's thread away until
\* it reads, and not at each packet: for a lone session every frame is begun with
\* fewer than BufferedFrames packets waiting, and so the last one goes over it by no
\* more than the packets that follow its first.
QueueBounded ==
    Len(sessions) = 1 =>
        \A c \in attached :
            /\ fill_at = "read" => BQ!Waiting(c) < BufferedFrames + fragments
            /\ BQ!Waiting(c) <= BufferedFrames + MaxFragments - 1

\* resource.c:585-587: r_fill gets the consumer enough frames to send.  A session
\* with an armed timer sends again, unless its stream ends or is stopped.
KeepsStreaming ==
    \A s \in Consumers :
        (s \in writing) ~>
            \/ s \notin writing
            \/ at = "send" /\ Session = s
            \/ at \in {"pausewait", "freewait"}

\* resource.c:527: r_pause "stops the fill thread for the resource", and returns.
PauseReturns == (at \in {"pausewait", "freewait"}) ~> (at \notin {"pausewait", "freewait"})

\* rtp.c:289-290: without a buffer at the end of the stream "we send the finishing
\* packets and go away"; nothing is left for the session then.
ByeAfterLast == (at = "empty" /\ eor) => BQ!Waiting(Session) = 0
=============================================================================
