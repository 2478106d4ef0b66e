----------------------------- MODULE RtspSession -----------------------------
(***************************************************************************)
(* The RTSP session of one connection: the handlers of SETUP, PLAY, PAUSE    *)
(* and TEARDOWN with the list of play ranges, the RTP sessions with their    *)
(* timers and RTP times, and the timer that kicks idle clients.              *)
(*                                                                           *)
(* All of it runs in the event loop of the client's thread.  A request that  *)
(* is refused before it changes anything (455, 400, 403, 461, 404) is a      *)
(* stuttering step.  Times are whole seconds, of the clock or in the media.  *)
(* Packets are those of a stored resource: the RTP writer sends what is due  *)
(* by its schedule (rtp.c), the demuxer's seek (external) may fail.          *)
(***************************************************************************)
EXTENDS Integers, Sequences, FiniteSets

CONSTANTS
    RtpSessions,    \* the RTP session objects SETUP may allocate
    Duration,       \* Resource::duration
    StreamTimeout,  \* STREAM_TIMEOUT
    ClockRate,      \* of the track, RTP time units in a second
    RtpModulus,     \* 2^32: RTP times are uint32_t
    StartTimes,     \* what g_random_int may give for start_rtptime
    NptHeaders,     \* the Range headers that clients send, see Headers
    MaxTime,        \* bound: the clock
    MaxRanges       \* bound: ranges ever allocated

ASSUME SessionAssumption ==
    /\ IsFiniteSet(RtpSessions)
    /\ Duration \in Nat \ {0}
    /\ StreamTimeout \in Nat \ {0}
    /\ ClockRate \in Nat \ {0} /\ RtpModulus \in Nat \ {0}
    /\ StartTimes \subseteq 0..(RtpModulus - 1)
    /\ NptHeaders \subseteq [kind : {"npt"}, begin : 0..Duration, end : Int]
    /\ MaxTime \in Nat /\ MaxTime > StreamTimeout
    /\ MaxRanges \in Nat

VARIABLES
    now,            \* the clock, far enough from the epoch
    open,           \* the event loop of the client runs
    session,        \* RTSP_Client::session is not NULL
    resource,       \* RTSP_session::resource is not NULL
    cur_state,      \* RTSP_session::cur_state
    rtp_sessions,   \* RTSP_session::rtp_sessions
    play_requests,  \* RTSP_session::play_requests, the edit list
    range,          \* the allocated RTSP_Ranges
    allocated,      \* number of ranges ever allocated
    vlc_play,       \* the Range header of a PLAY that runs rtsp_do_pause first
    timer,          \* when RTSP_Client::ev_timeout fires, None while it is stopped
    rtp             \* the RTP sessions, see TypeOK

listVars == <<play_requests, range, allocated>>
sessionVars == <<session, resource, cur_state, rtp_sessions>>
vars == <<now, open, sessionVars, listVars, vlc_play, timer, rtp>>

None == 0
Unset == -1             \* the -0.1 of a time that was not given

\* g_slice_new0: paused, without a range, never sent anything; start_rtptime is random.
\* told is what the client read last in a Range and RTP-Info header.
NewRtp(start_rtptime) ==
    [range |-> None, writer |-> FALSE, sent |-> 0, last |-> 0, start |-> start_rtptime,
     told |-> [npt |-> 0, rtptime |-> 0]]

Init ==
    /\ now = StreamTimeout
    /\ open = TRUE /\ session = FALSE /\ resource = FALSE /\ cur_state = "INIT"
    /\ rtp_sessions = <<>> /\ play_requests = <<>> /\ allocated = 0
    /\ range = [r \in {} |-> None]
    /\ vlc_play = <<>> /\ timer = None
    /\ rtp = [s \in RtpSessions |-> NewRtp(0)]

Idle == open /\ vlc_play = <<>>

\* ev_timer_again: the repeat value is STREAM_TIMEOUT.
ev_timer_again == timer' = now + StreamTimeout

Sessions == {rtp_sessions[i] : i \in 1..Len(rtp_sessions)}

-----------------------------------------------------------------------------
(* SETUP *)

\* select_requested_track finds no resource, or no track in it, or no transport of the
\* request can be set up: the session is there, maybe with its resource, and stays in
\* its state.
RTSP_setup_fails(found) ==
    /\ Idle
    /\ session' = TRUE
    /\ resource' = (resource \/ found)
    /\ UNCHANGED <<now, open, cur_state, rtp_sessions, listVars, vlc_play, timer, rtp>>

\* A new RTP session s.
RTSP_setup(s, start_rtptime) ==
    /\ Idle
    /\ s \notin Sessions
    /\ session' = TRUE
    /\ resource' = TRUE
    /\ rtp' = [rtp EXCEPT ![s] = NewRtp(start_rtptime)]
    /\ rtp_sessions' = Append(rtp_sessions, s)
    /\ cur_state' = IF cur_state = "INIT" THEN "READY" ELSE cur_state
    /\ UNCHANGED <<now, open, listVars, vlc_play, timer>>

-----------------------------------------------------------------------------
(* PLAY *)

\* The Range header of a request: absent, not understood, or an npt range, whose
\* end may be open (negative), before its begin or behind the end of the resource: the
\* code compares neither the two times nor the begin with the duration.
NoHeader == [kind |-> "none", begin |-> 0, end |-> Unset]
BadHeader == [kind |-> "bad", begin |-> 0, end |-> Unset]
Headers == {NoHeader, BadHeader} \cup NptHeaders

NewRange(header) ==
    [begin |-> header.begin,
     end |-> IF header.end \in 0..Duration THEN header.end ELSE Duration,
     playback |-> now]

\* Mutant: the old ranges are released while they are being played.
ParseFreesAlways(header) ==
    IF header = NoHeader /\ play_requests # <<>>
    THEN /\ range' = [range EXCEPT ![Head(play_requests)].playback = now]
         /\ UNCHANGED <<play_requests, allocated>>
    ELSE /\ allocated < MaxRanges
         /\ allocated' = allocated + 1
         /\ play_requests' = <<allocated'>>
         /\ range' = [r \in {allocated'} |-> NewRange(header)]

\* Mutant: the old ranges leave the list without being released.
ParseLeaksRanges(header) ==
    IF header = NoHeader /\ play_requests # <<>>
    THEN /\ range' = [range EXCEPT ![Head(play_requests)].playback = now]
         /\ UNCHANGED <<play_requests, allocated>>
    ELSE /\ allocated < MaxRanges
         /\ allocated' = allocated + 1
         /\ play_requests' = IF cur_state = "PLAYING" THEN Append(play_requests, allocated')
                                                      ELSE <<allocated'>>
         /\ range' = [r \in DOMAIN range \cup {allocated'} |->
                          IF r = allocated' THEN NewRange(header) ELSE range[r]]

\* parse_range_header, for a header that is understood.
parse_range_header(header) ==
    IF header = NoHeader /\ play_requests # <<>>
    THEN /\ range' = [range EXCEPT ![Head(play_requests)].playback = now]
         /\ UNCHANGED <<play_requests, allocated>>
    ELSE /\ allocated < MaxRanges
         /\ allocated' = allocated + 1
         /\ play_requests' = IF cur_state = "PLAYING" THEN Append(play_requests, allocated')
                                                      ELSE <<allocated'>>
         /\ range' = [r \in {play_requests'[i] : i \in 1..Len(play_requests')} |->
                          IF r = allocated' THEN NewRange(header) ELSE range[r]]

\* Mutant: the sessions keep the range they had.
ResumeKeepsRange(r) ==
    [s \in RtpSessions |->
        IF s \in Sessions
        THEN [rtp[s] EXCEPT !.range = IF @ = None THEN r ELSE @, !.writer = TRUE,
                            !.sent = range'[r].begin, !.last = now,
                            !.start = (@ + (now - rtp[s].last) * ClockRate) % RtpModulus]
        ELSE rtp[s]]

\* rtp_session_gslist_resume: each session plays r from its begin time, and its RTP time
\* goes on by the time it was silent.
rtp_session_gslist_resume(r) ==
    [s \in RtpSessions |->
        IF s \in Sessions
        THEN [rtp[s] EXCEPT !.range = r, !.writer = TRUE,
                            !.sent = range'[r].begin, !.last = now,
                            !.start = (@ + (now - rtp[s].last) * ClockRate) % RtpModulus]
        ELSE rtp[s]]

\* Mutant: the reply describes the range that was asked for, not the one being played.
ReplyWithLast(sessions) ==
    rtp' = [s \in RtpSessions |->
               IF s \in Sessions
               THEN [sessions[s] EXCEPT
                        !.told = [npt |-> range'[play_requests'[Len(play_requests')]].begin,
                                  rtptime |-> sessions[s].start]]
               ELSE sessions[s]]

\* send_play_reply: the first range and, for each session, where it begins in RTP time.
send_play_reply(sessions) ==
    rtp' = [s \in RtpSessions |->
               IF s \in Sessions
               THEN [sessions[s] EXCEPT !.told = [npt |-> range'[Head(play_requests')].begin,
                                                  rtptime |-> sessions[s].start]]
               ELSE sessions[s]]

\* do_play: the seek succeeds, or RTSP_InvalidRange leaves the new list behind.
do_play ==
    \/ /\ cur_state' = "PLAYING"
       /\ send_play_reply(rtp_session_gslist_resume(Head(play_requests')))
       /\ ev_timer_again
    \/ UNCHANGED <<cur_state, rtp, timer>>

\* The part of RTSP_play after the workaround for VLC.
PlayRange(header) ==
    /\ parse_range_header(header)
    /\ IF cur_state = "PLAYING"
       THEN send_play_reply(rtp) /\ ev_timer_again /\ UNCHANGED cur_state
       ELSE do_play

RTSP_play(header) ==
    /\ Idle
    /\ cur_state # "INIT"
    /\ header # BadHeader
    /\ PlayRange(header)
    /\ UNCHANGED <<now, open, session, resource, rtp_sessions, vlc_play>>

-----------------------------------------------------------------------------
(* PAUSE and TEARDOWN *)

StopWriters ==
    rtp' = [s \in RtpSessions |-> [rtp[s] EXCEPT !.writer = FALSE]]

\* rtsp_do_pause: the pause point goes to the first range.
rtsp_do_pause ==
    /\ cur_state = "PLAYING"
    /\ LET first == Head(play_requests)
       IN  range' = [range EXCEPT ![first].begin = @ + now - range[first].playback,
                                  ![first].playback = Unset]
    /\ StopWriters
    /\ timer' = None
    /\ cur_state' = "READY"
    /\ UNCHANGED <<now, open, session, resource, rtp_sessions, play_requests, allocated>>

RTSP_pause == Idle /\ rtsp_do_pause /\ UNCHANGED vlc_play

\* PLAY of VLC while playing: pause, then play.
RTSP_play_vlc(header) == Idle /\ rtsp_do_pause /\ vlc_play' = <<header>>

RTSP_play_continue ==
    /\ vlc_play # <<>>
    /\ IF vlc_play[1] = BadHeader THEN UNCHANGED <<listVars, cur_state, rtp, timer>>
                              ELSE PlayRange(vlc_play[1])
    /\ vlc_play' = <<>>
    /\ UNCHANGED <<now, open, session, resource, rtp_sessions>>

rtsp_session_free ==
    /\ session' = FALSE /\ resource' = FALSE /\ cur_state' = "INIT"
    /\ rtp_sessions' = <<>> /\ play_requests' = <<>>
    /\ range' = [r \in {} |-> None]
    /\ rtp' = [s \in RtpSessions |-> NewRtp(0)]

RTSP_teardown ==
    /\ Idle
    /\ rtsp_session_free
    /\ UNCHANGED <<now, open, allocated, vlc_play, timer>>

\* ev_unloop, then the end of client_loop.
CloseClient ==
    /\ open' = FALSE
    /\ timer' = None
    /\ rtsp_session_free
    /\ UNCHANGED <<now, allocated, vlc_play>>

Disconnect == Idle /\ CloseClient

-----------------------------------------------------------------------------
(* Timers *)

\* The media time the schedule of session s has reached, within the media.
Due(s) ==
    LET t == range[rtp[s].range].begin + now - range[rtp[s].range].playback
    IN  IF t > Duration THEN Duration ELSE t

\* rtptime: the timestamp of the packet at media time m.
rtptime(s, m) ==
    (rtp[s].start + (m - range[rtp[s].range].begin) * ClockRate) % RtpModulus

\* rtcp_set_sr: the RTP time that a sender report gives for now.
rtcp_set_sr(s) ==
    (rtp[s].start + (now - range[rtp[s].range].playback) * ClockRate) % RtpModulus

\* rtp_write_cb sends what is due; at the end of the media the timer stays off.
rtp_write_cb(s) ==
    /\ Idle
    /\ rtp[s].writer
    /\ Due(s) > rtp[s].sent
    /\ rtp' = [rtp EXCEPT ![s].sent = Due(s), ![s].last = now,
                          ![s].writer = Due(s) < Duration]
    /\ UNCHANGED <<now, open, sessionVars, listVars, vlc_play, timer>>

\* check_if_any_rtp_session_timedout, for the sessions of the list.
TimedOut == {s \in Sessions : now - rtp[s].last >= StreamTimeout}

TimerDue == Idle /\ session /\ timer # None /\ timer <= now

client_ev_timeout ==
    /\ TimerDue
    /\ IF TimedOut # {}
       THEN CloseClient
       ELSE /\ ev_timer_again
            /\ UNCHANGED <<now, open, sessionVars, listVars, vlc_play, rtp>>

\* The loop reads the clock between callbacks: ev_now is constant during one.
Tick ==
    /\ Idle
    /\ now < MaxTime
    /\ now' = now + 1
    /\ UNCHANGED <<open, sessionVars, listVars, vlc_play, timer, rtp>>

-----------------------------------------------------------------------------

Next ==
    \/ \E found \in BOOLEAN : RTSP_setup_fails(found)
    \/ \E s \in RtpSessions, t \in StartTimes : RTSP_setup(s, t)
    \/ \E header \in Headers : RTSP_play(header) \/ RTSP_play_vlc(header)
    \/ RTSP_play_continue
    \/ RTSP_pause
    \/ RTSP_teardown
    \/ Disconnect
    \/ \E s \in RtpSessions : rtp_write_cb(s)
    \/ client_ev_timeout
    \/ Tick

Spec == Init /\ [][Next]_vars

-----------------------------------------------------------------------------
(* Properties *)

\* Types; a range that is on the list is allocated, and only those are.
TypeOK ==
    /\ now \in StreamTimeout..MaxTime
    /\ timer \in 0..(MaxTime + StreamTimeout)
    /\ cur_state \in {"INIT", "READY", "PLAYING"}
    /\ rtp_sessions \in Seq(RtpSessions)
    /\ DOMAIN range = {play_requests[i] : i \in 1..Len(play_requests)}
    /\ \A r \in DOMAIN range :
          /\ range[r].begin \in 0..(Duration + MaxTime)
          /\ range[r].end \in 0..Duration
          /\ range[r].playback \in Unset..MaxTime
    /\ \A s \in RtpSessions :
          /\ rtp[s].range \in 0..allocated
          /\ rtp[s].sent \in 0..(Duration + MaxTime)
          /\ rtp[s].last \in 0..MaxTime
          /\ rtp[s].start \in 0..(RtpModulus - 1)

\* rtp_write_cb reads session->range: the range of a running writer has not been
\* freed with an edit list that was replaced, and it is being played.
RangeAlive ==
    \A s \in RtpSessions :
        rtp[s].writer => /\ rtp[s].range \in DOMAIN range
                         /\ range[rtp[s].range].playback # Unset

\* rtsp_do_pause takes the first range without a test: a session that plays has
\* one, which it plays since it was the first.
PlayingHasRange ==
    cur_state = "PLAYING" =>
        /\ play_requests # <<>>
        /\ \A s \in RtpSessions : rtp[s].writer => rtp[s].range = Head(play_requests)

\* The media time of RTP time t for a client that goes by the last reply to PLAY, as far
\* as it is determined by t, compared with media time m.
Means(s, t, m) ==
    (t - rtp[s].told.rtptime - (m - rtp[s].told.npt) * ClockRate) % RtpModulus = 0

\* rtsp_method_play.c:80-124, rtp.c:184, rtcp.c:178: the Range and RTP-Info headers of the
\* reply, the timestamps of the packets and the sender reports place the media at the same
\* times, whatever PLAY, PAUSE and new sessions have done to ranges and start_rtptime.
RtpTimesAgree ==
    \A s \in RtpSessions : rtp[s].writer =>
        /\ Means(s, rtptime(s, rtp[s].sent), rtp[s].sent)
        /\ Due(s) < Duration => Means(s, rtcp_set_sr(s), Due(s))

\* rtsp_method_pause.c:40: "Get the first range, so that we can record the pause
\* point".  What has been sent already lies before that point.
PausePointRecorded ==
    [][RTSP_pause =>
          \A s \in Sessions :
              rtp[s].writer => range'[Head(play_requests)].begin >= rtp[s].sent]_vars

\* The timer's callback reads rtsp->session->rtp_sessions (rtsp_client.c:145).
TimerHasSession == timer # None => session
=============================================================================
