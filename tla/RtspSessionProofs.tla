------------------------- MODULE RtspSessionProofs -------------------------
(***************************************************************************)
(* Proofs about RtspSession, for any number of RTP sessions, any duration,   *)
(* timeout, clock rate and width of the RTP time, and any sequence of        *)
(* requests and timers.                                                      *)
(***************************************************************************)
EXTENDS RtspSession, TLAPS

(***************************************************************************)
(* The inductive invariant.  That the range a writer reads is allocated      *)
(* rests on who may run: only sessions of the list, only while the state is  *)
(* PLAYING, and then on the first range, which no handler releases in that   *)
(* state.                                                                    *)
(***************************************************************************)

Listed == {play_requests[i] : i \in 1..Len(play_requests)}

RtpRecord ==
    [range : Nat, writer : BOOLEAN, sent : Nat, last : Nat, start : Nat,
     told : [npt : Int, rtptime : Int]]

\* The begin time of a range grows by what was played, which the clock bounds.
BeginBounded(r) ==
    /\ range[r].playback <= now
    /\ range[r].begin <= Duration + (IF range[r].playback = Unset THEN now
                                                                  ELSE range[r].playback)

\* The types the steps need beyond TypeOK.
Shapes ==
    /\ allocated \in Nat
    /\ play_requests \in Seq(1..allocated)
    /\ vlc_play \in Seq(Headers)
    /\ range \in [Listed -> [begin : Nat, end : Nat, playback : Int]]
    /\ rtp \in [RtpSessions -> RtpRecord]
    /\ \A r \in Listed : BeginBounded(r)
    /\ \A s \in RtpSessions : rtp[s].last <= now

\* A writer belongs to a session of the list, plays the first range while the state is
\* PLAYING, and the client has been told where that range begins.
WriterInv(s) ==
    rtp[s].writer =>
        /\ s \in Sessions /\ cur_state = "PLAYING"
        /\ rtp[s].range = Head(play_requests)
        /\ rtp[s].told = [npt |-> range[rtp[s].range].begin, rtptime |-> rtp[s].start]

FirstPlayed ==
    cur_state = "PLAYING" =>
        play_requests # <<>> /\ range[Head(play_requests)].playback # Unset

SessionInv ==
    /\ TypeOK
    /\ Shapes
    /\ \A s \in RtpSessions : WriterInv(s)
    /\ FirstPlayed

(***************************************************************************)
(* Arithmetic of RTP times                                                   *)
(***************************************************************************)

\* What the reduction to the width of an RTP time takes away is a multiple of it.
LEMMA ReductionVanishes ==
    ASSUME NEW y \in Int, NEW M \in Nat \ {0}
    PROVE  ((y % M) - y) % M = 0
<1>1. y = M * (y \div M) + (y % M)
  OBVIOUS
<1>2. PICK q \in Int : q = 0 - (y \div M)
  OBVIOUS
<1>3. (y % M) - y = M * q
  BY <1>1, <1>2
<1>4. (M * q) % M = 0
  OBVIOUS
<1> QED BY <1>3, <1>4

\* A timestamp that is delta seconds of media after start means start plus delta.
LEMMA TimestampMeans ==
    ASSUME NEW start \in Int, NEW delta \in Int, NEW rate \in Int, NEW M \in Nat \ {0}
    PROVE  (((start + delta * rate) % M) - start - delta * rate) % M = 0
<1>1. PICK x \in Int : x = delta * rate
  OBVIOUS
<1>2. PICK y \in Int : y = start + x
  OBVIOUS
<1>3. ((start + x) % M) - start - x = (y % M) - y
  BY <1>2
<1> QED BY <1>1, <1>3, ReductionVanishes

(***************************************************************************)
(* The steps                                                                 *)
(***************************************************************************)

LEMMA Constants ==
    /\ Duration \in Nat /\ Duration >= 1 /\ StreamTimeout \in Nat /\ StreamTimeout >= 1
    /\ ClockRate \in Nat /\ RtpModulus \in Nat /\ RtpModulus >= 1
    /\ MaxTime \in Nat /\ MaxTime > StreamTimeout
    /\ StartTimes \subseteq 0..(RtpModulus - 1)
BY SessionAssumption

\* What the invariant says of the edit list.
LEMMA ListFacts ==
    ASSUME SessionInv
    PROVE  /\ now \in Nat /\ now <= MaxTime /\ allocated \in Nat
           /\ play_requests \in Seq(1..allocated)
           /\ range \in [Listed -> [begin : Nat, end : Nat, playback : Int]]
           /\ DOMAIN range = Listed /\ Listed \subseteq 1..allocated
           /\ \A r \in Listed :
                 /\ range[r].begin \in Nat /\ range[r].playback \in Int
                 /\ range[r].playback >= Unset /\ range[r].playback <= now
                 /\ range[r].end \in 0..Duration
                 /\ range[r].begin <= Duration + (IF range[r].playback = Unset THEN now
                                                  ELSE range[r].playback)
           /\ play_requests # <<>> => Head(play_requests) \in Listed
<1>1. now \in Nat /\ now <= MaxTime
  BY Constants DEF SessionInv, TypeOK
<1>2. /\ play_requests \in Seq(1..allocated) /\ allocated \in Nat
      /\ range \in [Listed -> [begin : Nat, end : Nat, playback : Int]]
  BY DEF SessionInv, Shapes
<1>3. DOMAIN range = Listed /\ Listed \subseteq 1..allocated
  BY <1>2 DEF Listed
<1>4. \A r \in Listed : /\ range[r].begin \in Nat /\ range[r].playback \in Int
  BY <1>2
<1>5. \A r \in Listed : range[r].end \in 0..Duration /\ range[r].playback \in Unset..MaxTime
  BY <1>3 DEF SessionInv, TypeOK
<1>6. \A r \in Listed : BeginBounded(r)
  BY DEF SessionInv, Shapes
<1>7. play_requests # <<>> => Head(play_requests) \in Listed
  BY <1>2 DEF Listed
<1> QED BY <1>1, <1>2, <1>3, <1>4, <1>5, <1>6, <1>7, Constants DEF BeginBounded, Unset

\* What it says of an RTP session.
LEMMA RtpFacts ==
    ASSUME SessionInv, NEW s \in RtpSessions
    PROVE  /\ rtp \in [RtpSessions -> RtpRecord] /\ rtp[s] \in RtpRecord
           /\ rtp[s].range \in Nat /\ rtp[s].range <= allocated
           /\ rtp[s].sent \in Nat /\ rtp[s].sent <= Duration + MaxTime
           /\ rtp[s].last \in Nat /\ rtp[s].last <= now
           /\ rtp[s].start \in Nat /\ rtp[s].start <= RtpModulus - 1
           /\ WriterInv(s)
<1>1. rtp \in [RtpSessions -> RtpRecord] /\ rtp[s] \in RtpRecord /\ rtp[s].last <= now
      /\ WriterInv(s) /\ allocated \in Nat
  BY DEF SessionInv, Shapes
<1>2. /\ rtp[s].range \in 0..allocated
      /\ rtp[s].sent \in 0..(Duration + MaxTime)
      /\ rtp[s].start \in 0..(RtpModulus - 1)
  BY DEF SessionInv, TypeOK
<1> QED BY <1>1, <1>2, Constants DEF RtpRecord

\* A state that only differs in what the invariant does not mention.
LEMMA SessionStutter ==
    ASSUME SessionInv, UNCHANGED <<now, cur_state, rtp_sessions, listVars, vlc_play, rtp>>,
           timer' \in 0..(MaxTime + StreamTimeout)
    PROVE  SessionInv'
<1>1. UNCHANGED <<play_requests, range, allocated>>
  BY DEF listVars
<1>2. TypeOK'
  BY <1>1 DEF SessionInv, TypeOK
<1>3. Shapes'
  BY <1>1 DEF SessionInv, Shapes, Listed, BeginBounded
<1>4. (\A s \in RtpSessions : WriterInv(s)') /\ FirstPlayed'
  BY <1>1 DEF SessionInv, WriterInv, FirstPlayed, Sessions
<1> QED BY <1>2, <1>3, <1>4 DEF SessionInv

\* The records of the edit list after a step, in the form the invariant needs.
LEMMA ListBecomes ==
    ASSUME now' \in Nat, now' <= MaxTime, allocated' \in Nat,
           play_requests' \in Seq(1..allocated'),
           range' \in [Listed' -> [begin : Nat, end : Nat, playback : Int]],
           \A r \in Listed' :
              /\ range'[r].playback >= Unset /\ range'[r].playback <= now'
              /\ range'[r].end \in 0..Duration
              /\ range'[r].begin <= Duration + (IF range'[r].playback = Unset THEN now'
                                                ELSE range'[r].playback)
    PROVE  /\ DOMAIN range' = {play_requests'[i] : i \in 1..Len(play_requests')}
           /\ \A r \in Listed' : BeginBounded(r)'
           /\ \A r \in DOMAIN range' :
                 /\ range'[r].begin \in 0..(Duration + MaxTime)
                 /\ range'[r].end \in 0..Duration
                 /\ range'[r].playback \in Unset..MaxTime
<1>1. DOMAIN range' = Listed'
  OBVIOUS
<1>2. \A r \in Listed' : range'[r].begin \in Nat /\ range'[r].playback \in Int
  OBVIOUS
<1>3. \A r \in Listed' : BeginBounded(r)'
  BY DEF BeginBounded
<1>4. ASSUME NEW r \in Listed'
      PROVE  range'[r].begin \in 0..(Duration + MaxTime) /\ range'[r].playback \in Unset..MaxTime
  <2>1. PICK b \in Nat, p \in Int, t \in Nat :
           b = range'[r].begin /\ p = range'[r].playback /\ t = now'
    BY <1>2
  <2>2. p >= Unset /\ p <= t /\ t <= MaxTime /\ b <= Duration + (IF p = Unset THEN t ELSE p)
    BY <2>1
  <2>3. b \in 0..(Duration + MaxTime) /\ p \in Unset..MaxTime
    BY <2>2, Constants DEF Unset
  <2> QED BY <2>1, <2>3
<1> QED BY <1>1, <1>3, <1>4 DEF Listed

\* parse_range_header leaves a non-empty list whose first range is being played; while
\* playing it is the first range of before.
LEMMA ParseStep ==
    ASSUME SessionInv, NEW header \in Headers, header # BadHeader,
           parse_range_header(header), now' = now
    PROVE  /\ allocated' \in Nat /\ allocated <= allocated'
           /\ play_requests' \in Seq(1..allocated') /\ play_requests' # <<>>
           /\ range' \in [Listed' -> [begin : Nat, end : Nat, playback : Int]]
           /\ \A r \in Listed' :
                 /\ range'[r].playback >= Unset /\ range'[r].playback <= now'
                 /\ range'[r].end \in 0..Duration
                 /\ range'[r].begin <= Duration + (IF range'[r].playback = Unset THEN now'
                                                   ELSE range'[r].playback)
           /\ range'[Head(play_requests')].playback # Unset
           /\ cur_state = "PLAYING" =>
                 /\ Head(play_requests') = Head(play_requests)
                 /\ range'[Head(play_requests)].begin = range[Head(play_requests)].begin
<1>1. /\ now \in Nat /\ allocated \in Nat
      /\ play_requests \in Seq(1..allocated)
      /\ range \in [Listed -> [begin : Nat, end : Nat, playback : Int]]
      /\ Listed \subseteq 1..allocated
      /\ \A r \in Listed :
            /\ range[r].begin \in Nat /\ range[r].playback \in Int
            /\ range[r].playback >= Unset /\ range[r].playback <= now
            /\ range[r].end \in 0..Duration
            /\ range[r].begin <= Duration + (IF range[r].playback = Unset THEN now
                                             ELSE range[r].playback)
      /\ play_requests # <<>> => Head(play_requests) \in Listed
  BY ListFacts
<1>2. Duration \in Nat /\ Duration >= 1
  BY Constants
<1>3. CASE header = NoHeader /\ play_requests # <<>>
  <2> DEFINE h == Head(play_requests)
  <2>1. /\ range' = [range EXCEPT ![h].playback = now] /\ Listed' = Listed
        /\ UNCHANGED <<play_requests, allocated>>
    BY <1>3 DEF parse_range_header, Listed
  <2>2. h \in Listed
    BY <1>1, <1>3
  <2> HIDE DEF h
  <2>3. /\ range' \in [Listed -> [begin : Nat, end : Nat, playback : Int]]
        /\ range'[h].playback = now /\ range'[h].begin = range[h].begin
        /\ range'[h].end = range[h].end
        /\ \A r \in Listed : r # h => range'[r] = range[r]
    BY <1>1, <2>1, <2>2
  <2>4. ASSUME NEW r \in Listed
        PROVE  /\ range'[r].playback >= Unset /\ range'[r].playback <= now'
               /\ range'[r].end \in 0..Duration
               /\ range'[r].begin <= Duration + (IF range'[r].playback = Unset THEN now'
                                                 ELSE range'[r].playback)
    <3>1. CASE r = h
      BY <1>1, <1>2, <2>2, <2>3, <3>1 DEF Unset
    <3>2. CASE r # h
      BY <1>1, <2>3, <3>2
    <3> QED BY <3>1, <3>2
  <2>5. range'[h].playback # Unset
    BY <1>1, <2>3 DEF Unset
  <2> QED BY <1>1, <1>3, <2>1, <2>3, <2>4, <2>5 DEF h
<1>4. CASE ~(header = NoHeader /\ play_requests # <<>>)
  <2>1. PICK n \in Nat : n = allocated + 1
    BY <1>1
  <2>2. /\ allocated' = n
        /\ play_requests' = IF cur_state = "PLAYING" THEN Append(play_requests, n) ELSE <<n>>
        /\ range' = [r \in Listed' |-> IF r = n THEN NewRange(header) ELSE range[r]]
    BY <1>4, <2>1 DEF parse_range_header, Listed
  <2>3. /\ NewRange(header) \in [begin : Nat, end : Nat, playback : Int]
        /\ NewRange(header).playback = now /\ NewRange(header).end \in 0..Duration
        /\ NewRange(header).begin <= Duration
    BY <1>1, <1>2, SessionAssumption DEF NewRange, Headers, NoHeader, BadHeader, Unset
  <2>4. play_requests \in Seq(1..n) /\ n \in 1..n
    BY <1>1, <2>1
  <2>5. play_requests' \in Seq(1..n) /\ play_requests' # <<>>
    <3>1. Append(play_requests, n) \in Seq(1..n) /\ Append(play_requests, n) # <<>>
      BY <2>4
    <3>2. <<n>> \in Seq(1..n) /\ <<n>> # <<>>
      BY <2>4
    <3> QED BY <2>2, <3>1, <3>2
  <2>6. ASSUME NEW r \in Listed' PROVE r = n \/ r \in Listed
    <3>1. CASE cur_state = "PLAYING"
      <4>1. play_requests' = Append(play_requests, n)
        BY <2>2, <3>1
      <4>2. PICK i \in 1..Len(play_requests') : r = play_requests'[i]
        BY DEF Listed
      <4>3. i \in 1..Len(play_requests) \/ i = Len(play_requests) + 1
        BY <2>4, <4>1, <4>2
      <4> QED BY <2>4, <4>1, <4>2, <4>3 DEF Listed
    <3>2. CASE cur_state # "PLAYING"
      BY <2>2, <3>2 DEF Listed
    <3> QED BY <3>1, <3>2
  <2>7. n \notin Listed
    BY <1>1, <2>1
  <2>8. /\ DOMAIN range' = Listed'
        /\ \A r \in Listed' : /\ r = n => range'[r] = NewRange(header)
                              /\ r # n => r \in Listed /\ range'[r] = range[r]
    BY <2>2, <2>6
  <2>9. range' \in [Listed' -> [begin : Nat, end : Nat, playback : Int]]
    BY <1>1, <2>2, <2>3, <2>6
  <2>10. ASSUME NEW r \in Listed'
         PROVE  /\ range'[r].playback >= Unset /\ range'[r].playback <= now'
                /\ range'[r].end \in 0..Duration
                /\ range'[r].begin <= Duration + (IF range'[r].playback = Unset THEN now'
                                                  ELSE range'[r].playback)
    <3>1. CASE r = n
      <4>1. range'[r] = NewRange(header)
        BY <2>8, <3>1
      <4>2. NewRange(header).begin \in Nat
        BY <2>3
      <4> QED BY <1>1, <1>2, <2>3, <4>1, <4>2 DEF Unset
    <3>2. CASE r # n
      BY <1>1, <2>8, <3>2
    <3> QED BY <3>1, <3>2
  <2>11. CASE cur_state = "PLAYING"
    <3>1. play_requests # <<>> /\ range[Head(play_requests)].playback # Unset
      BY <2>11 DEF SessionInv, FirstPlayed
    <3>2. Head(play_requests') = Head(play_requests)
      BY <2>2, <2>4, <2>11, <3>1
    <3>3. Head(play_requests') \in Listed' /\ Head(play_requests) \in Listed
      <4>1. Head(play_requests') = play_requests'[1] /\ 1 \in 1..Len(play_requests')
        BY <2>5
      <4> QED BY <1>1, <3>1, <4>1 DEF Listed
    <3>4. range'[Head(play_requests')] = range[Head(play_requests)]
      BY <2>7, <2>8, <3>2, <3>3
    <3> QED BY <1>1, <2>1, <2>2, <2>5, <2>9, <2>10, <3>1, <3>2, <3>4
  <2>12. CASE cur_state # "PLAYING"
    <3>1. Head(play_requests') = n /\ n \in Listed'
      BY <2>2, <2>12 DEF Listed
    <3>2. range'[n].playback = now
      BY <2>3, <2>8, <3>1
    <3> QED BY <1>1, <2>1, <2>2, <2>5, <2>9, <2>10, <2>12, <3>1, <3>2 DEF Unset
  <2> QED BY <2>11, <2>12
<1> QED BY <1>3, <1>4

\* The invariant after a step, from what is known of the list and of each session.
LEMMA InvBecomes ==
    ASSUME now' \in StreamTimeout..MaxTime, timer' \in 0..(MaxTime + StreamTimeout),
           cur_state' \in {"INIT", "READY", "PLAYING"}, rtp_sessions' \in Seq(RtpSessions),
           vlc_play' \in Seq(Headers), allocated' \in Nat,
           play_requests' \in Seq(1..allocated'),
           range' \in [Listed' -> [begin : Nat, end : Nat, playback : Int]],
           \A r \in Listed' :
              /\ range'[r].playback >= Unset /\ range'[r].playback <= now'
              /\ range'[r].end \in 0..Duration
              /\ range'[r].begin <= Duration + (IF range'[r].playback = Unset THEN now'
                                                ELSE range'[r].playback),
           rtp' \in [RtpSessions -> RtpRecord],
           \A s \in RtpSessions :
              /\ rtp'[s].range <= allocated' /\ rtp'[s].sent <= Duration + MaxTime
              /\ rtp'[s].last <= now' /\ rtp'[s].start <= RtpModulus - 1
              /\ WriterInv(s)',
           FirstPlayed'
    PROVE  SessionInv'
<1>1. now' \in Nat /\ now' <= MaxTime
  BY Constants
<1>2. /\ DOMAIN range' = {play_requests'[i] : i \in 1..Len(play_requests')}
      /\ \A r \in Listed' : BeginBounded(r)'
      /\ \A r \in DOMAIN range' :
            /\ range'[r].begin \in 0..(Duration + MaxTime)
            /\ range'[r].end \in 0..Duration
            /\ range'[r].playback \in Unset..MaxTime
  BY <1>1, ListBecomes
<1>3. ASSUME NEW s \in RtpSessions
      PROVE  /\ rtp'[s].range \in 0..allocated'
             /\ rtp'[s].sent \in 0..(Duration + MaxTime)
             /\ rtp'[s].last \in 0..MaxTime
             /\ rtp'[s].start \in 0..(RtpModulus - 1)
  <2>1. /\ rtp'[s].range \in Nat /\ rtp'[s].sent \in Nat /\ rtp'[s].last \in Nat
        /\ rtp'[s].start \in Nat
    BY DEF RtpRecord
  <2> QED BY <1>1, <2>1, Constants
<1>4. TypeOK'
  BY <1>2, <1>3 DEF TypeOK
<1>5. Shapes'
  BY <1>2 DEF Shapes
<1> QED BY <1>4, <1>5 DEF SessionInv

\* PLAY, with or without the pause VLC asks for first (rtsp_method_play.c:80-310): every
\* session that runs plays the first range, and the reply says where it begins.
LEMMA PlayStep ==
    ASSUME SessionInv, NEW header \in Headers, header # BadHeader, PlayRange(header),
           vlc_play' \in Seq(Headers), UNCHANGED <<now, rtp_sessions>>
    PROVE  SessionInv'
<1> DEFINE h == Head(play_requests')
<1>1. /\ allocated' \in Nat /\ allocated <= allocated' /\ allocated \in Nat
      /\ play_requests' \in Seq(1..allocated') /\ play_requests' # <<>>
      /\ range' \in [Listed' -> [begin : Nat, end : Nat, playback : Int]]
      /\ \A r \in Listed' :
            /\ range'[r].playback >= Unset /\ range'[r].playback <= now'
            /\ range'[r].end \in 0..Duration
            /\ range'[r].begin <= Duration + (IF range'[r].playback = Unset THEN now'
                                              ELSE range'[r].playback)
      /\ range'[h].playback # Unset
      /\ cur_state = "PLAYING" =>
            /\ h = Head(play_requests)
            /\ range'[h].begin = range[Head(play_requests)].begin
  BY ParseStep, ListFacts DEF PlayRange
<1>2. h \in Listed' /\ h \in 1..allocated'
  <2>1. h = play_requests'[1] /\ 1 \in 1..Len(play_requests')
    BY <1>1
  <2> QED BY <1>1, <2>1 DEF Listed
<1>3. PICK b \in Nat : b = range'[h].begin /\ b <= Duration + MaxTime
  <2>1. range'[h].begin \in Nat /\ range'[h].playback \in Int
    BY <1>1, <1>2
  <2>2. now' \in Nat /\ now' <= MaxTime
    BY ListFacts
  <2>3. range'[h].begin <= Duration + now'
    BY <1>1, <1>2, <2>1, <2>2, Constants
  <2> QED BY <2>1, <2>2, <2>3, Constants
<1>4. /\ now' \in StreamTimeout..MaxTime /\ rtp_sessions' \in Seq(RtpSessions)
      /\ now \in Nat /\ now <= MaxTime /\ Sessions' = Sessions
      /\ timer \in 0..(MaxTime + StreamTimeout)
      /\ cur_state \in {"INIT", "READY", "PLAYING"}
  BY ListFacts DEF SessionInv, TypeOK, Sessions
<1>5. rtp \in [RtpSessions -> RtpRecord]
  BY DEF SessionInv, Shapes
<1> HIDE DEF h
<1>6. CASE cur_state = "PLAYING"
  <2>1. timer' = now + StreamTimeout /\ cur_state' = cur_state
        /\ rtp' = [s \in RtpSessions |->
                     IF s \in Sessions
                     THEN [rtp[s] EXCEPT !.told = [npt |-> b, rtptime |-> rtp[s].start]]
                     ELSE rtp[s]]
    BY <1>3, <1>6 DEF PlayRange, send_play_reply, ev_timer_again, h
  <2>2. ASSUME NEW s \in RtpSessions
        PROVE  /\ rtp'[s] \in RtpRecord
               /\ rtp'[s].range <= allocated' /\ rtp'[s].sent <= Duration + MaxTime
               /\ rtp'[s].last <= now' /\ rtp'[s].start <= RtpModulus - 1
               /\ WriterInv(s)'
    <3>1. /\ rtp[s] \in RtpRecord
          /\ rtp[s].range \in Nat /\ rtp[s].range <= allocated
          /\ rtp[s].sent <= Duration + MaxTime
          /\ rtp[s].last <= now /\ rtp[s].start <= RtpModulus - 1
          /\ WriterInv(s)
      BY RtpFacts
    <3>2. CASE s \in Sessions
      <4>1. rtp'[s] = [rtp[s] EXCEPT !.told = [npt |-> b, rtptime |-> rtp[s].start]]
        BY <2>1, <3>2
      <4>2. /\ rtp'[s] \in RtpRecord /\ rtp'[s].range = rtp[s].range
            /\ rtp'[s].sent = rtp[s].sent /\ rtp'[s].last = rtp[s].last
            /\ rtp'[s].start = rtp[s].start /\ rtp'[s].writer = rtp[s].writer
            /\ rtp'[s].told = [npt |-> b, rtptime |-> rtp[s].start]
        BY <3>1, <4>1 DEF RtpRecord
      <4>3. WriterInv(s)'
        BY <1>1, <1>3, <1>4, <1>6, <2>1, <3>1, <3>2, <4>2 DEF WriterInv, h
      <4> QED BY <1>1, <3>1, <4>2, <4>3
    <3>3. CASE s \notin Sessions
      <4>1. rtp'[s] = rtp[s] /\ ~rtp[s].writer
        BY <2>1, <3>1, <3>3 DEF WriterInv
      <4> QED BY <1>1, <3>1, <4>1 DEF WriterInv
    <3> QED BY <3>2, <3>3
  <2>3. FirstPlayed'
    BY <1>1 DEF FirstPlayed, h
  <2>4. rtp' \in [RtpSessions -> RtpRecord]
    <3>1. DOMAIN rtp' = RtpSessions /\ rtp' = [s \in RtpSessions |-> rtp'[s]]
      BY <2>1
    <3> QED BY <2>2, <3>1
  <2>5. timer' \in 0..(MaxTime + StreamTimeout)
    BY <1>4, <2>1, Constants
  <2> QED BY <1>1, <1>4, <2>1, <2>2, <2>3, <2>4, <2>5, InvBecomes
<1>7. CASE cur_state # "PLAYING" /\ UNCHANGED <<cur_state, rtp, timer>>
  <2>1. ASSUME NEW s \in RtpSessions
        PROVE  /\ rtp'[s].range <= allocated' /\ rtp'[s].sent <= Duration + MaxTime
               /\ rtp'[s].last <= now' /\ rtp'[s].start <= RtpModulus - 1
               /\ WriterInv(s)'
    <3>1. /\ rtp[s].range \in Nat /\ rtp[s].range <= allocated
          /\ rtp[s].sent <= Duration + MaxTime
          /\ rtp[s].last <= now /\ rtp[s].start <= RtpModulus - 1
          /\ WriterInv(s)
      BY RtpFacts
    <3> QED BY <1>1, <1>7, <3>1 DEF WriterInv
  <2>2. FirstPlayed'
    BY <1>7 DEF FirstPlayed
  <2> QED BY <1>1, <1>4, <1>5, <1>7, <2>1, <2>2, InvBecomes
<1>8. CASE cur_state # "PLAYING" /\ cur_state' = "PLAYING"
           /\ send_play_reply(rtp_session_gslist_resume(Head(play_requests'))) /\ ev_timer_again
  <2>1. rtp' = [s \in RtpSessions |->
                  IF s \in Sessions
                  THEN [rtp_session_gslist_resume(h)[s] EXCEPT
                          !.told = [npt |-> b, rtptime |-> rtp_session_gslist_resume(h)[s].start]]
                  ELSE rtp_session_gslist_resume(h)[s]]
    BY <1>3, <1>8 DEF send_play_reply, h
  <2>2. \A s \in RtpSessions :
           rtp_session_gslist_resume(h)[s] =
             IF s \in Sessions
             THEN [rtp[s] EXCEPT !.range = h, !.writer = TRUE, !.sent = b, !.last = now,
                      !.start = (@ + (now - rtp[s].last) * ClockRate) % RtpModulus]
             ELSE rtp[s]
    BY <1>3 DEF rtp_session_gslist_resume
  <2>3. ASSUME NEW s \in RtpSessions
        PROVE  /\ rtp'[s] \in RtpRecord
               /\ rtp'[s].range <= allocated' /\ rtp'[s].sent <= Duration + MaxTime
               /\ rtp'[s].last <= now' /\ rtp'[s].start <= RtpModulus - 1
               /\ WriterInv(s)'
    <3>1. /\ rtp[s] \in RtpRecord
          /\ rtp[s].range \in Nat /\ rtp[s].range <= allocated
          /\ rtp[s].sent <= Duration + MaxTime /\ rtp[s].last \in Nat
          /\ rtp[s].last <= now /\ rtp[s].start \in Nat /\ rtp[s].start <= RtpModulus - 1
          /\ WriterInv(s)
      BY RtpFacts
    <3>2. CASE s \in Sessions
      <4>1. PICK m : m = (rtp[s].start + (now - rtp[s].last) * ClockRate) % RtpModulus
        OBVIOUS
      <4>2. m \in 0..(RtpModulus - 1)
        <5>0. PICK d \in Int : d = now - rtp[s].last
          BY <1>4, <3>1
        <5>1. PICK x \in Int : x = rtp[s].start + d * ClockRate
          BY <3>1, Constants
        <5>2. x % RtpModulus \in 0..(RtpModulus - 1)
          BY Constants
        <5> QED BY <4>1, <5>0, <5>1, <5>2
      <4>3. rtp_session_gslist_resume(h)[s] =
               [rtp[s] EXCEPT !.range = h, !.writer = TRUE, !.sent = b, !.last = now, !.start = m]
        BY <2>2, <3>2, <4>1
      <4>4. PICK t \in RtpRecord : t = rtp_session_gslist_resume(h)[s]
        <5>1. h \in Nat /\ now \in Nat /\ m \in Nat
          BY <1>2, <1>4, <4>2, Constants
        <5>2. [rtp[s] EXCEPT !.range = h, !.writer = TRUE, !.sent = b, !.last = now, !.start = m]
              \in RtpRecord
          BY <3>1, <5>1 DEF RtpRecord
        <5> QED BY <4>3, <5>2
      <4>5. t.range = h /\ t.writer = TRUE /\ t.sent = b /\ t.last = now /\ t.start = m
        BY <3>1, <4>3, <4>4 DEF RtpRecord
      <4>6. rtp'[s] = [t EXCEPT !.told = [npt |-> b, rtptime |-> t.start]]
        BY <2>1, <3>2, <4>4
      <4>7. /\ rtp'[s] \in RtpRecord /\ rtp'[s].range = h /\ rtp'[s].sent = b
            /\ rtp'[s].last = now /\ rtp'[s].start = m
            /\ rtp'[s].told = [npt |-> b, rtptime |-> m]
        BY <4>5, <4>6 DEF RtpRecord
      <4>8. WriterInv(s)'
        BY <1>3, <1>4, <1>8, <3>2, <4>7 DEF WriterInv, h
      <4> QED BY <1>2, <1>3, <1>4, <4>2, <4>7, <4>8, Constants
    <3>3. CASE s \notin Sessions
      <4>1. rtp'[s] = rtp[s] /\ ~rtp[s].writer
        BY <2>1, <2>2, <3>1, <3>3 DEF WriterInv
      <4> QED BY <1>1, <3>1, <4>1 DEF WriterInv
    <3> QED BY <3>2, <3>3
  <2>4. FirstPlayed'
    BY <1>1 DEF FirstPlayed, h
  <2>5. rtp' \in [RtpSessions -> RtpRecord]
    <3>1. rtp' = [s \in RtpSessions |-> rtp'[s]]
      BY <2>1
    <3> QED BY <2>3, <3>1
  <2>6. timer' \in 0..(MaxTime + StreamTimeout)
    BY <1>4, <1>8, Constants DEF ev_timer_again
  <2> QED BY <1>1, <1>4, <1>8, <2>3, <2>4, <2>5, <2>6, InvBecomes
<1> QED BY <1>6, <1>7, <1>8 DEF PlayRange, do_play

\* A new RTP session neither writes nor refers to a range.
LEMMA NewRtpFacts ==
    ASSUME NEW t \in 0..(RtpModulus - 1)
    PROVE  /\ NewRtp(t) \in RtpRecord /\ NewRtp(t).range = 0 /\ ~NewRtp(t).writer
           /\ NewRtp(t).sent = 0 /\ NewRtp(t).last = 0 /\ NewRtp(t).start = t
BY Constants DEF NewRtp, RtpRecord, None

\* The state of a client without a session.
LEMMA FreedStep ==
    ASSUME now' \in StreamTimeout..MaxTime, timer' \in 0..(MaxTime + StreamTimeout),
           cur_state' = "INIT", rtp_sessions' = <<>>, play_requests' = <<>>,
           vlc_play' \in Seq(Headers), allocated' \in Nat,
           range' = [r \in {} |-> None], rtp' = [s \in RtpSessions |-> NewRtp(0)]
    PROVE  SessionInv'
<1>1. Listed' = {}
  BY DEF Listed
<1>2. now' \in Nat /\ 0 \in 0..(RtpModulus - 1) /\ Duration + MaxTime \in Nat
  BY Constants
<1>3. \A s \in RtpSessions : rtp'[s] = NewRtp(0)
  OBVIOUS
<1>4. rtp' \in [RtpSessions -> RtpRecord]
  BY <1>2, NewRtpFacts
<1>5. ASSUME NEW s \in RtpSessions
      PROVE  /\ rtp'[s].range <= allocated' /\ rtp'[s].sent <= Duration + MaxTime
             /\ rtp'[s].last <= now' /\ rtp'[s].start <= RtpModulus - 1
             /\ WriterInv(s)'
  <2>1. /\ rtp'[s].range = 0 /\ rtp'[s].sent = 0 /\ rtp'[s].last = 0 /\ rtp'[s].start = 0
        /\ ~rtp'[s].writer
    BY <1>2, <1>3, NewRtpFacts
  <2> QED BY <1>2, <2>1, Constants DEF WriterInv
<1>6. FirstPlayed'
  BY DEF FirstPlayed
<1>7. range' \in [Listed' -> [begin : Nat, end : Nat, playback : Int]]
  BY <1>1
<1>8. play_requests' \in Seq(1..allocated') /\ rtp_sessions' \in Seq(RtpSessions)
  OBVIOUS
<1> QED BY <1>1, <1>4, <1>5, <1>6, <1>7, <1>8, InvBecomes

\* A client starts without a session (rtsp_client.c).
LEMMA SessionInit == Init => SessionInv
<1> SUFFICES ASSUME Init PROVE SessionInv
  OBVIOUS
<1>1. Listed = {} /\ DOMAIN range = {} /\ play_requests \in Seq(1..allocated)
      /\ vlc_play \in Seq(Headers) /\ rtp_sessions \in Seq(RtpSessions)
      /\ DOMAIN range = {play_requests[i] : i \in 1..Len(play_requests)}
  BY DEF Init, Listed
<1>2. rtp = [s \in RtpSessions |-> NewRtp(0)] /\ now = StreamTimeout /\ allocated = 0
      /\ timer = 0 /\ cur_state = "INIT" /\ range = [r \in {} |-> None]
  BY DEF Init, None
<1>3. 0 \in 0..(RtpModulus - 1)
  BY Constants
<1>4. rtp \in [RtpSessions -> RtpRecord]
  BY <1>2, <1>3, NewRtpFacts
<1>5. \A s \in RtpSessions :
         /\ rtp[s].range = 0 /\ rtp[s].sent = 0 /\ rtp[s].last = 0 /\ rtp[s].start = 0
         /\ ~rtp[s].writer
  BY <1>2, <1>3, NewRtpFacts
<1>6. TypeOK
  BY <1>1, <1>2, <1>5, Constants DEF TypeOK
<1>7. range \in [Listed -> [begin : Nat, end : Nat, playback : Int]]
  BY <1>1, <1>2
<1>8. Shapes
  BY <1>1, <1>2, <1>4, <1>5, <1>7, Constants DEF Shapes
<1> QED BY <1>2, <1>5, <1>6, <1>8 DEF SessionInv, WriterInv, FirstPlayed

\* SETUP while playing adds a session that waits; the others do not notice.
LEMMA SetupStep ==
    ASSUME SessionInv, NEW s \in RtpSessions, NEW t \in StartTimes, RTSP_setup(s, t)
    PROVE  SessionInv'
<1>1. /\ s \notin Sessions /\ rtp' = [rtp EXCEPT ![s] = NewRtp(t)]
      /\ rtp_sessions' = Append(rtp_sessions, s)
      /\ cur_state' = IF cur_state = "INIT" THEN "READY" ELSE cur_state
      /\ UNCHANGED <<now, play_requests, range, allocated, vlc_play, timer>>
  BY DEF RTSP_setup, listVars
<1>2. /\ rtp_sessions \in Seq(RtpSessions) /\ cur_state \in {"INIT", "READY", "PLAYING"}
      /\ now \in StreamTimeout..MaxTime /\ timer \in 0..(MaxTime + StreamTimeout)
      /\ vlc_play \in Seq(Headers) /\ allocated \in Nat
      /\ rtp \in [RtpSessions -> RtpRecord]
  BY DEF SessionInv, Shapes, TypeOK
<1>3. /\ rtp_sessions' \in Seq(RtpSessions) /\ cur_state' \in {"INIT", "READY", "PLAYING"}
      /\ cur_state = "PLAYING" <=> cur_state' = "PLAYING"
  BY <1>1, <1>2
<1>4. Sessions \subseteq Sessions'
  <2> SUFFICES ASSUME NEW d \in Sessions PROVE d \in Sessions'
    OBVIOUS
  <2>1. PICK i \in 1..Len(rtp_sessions) : d = rtp_sessions[i]
    BY DEF Sessions
  <2>2. i \in 1..Len(rtp_sessions') /\ d = rtp_sessions'[i]
    BY <1>1, <1>2, <2>1
  <2> QED BY <2>2 DEF Sessions
<1>5. t \in 0..(RtpModulus - 1)
  BY Constants
<1>6. NewRtp(t) \in RtpRecord /\ NewRtp(t).range = 0 /\ ~NewRtp(t).writer
      /\ NewRtp(t).sent = 0 /\ NewRtp(t).last = 0 /\ NewRtp(t).start = t
  BY <1>5, NewRtpFacts
<1>7. /\ rtp' \in [RtpSessions -> RtpRecord] /\ rtp'[s] = NewRtp(t)
      /\ \A d \in RtpSessions : d # s => rtp'[d] = rtp[d]
  BY <1>1, <1>2, <1>6
<1>8. ASSUME NEW d \in RtpSessions
      PROVE  /\ rtp'[d].range <= allocated' /\ rtp'[d].sent <= Duration + MaxTime
             /\ rtp'[d].last <= now' /\ rtp'[d].start <= RtpModulus - 1
             /\ WriterInv(d)'
  <2>1. CASE d = s
    BY <1>1, <1>2, <1>5, <1>6, <1>7, <2>1, Constants DEF WriterInv
  <2>2. CASE d # s
    <3>1. /\ rtp[d].range <= allocated /\ rtp[d].sent <= Duration + MaxTime
          /\ rtp[d].last <= now /\ rtp[d].start <= RtpModulus - 1 /\ WriterInv(d)
      BY RtpFacts
    <3> QED BY <1>1, <1>3, <1>4, <1>7, <2>2, <3>1 DEF WriterInv
  <2> QED BY <2>1, <2>2
<1>9. FirstPlayed'
  BY <1>1, <1>3 DEF SessionInv, FirstPlayed
<1>10. Listed' = Listed
  BY <1>1 DEF Listed
<1> QED BY <1>1, <1>2, <1>3, <1>7, <1>8, <1>9, <1>10, ListFacts, InvBecomes

\* rtsp_do_pause (rtsp_method_pause.c:40): the writers stop, and the pause point keeps
\* within the time the clock has run.
LEMMA PauseStep ==
    ASSUME SessionInv, rtsp_do_pause, vlc_play' \in Seq(Headers)
    PROVE  SessionInv'
<1> DEFINE h == Head(play_requests)
           b == range[h].begin + now - range[h].playback
<1>1. /\ cur_state = "PLAYING" /\ cur_state' = "READY" /\ timer' = 0
      /\ range' = [range EXCEPT ![h].begin = @ + now - range[h].playback,
                                ![h].playback = Unset]
      /\ rtp' = [s \in RtpSessions |-> [rtp[s] EXCEPT !.writer = FALSE]]
      /\ UNCHANGED <<now, rtp_sessions, play_requests, allocated>>
  BY DEF rtsp_do_pause, StopWriters, None
<1>2. h \in Listed /\ range[h].playback # Unset
  BY <1>1, ListFacts DEF SessionInv, FirstPlayed
<1>3. /\ now \in Nat /\ allocated \in Nat /\ play_requests \in Seq(1..allocated)
      /\ range \in [Listed -> [begin : Nat, end : Nat, playback : Int]]
      /\ \A r \in Listed :
            /\ range[r].begin \in Nat /\ range[r].playback \in Int
            /\ range[r].playback >= Unset /\ range[r].playback <= now
            /\ range[r].end \in 0..Duration
            /\ range[r].begin <= Duration + (IF range[r].playback = Unset THEN now
                                             ELSE range[r].playback)
  BY ListFacts
<1>4. b \in Nat /\ b <= Duration + now
  <2>1. /\ range[h].begin \in Nat /\ range[h].playback \in Int /\ range[h].playback <= now
        /\ range[h].begin <= Duration + range[h].playback
    BY <1>2, <1>3
  <2>2. now \in Nat /\ Duration \in Nat
    BY <1>3, Constants
  <2>3. \A x \in Nat, y \in Int : y <= now /\ x <= Duration + y =>
            x + now - y \in Nat /\ x + now - y <= Duration + now
    BY <2>2
  <2> QED BY <2>1, <2>3
<1>5. Listed' = Listed
  BY <1>1 DEF Listed
<1> HIDE DEF h
<1>6. /\ range' \in [Listed -> [begin : Nat, end : Nat, playback : Int]]
      /\ range'[h].begin = b /\ range'[h].playback = Unset /\ range'[h].end = range[h].end
      /\ \A r \in Listed : r # h => range'[r] = range[r]
  <2>1. Unset \in Int
    BY DEF Unset
  <2> QED BY <1>1, <1>2, <1>3, <1>4, <2>1
<1>7. ASSUME NEW r \in Listed
      PROVE  /\ range'[r].playback >= Unset /\ range'[r].playback <= now'
             /\ range'[r].end \in 0..Duration
             /\ range'[r].begin <= Duration + (IF range'[r].playback = Unset THEN now'
                                               ELSE range'[r].playback)
  <2>1. CASE r = h
    BY <1>1, <1>2, <1>3, <1>4, <1>6, <2>1 DEF Unset
  <2>2. CASE r # h
    BY <1>1, <1>3, <1>6, <2>2
  <2> QED BY <2>1, <2>2
<1>8. ASSUME NEW s \in RtpSessions
      PROVE  /\ rtp'[s] \in RtpRecord
             /\ rtp'[s].range <= allocated' /\ rtp'[s].sent <= Duration + MaxTime
             /\ rtp'[s].last <= now' /\ rtp'[s].start <= RtpModulus - 1
             /\ WriterInv(s)'
  <2>1. /\ rtp[s] \in RtpRecord /\ rtp[s].range <= allocated
        /\ rtp[s].sent <= Duration + MaxTime /\ rtp[s].last <= now
        /\ rtp[s].start <= RtpModulus - 1
    BY RtpFacts
  <2>2. rtp'[s] = [rtp[s] EXCEPT !.writer = FALSE]
    BY <1>1
  <2>3. /\ rtp'[s] \in RtpRecord /\ ~rtp'[s].writer /\ rtp'[s].range = rtp[s].range
        /\ rtp'[s].sent = rtp[s].sent /\ rtp'[s].last = rtp[s].last
        /\ rtp'[s].start = rtp[s].start
    BY <2>1, <2>2 DEF RtpRecord
  <2> QED BY <1>1, <2>1, <2>3 DEF WriterInv
<1>9. rtp' \in [RtpSessions -> RtpRecord]
  BY <1>1, <1>8
<1>10. FirstPlayed'
  BY <1>1 DEF FirstPlayed
<1>11. /\ now' \in StreamTimeout..MaxTime /\ rtp_sessions' \in Seq(RtpSessions)
       /\ timer' \in 0..(MaxTime + StreamTimeout)
  BY <1>1, Constants DEF SessionInv, TypeOK
<1> QED BY <1>1, <1>3, <1>5, <1>6, <1>7, <1>8, <1>9, <1>10, <1>11, InvBecomes

\* What a running writer reads.
LEMMA WriterFacts ==
    ASSUME SessionInv, NEW s \in RtpSessions, rtp[s].writer
    PROVE  /\ rtp[s].range \in DOMAIN range /\ rtp[s].range = Head(play_requests)
           /\ cur_state = "PLAYING"
           /\ range[rtp[s].range].playback \in Nat /\ range[rtp[s].range].playback <= now
           /\ range[rtp[s].range].begin \in Nat /\ now \in Nat
           /\ rtp[s].told = [npt |-> range[rtp[s].range].begin, rtptime |-> rtp[s].start]
           /\ Due(s) \in Nat /\ Due(s) <= Duration
<1>1. /\ cur_state = "PLAYING" /\ rtp[s].range = Head(play_requests)
      /\ rtp[s].told = [npt |-> range[rtp[s].range].begin, rtptime |-> rtp[s].start]
  BY RtpFacts DEF WriterInv
<1>2. play_requests # <<>> /\ range[Head(play_requests)].playback # Unset
  BY <1>1 DEF SessionInv, FirstPlayed
<1>3. PICK r : r = rtp[s].range /\ r \in Listed /\ DOMAIN range = Listed
  BY <1>1, <1>2, ListFacts
<1>4. /\ range[r].begin \in Nat /\ range[r].playback \in Int /\ range[r].playback >= Unset
      /\ range[r].playback <= now /\ now \in Nat
  BY <1>3, ListFacts
<1>5. range[r].playback \in Nat
  BY <1>1, <1>2, <1>3, <1>4 DEF Unset
<1>6. Due(s) \in Nat /\ Due(s) <= Duration
  BY <1>3, <1>4, <1>5, Constants DEF Due
<1> QED BY <1>1, <1>3, <1>4, <1>5, <1>6

\* rtp_write_cb only moves the schedule of its own session (rtp.c:184-290).
LEMMA WriteStep ==
    ASSUME SessionInv, NEW s \in RtpSessions, rtp_write_cb(s)
    PROVE  SessionInv'
<1>1. /\ rtp[s].writer
      /\ rtp' = [rtp EXCEPT ![s].sent = Due(s), ![s].last = now,
                            ![s].writer = Due(s) < Duration]
      /\ UNCHANGED <<now, cur_state, rtp_sessions, play_requests, range, allocated,
                     vlc_play, timer>>
  BY DEF rtp_write_cb, sessionVars, listVars
<1>2. PICK m \in Nat : m = Due(s) /\ m <= Duration
  BY <1>1, WriterFacts
<1>3. /\ rtp \in [RtpSessions -> RtpRecord] /\ rtp[s] \in RtpRecord /\ now \in Nat
  BY RtpFacts, ListFacts
<1>4. PICK w \in BOOLEAN : w = (m < Duration)
  <2>1. CASE m < Duration
    <3>1. TRUE = (m < Duration)
      BY <2>1
    <3> QED BY <3>1, Zenon
  <2>2. CASE ~(m < Duration)
    <3>1. FALSE = (m < Duration)
      BY <2>2
    <3> QED BY <3>1, Zenon
  <2> QED BY <2>1, <2>2, Zenon
<1>5. rtp' = [rtp EXCEPT ![s] = [rtp[s] EXCEPT !.sent = m, !.last = now, !.writer = w]]
  BY <1>1, <1>2, <1>3, <1>4
<1>6. PICK e \in RtpRecord : e = [rtp[s] EXCEPT !.sent = m, !.last = now, !.writer = w]
  BY <1>3 DEF RtpRecord
<1>7. /\ e.range = rtp[s].range /\ e.sent = m /\ e.last = now /\ e.start = rtp[s].start
      /\ e.told = rtp[s].told
  BY <1>3, <1>6 DEF RtpRecord
<1>8. /\ rtp' \in [RtpSessions -> RtpRecord] /\ rtp'[s] = e
      /\ \A d \in RtpSessions : d # s => rtp'[d] = rtp[d]
  BY <1>3, <1>5, <1>6
<1>9. ASSUME NEW d \in RtpSessions
      PROVE  /\ rtp'[d].range <= allocated' /\ rtp'[d].sent <= Duration + MaxTime
             /\ rtp'[d].last <= now' /\ rtp'[d].start <= RtpModulus - 1
             /\ WriterInv(d)'
  <2>1. /\ rtp[d].range <= allocated /\ rtp[d].sent <= Duration + MaxTime
        /\ rtp[d].last <= now /\ rtp[d].start <= RtpModulus - 1 /\ WriterInv(d)
    BY RtpFacts
  <2>2. CASE d = s
    <3>1. m <= Duration + MaxTime
      BY <1>2, Constants
    <3>2. WriterInv(d)'
      BY <1>1, <1>7, <1>8, <2>1, <2>2 DEF WriterInv, Sessions
    <3>3. e.last <= now
      BY <1>3, <1>7
    <3>4. rtp'[d].range <= allocated' /\ rtp'[d].start <= RtpModulus - 1
      BY <1>1, <1>7, <1>8, <2>1, <2>2
    <3>5. rtp'[d].sent <= Duration + MaxTime /\ rtp'[d].last <= now'
      BY <1>1, <1>7, <1>8, <2>2, <3>1, <3>3
    <3> QED BY <3>2, <3>4, <3>5
  <2>3. CASE d # s
    BY <1>1, <1>8, <2>1, <2>3 DEF WriterInv, Sessions
  <2> QED BY <2>2, <2>3
<1>10. FirstPlayed' /\ Listed' = Listed
  BY <1>1 DEF SessionInv, FirstPlayed, Listed
<1>11. /\ now' \in StreamTimeout..MaxTime /\ timer' \in 0..(MaxTime + StreamTimeout)
       /\ cur_state' \in {"INIT", "READY", "PLAYING"} /\ rtp_sessions' \in Seq(RtpSessions)
       /\ vlc_play' \in Seq(Headers)
  BY <1>1 DEF SessionInv, TypeOK, Shapes
<1> QED BY <1>1, <1>8, <1>9, <1>10, <1>11, ListFacts, InvBecomes

\* The clock advances between callbacks.
LEMMA TickStep ==
    ASSUME SessionInv, Tick
    PROVE  SessionInv'
<1>1. /\ now < MaxTime /\ now' = now + 1
      /\ UNCHANGED <<cur_state, rtp_sessions, play_requests, range, allocated, vlc_play,
                     timer, rtp>>
  BY DEF Tick, sessionVars, listVars
<1>2. now \in StreamTimeout..MaxTime /\ now \in Nat
  BY ListFacts DEF SessionInv, TypeOK
<1>3. now' \in StreamTimeout..MaxTime /\ now <= now' /\ now' \in Nat
  BY <1>1, <1>2, Constants
<1>4. Listed' = Listed
  BY <1>1 DEF Listed
<1>5. ASSUME NEW r \in Listed
      PROVE  /\ range[r].playback >= Unset /\ range[r].playback <= now'
             /\ range[r].end \in 0..Duration
             /\ range[r].begin <= Duration + (IF range[r].playback = Unset THEN now'
                                              ELSE range[r].playback)
  <2>1. /\ range[r].begin \in Nat /\ range[r].playback \in Int
        /\ range[r].playback >= Unset /\ range[r].playback <= now
        /\ range[r].end \in 0..Duration
        /\ range[r].begin <= Duration + (IF range[r].playback = Unset THEN now
                                         ELSE range[r].playback)
    BY ListFacts
  <2> QED BY <1>2, <1>3, <2>1, Constants
<1>6. ASSUME NEW d \in RtpSessions
      PROVE  /\ rtp'[d].range <= allocated' /\ rtp'[d].sent <= Duration + MaxTime
             /\ rtp'[d].last <= now' /\ rtp'[d].start <= RtpModulus - 1
             /\ WriterInv(d)'
  <2>1. /\ rtp[d].range <= allocated /\ rtp[d].sent <= Duration + MaxTime
        /\ rtp[d].last \in Nat /\ rtp[d].last <= now
        /\ rtp[d].start <= RtpModulus - 1 /\ WriterInv(d)
    BY RtpFacts
  <2>2. WriterInv(d)'
    BY <1>1, <2>1 DEF WriterInv, Sessions
  <2>3. rtp[d].last <= now'
    BY <1>2, <1>3, <2>1
  <2> QED BY <1>1, <2>1, <2>2, <2>3
<1>7. FirstPlayed'
  BY <1>1 DEF SessionInv, FirstPlayed
<1>8. /\ timer' \in 0..(MaxTime + StreamTimeout)
      /\ cur_state' \in {"INIT", "READY", "PLAYING"} /\ rtp_sessions' \in Seq(RtpSessions)
      /\ vlc_play' \in Seq(Headers) /\ rtp' \in [RtpSessions -> RtpRecord]
  BY <1>1 DEF SessionInv, TypeOK, Shapes
<1> QED BY <1>1, <1>3, <1>4, <1>5, <1>6, <1>7, <1>8, ListFacts, InvBecomes

\* Every request handler and every timer of the client keeps the invariant.
LEMMA SessionStep ==
    ASSUME SessionInv, [Next]_vars
    PROVE  SessionInv'
<1>0. /\ now \in StreamTimeout..MaxTime /\ timer \in 0..(MaxTime + StreamTimeout)
      /\ vlc_play \in Seq(Headers) /\ allocated \in Nat /\ now \in Nat
      /\ 0 \in 0..(MaxTime + StreamTimeout)
  BY ListFacts, Constants DEF SessionInv, TypeOK, Shapes
<1>1. ASSUME NEW found \in BOOLEAN, RTSP_setup_fails(found) PROVE SessionInv'
  BY <1>0, <1>1, SessionStutter DEF RTSP_setup_fails
<1>2. ASSUME NEW s \in RtpSessions, NEW t \in StartTimes, RTSP_setup(s, t) PROVE SessionInv'
  BY <1>2, SetupStep
<1>3. ASSUME NEW header \in Headers, RTSP_play(header) PROVE SessionInv'
  BY <1>0, <1>3, PlayStep DEF RTSP_play
<1>4. ASSUME NEW header \in Headers, RTSP_play_vlc(header) PROVE SessionInv'
  BY <1>4, PauseStep DEF RTSP_play_vlc
<1>5. CASE RTSP_play_continue
  <2>1. vlc_play # <<>> /\ vlc_play' = <<>> /\ UNCHANGED <<now, rtp_sessions>>
    BY <1>5 DEF RTSP_play_continue
  <2>2. vlc_play[1] \in Headers /\ vlc_play' \in Seq(Headers)
    BY <1>0, <2>1
  <2>3. CASE vlc_play[1] = BadHeader
    <3>1. UNCHANGED <<play_requests, range, allocated, cur_state, rtp, timer>>
      BY <1>5, <2>3 DEF RTSP_play_continue, listVars
    <3>2. TypeOK'
      BY <2>1, <3>1 DEF SessionInv, TypeOK
    <3>3. Shapes'
      BY <2>1, <2>2, <3>1 DEF SessionInv, Shapes, Listed, BeginBounded
    <3>4. (\A s \in RtpSessions : WriterInv(s)') /\ FirstPlayed'
      BY <2>1, <3>1 DEF SessionInv, WriterInv, FirstPlayed, Sessions
    <3> QED BY <3>2, <3>3, <3>4 DEF SessionInv
  <2>4. CASE vlc_play[1] # BadHeader
    <3>1. PlayRange(vlc_play[1])
      BY <1>5, <2>4 DEF RTSP_play_continue
    <3> QED BY <2>1, <2>2, <2>4, <3>1, PlayStep
  <2> QED BY <2>3, <2>4
<1>6. CASE RTSP_pause
  BY <1>0, <1>6, PauseStep DEF RTSP_pause
<1>7. CASE RTSP_teardown
  BY <1>0, <1>7, FreedStep DEF RTSP_teardown, rtsp_session_free
<1>8. CASE CloseClient
  BY <1>0, <1>8, FreedStep DEF CloseClient, rtsp_session_free, None
<1>9. ASSUME NEW s \in RtpSessions, rtp_write_cb(s) PROVE SessionInv'
  BY <1>9, WriteStep
<1>10. CASE client_ev_timeout
  <2>1. CASE TimedOut # {}
    BY <1>8, <1>10, <2>1 DEF client_ev_timeout
  <2>2. CASE TimedOut = {}
    <3>1. timer' = now + StreamTimeout
          /\ UNCHANGED <<now, cur_state, rtp_sessions, listVars, vlc_play, rtp>>
      BY <1>10, <2>2 DEF client_ev_timeout, ev_timer_again, sessionVars
    <3>2. timer' \in 0..(MaxTime + StreamTimeout)
      BY <1>0, <3>1, Constants
    <3> QED BY <3>1, <3>2, SessionStutter
  <2> QED BY <2>1, <2>2
<1>11. CASE Tick
  BY <1>11, TickStep
<1>12. CASE UNCHANGED vars
  BY <1>0, <1>12, SessionStutter DEF vars, sessionVars
<1> QED BY <1>1, <1>2, <1>3, <1>4, <1>5, <1>6, <1>7, <1>8, <1>9, <1>10, <1>11, <1>12
        DEF Next, Disconnect

\* The invariant holds in every behaviour of a client's RTSP session.
THEOREM SessionSafe == Spec => []SessionInv
<1> QED BY SessionInit, SessionStep, PTL DEF Spec

\* Types, and the bounds that only the clock gives: the begin time of a range grows
\* with every pause and never by more than the time played (rtsp_method_pause.c:40-49).
THEOREM SessionTypeCorrect == Spec => []TypeOK
<1>1. SessionInv => TypeOK
  BY DEF SessionInv
<1> QED BY <1>1, SessionSafe, PTL

\* The range rtp_write_cb reads has not been freed by a later PLAY, PAUSE or TEARDOWN,
\* and it is being played (rtp.c:184, rtsp_method_play.c:206-240).
THEOREM RangeAliveSafe == Spec => []RangeAlive
<1>1. SessionInv => RangeAlive
  <2> SUFFICES ASSUME SessionInv, NEW s \in RtpSessions, rtp[s].writer
               PROVE  rtp[s].range \in DOMAIN range /\ range[rtp[s].range].playback # Unset
    BY DEF RangeAlive
  <2>1. rtp[s].range \in DOMAIN range /\ range[rtp[s].range].playback \in Nat
    BY WriterFacts
  <2> QED BY <2>1 DEF Unset
<1> QED BY <1>1, SessionSafe, PTL

\* A session that plays has a first range, the one its writers play: rtsp_do_pause may
\* take it without a test (rtsp_method_pause.c:40).
THEOREM PlayingHasRangeSafe == Spec => []PlayingHasRange
<1>1. SessionInv => PlayingHasRange
  BY WriterFacts DEF PlayingHasRange, SessionInv, FirstPlayed
<1> QED BY <1>1, SessionSafe, PTL

\* Reply, packets and sender reports place the media at the same times, for every clock
\* rate and every width of the RTP time (rtsp_method_play.c:80-124, rtp.c:184,
\* rtcp.c:178).
THEOREM RtpTimesAgreeSafe == Spec => []RtpTimesAgree
<1>1. ASSUME SessionInv, NEW s \in RtpSessions, rtp[s].writer
      PROVE  /\ Means(s, rtptime(s, rtp[s].sent), rtp[s].sent)
             /\ Due(s) < Duration => Means(s, rtcp_set_sr(s), Due(s))
  <2>1. PICK b \in Nat, p \in Nat, a \in Nat, m \in Nat :
           /\ b = range[rtp[s].range].begin /\ p = range[rtp[s].range].playback
           /\ a = rtp[s].start /\ m = rtp[s].sent
    BY <1>1, WriterFacts, RtpFacts
  <2>2. rtp[s].told.npt = b /\ rtp[s].told.rtptime = a /\ now \in Nat
    <3>1. rtp[s].told = [npt |-> b, rtptime |-> a] /\ now \in Nat
      BY <1>1, <2>1, WriterFacts
    <3> QED BY <3>1
  <2>3. RtpModulus \in Nat \ {0} /\ ClockRate \in Int /\ a \in Int
    BY SessionAssumption
  <2>4. Means(s, rtptime(s, rtp[s].sent), rtp[s].sent)
    <3>1. PICK d \in Int : d = m - b
      OBVIOUS
    <3>2. (((a + d * ClockRate) % RtpModulus) - a - d * ClockRate) % RtpModulus = 0
      BY <2>3, TimestampMeans, Zenon
    <3> QED BY <2>1, <2>2, <3>1, <3>2 DEF Means, rtptime
  <2>5. ASSUME Due(s) < Duration PROVE Means(s, rtcp_set_sr(s), Due(s))
    <3>1. PICK d \in Int : d = now - p
      BY <2>2
    <3>2. (((a + d * ClockRate) % RtpModulus) - a - d * ClockRate) % RtpModulus = 0
      BY <2>3, TimestampMeans, Zenon
    <3>3. Due(s) = b + now - p
      BY <2>1, <2>2, <2>5, Constants DEF Due
    <3>4. Due(s) - b = d
      BY <2>2, <3>1, <3>3
    <3>5. rtcp_set_sr(s) = (a + d * ClockRate) % RtpModulus
      BY <2>1, <3>1 DEF rtcp_set_sr
    <3> QED BY <2>2, <3>2, <3>4, <3>5 DEF Means
  <2> QED BY <2>4, <2>5
<1>2. SessionInv => RtpTimesAgree
  BY <1>1 DEF RtpTimesAgree
<1> QED BY <1>2, SessionSafe, PTL
=============================================================================
