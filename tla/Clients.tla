------------------------------- MODULE Clients -------------------------------
(***************************************************************************)
(* The connections of the server and the transports of their RTP sessions:   *)
(* accepting a client, SETUP with the list of transports it offers (UDP      *)
(* sockets or interleaved channels), TEARDOWN, HTTP requests, and the end of *)
(* a client's thread.  All threads share the descriptor table of the process *)
(* and the kernel's UDP ports; a descriptor is the lowest free number.       *)
(*                                                                           *)
(* Each thread's steps are cut where it opens or closes a descriptor.  Every *)
(* socket call may fail; MaxFailures bounds how many do.  The HTTP tunnel    *)
(* has no table of pairs (http_tunnel_initialise is called nowhere), so that *)
(* every POST is refused and changes nothing.                                *)
(***************************************************************************)
EXTENDS Integers, Sequences, Functions

CONSTANTS
    Conns,          \* the connections that clients may open
    OfferLists,     \* parsed Transport headers: sequences of Offer
    MaxFd,          \* descriptors are 0..MaxFd
    MaxPort,        \* UDP ports are 2..MaxPort
    ChannelLimit,   \* 256: channels fit the byte after '$'
    MaxSetups,      \* bound: SETUP requests
    MaxFailures     \* bound: steps in which a socket call fails

NoChannel == -1

\* The numbers of an offer as the parser leaves them, see Headers!TypeOK.
Offer == [protocol : {"UDP", "TCP", "SCTP"},
          rtp_channel : Nat \cup {NoChannel}, rtcp_channel : Nat \cup {NoChannel}]

ASSUME ClientsAssumption ==
    /\ Conns \cap {"nobody", "process"} = {}
    /\ OfferLists \subseteq Seq(Offer) \ {<<>>}
    /\ MaxFd \in Nat /\ MaxPort \in Nat /\ ChannelLimit \in Nat
    /\ MaxSetups \in Nat /\ MaxFailures \in Nat

VARIABLES
    fd,             \* owner of each descriptor
    port,           \* UDP port each descriptor is bound to, 0 if none
    thread,         \* where the thread of each connection is
    sd,             \* RTSP_Client::sd
    offers,         \* the transports still to be tried by rtp_session_new
    rtp_s,          \* the RTP session under construction, see NewSession
    sessions,       \* RTSP_session::rtp_sessions
    setups,         \* SETUP requests so far
    first_free_channel,
    channels,       \* RTSP_Client::channels: rtcp channel to session
    to_close,       \* descriptors that the thread is about to close, with their owners
    failures,       \* steps in which a socket call has failed
    stray,          \* the first close of a descriptor of somebody else, or <<>>
    crashed

connVars == <<thread, sd, offers, rtp_s, sessions, setups, first_free_channel, channels, to_close>>
vars == <<fd, port, connVars, failures, stray, crashed>>

Fds == 0..MaxFd
Ports == 2..MaxPort

Owner(who, n) == [who |-> who, n |-> n]
Nobody == Owner("nobody", 0)
Process == Owner("process", 0)

\* Standard input and the listening socket.
Init ==
    /\ fd = [d \in Fds |-> IF d \in 0..1 THEN Process ELSE Nobody]
    /\ port = [d \in Fds |-> 0]
    /\ thread = [c \in Conns |-> "none"]
    /\ sd = [c \in Conns |-> -1]
    /\ offers = [c \in Conns |-> <<>>]
    /\ rtp_s = [c \in Conns |-> <<>>]
    /\ sessions = [c \in Conns |-> <<>>]
    /\ setups = [c \in Conns |-> 0]
    /\ first_free_channel = [c \in Conns |-> 0]
    /\ channels = [c \in Conns |-> [ch \in {} |-> 0]]
    /\ to_close = [c \in Conns |-> <<>>]
    /\ failures = 0 /\ stray = <<>> /\ crashed = FALSE

-----------------------------------------------------------------------------
(* The kernel (external). *)

FreeFds == {d \in Fds : fd[d] = Nobody}
LowestFree == CHOOSE d \in FreeFds : \A e \in FreeFds : d <= e
FreePorts == Ports \ {port[d] : d \in Fds}

Opens(d, owner, p) ==
    fd' = [fd EXCEPT ![d] = owner] /\ port' = [port EXCEPT ![d] = p]

CallFails == failures < MaxFailures /\ failures' = failures + 1

-----------------------------------------------------------------------------
(* Connections *)

Running(c) == ~crashed /\ thread[c] = "loop"

\* rtsp_client_incoming_cb, with the thread of the pool that takes the client.  When
\* getsockname fails the descriptor is closed again at once.
Accept(c) ==
    /\ ~crashed
    /\ thread[c] = "none"
    /\ FreeFds # {}
    /\ Opens(LowestFree, Owner(c, 0), 0)
    /\ sd' = [sd EXCEPT ![c] = LowestFree]
    /\ thread' = [thread EXCEPT ![c] = "loop"]
    /\ UNCHANGED <<offers, rtp_s, sessions, setups, first_free_channel, channels, to_close,
                   failures, stray, crashed>>

\* A GET with a cookie: the answer is sent, HTTP_handle_idle ends the loop and so the
\* thread; the client waits for the POST of its pair to be freed.
HttpGet(c) ==
    /\ Running(c)
    /\ thread' = [thread EXCEPT ![c] = "idle"]
    /\ UNCHANGED <<fd, port, sd, offers, rtp_s, sessions, setups, first_free_channel, channels,
                   to_close, failures, stray, crashed>>

\* TEARDOWN: rtsp_session_free; the channel table keeps its entries.
RTSP_teardown(c) ==
    /\ Running(c)
    /\ sessions[c] # <<>>
    /\ thread' = [thread EXCEPT ![c] = "teardown"]
    /\ UNCHANGED <<fd, port, sd, offers, rtp_s, sessions, setups, first_free_channel, channels,
                   to_close, failures, stray, crashed>>

\* The end of client_loop: rtsp_client_free closes the connection, then the sessions.
Disconnect(c) ==
    /\ Running(c)
    /\ to_close' = [to_close EXCEPT ![c] = <<<<sd[c], Owner(c, 0)>>>>]
    /\ thread' = [thread EXCEPT ![c] = "free"]
    /\ UNCHANGED <<fd, port, sd, offers, rtp_s, sessions, setups, first_free_channel, channels,
                   failures, stray, crashed>>

\* The descriptors of session s of c, in the order in which they are closed.
SocketsOf(c, s) ==
    IF s.protocol = "UDP" THEN <<<<s.rtp_sd, Owner(c, s.n)>>, <<s.rtcp_sd, Owner(c, s.n)>>>>
    ELSE <<>>

\* Mutant: the session stays in the list.
FreedAgain(c) ==
    /\ ~crashed
    /\ thread[c] \in {"teardown", "free"} /\ to_close[c] = <<>> /\ sessions[c] # <<>>
    /\ to_close' = [to_close EXCEPT ![c] = SocketsOf(c, Head(sessions[c]))]
    /\ UNCHANGED <<fd, port, thread, sd, offers, rtp_s, sessions, setups, first_free_channel,
                   channels, failures, stray, crashed>>

\* The next session of the list is freed.
rtp_session_free(c) ==
    /\ ~crashed
    /\ thread[c] \in {"teardown", "free"} /\ to_close[c] = <<>> /\ sessions[c] # <<>>
    /\ to_close' = [to_close EXCEPT ![c] = SocketsOf(c, Head(sessions[c]))]
    /\ sessions' = [sessions EXCEPT ![c] = Tail(@)]
    /\ UNCHANGED <<fd, port, thread, sd, offers, rtp_s, setups, first_free_channel, channels,
                   failures, stray, crashed>>

\* close(): whoever owns the descriptor.
Close(c) ==
    /\ ~crashed
    /\ to_close[c] # <<>>
    /\ LET d == Head(to_close[c])[1]
           owner == Head(to_close[c])[2]
       IN  /\ fd' = [fd EXCEPT ![d] = Nobody]
           /\ port' = [port EXCEPT ![d] = 0]
           /\ stray' = IF stray = <<>> /\ fd[d] \notin {owner, Nobody}
                       THEN <<[descriptor |-> d,
                               tried |-> IF rtp_s[c] = <<>> THEN 0 ELSE rtp_s[c][1].tried]>>
                       ELSE stray
    /\ to_close' = [to_close EXCEPT ![c] = Tail(@)]
    /\ UNCHANGED <<thread, sd, offers, rtp_s, sessions, setups, first_free_channel, channels,
                   failures, crashed>>

\* The call that closed the descriptors returns.  After a failed transport the next one
\* is tried, and without one SETUP is answered 461; the client's object is freed.
Closed(c) ==
    /\ ~crashed
    /\ to_close[c] = <<>>
    /\ \/ /\ thread[c] = "error"
          /\ offers' = [offers EXCEPT ![c] = Tail(@)]
          /\ rtp_s' = IF offers'[c] = <<>> THEN [rtp_s EXCEPT ![c] = <<>>] ELSE rtp_s
          /\ thread' = [thread EXCEPT ![c] = IF offers'[c] = <<>> THEN "loop" ELSE "try"]
          /\ UNCHANGED <<sd, first_free_channel, channels>>
       \/ /\ thread[c] = "teardown" /\ sessions[c] = <<>>
          /\ thread' = [thread EXCEPT ![c] = "loop"]
          /\ UNCHANGED <<sd, offers, rtp_s, first_free_channel, channels>>
       \/ /\ thread[c] = "free" /\ sessions[c] = <<>>
          /\ thread' = [thread EXCEPT ![c] = "gone"]
          /\ sd' = [sd EXCEPT ![c] = -1]
          /\ first_free_channel' = [first_free_channel EXCEPT ![c] = 0]
          /\ channels' = [channels EXCEPT ![c] = [ch \in {} |-> 0]]
          /\ UNCHANGED <<offers, rtp_s>>
    /\ UNCHANGED <<fd, port, sessions, setups, to_close, failures, stray, crashed>>

-----------------------------------------------------------------------------
(* SETUP *)

\* Mutant: the new session is not cleared.
NewSessionDirty ==
    [rtp_sd |-> 0, rtcp_sd |-> 0, rtp_port |-> 0, rtcp_port |-> 0,
     rtp_sa |-> "freed", rtcp_sa |-> "freed", tried |-> 0]

\* g_slice_new0: both descriptors are 0, both addresses are NULL.  tried counts the
\* calls of rtp_udp_transport for this session.
NewSession ==
    [rtp_sd |-> 0, rtcp_sd |-> 0, rtp_port |-> 0, rtcp_port |-> 0,
     rtp_sa |-> "null", rtcp_sa |-> "null", tried |-> 0]

Session(c) == rtp_s[c][1]
Mine(c) == Owner(c, setups[c])

SetupsSoFar == FoldFunction(+, 0, setups)

\* SETUP or TEARDOWN of a URI without a path (rtsp://host): rfc822_request_check_url hands
\* the path, which is NULL, to strstr.  SETUP of a path that cannot be unescaped:
\* select_requested_track hands the result, which is NULL, to strrchr.
NullPath(c) ==
    /\ Running(c)
    /\ thread' = [thread EXCEPT ![c] = "url"]
    /\ crashed' = TRUE
    /\ UNCHANGED <<fd, port, sd, offers, rtp_s, sessions, setups, first_free_channel, channels,
                   to_close, failures, stray>>

\* SETUP of a track of an existing resource; the URI has a path.
RTSP_setup(c, list) ==
    /\ Running(c)
    /\ SetupsSoFar < MaxSetups
    /\ setups' = [setups EXCEPT ![c] = @ + 1]
    /\ offers' = [offers EXCEPT ![c] = list]
    /\ rtp_s' = [rtp_s EXCEPT ![c] = <<NewSession>>]
    /\ thread' = [thread EXCEPT ![c] = "try"]
    /\ UNCHANGED <<fd, port, sd, sessions, first_free_channel, channels, to_close, failures,
                   stray, crashed>>

Trying(c, protocol) == ~crashed /\ thread[c] = "try" /\ Head(offers[c]).protocol = protocol

\* The transport is set up: the session joins the list and the reply is sent.
SetUp(c, session) ==
    /\ sessions' = [sessions EXCEPT ![c] = Append(@, session)]
    /\ offers' = [offers EXCEPT ![c] = <<>>]
    /\ rtp_s' = [rtp_s EXCEPT ![c] = <<>>]
    /\ thread' = [thread EXCEPT ![c] = "loop"]

\* No entry for SCTP: the call goes to NULL.
TrySCTP(c) ==
    /\ Trying(c, "SCTP")
    /\ crashed' = TRUE
    /\ UNCHANGED <<fd, port, connVars, failures, stray>>

\* Mutant: the counter is read and does not move.
AssignFirstFree(c) ==
    LET asked == Head(offers[c])
        rtp == IF asked.rtp_channel = NoChannel THEN first_free_channel[c] + 1
               ELSE asked.rtp_channel
        rtcp == IF asked.rtcp_channel = NoChannel THEN first_free_channel[c] + 2
                ELSE asked.rtcp_channel
    IN  [rtp |-> rtp, rtcp |-> rtcp, last |-> first_free_channel[c]]

\* The channels of a session: the client's, or the next ones of the counter.
AssignChannels(c) ==
    LET asked == Head(offers[c])
        before == first_free_channel[c]
        between == before + IF asked.rtp_channel = NoChannel THEN 1 ELSE 0
        after == between + IF asked.rtcp_channel = NoChannel THEN 1 ELSE 0
    IN  [rtp |-> IF asked.rtp_channel = NoChannel THEN between ELSE asked.rtp_channel,
         rtcp |-> IF asked.rtcp_channel = NoChannel THEN after ELSE asked.rtcp_channel,
         last |-> after]

\* Mutant: only the RTP channel is checked.
RtpFits(given) == given.rtp < ChannelLimit

Fits(given) == given.rtp < ChannelLimit /\ given.rtcp < ChannelLimit

\* rtp_interleaved_transport and rtsp_interleaved_register.
TryTCP(c) ==
    /\ Trying(c, "TCP")
    /\ LET given == AssignChannels(c)
       IN  /\ first_free_channel' = [first_free_channel EXCEPT ![c] = given.last]
           /\ IF ~Fits(given)
              THEN /\ thread' = [thread EXCEPT ![c] = "error"]
                   /\ UNCHANGED <<offers, rtp_s, sessions, channels>>
              ELSE /\ channels' = [channels EXCEPT ![c] =
                          [ch \in DOMAIN @ \cup {given.rtcp} |->
                              IF ch = given.rtcp THEN setups[c] ELSE @[ch]]]
                   /\ SetUp(c, [protocol |-> "TCP", n |-> setups[c], rtp |-> given.rtp,
                                rtcp |-> given.rtcp,
                                named |-> Head(offers[c]).rtp_channel # NoChannel
                                          \/ Head(offers[c]).rtcp_channel # NoChannel])
    /\ UNCHANGED <<fd, port, sd, setups, to_close, failures, stray, crashed>>

-----------------------------------------------------------------------------
(* rtp_udp_transport *)

SocketFails == (FreeFds = {} /\ UNCHANGED failures) \/ CallFails
BindFails == (FreePorts = {} /\ UNCHANGED failures) \/ CallFails

\* The descriptor d of the session under construction, if it is one.
IfOpen(c, d) == IF d >= 0 THEN <<<<d, Mine(c)>>>> ELSE <<>>

\* Mutant: the first descriptor is forgotten when it cannot be bound.
UdpErrorForgets(c, s, firstsd) ==
    /\ crashed' = ("freed" \in {s.rtp_sa, s.rtcp_sa})
    /\ rtp_s' = [rtp_s EXCEPT ![c] =
           <<[s EXCEPT !.rtp_sa = IF @ = "set" THEN "freed" ELSE @,
                       !.rtcp_sa = IF @ = "set" THEN "freed" ELSE @]>>]
    /\ to_close' = [to_close EXCEPT ![c] =
           IfOpen(c, s.rtp_sd) \o IfOpen(c, s.rtcp_sd)]
    /\ thread' = [thread EXCEPT ![c] = "error"]
    /\ UNCHANGED <<sd, offers, sessions, setups, first_free_channel, channels, stray>>

\* The error label, with the session and firstsd as they are then.  The addresses
\* are freed and stay set: freeing one again corrupts the heap.
UdpError(c, s, firstsd) ==
    /\ crashed' = ("freed" \in {s.rtp_sa, s.rtcp_sa})
    /\ rtp_s' = [rtp_s EXCEPT ![c] =
           <<[s EXCEPT !.rtp_sa = IF @ = "set" THEN "freed" ELSE @,
                       !.rtcp_sa = IF @ = "set" THEN "freed" ELSE @]>>]
    /\ to_close' = [to_close EXCEPT ![c] =
           IfOpen(c, firstsd) \o IfOpen(c, s.rtp_sd) \o IfOpen(c, s.rtcp_sd)]
    /\ thread' = [thread EXCEPT ![c] = "error"]
    /\ UNCHANGED <<sd, offers, sessions, setups, first_free_channel, channels, stray>>

\* rtp_udp_transport goes on with the session s at the given place.
UdpGoesOn(c, s, place) ==
    /\ rtp_s' = [rtp_s EXCEPT ![c] = <<s>>]
    /\ thread' = [thread EXCEPT ![c] = place]
    /\ UNCHANGED <<sd, offers, sessions, setups, first_free_channel, channels, to_close,
                   stray, crashed>>

\* The first socket: RTP if its port is even, RTCP if it is odd.
UdpFirst(c) ==
    /\ Trying(c, "UDP")
    /\ LET s == [Session(c) EXCEPT !.tried = @ + 1]
       IN  \/ SocketFails /\ UdpError(c, s, -1) /\ UNCHANGED <<fd, port>>
           \/ /\ FreeFds # {}
              /\ \E p \in FreePorts \cup {0} : Opens(LowestFree, Mine(c), p)
              /\ BindFails /\ UdpError(c, s, LowestFree)
           \/ /\ FreeFds # {}
              /\ \E p \in FreePorts :
                    /\ Opens(LowestFree, Mine(c), p) /\ UNCHANGED failures
                    /\ IF p % 2 = 0
                       THEN UdpGoesOn(c, [s EXCEPT !.rtp_sd = LowestFree, !.rtp_port = p,
                                                   !.rtcp_port = p + 1], "rtcp")
                       ELSE UdpGoesOn(c, [s EXCEPT !.rtcp_sd = LowestFree, !.rtcp_port = p,
                                                   !.rtp_port = p - 1], "rtp")

\* Mutant: the port of the second socket is announced as it was asked for.
SecondUnasked(s, which, d, p) ==
    IF which = "rtp" THEN [s EXCEPT !.rtp_sd = d] ELSE [s EXCEPT !.rtcp_sd = d]

Second(s, which, d, p) ==
    IF which = "rtp" THEN [s EXCEPT !.rtp_sd = d, !.rtp_port = p]
    ELSE [s EXCEPT !.rtcp_sd = d, !.rtcp_port = p]

\* The other socket: on the adjacent port, or on any when that is taken or the bind to it
\* fails.
UdpSecond(c, which) ==
    /\ ~crashed /\ thread[c] = which
    /\ LET s == Session(c)
           adjacent == IF which = "rtp" THEN s.rtp_port ELSE s.rtcp_port
       IN  \/ /\ SocketFails
              /\ UdpError(c, Second(s, which, -1, adjacent), -1)
              /\ UNCHANGED <<fd, port>>
           \/ /\ FreeFds # {}
              /\ \E p \in FreePorts \cup {0} : Opens(LowestFree, Mine(c), p)
              /\ BindFails /\ UdpError(c, Second(s, which, LowestFree, adjacent), -1)
           \/ /\ FreeFds # {}
              /\ \E p \in FreePorts :
                    /\ Opens(LowestFree, Mine(c), p)
                    /\ \/ (p = adjacent \/ adjacent \notin FreePorts) /\ UNCHANGED failures
                       \/ CallFails
                    /\ UdpGoesOn(c, Second(s, which, LowestFree, p), "peer")

\* Both are connected to the client's ports, and SETUP is answered.
UdpConnect(c) ==
    /\ ~crashed /\ thread[c] = "peer"
    /\ LET s == Session(c)
       IN  \/ CallFails /\ UdpError(c, [s EXCEPT !.rtp_sa = "set"], -1)
           \/ CallFails /\ UdpError(c, [s EXCEPT !.rtp_sa = "set", !.rtcp_sa = "set"], -1)
           \/ /\ SetUp(c, [protocol |-> "UDP", n |-> setups[c],
                           rtp_sd |-> s.rtp_sd, rtcp_sd |-> s.rtcp_sd,
                           rtp_port |-> s.rtp_port, rtcp_port |-> s.rtcp_port])
              /\ UNCHANGED <<sd, setups, first_free_channel, channels, to_close, failures,
                             stray, crashed>>
    /\ UNCHANGED <<fd, port>>

-----------------------------------------------------------------------------
ClientNext(c) ==
    \/ Accept(c)
    \/ HttpGet(c)
    \/ NullPath(c)
    \/ \E list \in OfferLists : RTSP_setup(c, list)
    \/ TrySCTP(c)
    \/ TryTCP(c)
    \/ UdpFirst(c)
    \/ UdpSecond(c, "rtp")
    \/ UdpSecond(c, "rtcp")
    \/ UdpConnect(c)
    \/ RTSP_teardown(c)
    \/ Disconnect(c)
    \/ rtp_session_free(c)
    \/ Close(c)
    \/ Closed(c)

Next == \E c \in Conns : ClientNext(c)

Spec == Init /\ [][Next]_vars

-----------------------------------------------------------------------------
(* Properties *)

Live(c) == {sessions[c][i] : i \in 1..Len(sessions[c])}
LiveOn(c, protocol) == {s \in Live(c) : s.protocol = protocol}
Unnamed(c) == {s \in LiveOn(c, "TCP") : ~s.named}

Places == {"none", "loop", "idle", "try", "rtp", "rtcp", "peer", "error", "teardown",
           "free", "gone", "url"}

\* Types; the channels of a session fit the byte after the '$' of an interleaved packet
\* (rtsp_interleaved.c:103), and the connection has its socket while its thread runs.
TypeOK ==
    /\ fd \in [Fds -> [who : Conns \cup {"nobody", "process"}, n : Nat]]
    /\ port \in [Fds -> Ports \cup {0}]
    /\ thread \in [Conns -> Places]
    /\ sd \in [Conns -> Fds \cup {-1}]
    /\ setups \in [Conns -> Nat] /\ failures \in 0..MaxFailures
    /\ crashed \in BOOLEAN
    /\ \A c \in Conns :
          /\ first_free_channel[c] \in Nat
          /\ \A s \in LiveOn(c, "TCP") : {s.rtp, s.rtcp} \subseteq 0..(ChannelLimit - 1)
          /\ \A s \in LiveOn(c, "UDP") : {s.rtp_sd, s.rtcp_sd} \subseteq Fds

\* No descriptor is lost: whatever fails in SETUP, a descriptor opened for a connection
\* is its own socket, a socket of one of its sessions, of the session that is being set
\* up, or about to be closed.  The clients that an HTTP GET leaves behind are the
\* exception.
SocketsAccounted ==
    \A d \in Fds : LET c == fd[d].who IN c \in Conns =>
        \/ thread[c] = "idle"
        \/ fd[d] = Owner(c, 0) /\ sd[c] = d /\ thread[c] # "gone"
        \/ \E s \in LiveOn(c, "UDP") : fd[d] = Owner(c, s.n) /\ d \in {s.rtp_sd, s.rtcp_sd}
        \/ rtp_s[c] # <<>> /\ fd[d] = Mine(c) /\ d \in {Session(c).rtp_sd, Session(c).rtcp_sd}
        \/ \E i \in 1..Len(to_close[c]) : to_close[c][i] = <<d, fd[d]>>

\* A thread closes no descriptor of another session, connection or of the process,
\* except descriptor 0 (the sockets that a failing rtp_udp_transport has not opened yet)
\* and what an earlier failing UDP offer of the same SETUP left in the session; until
\* that happens the two sockets of every session, and that of every connection, are open
\* and its own.
SocketsOwn ==
    IF stray # <<>>
    THEN stray[1].descriptor = 0 \/ stray[1].tried >= 2
    ELSE \A c \in Conns :
            /\ thread[c] \notin {"none", "free", "gone"} => fd[sd[c]] = Owner(c, 0)
            /\ \A s \in LiveOn(c, "UDP") :
                  /\ s.rtp_sd # s.rtcp_sd
                  /\ fd[s.rtp_sd] = Owner(c, s.n) /\ fd[s.rtcp_sd] = Owner(c, s.n)

\* The server_port pair of the reply is where the two sockets of the session are bound,
\* also when the port next to the first one was taken.
PortsAnnounced ==
    stray = <<>> =>
        \A c \in Conns : \A s \in LiveOn(c, "UDP") :
            port[s.rtp_sd] = s.rtp_port /\ port[s.rtcp_sd] = s.rtcp_port

\* The channels that the server chooses for the sessions of a connection never clash,
\* and the table leads from the RTCP channel to the session that got it, unless a client
\* named the same number.
ChannelsGiven ==
    \A c \in Conns : \A s \in Unnamed(c) :
        /\ s.rtp # s.rtcp
        /\ \A t \in Unnamed(c) \ {s} : {s.rtp, s.rtcp} \cap {t.rtp, t.rtcp} = {}
        /\ (\A t \in LiveOn(c, "TCP") : t.named => t.rtcp # s.rtcp) => channels[c][s.rtcp] = s.n

\* The transports of SETUP bring the server down only by an offer of SCTP, or when the
\* second of two UDP offers fails like the first and frees its addresses again; what else
\* does is a URI whose path is NULL, before any transport is tried.
CrashExplained ==
    crashed => \E c \in Conns :
        \/ thread[c] = "url"
        \/ offers[c] # <<>> /\ Head(offers[c]).protocol = "SCTP"
        \/ rtp_s[c] # <<>> /\ Session(c).tried >= 2
=============================================================================
