--------------------------- MODULE ClientsProofs ---------------------------
(***************************************************************************)
(* Proofs about Clients, for any number of connections, descriptors, ports   *)
(* and channels, any lists of offers and any number of failing calls.        *)
(***************************************************************************)
EXTENDS Clients, SequenceTheorems, WellFoundedInduction, TLAPS

(***************************************************************************)
(* The inductive invariants, each on top of the ones before it.              *)
(***************************************************************************)

Descriptors == Fds \cup {-1}
Owners == [who : Conns \cup {"nobody", "process"}, n : Nat]
Channels == 0..(ChannelLimit - 1)

UdpSession ==
    [protocol : {"UDP"}, n : Nat, rtp_sd : Fds, rtcp_sd : Fds, rtp_port : Nat, rtcp_port : Nat]
TcpSession ==
    [protocol : {"TCP"}, n : Nat, rtp : Channels, rtcp : Channels, named : BOOLEAN]

\* The session that SETUP is building.
Building ==
    [rtp_sd : Descriptors, rtcp_sd : Descriptors, rtp_port : Nat, rtcp_port : Nat,
     rtp_sa : {"null", "set", "freed"}, rtcp_sa : {"null", "set", "freed"}, tried : Nat]

InSetup(c) == thread[c] \in {"try", "rtp", "rtcp", "peer", "error"}
InUdp(c) == thread[c] \in {"rtp", "rtcp", "peer"}

\* What each place of a client's thread knows of the connection's state.
Stage(c) ==
    /\ thread[c] \notin {"none", "gone"} => sd[c] \in Fds
    /\ thread[c] \in {"none", "gone"} => sessions[c] = <<>>
    /\ InSetup(c) <=> rtp_s[c] # <<>>
    /\ InSetup(c) <=> offers[c] # <<>>
    /\ to_close[c] # <<>> => thread[c] \in {"error", "teardown", "free"}
    /\ thread[c] \in {"rtp", "peer"} => Session(c).rtcp_sd \in Fds
    /\ thread[c] \in {"rtcp", "peer"} => Session(c).rtp_sd \in Fds

Types ==
    /\ fd \in [Fds -> Owners]
    /\ port \in [Fds -> Ports \cup {0}]
    /\ thread \in [Conns -> Places]
    /\ sd \in [Conns -> Descriptors]
    /\ offers \in [Conns -> Seq(Offer)]
    /\ rtp_s \in [Conns -> Seq(Building)]
    /\ sessions \in [Conns -> Seq(UdpSession \cup TcpSession)]
    /\ setups \in [Conns -> Nat]
    /\ first_free_channel \in [Conns -> Nat]
    /\ channels \in [Conns -> UNION {[S -> Nat] : S \in SUBSET Nat}]
    /\ to_close \in [Conns -> Seq(Fds \X Owners)]
    /\ failures \in 0..MaxFailures
    /\ crashed \in BOOLEAN

ShapeInv == Types /\ \A c \in Conns : Stage(c)

\* Addresses are freed only by a failing rtp_udp_transport, and the next call for the
\* same session counts once more.
TriedInv(c) ==
    rtp_s[c] # <<>> =>
        LET s == Session(c)
            freed == "freed" \in {s.rtp_sa, s.rtcp_sa}
        IN  /\ InUdp(c) => s.tried >= 1
            /\ freed => s.tried >= 1
            /\ freed /\ InUdp(c) => s.tried >= 2
            /\ s.tried = 0 => s.rtp_sd = 0 /\ s.rtcp_sd = 0

CrashInv ==
    /\ \A c \in Conns : TriedInv(c)
    /\ CrashExplained

\* Session i of c got its channels from the counter, or uses those that its client named.
Given(c, i) == sessions[c][i].protocol = "TCP" /\ ~sessions[c][i].named
Named(c, i) == sessions[c][i].protocol = "TCP" /\ sessions[c][i].named

\* The counter is past every channel it gave, and gave them in the order of the list;
\* the entry of such a channel is changed only by a later client that names it.
GivenInv(c, i) ==
    LET s == sessions[c][i]
    IN  /\ s.rtcp = s.rtp + 1 /\ s.rtcp <= first_free_channel[c]
        /\ s.rtcp \in DOMAIN channels[c]
        /\ \A j \in 1..Len(sessions[c]) : i < j /\ Given(c, j) => s.rtcp < sessions[c][j].rtp
        /\ \/ channels[c][s.rtcp] = s.n
           \/ \E j \in 1..Len(sessions[c]) :
                 i < j /\ Named(c, j) /\ sessions[c][j].rtcp = s.rtcp

ChannelInv == \A c \in Conns : \A i \in 1..Len(sessions[c]) : Given(c, i) => GivenInv(c, i)

\* SocketsAccounted, by the places where a descriptor is held.
Held(c, d) ==
    \/ thread[c] = "idle"
    \/ thread[c] \notin {"none", "free", "gone"} /\ fd[d] = Owner(c, 0) /\ sd[c] = d
    \/ \E i \in 1..Len(sessions[c]) :
          /\ sessions[c][i].protocol = "UDP" /\ fd[d] = Owner(c, sessions[c][i].n)
          /\ d \in {sessions[c][i].rtp_sd, sessions[c][i].rtcp_sd}
    \/ thread[c] \in {"rtcp", "peer"} /\ fd[d] = Mine(c) /\ d = Session(c).rtp_sd
    \/ thread[c] \in {"rtp", "peer"} /\ fd[d] = Mine(c) /\ d = Session(c).rtcp_sd
    \/ \E i \in 1..Len(to_close[c]) : to_close[c][i] = <<d, fd[d]>>

HeldInv == \A d \in Fds : \A c \in Conns : fd[d].who = c => Held(c, d)

\* The numbers of the sessions of c grow along its list.
Numbered(c) ==
    /\ InSetup(c) => setups[c] > 0
    /\ \A i \in 1..Len(sessions[c]) :
          /\ sessions[c][i].n \in 1..setups[c]
          /\ InSetup(c) => sessions[c][i].n < setups[c]
          /\ \A j \in 1..Len(sessions[c]) : i < j => sessions[c][i].n < sessions[c][j].n

\* Descriptors about to be closed belong to c, and to no session of its list.
ClosesOwn(c) ==
    \A k \in 1..Len(to_close[c]) :
        LET owner == to_close[c][k][2]
        IN  /\ owner.who = c
            /\ thread[c] = "error" => owner = Mine(c)
            /\ thread[c] = "teardown" => owner.n > 0
            /\ thread[c] # "error" =>
                  \A i \in 1..Len(sessions[c]) : owner.n < sessions[c][i].n

NumberInv(c) == Numbered(c) /\ ClosesOwn(c)

NumberedInv == \A c \in Conns : NumberInv(c)

\* Descriptor d is open, belongs to session n of c and is bound to port p.
Bound(d, c, n, p) == fd[d] = Owner(c, n) /\ port[d] = p

\* The session under construction may hold descriptors that are not its own any more.
Retried(c) == rtp_s[c] # <<>> /\ Session(c).tried >= 2

\* While no descriptor of somebody else has been closed: the connection has its socket,
ConnectionOwn(c) ==
    thread[c] \notin {"none", "free", "gone"} => fd[sd[c]] = Owner(c, 0)

\* every session of the list has its two,
ListOwn(c) ==
    \A i \in 1..Len(sessions[c]) :
        LET s == sessions[c][i]
        IN  s.protocol = "UDP" =>
                /\ s.rtp_sd # s.rtcp_sd
                /\ Bound(s.rtp_sd, c, s.n, s.rtp_port)
                /\ Bound(s.rtcp_sd, c, s.n, s.rtcp_port)

\* the session under construction has those that it opened,
BuildingOwn(c) ==
    /\ thread[c] \in {"rtcp", "peer"} =>
          Bound(Session(c).rtp_sd, c, setups[c], Session(c).rtp_port)
    /\ thread[c] \in {"rtp", "peer"} =>
          Bound(Session(c).rtcp_sd, c, setups[c], Session(c).rtcp_port)
    /\ thread[c] = "peer" => Session(c).rtp_sd # Session(c).rtcp_sd

\* and what is about to be closed is open, and is closed once.
ClosesOnce(c) ==
    ~Retried(c) =>
        \A k \in 1..Len(to_close[c]) : to_close[c][k][1] # 0 =>
            /\ fd[to_close[c][k][1]] = to_close[c][k][2]
            /\ \A l \in 1..Len(to_close[c]) : to_close[c][l][1] = to_close[c][k][1] => l = k

OwnInv(c) == ConnectionOwn(c) /\ ListOwn(c) /\ BuildingOwn(c) /\ ClosesOnce(c)

StrayInv ==
    /\ stray = <<>> => fd[0] = Process /\ \A c \in Conns : OwnInv(c)
    /\ stray # <<>> => stray[1].descriptor = 0 \/ stray[1].tried >= 2

(***************************************************************************)
(* The kernel and the lists of descriptors                                   *)
(***************************************************************************)

\* Every set of numbers that is not empty has a least one.
LEMMA Least ==
    ASSUME NEW S, S \subseteq Nat, S # {}
    PROVE  \E x \in S : \A y \in S : x <= y
<1> DEFINE R == OpToRel(<, Nat)
<1>1. IsWellFoundedOn(R, Nat)
  BY NatLessThanWellFounded, Zenon
<1>2. \A x, y \in Nat : y < x => <<y, x>> \in R
  BY DEF OpToRel
<1> HIDE DEF R
<1>3. PICK x \in S : \A y \in S : ~(<<y, x>> \in R)
  BY <1>1, WFMin
<1>4. \A y \in S : x <= y
  <2> TAKE y \in S
  <2>1. x \in Nat /\ y \in Nat
    BY <1>3
  <2>2. ~(y < x)
    BY <1>2, <1>3, <2>1
  <2> QED BY <2>1, <2>2
<1> QED BY <1>3, <1>4

\* A new descriptor was free.
LEMMA LowestFreeIsFree ==
    ASSUME FreeFds # {}
    PROVE  LowestFree \in Fds /\ fd[LowestFree] = Nobody
<1>1. FreeFds \subseteq Nat
  BY ClientsAssumption DEF FreeFds, Fds
<1>2. \E d \in FreeFds : \A e \in FreeFds : d <= e
  BY <1>1, Least
<1>3. LowestFree \in FreeFds
  BY <1>2 DEF LowestFree
<1> QED BY <1>3 DEF FreeFds

\* Lists of one element joined.
LEMMA ConcatSingles ==
    ASSUME NEW S, NEW x \in S, NEW y \in S, NEW z \in S
    PROVE  <<x>> \o <<y>> = <<x, y>> /\ <<x, y>> \o <<z>> = <<x, y, z>>
<1> DEFINE l == <<x>> \o <<y>>
           m == <<x, y>> \o <<z>>
<1>1. /\ <<x>> \in Seq(S) /\ <<y>> \in Seq(S) /\ <<z>> \in Seq(S)
      /\ <<x, y>> \in Seq(S) /\ <<x, y, z>> \in Seq(S)
  OBVIOUS
<1>2. l \in Seq(S) /\ Len(l) = 2 /\ l[1] = x /\ l[2] = y
  BY <1>1, ConcatProperties
<1>3. m \in Seq(S) /\ Len(m) = 3 /\ m[1] = x /\ m[2] = y /\ m[3] = z
  BY <1>1, ConcatProperties
<1> HIDE DEF l, m
<1>4. l = <<x, y>>
  BY <1>1, <1>2, SeqEqual
<1>5. m = <<x, y, z>>
  BY <1>1, <1>3, SeqEqual
<1> QED BY <1>4, <1>5 DEF l, m

One(d, owner) == IF d >= 0 THEN <<<<d, owner>>>> ELSE <<>>

Joined(a, b, e, owner) == One(a, owner) \o One(b, owner) \o One(e, owner)

\* The list names the descriptors of the three that are not -1, and one of them twice
\* only if two of the three are the same.
Covers(list, a, b, e, owner) ==
    /\ list \in Seq(Fds \X Owners)
    /\ \A i \in 1..Len(list) : \E d \in {a, b, e} : d \in Fds /\ list[i] = <<d, owner>>
    /\ \A d \in {a, b, e} : d \in Fds => \E i \in 1..Len(list) : list[i] = <<d, owner>>
    /\ \A i, j \in 1..Len(list) : i # j /\ list[i][1] = list[j][1] =>
          \/ a = b /\ list[i][1] = a
          \/ a = e /\ list[i][1] = a
          \/ b = e /\ list[i][1] = b

\* What the error label of rtp_udp_transport closes: the descriptors of the three that
\* are not -1.
LEMMA ErrorCloses ==
    ASSUME NEW a \in Descriptors, NEW b \in Descriptors, NEW e \in Descriptors,
           NEW owner \in Owners
    PROVE  Covers(Joined(a, b, e, owner), a, b, e, owner)
<1> DEFINE list == Joined(a, b, e, owner)
           x == <<a, owner>>
           y == <<b, owner>>
           z == <<e, owner>>
<1>1. \A d \in Descriptors : (d \in Fds <=> d >= 0) /\ (d >= 0 => <<d, owner>> \in Fds \X Owners)
  BY ClientsAssumption DEF Descriptors, Fds
<1>2. \/ a \in Fds /\ b \in Fds /\ e \in Fds /\ list = <<x, y, z>>
      \/ a \in Fds /\ b \in Fds /\ e \notin Fds /\ list = <<x, y>>
      \/ a \in Fds /\ b \notin Fds /\ e \in Fds /\ list = <<x, z>>
      \/ a \in Fds /\ b \notin Fds /\ e \notin Fds /\ list = <<x>>
      \/ a \notin Fds /\ b \in Fds /\ e \in Fds /\ list = <<y, z>>
      \/ a \notin Fds /\ b \in Fds /\ e \notin Fds /\ list = <<y>>
      \/ a \notin Fds /\ b \notin Fds /\ e \in Fds /\ list = <<z>>
      \/ a \notin Fds /\ b \notin Fds /\ e \notin Fds /\ list = <<>>
  <2>1. /\ One(a, owner) = IF a \in Fds THEN <<x>> ELSE <<>>
        /\ One(b, owner) = IF b \in Fds THEN <<y>> ELSE <<>>
        /\ One(e, owner) = IF e \in Fds THEN <<z>> ELSE <<>>
    BY <1>1 DEF One
  <2>2. /\ a \in Fds => x \in Fds \X Owners
        /\ b \in Fds => y \in Fds \X Owners
        /\ e \in Fds => z \in Fds \X Owners
    OBVIOUS
  <2> HIDE DEF x, y, z
  <2> DEFINE S == {x, y, z}
  <2>3. /\ <<>> \in Seq(S) /\ <<x>> \in Seq(S) /\ <<y>> \in Seq(S) /\ <<z>> \in Seq(S)
        /\ <<x, y>> \in Seq(S)
    OBVIOUS
  <2> HIDE DEF S
  <2>4. /\ <<x>> \o <<y>> = <<x, y>> /\ <<x>> \o <<z>> = <<x, z>>
        /\ <<y>> \o <<z>> = <<y, z>> /\ <<x, y>> \o <<z>> = <<x, y, z>>
    <3>1. x \in S /\ y \in S /\ z \in S
      BY DEF S
    <3>2. <<x>> \o <<y>> = <<x, y>> /\ <<x, y>> \o <<z>> = <<x, y, z>>
      BY <3>1, ConcatSingles
    <3>3. <<x>> \o <<z>> = <<x, z>>
      BY <3>1, ConcatSingles
    <3>4. <<y>> \o <<z>> = <<y, z>>
      BY <3>1, ConcatSingles
    <3> QED BY <3>2, <3>3, <3>4
  <2>5. /\ <<x>> \o <<>> = <<x>> /\ <<>> \o <<y>> = <<y>> /\ <<>> \o <<>> = <<>>
        /\ <<x, y>> \o <<>> = <<x, y>> /\ <<y>> \o <<>> = <<y>> /\ <<>> \o <<z>> = <<z>>
    BY <2>3, ConcatEmptySeq
  <2> QED BY <2>1, <2>4, <2>5, Zenon DEF Joined
<1>3. /\ x[1] = a /\ y[1] = b /\ z[1] = e
      /\ a \in Fds => x \in Fds \X Owners
      /\ b \in Fds => y \in Fds \X Owners
      /\ e \in Fds => z \in Fds \X Owners
  OBVIOUS
<1>4. list \in Seq(Fds \X Owners)
  <2> DEFINE P == Fds \X Owners
  <2>1. /\ a \in Fds => x \in P
        /\ b \in Fds => y \in P
        /\ e \in Fds => z \in P
    BY <1>3
  <2> SUFFICES list \in Seq(P)
    OBVIOUS
  <2> HIDE DEF list, x, y, z, P
  <2>2. \A u, v, w \in P : <<u, v, w>> \in Seq(P)
    OBVIOUS
  <2>3. \A u, v \in P : <<u, v>> \in Seq(P)
    OBVIOUS
  <2>4. <<>> \in Seq(P) /\ \A u \in P : <<u>> \in Seq(P)
    OBVIOUS
  <2> QED BY <1>2, <2>1, <2>2, <2>3, <2>4, Zenon
<1>5. \A i \in 1..Len(list) : \E d \in {a, b, e} : d \in Fds /\ list[i] = <<d, owner>>
  <2> HIDE DEF list
  <2> QED BY <1>2
<1>6. \A d \in {a, b, e} : d \in Fds => \E i \in 1..Len(list) : list[i] = <<d, owner>>
  <2> HIDE DEF list
  <2>1. a \in Fds => \E i \in 1..Len(list) : list[i] = x
    <3> HIDE DEF x, y, z
    <3>1. a \in Fds => Len(list) > 0 /\ list[1] = x /\ Len(list) \in Nat
      BY <1>2
    <3> QED BY <3>1
  <2>2. b \in Fds => \E i \in 1..Len(list) : list[i] = y
    <3> HIDE DEF x, y, z
    <3>1. b \in Fds => Len(list) \in Nat /\ \E i \in 1..3 : i <= Len(list) /\ list[i] = y
      BY <1>2
    <3> QED BY <3>1
  <2>3. e \in Fds => \E i \in 1..Len(list) : list[i] = z
    <3> HIDE DEF x, y, z
    <3>1. e \in Fds => Len(list) \in Nat /\ \E i \in 1..3 : i <= Len(list) /\ list[i] = z
      BY <1>2
    <3> QED BY <3>1
  <2> QED BY <2>1, <2>2, <2>3
<1>7. \A i, j \in 1..Len(list) : i # j /\ list[i][1] = list[j][1] =>
          \/ a = b /\ list[i][1] = a
          \/ a = e /\ list[i][1] = a
          \/ b = e /\ list[i][1] = b
  <2> HIDE DEF list, x, y, z
  <2> QED BY <1>2, <1>3
<1> HIDE DEF list
<1>8. Covers(list, a, b, e, owner)
  BY <1>4, <1>5, <1>6, <1>7 DEF Covers
<1> QED BY <1>8 DEF list

(***************************************************************************)
(* Types, and what each place of a thread knows                              *)
(***************************************************************************)

\* The state of connection e stays.
Same(e) ==
    /\ thread'[e] = thread[e] /\ sd'[e] = sd[e] /\ offers'[e] = offers[e] /\ rtp_s'[e] = rtp_s[e]
    /\ sessions'[e] = sessions[e] /\ setups'[e] = setups[e]
    /\ first_free_channel'[e] = first_free_channel[e] /\ channels'[e] = channels[e]
    /\ to_close'[e] = to_close[e]

\* A thread changes nothing of another connection but the shared descriptor table.
LEMMA OwnStateOnly ==
    ASSUME Types, NEW c \in Conns, ClientNext(c), NEW e \in Conns, e # c
    PROVE  Same(e)
<1> USE DEF Types, Same
<1>1. CASE Accept(c)
  BY <1>1 DEF Accept
<1>2. CASE HttpGet(c)
  BY <1>2 DEF HttpGet
<1>3. ASSUME NEW list \in OfferLists, RTSP_setup(c, list)
      PROVE  Same(e)
  BY <1>3 DEF RTSP_setup
<1>4. CASE TrySCTP(c)
  BY <1>4 DEF TrySCTP, connVars
<1>5. CASE TryTCP(c)
  BY <1>5 DEF TryTCP, SetUp
<1>6. CASE UdpFirst(c)
  BY <1>6 DEF UdpFirst, UdpError, UdpGoesOn
<1>7. ASSUME NEW which \in {"rtp", "rtcp"}, UdpSecond(c, which)
      PROVE  Same(e)
  <2>1. \/ \E s : UdpGoesOn(c, s, "peer")
        \/ \E s : UdpError(c, s, -1)
    BY <1>7, Zenon DEF UdpSecond
  <2> QED BY <2>1 DEF UdpError, UdpGoesOn
<1>8. CASE UdpConnect(c)
  BY <1>8 DEF UdpConnect, UdpError, SetUp
<1>9. CASE RTSP_teardown(c)
  BY <1>9 DEF RTSP_teardown
<1>10. CASE Disconnect(c)
  BY <1>10 DEF Disconnect
<1>11. CASE rtp_session_free(c)
  BY <1>11 DEF rtp_session_free
<1>12. CASE Close(c)
  BY <1>12 DEF Close
<1>13. CASE Closed(c)
  BY <1>13 DEF Closed
<1>14. CASE NullPath(c)
  BY <1>14 DEF NullPath
<1> QED BY <1>1, <1>2, <1>3, <1>4, <1>5, <1>6, <1>7, <1>8, <1>9, <1>10, <1>11, <1>12, <1>13, <1>14
       DEF ClientNext

\* The session under construction is one.
LEMMA SessionType ==
    ASSUME Types, NEW c \in Conns, rtp_s[c] # <<>>
    PROVE  Session(c) \in Building
BY DEF Types, Session

(***************************************************************************)
(* The steps of rtp_udp_transport, by their outcome.                         *)
(***************************************************************************)

UdpStep(c) ==
    UdpFirst(c) \/ UdpSecond(c, "rtp") \/ UdpSecond(c, "rtcp") \/ UdpConnect(c)

\* The session s is the one under construction, or that of the next call.
Continues(c, s) ==
    /\ s \in Building
    /\ s.tried = Session(c).tried + (IF thread[c] = "try" THEN 1 ELSE 0)
    /\ "freed" \in {s.rtp_sa, s.rtcp_sa} => "freed" \in {Session(c).rtp_sa, Session(c).rtcp_sa}
    /\ thread[c] \in {"rtcp", "peer"} =>
          s.rtp_sd = Session(c).rtp_sd /\ s.rtp_port = Session(c).rtp_port
    /\ thread[c] \in {"rtp", "peer"} =>
          s.rtcp_sd = Session(c).rtcp_sd /\ s.rtcp_port = Session(c).rtcp_port

Opened(c, p) ==
    FreeFds # {} /\ fd' = [fd EXCEPT ![LowestFree] = Mine(c)] /\ port' = [port EXCEPT ![LowestFree] = p]

\* It fails: with a new descriptor or, as -1, without, which firstsd or s holds.
UdpFailed(c, s, firstsd, new) ==
    /\ Continues(c, s)
    /\ failures' \in 0..MaxFailures
    /\ UdpError(c, s, firstsd)
    /\ \/ new = -1 /\ UNCHANGED <<fd, port>>
       \/ new = LowestFree /\ \E p \in Ports \cup {0} : Opened(c, p)
    /\ thread[c] \in {"try", "rtp", "rtcp", "peer"}
    /\ firstsd = IF thread[c] = "try" THEN new ELSE -1
    /\ thread[c] = "try" => s.rtp_sd = Session(c).rtp_sd /\ s.rtcp_sd = Session(c).rtcp_sd
    /\ thread[c] = "rtp" => s.rtp_sd = new
    /\ thread[c] = "rtcp" => s.rtcp_sd = new
    /\ thread[c] = "peer" => new = -1

\* It has opened a socket and goes on.
UdpWent(c, s, p, place) ==
    /\ Continues(c, s)
    /\ p \in Ports /\ Opened(c, p)
    /\ failures' \in 0..MaxFailures
    /\ UdpGoesOn(c, s, place)
    /\ \/ thread[c] = "try" /\ place = "rtcp" /\ s.rtp_sd = LowestFree /\ s.rtp_port = p
       \/ thread[c] = "try" /\ place = "rtp" /\ s.rtcp_sd = LowestFree /\ s.rtcp_port = p
       \/ thread[c] = "rtp" /\ place = "peer" /\ s.rtp_sd = LowestFree /\ s.rtp_port = p
       \/ thread[c] = "rtcp" /\ place = "peer" /\ s.rtcp_sd = LowestFree /\ s.rtcp_port = p

UdpDone(c) ==
    /\ thread[c] = "peer"
    /\ SetUp(c, [protocol |-> "UDP", n |-> setups[c],
                 rtp_sd |-> Session(c).rtp_sd, rtcp_sd |-> Session(c).rtcp_sd,
                 rtp_port |-> Session(c).rtp_port, rtcp_port |-> Session(c).rtcp_port])
    /\ UNCHANGED <<fd, port, sd, setups, first_free_channel, channels, to_close, failures,
                   stray, crashed>>

UdpOutcome(c) ==
    \/ \E s \in Building, firstsd, new \in Descriptors : UdpFailed(c, s, firstsd, new)
    \/ \E s \in Building, p \in Ports, place \in {"rtp", "rtcp", "peer"} : UdpWent(c, s, p, place)
    \/ UdpDone(c)

\* Every step of rtp_udp_transport has one of these outcomes.
LEMMA UdpOutcomes ==
    ASSUME ShapeInv, NEW c \in Conns, UdpStep(c)
    PROVE  ~crashed /\ UdpOutcome(c)
<1>1. Types /\ Stage(c)
  BY DEF ShapeInv
<1>2. Mine(c) \in Owners /\ setups[c] \in Nat
  BY <1>1 DEF Types, Mine, Owner, Owners
<1>3. FreeFds # {} => LowestFree \in Fds /\ LowestFree \in Descriptors
  BY LowestFreeIsFree DEF Descriptors
<1>4. -1 \in Descriptors /\ Ports \subseteq Nat
  BY ClientsAssumption DEF Descriptors, Ports
<1>5. (SocketFails \/ BindFails \/ CallFails) => failures' \in 0..MaxFailures
  BY <1>1, ClientsAssumption DEF SocketFails, BindFails, CallFails, Types
<1>6. \A p \in FreePorts \cup {0} : p \in Ports \cup {0}
  BY DEF FreePorts
<1> DEFINE old == Session(c)
<1>7. CASE UdpFirst(c)
  <2>1. thread[c] = "try" /\ ~crashed
    BY <1>7 DEF UdpFirst, Trying
  <2>2. old \in Building
    BY <1>1, <2>1, SessionType DEF Stage, InSetup
  <2> DEFINE s == [old EXCEPT !.tried = @ + 1]
  <2>3. s \in Building /\ Continues(c, s)
    BY <2>1, <2>2 DEF Building, Continues
  <2>4. CASE SocketFails /\ UdpError(c, s, -1) /\ UNCHANGED <<fd, port>>
    <3>1. UdpFailed(c, s, -1, -1)
      BY <1>5, <2>1, <2>2, <2>3, <2>4 DEF UdpFailed, Building
    <3> QED BY <1>4, <2>1, <2>3, <3>1 DEF UdpOutcome
  <2>5. ASSUME FreeFds # {}, NEW p \in FreePorts \cup {0}, Opens(LowestFree, Mine(c), p), BindFails,
               UdpError(c, s, LowestFree)
        PROVE  ~crashed /\ UdpOutcome(c)
    <3>1. Opened(c, p)
      BY <2>5 DEF Opened, Opens
    <3>2. UdpFailed(c, s, LowestFree, LowestFree)
      BY <1>5, <1>6, <2>1, <2>2, <2>3, <2>5, <3>1 DEF UdpFailed, Building
    <3> QED BY <1>3, <2>1, <2>3, <2>5, <3>2 DEF UdpOutcome
  <2>6. ASSUME FreeFds # {}, NEW p \in FreePorts, Opens(LowestFree, Mine(c), p), UNCHANGED failures,
               IF p % 2 = 0
               THEN UdpGoesOn(c, [s EXCEPT !.rtp_sd = LowestFree, !.rtp_port = p,
                                           !.rtcp_port = p + 1], "rtcp")
               ELSE UdpGoesOn(c, [s EXCEPT !.rtcp_sd = LowestFree, !.rtcp_port = p,
                                           !.rtp_port = p - 1], "rtp")
        PROVE  ~crashed /\ UdpOutcome(c)
    <3>1. Opened(c, p) /\ p \in Ports /\ p \in Nat /\ p - 1 \in Nat /\ p + 1 \in Nat
      BY <1>4, <2>6, ClientsAssumption DEF Opened, Opens, FreePorts, Ports
    <3> DEFINE even == [s EXCEPT !.rtp_sd = LowestFree, !.rtp_port = p, !.rtcp_port = p + 1]
               odd == [s EXCEPT !.rtcp_sd = LowestFree, !.rtcp_port = p, !.rtp_port = p - 1]
    <3>2. /\ even \in Building /\ Continues(c, even)
          /\ even.rtp_sd = LowestFree /\ even.rtp_port = p
      <4>1. even \in Building
        <5>1. LowestFree \in Descriptors
          BY <1>3, <2>6
        <5> HIDE DEF s
        <5> QED BY <2>3, <3>1, <5>1 DEF Building
      <4>2. /\ even.rtp_sd = LowestFree /\ even.rtp_port = p /\ even.tried = old.tried + 1
            /\ even.rtp_sa = old.rtp_sa /\ even.rtcp_sa = old.rtcp_sa
        BY <2>2 DEF Building
      <4> HIDE DEF even
      <4> QED BY <2>1, <4>1, <4>2 DEF Continues
    <3>3. /\ odd \in Building /\ Continues(c, odd)
          /\ odd.rtcp_sd = LowestFree /\ odd.rtcp_port = p
      <4>1. odd \in Building
        <5>1. LowestFree \in Descriptors
          BY <1>3, <2>6
        <5> HIDE DEF s
        <5> QED BY <2>3, <3>1, <5>1 DEF Building
      <4>2. /\ odd.rtcp_sd = LowestFree /\ odd.rtcp_port = p /\ odd.tried = old.tried + 1
            /\ odd.rtp_sa = old.rtp_sa /\ odd.rtcp_sa = old.rtcp_sa
        BY <2>2 DEF Building
      <4> HIDE DEF odd
      <4> QED BY <2>1, <4>1, <4>2 DEF Continues
    <3> HIDE DEF even, odd
    <3>4. CASE UdpGoesOn(c, even, "rtcp")
      <4>1. UdpWent(c, even, p, "rtcp")
        BY <1>1, <2>1, <2>6, <3>1, <3>2, <3>4 DEF UdpWent, Types
      <4> QED BY <2>1, <3>1, <3>2, <4>1 DEF UdpOutcome
    <3>5. CASE UdpGoesOn(c, odd, "rtp")
      <4>1. UdpWent(c, odd, p, "rtp")
        BY <1>1, <2>1, <2>6, <3>1, <3>3, <3>5 DEF UdpWent, Types
      <4> QED BY <2>1, <3>1, <3>3, <4>1 DEF UdpOutcome
    <3> QED BY <2>6, <3>4, <3>5 DEF even, odd
  <2> HIDE DEF s
  <2>7. \/ SocketFails /\ UdpError(c, s, -1) /\ UNCHANGED <<fd, port>>
        \/ /\ FreeFds # {}
           /\ \E p \in FreePorts \cup {0} : Opens(LowestFree, Mine(c), p)
           /\ BindFails /\ UdpError(c, s, LowestFree)
        \/ /\ FreeFds # {}
           /\ \E p \in FreePorts :
                 /\ Opens(LowestFree, Mine(c), p) /\ UNCHANGED failures
                 /\ IF p % 2 = 0
                    THEN UdpGoesOn(c, [s EXCEPT !.rtp_sd = LowestFree, !.rtp_port = p,
                                                !.rtcp_port = p + 1], "rtcp")
                    ELSE UdpGoesOn(c, [s EXCEPT !.rtcp_sd = LowestFree, !.rtcp_port = p,
                                                !.rtp_port = p - 1], "rtp")
    BY <1>7, Zenon DEF UdpFirst, s
  <2> QED BY <2>4, <2>5, <2>6, <2>7
<1>8. ASSUME NEW which \in {"rtp", "rtcp"}, UdpSecond(c, which)
      PROVE  ~crashed /\ UdpOutcome(c)
  <2>1. thread[c] = which /\ ~crashed
    BY <1>8 DEF UdpSecond
  <2>2. old \in Building /\ (which = "rtp" => old.rtcp_sd \in Fds) /\ (which = "rtcp" => old.rtp_sd \in Fds)
    BY <1>1, <1>8, <2>1, SessionType DEF Stage, InSetup
  <2> DEFINE adjacent == IF which = "rtp" THEN old.rtp_port ELSE old.rtcp_port
  <2>3. adjacent \in Nat
    BY <2>2 DEF Building
  <2>4. ASSUME NEW d \in Descriptors, NEW q \in Nat
        PROVE  /\ Second(old, which, d, q) \in Building /\ Continues(c, Second(old, which, d, q))
               /\ which = "rtp" =>
                     Second(old, which, d, q).rtp_sd = d /\ Second(old, which, d, q).rtp_port = q
               /\ which = "rtcp" =>
                     Second(old, which, d, q).rtcp_sd = d /\ Second(old, which, d, q).rtcp_port = q
    <3>1. CASE which = "rtp"
      <4> DEFINE s == Second(old, which, d, q)
      <4>1. s = [old EXCEPT !.rtp_sd = d, !.rtp_port = q]
        BY <3>1 DEF Second
      <4>2. s \in Building
        BY <2>2, <2>4, <4>1 DEF Building
      <4>3. /\ s.rtp_sd = d /\ s.rtp_port = q /\ s.tried = old.tried
            /\ s.rtcp_sd = old.rtcp_sd /\ s.rtcp_port = old.rtcp_port
            /\ s.rtp_sa = old.rtp_sa /\ s.rtcp_sa = old.rtcp_sa
        BY <2>2, <4>1 DEF Building
      <4>4. old.tried \in Nat
        BY <2>2 DEF Building
      <4> HIDE DEF s
      <4>5. Continues(c, s)
        BY <2>1, <3>1, <4>2, <4>3, <4>4 DEF Continues
      <4> QED BY <3>1, <4>2, <4>3, <4>5 DEF s
    <3>2. CASE which = "rtcp"
      <4> DEFINE s == Second(old, which, d, q)
      <4>1. s = [old EXCEPT !.rtcp_sd = d, !.rtcp_port = q]
        BY <3>2 DEF Second
      <4>2. s \in Building
        BY <2>2, <2>4, <4>1 DEF Building
      <4>3. /\ s.rtcp_sd = d /\ s.rtcp_port = q /\ s.tried = old.tried
            /\ s.rtp_sd = old.rtp_sd /\ s.rtp_port = old.rtp_port
            /\ s.rtp_sa = old.rtp_sa /\ s.rtcp_sa = old.rtcp_sa
        BY <2>2, <4>1 DEF Building
      <4>4. old.tried \in Nat
        BY <2>2 DEF Building
      <4> HIDE DEF s
      <4>5. Continues(c, s)
        BY <2>1, <3>2, <4>2, <4>3, <4>4 DEF Continues
      <4> QED BY <3>2, <4>2, <4>3, <4>5 DEF s
    <3> QED BY <1>8, <3>1, <3>2
  <2>5. CASE SocketFails /\ UdpError(c, Second(old, which, -1, adjacent), -1) /\ UNCHANGED <<fd, port>>
    <3> DEFINE s == Second(old, which, -1, adjacent)
    <3>1. /\ s \in Building /\ Continues(c, s)
          /\ which = "rtp" => s.rtp_sd = -1
          /\ which = "rtcp" => s.rtcp_sd = -1
      BY <1>4, <2>3, <2>4
    <3> HIDE DEF s, adjacent
    <3>2. UdpError(c, s, -1)
      BY <2>5 DEF s
    <3>3. UdpFailed(c, s, -1, -1)
      BY <1>5, <1>8, <2>1, <2>5, <3>1, <3>2 DEF UdpFailed
    <3> QED BY <1>4, <2>1, <3>1, <3>3 DEF UdpOutcome
  <2>6. ASSUME FreeFds # {}, NEW p \in FreePorts \cup {0}, Opens(LowestFree, Mine(c), p), BindFails,
               UdpError(c, Second(old, which, LowestFree, adjacent), -1)
        PROVE  ~crashed /\ UdpOutcome(c)
    <3> DEFINE s == Second(old, which, LowestFree, adjacent)
    <3>1. /\ s \in Building /\ Continues(c, s)
          /\ which = "rtp" => s.rtp_sd = LowestFree
          /\ which = "rtcp" => s.rtcp_sd = LowestFree
      BY <1>3, <2>3, <2>4, <2>6
    <3>2. Opened(c, p)
      BY <2>6 DEF Opened, Opens
    <3> HIDE DEF s, adjacent
    <3>3. UdpError(c, s, -1)
      BY <2>6 DEF s
    <3>4. UdpFailed(c, s, -1, LowestFree)
      BY <1>5, <1>6, <1>8, <2>1, <2>6, <3>1, <3>2, <3>3 DEF UdpFailed
    <3> QED BY <1>3, <1>4, <2>1, <2>6, <3>1, <3>4 DEF UdpOutcome
  <2>7. ASSUME FreeFds # {}, NEW p \in FreePorts, Opens(LowestFree, Mine(c), p),
               (UNCHANGED failures \/ CallFails),
               UdpGoesOn(c, Second(old, which, LowestFree, p), "peer")
        PROVE  ~crashed /\ UdpOutcome(c)
    <3> DEFINE s == Second(old, which, LowestFree, p)
    <3>1. Opened(c, p) /\ p \in Ports /\ p \in Nat
      BY <1>4, <2>7 DEF Opened, Opens, FreePorts
    <3>2. /\ s \in Building /\ Continues(c, s)
          /\ which = "rtp" => s.rtp_sd = LowestFree /\ s.rtp_port = p
          /\ which = "rtcp" => s.rtcp_sd = LowestFree /\ s.rtcp_port = p
      BY <1>3, <2>4, <2>7, <3>1
    <3> HIDE DEF s
    <3>3. UdpGoesOn(c, s, "peer")
      BY <2>7 DEF s
    <3>4. failures' \in 0..MaxFailures
      BY <1>1, <2>7, ClientsAssumption DEF Types, CallFails
    <3>5. UdpWent(c, s, p, "peer")
      BY <1>8, <2>1, <3>1, <3>2, <3>3, <3>4 DEF UdpWent
    <3> QED BY <2>1, <3>1, <3>2, <3>5 DEF UdpOutcome
  <2>8. \/ /\ SocketFails
           /\ UdpError(c, Second(old, which, -1, adjacent), -1)
           /\ UNCHANGED <<fd, port>>
        \/ /\ FreeFds # {}
           /\ \E p \in FreePorts \cup {0} : Opens(LowestFree, Mine(c), p)
           /\ BindFails /\ UdpError(c, Second(old, which, LowestFree, adjacent), -1)
        \/ /\ FreeFds # {}
           /\ \E p \in FreePorts :
                 /\ Opens(LowestFree, Mine(c), p)
                 /\ UNCHANGED failures \/ CallFails
                 /\ UdpGoesOn(c, Second(old, which, LowestFree, p), "peer")
    BY <1>8, Zenon DEF UdpSecond
  <2> HIDE DEF adjacent, old
  <2> QED BY <2>5, <2>6, <2>7, <2>8
<1>9. CASE UdpConnect(c)
  <2>1. thread[c] = "peer" /\ ~crashed /\ UNCHANGED <<fd, port>>
    BY <1>9 DEF UdpConnect
  <2>2. old \in Building /\ old.rtcp_sd \in Fds /\ old.rtp_sd \in Fds
    BY <1>1, <2>1, SessionType DEF Stage, InSetup
  <2> DEFINE one == [old EXCEPT !.rtp_sa = "set"]
             both == [old EXCEPT !.rtp_sa = "set", !.rtcp_sa = "set"]
  <2>3. one \in Building /\ Continues(c, one) /\ both \in Building /\ Continues(c, both)
    <3>1. one \in Building /\ both \in Building
      BY <2>2 DEF Building
    <3>2. /\ one.tried = old.tried /\ one.rtcp_sa = old.rtcp_sa /\ one.rtp_sa = "set"
          /\ one.rtp_sd = old.rtp_sd /\ one.rtp_port = old.rtp_port
          /\ one.rtcp_sd = old.rtcp_sd /\ one.rtcp_port = old.rtcp_port
      BY <2>2 DEF Building
    <3>3. /\ both.tried = old.tried /\ both.rtcp_sa = "set" /\ both.rtp_sa = "set"
          /\ both.rtp_sd = old.rtp_sd /\ both.rtp_port = old.rtp_port
          /\ both.rtcp_sd = old.rtcp_sd /\ both.rtcp_port = old.rtcp_port
      BY <2>2 DEF Building
    <3>4. old.tried \in Nat
      BY <2>2 DEF Building
    <3> HIDE DEF one, both
    <3> QED BY <2>1, <3>1, <3>2, <3>3, <3>4 DEF Continues
  <2>4. \/ CallFails /\ UdpError(c, one, -1)
        \/ CallFails /\ UdpError(c, both, -1)
        \/ UdpDone(c)
    BY <1>9, <2>1 DEF UdpConnect, UdpDone
  <2> HIDE DEF one, both
  <2>5. ASSUME NEW s \in Building, Continues(c, s), CallFails, UdpError(c, s, -1)
        PROVE  UdpOutcome(c)
    <3>1. UdpFailed(c, s, -1, -1)
      BY <1>5, <2>1, <2>5 DEF UdpFailed
    <3> QED BY <1>4, <2>5, <3>1 DEF UdpOutcome
  <2> QED BY <2>1, <2>3, <2>4, <2>5 DEF UdpOutcome
<1> QED BY <1>7, <1>8, <1>9 DEF UdpStep

\* The session that the error label leaves behind, and the list of what it closes.
Left(s) ==
    [s EXCEPT !.rtp_sa = IF @ = "set" THEN "freed" ELSE @,
              !.rtcp_sa = IF @ = "set" THEN "freed" ELSE @]

Closes(owner, s, firstsd) == One(firstsd, owner) \o One(s.rtp_sd, owner) \o One(s.rtcp_sd, owner)

LEMMA ClosesWhat ==
    ASSUME NEW owner \in Owners, NEW s \in Building, NEW firstsd \in Descriptors
    PROVE  LET list == Closes(owner, s, firstsd)
           IN  /\ list \in Seq(Fds \X Owners)
               /\ \A i \in 1..Len(list) : \E d \in {firstsd, s.rtp_sd, s.rtcp_sd} :
                     d \in Fds /\ list[i] = <<d, owner>>
               /\ \A d \in {firstsd, s.rtp_sd, s.rtcp_sd} : d \in Fds =>
                     \E i \in 1..Len(list) : list[i] = <<d, owner>>
               /\ \A i, j \in 1..Len(list) : i # j /\ list[i][1] = list[j][1] =>
                     \/ firstsd = s.rtp_sd /\ list[i][1] = firstsd
                     \/ firstsd = s.rtcp_sd /\ list[i][1] = firstsd
                     \/ s.rtp_sd = s.rtcp_sd /\ list[i][1] = s.rtp_sd
<1>1. s.rtp_sd \in Descriptors /\ s.rtcp_sd \in Descriptors
  BY DEF Building
<1> DEFINE a == s.rtp_sd
           b == s.rtcp_sd
<1> HIDE DEF a, b
<1>2. Closes(owner, s, firstsd) = Joined(firstsd, a, b, owner)
  BY DEF Closes, Joined, a, b
<1>3. a \in Descriptors /\ b \in Descriptors
  BY <1>1 DEF a, b
<1>4. Covers(Closes(owner, s, firstsd), firstsd, a, b, owner)
  BY <1>2, <1>3, ErrorCloses
<1> QED BY <1>4 DEF a, b, Covers

LEMMA UdpErrorLeaves ==
    ASSUME Types, NEW c \in Conns, NEW s \in Building, NEW firstsd \in Descriptors,
           UdpError(c, s, firstsd)
    PROVE  /\ Left(s) \in Building
           /\ Left(s).tried = s.tried /\ Left(s).rtp_sd = s.rtp_sd /\ Left(s).rtcp_sd = s.rtcp_sd
           /\ rtp_s' = [rtp_s EXCEPT ![c] = <<Left(s)>>]
           /\ Mine(c) \in Owners
           /\ Closes(Mine(c), s, firstsd) \in Seq(Fds \X Owners)
           /\ to_close' = [to_close EXCEPT ![c] = Closes(Mine(c), s, firstsd)]
<1>1. Left(s) \in Building
  BY DEF Left, Building
<1>2. Left(s).tried = s.tried /\ Left(s).rtp_sd = s.rtp_sd /\ Left(s).rtcp_sd = s.rtcp_sd
  BY DEF Left, Building
<1>3. rtp_s' = [rtp_s EXCEPT ![c] = <<Left(s)>>]
  BY Zenon DEF UdpError, Left
<1>4. Mine(c) \in Owners
  BY DEF Types, Mine, Owner, Owners
<1>5. Closes(Mine(c), s, firstsd) \in Seq(Fds \X Owners)
  BY <1>4, ClosesWhat
<1>6. to_close' = [to_close EXCEPT ![c] = Closes(Mine(c), s, firstsd)]
  BY Zenon DEF UdpError, IfOpen, One, Closes
<1> QED BY <1>1, <1>2, <1>3, <1>4, <1>5, <1>6

\* Sessions that are set up have their types.
LEMMA NewTypes ==
    /\ NewSession \in Building
    /\ \A c \in Conns : Owner(c, 0) \in Owners
    /\ Nobody \in Owners /\ Process \in Owners /\ -1 \in Descriptors
<1>1. 0 \in Descriptors /\ -1 \in Descriptors
  BY ClientsAssumption DEF Descriptors, Fds
<1> QED BY <1>1 DEF NewSession, Building, Owner, Owners, Nobody, Process

LEMMA ShapeInit == Init => ShapeInv
<1> SUFFICES ASSUME Init PROVE ShapeInv
  OBVIOUS
<1>1. [ch \in {} |-> 0] \in [{} -> Nat] /\ {} \in SUBSET Nat
  OBVIOUS
<1>2. [ch \in {} |-> 0] \in UNION {[S -> Nat] : S \in SUBSET Nat}
  BY <1>1
<1>3. Types
  <2>1. fd \in [Fds -> Owners] /\ port \in [Fds -> Ports \cup {0}]
    BY NewTypes DEF Init
  <2>2. channels \in [Conns -> UNION {[S -> Nat] : S \in SUBSET Nat}]
    BY <1>2, Zenon DEF Init
  <2>3. /\ thread \in [Conns -> Places] /\ sd \in [Conns -> Descriptors]
        /\ offers \in [Conns -> Seq(Offer)] /\ rtp_s \in [Conns -> Seq(Building)]
        /\ sessions \in [Conns -> Seq(UdpSession \cup TcpSession)]
        /\ setups \in [Conns -> Nat] /\ first_free_channel \in [Conns -> Nat]
        /\ to_close \in [Conns -> Seq(Fds \X Owners)]
    BY NewTypes DEF Init, Places
  <2>4. failures \in 0..MaxFailures
    BY ClientsAssumption DEF Init
  <2>5. crashed \in BOOLEAN
    BY DEF Init
  <2> QED BY <2>1, <2>2, <2>3, <2>4, <2>5 DEF Types
<1>4. \A c \in Conns : Stage(c)
  BY DEF Init, Stage, InSetup
<1> QED BY <1>3, <1>4 DEF ShapeInv

\* AssignChannels gives numbers, and the counter stays one.
LEMMA ChannelTypes ==
    ASSUME Types, NEW c \in Conns, offers[c] # <<>>
    PROVE  LET given == AssignChannels(c)
           IN  given.rtp \in Nat /\ given.rtcp \in Nat /\ given.last \in Nat
<1>1. /\ Head(offers[c]) \in Offer /\ first_free_channel[c] \in Nat
  BY DEF Types
<1> DEFINE asked == Head(offers[c])
           before == first_free_channel[c]
           between == before + IF asked.rtp_channel = NoChannel THEN 1 ELSE 0
           after == between + IF asked.rtcp_channel = NoChannel THEN 1 ELSE 0
<1>2. between \in Nat /\ after \in Nat
  BY <1>1
<1>3. /\ asked.rtp_channel # NoChannel => asked.rtp_channel \in Nat
      /\ asked.rtcp_channel # NoChannel => asked.rtcp_channel \in Nat
  BY <1>1 DEF Offer
<1> HIDE DEF between, after
<1>4. AssignChannels(c) =
        [rtp |-> IF asked.rtp_channel = NoChannel THEN between ELSE asked.rtp_channel,
         rtcp |-> IF asked.rtcp_channel = NoChannel THEN after ELSE asked.rtcp_channel,
         last |-> after]
  BY DEF AssignChannels, between, after
<1> HIDE DEF asked
<1> QED BY <1>2, <1>3, <1>4

\* A channel joins the table.
Wider(table, ch, n) == [x \in DOMAIN table \cup {ch} |-> IF x = ch THEN n ELSE table[x]]

LEMMA TableGrows ==
    ASSUME NEW table \in UNION {[S -> Nat] : S \in SUBSET Nat}, NEW ch \in Nat, NEW n \in Nat
    PROVE  Wider(table, ch, n) \in UNION {[S -> Nat] : S \in SUBSET Nat}
<1>1. PICK S \in SUBSET Nat : table \in [S -> Nat]
  OBVIOUS
<1>2. Wider(table, ch, n) \in [S \cup {ch} -> Nat] /\ S \cup {ch} \in SUBSET Nat
  BY <1>1 DEF Wider
<1> QED BY <1>2

\* The outcomes of rtp_interleaved_transport: the channels do not fit, or the session
\* gets them.
TcpFailed(c) ==
    /\ thread' = [thread EXCEPT ![c] = "error"]
    /\ UNCHANGED <<offers, rtp_s, sessions, channels>>

TcpRecord(c) ==
    [protocol |-> "TCP", n |-> setups[c], rtp |-> AssignChannels(c).rtp,
     rtcp |-> AssignChannels(c).rtcp,
     named |-> Head(offers[c]).rtp_channel # NoChannel \/ Head(offers[c]).rtcp_channel # NoChannel]

TcpDone(c) ==
    /\ TcpRecord(c) \in TcpSession
    /\ channels' = [channels EXCEPT ![c] =
           [ch \in DOMAIN channels[c] \cup {AssignChannels(c).rtcp} |->
               IF ch = AssignChannels(c).rtcp THEN setups[c] ELSE channels[c][ch]]]
    /\ SetUp(c, TcpRecord(c))

LEMMA TcpOutcomes ==
    ASSUME ShapeInv, NEW c \in Conns, TryTCP(c)
    PROVE  /\ ~crashed /\ thread[c] = "try" /\ offers[c] # <<>>
           /\ AssignChannels(c).rtcp \in Nat /\ AssignChannels(c).last \in Nat
           /\ first_free_channel' = [first_free_channel EXCEPT ![c] = AssignChannels(c).last]
           /\ TcpFailed(c) \/ TcpDone(c)
           /\ UNCHANGED <<fd, port, sd, setups, to_close, failures, stray, crashed>>
<1>1. Types /\ Stage(c)
  BY DEF ShapeInv
<1>2. ~crashed /\ thread[c] = "try" /\ offers[c] # <<>>
  BY <1>1 DEF TryTCP, Trying, Stage, InSetup
<1> DEFINE given == AssignChannels(c)
<1>3. given.rtp \in Nat /\ given.rtcp \in Nat /\ given.last \in Nat
  BY <1>1, <1>2, ChannelTypes
<1>4. setups[c] \in Nat
  BY <1>1 DEF Types
<1>5. Fits(given) => TcpRecord(c) \in TcpSession
  <2> SUFFICES ASSUME Fits(given) PROVE TcpRecord(c) \in TcpSession
    OBVIOUS
  <2>1. given.rtp \in Channels /\ given.rtcp \in Channels
    BY <1>3, ClientsAssumption DEF Fits, Channels
  <2> HIDE DEF given
  <2>2. TcpRecord(c) = [protocol |-> "TCP", n |-> setups[c], rtp |-> given.rtp, rtcp |-> given.rtcp,
                        named |-> TcpRecord(c).named]
    BY DEF TcpRecord, given
  <2>3. TcpRecord(c).named \in BOOLEAN
    BY DEF TcpRecord
  <2> QED BY <1>4, <2>1, <2>2, <2>3 DEF TcpSession
<1>6. CASE ~Fits(given)
  BY <1>2, <1>3, <1>6 DEF TryTCP, TcpFailed
<1>7. CASE Fits(given)
  <2>1. TcpDone(c)
    BY <1>5, <1>7, Zenon DEF TryTCP, TcpDone, TcpRecord
  <2> QED BY <1>2, <1>3, <2>1 DEF TryTCP
<1> QED BY <1>6, <1>7

LEMMA ShapeStep ==
    ASSUME ShapeInv, NEW c \in Conns, ClientNext(c)
    PROVE  ShapeInv'
<1>1. Types /\ Stage(c)
  BY DEF ShapeInv
<1>2. \A e \in Conns : e # c => Stage(e)'
  <2> SUFFICES ASSUME NEW e \in Conns, e # c PROVE Stage(e)'
    OBVIOUS
  <2>1. Same(e)
    BY <1>1, OwnStateOnly
  <2>2. Stage(e)
    BY DEF ShapeInv
  <2> QED BY <2>1, <2>2 DEF Same, Stage, InSetup, Session
<1> SUFFICES Types' /\ Stage(c)'
  BY <1>2 DEF ShapeInv
<1>3. CASE Accept(c)
  <2>1. LowestFree \in Fds /\ FreeFds # {}
    BY <1>3, LowestFreeIsFree DEF Accept
  <2>2. Owner(c, 0) \in Owners /\ LowestFree \in Descriptors
    BY <2>1, NewTypes DEF Descriptors
  <2>3. Types'
    BY <1>1, <1>3, <2>1, <2>2 DEF Accept, Opens, Types, Places
  <2>4. Stage(c)'
    BY <1>1, <1>3, <2>1 DEF Accept, Types, Stage, InSetup, Session
  <2> QED BY <2>3, <2>4
<1>4. CASE HttpGet(c)
  <2>1. Types'
    BY <1>1, <1>4 DEF HttpGet, Types, Places
  <2>2. Stage(c)'
    BY <1>1, <1>4 DEF HttpGet, Running, Types, Stage, InSetup, Session
  <2> QED BY <2>1, <2>2
<1>5. ASSUME NEW list \in OfferLists, RTSP_setup(c, list)
      PROVE  Types' /\ Stage(c)'
  <2>1. list \in Seq(Offer) /\ list # <<>>
    BY <1>5, ClientsAssumption
  <2>2. <<NewSession>> \in Seq(Building) /\ <<NewSession>> # <<>>
    BY NewTypes
  <2>3. Types'
    <3>1. setups' \in [Conns -> Nat]
      BY <1>1, <1>5 DEF RTSP_setup, Types
    <3>2. offers' \in [Conns -> Seq(Offer)] /\ rtp_s' \in [Conns -> Seq(Building)]
      BY <1>1, <1>5, <2>1, <2>2 DEF RTSP_setup, Types
    <3>3. thread' \in [Conns -> Places]
      BY <1>1, <1>5 DEF RTSP_setup, Types, Places
    <3> QED BY <1>1, <1>5, <3>1, <3>2, <3>3 DEF RTSP_setup, Types
  <2>4. Stage(c)'
    BY <1>1, <1>5, <2>1, <2>2 DEF RTSP_setup, Running, Types, Stage, InSetup, Session
  <2> QED BY <2>3, <2>4
<1>6. CASE TrySCTP(c)
  <2>1. UNCHANGED <<fd, port, connVars, failures>> /\ crashed' \in BOOLEAN
    BY <1>6 DEF TrySCTP
  <2>2. Types'
    BY <1>1, <2>1 DEF connVars, Types
  <2>3. Stage(c)'
    BY <1>1, <2>1 DEF connVars, Stage, InSetup, Session
  <2> QED BY <2>2, <2>3
<1>7. CASE TryTCP(c)
  <2>1. /\ thread[c] = "try" /\ offers[c] # <<>>
        /\ AssignChannels(c).rtcp \in Nat /\ AssignChannels(c).last \in Nat
        /\ first_free_channel' = [first_free_channel EXCEPT ![c] = AssignChannels(c).last]
        /\ TcpFailed(c) \/ TcpDone(c)
        /\ UNCHANGED <<fd, port, sd, setups, to_close, failures, stray, crashed>>
    BY <1>7, TcpOutcomes
  <2>2. CASE TcpFailed(c)
    <3>1. Types'
      BY <1>1, <2>1, <2>2 DEF TcpFailed, Types, Places
    <3>2. Stage(c)'
      BY <1>1, <2>1, <2>2 DEF TcpFailed, Types, Stage, InSetup, Session
    <3> QED BY <3>1, <3>2
  <2>3. CASE TcpDone(c)
    <3>1. channels' \in [Conns -> UNION {[S -> Nat] : S \in SUBSET Nat}]
      <4>1. channels[c] \in UNION {[S -> Nat] : S \in SUBSET Nat} /\ setups[c] \in Nat
        BY <1>1 DEF Types
      <4> DEFINE wider == Wider(channels[c], AssignChannels(c).rtcp, setups[c])
      <4>2. wider \in UNION {[S -> Nat] : S \in SUBSET Nat}
        BY <2>1, <4>1, TableGrows
      <4>3. channels' = [channels EXCEPT ![c] = wider]
        BY <2>3 DEF TcpDone, Wider
      <4> HIDE DEF wider
      <4> QED BY <1>1, <4>2, <4>3 DEF Types
    <3>2. /\ sessions' = [sessions EXCEPT ![c] = Append(@, TcpRecord(c))]
          /\ TcpRecord(c) \in UdpSession \cup TcpSession
          /\ offers' = [offers EXCEPT ![c] = <<>>]
          /\ rtp_s' = [rtp_s EXCEPT ![c] = <<>>]
          /\ thread' = [thread EXCEPT ![c] = "loop"]
      BY <2>3 DEF TcpDone, SetUp
    <3>3. sessions' \in [Conns -> Seq(UdpSession \cup TcpSession)]
      BY <1>1, <3>2 DEF Types
    <3>4. Types'
      <4>1. thread' \in [Conns -> Places]
        BY <1>1, <3>2 DEF Types, Places
      <4>2. offers' \in [Conns -> Seq(Offer)] /\ rtp_s' \in [Conns -> Seq(Building)]
        BY <1>1, <3>2 DEF Types
      <4>3. first_free_channel' \in [Conns -> Nat]
        BY <1>1, <2>1 DEF Types
      <4> QED BY <1>1, <2>1, <3>1, <3>3, <4>1, <4>2, <4>3 DEF Types
    <3>5. Stage(c)'
      BY <1>1, <2>1, <3>2 DEF Types, Stage, InSetup, Session
    <3> QED BY <3>4, <3>5
  <2> QED BY <2>1, <2>2, <2>3
<1>8. CASE UdpStep(c)
  <2>1. ~crashed /\ UdpOutcome(c)
    BY <1>8, UdpOutcomes
  <2>2. FreeFds # {} => LowestFree \in Fds
    BY LowestFreeIsFree
  <2>3. Mine(c) \in Owners
    BY <1>1 DEF Types, Mine, Owner, Owners
  <2>4. ASSUME NEW s \in Building, NEW firstsd \in Descriptors, NEW new \in Descriptors,
               UdpFailed(c, s, firstsd, new)
        PROVE  Types' /\ Stage(c)'
    <3>1. /\ UdpError(c, s, firstsd) /\ failures' \in 0..MaxFailures
          /\ thread[c] \in {"try", "rtp", "rtcp", "peer"}
      BY <2>4 DEF UdpFailed
    <3>2. fd' \in [Fds -> Owners] /\ port' \in [Fds -> Ports \cup {0}]
      BY <1>1, <2>2, <2>3, <2>4 DEF UdpFailed, Opened, Types
    <3>3. /\ Left(s) \in Building
          /\ rtp_s' = [rtp_s EXCEPT ![c] = <<Left(s)>>]
          /\ Closes(Mine(c), s, firstsd) \in Seq(Fds \X Owners)
          /\ to_close' = [to_close EXCEPT ![c] = Closes(Mine(c), s, firstsd)]
      BY <1>1, <3>1, UdpErrorLeaves
    <3>4. /\ thread' = [thread EXCEPT ![c] = "error"]
          /\ UNCHANGED <<sd, offers, sessions, setups, first_free_channel, channels, stray>>
      BY <3>1 DEF UdpError
    <3>5. crashed' \in BOOLEAN
      BY <3>1 DEF UdpError
    <3>6. Types'
      <4>1. failures' \in 0..MaxFailures
        BY <3>1
      <4>2. thread' \in [Conns -> Places]
        BY <1>1, <3>4 DEF Types, Places
      <4>3. <<Left(s)>> \in Seq(Building)
        BY <3>3
      <4>4. rtp_s' \in [Conns -> Seq(Building)]
        BY <1>1, <3>3, <4>3 DEF Types
      <4>5. to_close' \in [Conns -> Seq(Fds \X Owners)]
        BY <1>1, <3>3 DEF Types
      <4> QED BY <1>1, <3>2, <3>4, <3>5, <4>1, <4>2, <4>4, <4>5 DEF Types
    <3>7. Stage(c)'
      BY <1>1, <3>1, <3>3, <3>4 DEF Types, Stage, InSetup, Session
    <3> QED BY <3>6, <3>7
  <2>5. ASSUME NEW s \in Building, NEW p \in Ports, NEW place \in {"rtp", "rtcp", "peer"},
               UdpWent(c, s, p, place)
        PROVE  Types' /\ Stage(c)'
    <3>1. /\ UdpGoesOn(c, s, place) /\ Continues(c, s) /\ failures' \in 0..MaxFailures
          /\ FreeFds # {} /\ fd' = [fd EXCEPT ![LowestFree] = Mine(c)]
          /\ port' = [port EXCEPT ![LowestFree] = p]
      BY <2>5 DEF UdpWent, Opened
    <3>2. Types'
      <4>1. fd' \in [Fds -> Owners] /\ port' \in [Fds -> Ports \cup {0}]
        BY <1>1, <2>2, <2>3, <3>1 DEF Types
      <4>2. thread' \in [Conns -> Places]
        BY <1>1, <3>1 DEF UdpGoesOn, Types, Places
      <4>3. rtp_s' \in [Conns -> Seq(Building)]
        BY <1>1, <3>1 DEF UdpGoesOn, Types
      <4> QED BY <1>1, <3>1, <4>1, <4>2, <4>3 DEF UdpGoesOn, Types
    <3>3. rtp_s'[c] = <<s>> /\ thread'[c] = place /\ offers' = offers /\ sd' = sd /\ to_close' = to_close
      BY <1>1, <3>1 DEF UdpGoesOn, Types
    <3>4. thread[c] \in {"try", "rtp", "rtcp"} /\ to_close[c] = <<>> /\ sd[c] \in Fds /\ offers[c] # <<>>
      BY <1>1, <2>5 DEF UdpWent, Stage, InSetup
    <3>5. /\ place \in {"rtp", "peer"} => s.rtcp_sd \in Fds
          /\ place \in {"rtcp", "peer"} => s.rtp_sd \in Fds
      BY <1>1, <2>2, <2>5, <3>1 DEF UdpWent, Stage, Continues
    <3>6. Stage(c)'
      BY <2>5, <3>3, <3>4, <3>5 DEF Stage, InSetup, Session
    <3> QED BY <3>2, <3>6
  <2>6. CASE UdpDone(c)
    <3> DEFINE r == [protocol |-> "UDP", n |-> setups[c],
                     rtp_sd |-> Session(c).rtp_sd, rtcp_sd |-> Session(c).rtcp_sd,
                     rtp_port |-> Session(c).rtp_port, rtcp_port |-> Session(c).rtcp_port]
    <3>1. /\ thread[c] = "peer"
          /\ sessions' = [sessions EXCEPT ![c] = Append(@, r)]
          /\ offers' = [offers EXCEPT ![c] = <<>>]
          /\ rtp_s' = [rtp_s EXCEPT ![c] = <<>>]
          /\ thread' = [thread EXCEPT ![c] = "loop"]
          /\ UNCHANGED <<fd, port, sd, setups, first_free_channel, channels, to_close, failures,
                         stray, crashed>>
      BY <2>6 DEF UdpDone, SetUp
    <3>2. /\ Session(c) \in Building /\ setups[c] \in Nat
          /\ Session(c).rtp_sd \in Fds /\ Session(c).rtcp_sd \in Fds
      BY <1>1, <3>1, SessionType DEF Types, Stage, InSetup
    <3>3. r \in UdpSession \cup TcpSession
      BY <3>2 DEF Building, UdpSession
    <3> HIDE DEF r
    <3>4. sessions' \in [Conns -> Seq(UdpSession \cup TcpSession)]
      <4>1. sessions \in [Conns -> Seq(UdpSession \cup TcpSession)]
        BY <1>1 DEF Types
      <4>2. Append(sessions[c], r) \in Seq(UdpSession \cup TcpSession)
        BY <3>3, <4>1
      <4> QED BY <3>1, <4>1, <4>2
    <3>5. Types'
      <4>1. thread' \in [Conns -> Places]
        BY <1>1, <3>1 DEF Types, Places
      <4>2. offers' \in [Conns -> Seq(Offer)] /\ rtp_s' \in [Conns -> Seq(Building)]
        BY <1>1, <3>1 DEF Types
      <4> QED BY <1>1, <3>1, <3>4, <4>1, <4>2 DEF Types
    <3>6. Stage(c)'
      BY <1>1, <3>1 DEF Types, Stage, InSetup, Session
    <3> QED BY <3>5, <3>6
  <2> QED BY <2>1, <2>4, <2>5, <2>6 DEF UdpOutcome
<1>9. CASE RTSP_teardown(c)
  <2>1. Types'
    BY <1>1, <1>9 DEF RTSP_teardown, Types, Places
  <2>2. Stage(c)'
    BY <1>1, <1>9 DEF RTSP_teardown, Running, Types, Stage, InSetup, Session
  <2> QED BY <2>1, <2>2
<1>10. CASE Disconnect(c)
  <2>1. sd[c] \in Fds /\ thread[c] = "loop"
    BY <1>1, <1>10 DEF Disconnect, Running, Stage
  <2>2. <<<<sd[c], Owner(c, 0)>>>> \in Seq(Fds \X Owners)
    BY <2>1, NewTypes
  <2>3. Types'
    BY <1>1, <1>10, <2>2 DEF Disconnect, Types, Places
  <2>4. Stage(c)'
    BY <1>1, <1>10, <2>1 DEF Disconnect, Types, Stage, InSetup, Session
  <2> QED BY <2>3, <2>4
<1>11. CASE rtp_session_free(c)
  <2> DEFINE s == Head(sessions[c])
  <2>1. /\ thread[c] \in {"teardown", "free"} /\ sessions[c] # <<>>
        /\ to_close' = [to_close EXCEPT ![c] = SocketsOf(c, s)]
        /\ sessions' = [sessions EXCEPT ![c] = Tail(@)]
        /\ UNCHANGED <<fd, port, thread, sd, offers, rtp_s, setups, first_free_channel, channels,
                       failures, stray, crashed>>
    BY <1>11 DEF rtp_session_free
  <2>2. sessions[c] \in Seq(UdpSession \cup TcpSession)
    BY <1>1 DEF Types
  <2>3. s \in UdpSession \cup TcpSession /\ Tail(sessions[c]) \in Seq(UdpSession \cup TcpSession)
    BY <2>1, <2>2
  <2>4. SocketsOf(c, s) \in Seq(Fds \X Owners)
    <3>1. CASE s.protocol = "UDP"
      <4>1. s \in UdpSession
        BY <2>3, <3>1 DEF UdpSession, TcpSession
      <4>2. Owner(c, s.n) \in Owners /\ s.rtp_sd \in Fds /\ s.rtcp_sd \in Fds
        BY <4>1 DEF UdpSession, Owner, Owners
      <4>3. <<s.rtp_sd, Owner(c, s.n)>> \in Fds \X Owners /\ <<s.rtcp_sd, Owner(c, s.n)>> \in Fds \X Owners
        BY <4>2
      <4>4. \A u, v \in Fds \X Owners : <<u, v>> \in Seq(Fds \X Owners)
        OBVIOUS
      <4> QED BY <3>1, <4>3, <4>4 DEF SocketsOf
    <3>2. CASE s.protocol # "UDP"
      BY <3>2 DEF SocketsOf
    <3> QED BY <3>1, <3>2
  <2> HIDE DEF s
  <2>5. /\ sessions' \in [Conns -> Seq(UdpSession \cup TcpSession)]
        /\ to_close' \in [Conns -> Seq(Fds \X Owners)]
    BY <1>1, <2>1, <2>3, <2>4 DEF Types
  <2>6. Types'
    BY <1>1, <2>1, <2>5 DEF Types
  <2>7. Stage(c)'
    BY <1>1, <2>1 DEF Types, Stage, InSetup, Session
  <2> QED BY <2>6, <2>7
<1>12. CASE Close(c)
  <2> DEFINE d == Head(to_close[c])[1]
  <2>1. /\ to_close[c] # <<>>
        /\ fd' = [fd EXCEPT ![d] = Nobody] /\ port' = [port EXCEPT ![d] = 0]
        /\ to_close' = [to_close EXCEPT ![c] = Tail(@)]
        /\ UNCHANGED <<thread, sd, offers, rtp_s, sessions, setups, first_free_channel, channels,
                       failures, crashed>>
    BY <1>12 DEF Close
  <2> HIDE DEF d
  <2>2. to_close' \in [Conns -> Seq(Fds \X Owners)]
    <3> DEFINE P == Fds \X Owners
    <3>1. to_close \in [Conns -> Seq(P)]
      BY <1>1 DEF Types
    <3> HIDE DEF P
    <3>2. Tail(to_close[c]) \in Seq(P)
      BY <2>1, <3>1
    <3>3. to_close' \in [Conns -> Seq(P)]
      BY <2>1, <3>1, <3>2
    <3> QED BY <3>3 DEF P
  <2>3. fd' \in [Fds -> Owners] /\ port' \in [Fds -> Ports \cup {0}]
    BY <1>1, <2>1, NewTypes DEF Types
  <2>4. Types'
    BY <1>1, <2>1, <2>2, <2>3 DEF Types
  <2>5. thread[c] \in {"error", "teardown", "free"}
    BY <1>1, <2>1 DEF Stage
  <2>6. Stage(c)'
    BY <1>1, <2>1, <2>5 DEF Types, Stage, InSetup, Session
  <2> QED BY <2>4, <2>6
<1>13. CASE Closed(c)
  <2>1. to_close[c] = <<>> /\ UNCHANGED <<fd, port, sessions, setups, to_close, failures, stray, crashed>>
    BY <1>13 DEF Closed
  <2>2. CASE /\ thread[c] = "error"
             /\ offers' = [offers EXCEPT ![c] = Tail(@)]
             /\ rtp_s' = IF offers'[c] = <<>> THEN [rtp_s EXCEPT ![c] = <<>>] ELSE rtp_s
             /\ thread' = [thread EXCEPT ![c] = IF offers'[c] = <<>> THEN "loop" ELSE "try"]
             /\ UNCHANGED <<sd, first_free_channel, channels>>
    <3>1. offers[c] # <<>> /\ offers[c] \in Seq(Offer) /\ rtp_s[c] # <<>> /\ sd[c] \in Fds
      BY <1>1, <2>2 DEF Stage, InSetup, Types
    <3>2. offers' \in [Conns -> Seq(Offer)]
      BY <1>1, <2>2, <3>1 DEF Types
    <3>3. Types'
      <4>1. thread' \in [Conns -> Places]
        BY <1>1, <2>2 DEF Types, Places
      <4>2. rtp_s' \in [Conns -> Seq(Building)]
        BY <1>1, <2>2 DEF Types
      <4> QED BY <1>1, <2>1, <2>2, <3>2, <4>1, <4>2 DEF Types
    <3>4. /\ offers'[c] = <<>> => rtp_s'[c] = <<>> /\ thread'[c] = "loop"
          /\ offers'[c] # <<>> => rtp_s'[c] = rtp_s[c] /\ thread'[c] = "try"
      BY <1>1, <2>2 DEF Types
    <3>5. Stage(c)'
      BY <2>1, <2>2, <3>1, <3>4 DEF Stage, InSetup
    <3> QED BY <3>3, <3>5
  <2>3. CASE /\ thread[c] = "teardown" /\ sessions[c] = <<>>
             /\ thread' = [thread EXCEPT ![c] = "loop"]
             /\ UNCHANGED <<sd, offers, rtp_s, first_free_channel, channels>>
    <3>1. Types'
      BY <1>1, <2>1, <2>3 DEF Types, Places
    <3>2. Stage(c)'
      BY <1>1, <2>1, <2>3 DEF Types, Stage, InSetup, Session
    <3> QED BY <3>1, <3>2
  <2>4. CASE /\ thread[c] = "free" /\ sessions[c] = <<>>
             /\ thread' = [thread EXCEPT ![c] = "gone"]
             /\ sd' = [sd EXCEPT ![c] = -1]
             /\ first_free_channel' = [first_free_channel EXCEPT ![c] = 0]
             /\ channels' = [channels EXCEPT ![c] = [ch \in {} |-> 0]]
             /\ UNCHANGED <<offers, rtp_s>>
    <3>1. [ch \in {} |-> 0] \in [{} -> Nat] /\ {} \in SUBSET Nat
      OBVIOUS
    <3>2. [ch \in {} |-> 0] \in UNION {[S -> Nat] : S \in SUBSET Nat}
      BY <3>1
    <3>3. channels' \in [Conns -> UNION {[S -> Nat] : S \in SUBSET Nat}]
      BY <1>1, <2>4, <3>2, Zenon DEF Types
    <3>4. Types'
      BY <1>1, <2>1, <2>4, <3>3, NewTypes DEF Types, Places
    <3>5. Stage(c)'
      BY <1>1, <2>1, <2>4 DEF Types, Stage, InSetup, Session
    <3> QED BY <3>4, <3>5
  <2> QED BY <1>13, <2>2, <2>3, <2>4 DEF Closed
<1>14. CASE NullPath(c)
  <2>1. Types'
    BY <1>1, <1>14 DEF NullPath, Types, Places
  <2>2. Stage(c)'
    BY <1>1, <1>14 DEF NullPath, Running, Types, Stage, InSetup, Session
  <2> QED BY <2>1, <2>2
<1> QED BY <1>3, <1>4, <1>5, <1>6, <1>7, <1>8, <1>9, <1>10, <1>11, <1>12, <1>13, <1>14
       DEF ClientNext, UdpStep

LEMMA ShapeStutter == ShapeInv /\ UNCHANGED vars => ShapeInv'
<1> SUFFICES ASSUME ShapeInv, UNCHANGED vars PROVE ShapeInv'
  OBVIOUS
<1>1. Types'
  BY DEF ShapeInv, vars, connVars, Types
<1>2. \A c \in Conns : Stage(c)'
  BY DEF ShapeInv, vars, connVars, Stage, InSetup, Session
<1> QED BY <1>1, <1>2 DEF ShapeInv

THEOREM ShapeSafe == Spec => []ShapeInv
<1>1. ASSUME ShapeInv, [Next]_vars PROVE ShapeInv'
  BY <1>1, ShapeStep, ShapeStutter DEF Next
<1> QED BY <1>1, ShapeInit, PTL DEF Spec

LEMMA ShapeImplies == ShapeInv => TypeOK
<1> SUFFICES ASSUME ShapeInv PROVE TypeOK
  OBVIOUS
<1>1. Types
  BY DEF ShapeInv
<1>2. ASSUME NEW c \in Conns
      PROVE  /\ \A s \in LiveOn(c, "TCP") : {s.rtp, s.rtcp} \subseteq 0..(ChannelLimit - 1)
             /\ \A s \in LiveOn(c, "UDP") : {s.rtp_sd, s.rtcp_sd} \subseteq Fds
  <2>1. sessions[c] \in Seq(UdpSession \cup TcpSession)
    BY <1>1 DEF Types
  <2>2. \A s \in Live(c) : s \in UdpSession \cup TcpSession
    BY <2>1 DEF Live
  <2>3. ASSUME NEW s \in LiveOn(c, "TCP") PROVE {s.rtp, s.rtcp} \subseteq 0..(ChannelLimit - 1)
    BY <2>2 DEF LiveOn, UdpSession, TcpSession, Channels
  <2>4. ASSUME NEW s \in LiveOn(c, "UDP") PROVE {s.rtp_sd, s.rtcp_sd} \subseteq Fds
    BY <2>2 DEF LiveOn, UdpSession, TcpSession
  <2> QED BY <2>3, <2>4
<1> QED BY <1>1, <1>2 DEF TypeOK, Types, Owners, Descriptors

\* For any number of connections the variables keep their types, the channels of every
\* interleaved session fit a byte, and the sockets of every UDP session are descriptors.
THEOREM ClientsTypeCorrect == Spec => []TypeOK
BY ShapeSafe, ShapeImplies, PTL

(***************************************************************************)
(* What may bring the server down                                            *)
(***************************************************************************)

LEMMA CrashInit == Init => CrashInv
BY DEF Init, CrashInv, TriedInv, CrashExplained

LEMMA TriedStep ==
    ASSUME ShapeInv, CrashInv, NEW c \in Conns, ClientNext(c)
    PROVE  TriedInv(c)' /\ (crashed' => CrashExplained')
<1>1. Types /\ Stage(c) /\ TriedInv(c)
  BY DEF ShapeInv, CrashInv
<1>2. Types' /\ Stage(c)'
  BY ShapeStep DEF ShapeInv
<1>3. CASE /\ rtp_s'[c] = rtp_s[c] /\ (thread'[c] = thread[c] \/ ~InUdp(c)')
           /\ ~crashed'
  BY <1>1, <1>3 DEF TriedInv, InUdp, Session
<1>4. CASE Accept(c) \/ HttpGet(c) \/ RTSP_teardown(c) \/ Disconnect(c) \/ rtp_session_free(c) \/ Close(c)
  BY <1>1, <1>3, <1>4 DEF Accept, HttpGet, RTSP_teardown, Disconnect, rtp_session_free, Close, Running,
                          InUdp, Types
<1>5. ASSUME NEW list \in OfferLists, RTSP_setup(c, list)
      PROVE  TriedInv(c)' /\ (crashed' => CrashExplained')
  <2>1. ~crashed' /\ rtp_s'[c] = <<NewSession>> /\ thread'[c] = "try"
    BY <1>1, <1>5 DEF RTSP_setup, Running, Types
  <2> QED BY <2>1 DEF TriedInv, Session, NewSession, InUdp
<1>6. CASE TrySCTP(c)
  <2>1. UNCHANGED <<thread, rtp_s, offers>> /\ offers[c] # <<>> /\ Head(offers[c]).protocol = "SCTP"
    BY <1>1, <1>6 DEF TrySCTP, Trying, connVars, Stage, InSetup
  <2> QED BY <1>1, <2>1 DEF TriedInv, InUdp, Session, CrashExplained
<1>7. CASE TryTCP(c)
  <2>1. ~crashed' /\ (TcpFailed(c) \/ TcpDone(c))
    BY <1>7, TcpOutcomes
  <2>2. CASE TcpFailed(c)
    BY <1>1, <1>3, <2>1, <2>2 DEF TcpFailed, InUdp, Types
  <2>3. CASE TcpDone(c)
    <3>1. rtp_s'[c] = <<>>
      BY <1>1, <2>3 DEF TcpDone, SetUp, Types
    <3> QED BY <2>1, <3>1 DEF TriedInv
  <2> QED BY <2>1, <2>2, <2>3
<1>8. CASE UdpStep(c)
  <2>1. ~crashed /\ UdpOutcome(c)
    BY <1>8, UdpOutcomes
  <2>2. thread[c] \in {"try", "rtp", "rtcp", "peer"} => Session(c) \in Building
    BY <1>1, SessionType DEF Stage, InSetup
  <2> DEFINE freed == "freed" \in {Session(c).rtp_sa, Session(c).rtcp_sa}
  <2>3. ASSUME NEW s \in Building, Continues(c, s), thread[c] \in {"try", "rtp", "rtcp", "peer"}
        PROVE  s.tried >= 1 /\ ("freed" \in {s.rtp_sa, s.rtcp_sa} => s.tried >= 2)
    <3>1. Session(c).tried \in Nat /\ s.tried \in Nat
      BY <2>2, <2>3 DEF Building
    <3>2. /\ s.tried = Session(c).tried + (IF thread[c] = "try" THEN 1 ELSE 0)
          /\ "freed" \in {s.rtp_sa, s.rtcp_sa} => freed
      BY <2>3 DEF Continues
    <3>3. rtp_s[c] # <<>>
      BY <1>1, <2>3 DEF Stage, InSetup
    <3>4. /\ thread[c] # "try" => Session(c).tried >= 1
          /\ freed => Session(c).tried >= 1
          /\ freed /\ thread[c] # "try" => Session(c).tried >= 2
      BY <1>1, <2>3, <3>3 DEF TriedInv, InUdp
    <3> HIDE DEF freed
    <3> QED BY <3>1, <3>2, <3>4
  <2>4. ASSUME NEW s \in Building, NEW firstsd \in Descriptors, NEW new \in Descriptors,
               UdpFailed(c, s, firstsd, new)
        PROVE  TriedInv(c)' /\ (crashed' => CrashExplained')
    <3>1. /\ UdpError(c, s, firstsd) /\ Continues(c, s)
          /\ thread[c] \in {"try", "rtp", "rtcp", "peer"}
      BY <2>4 DEF UdpFailed
    <3>2. s.tried >= 1 /\ ("freed" \in {s.rtp_sa, s.rtcp_sa} => s.tried >= 2)
      BY <2>3, <3>1
    <3>3. Left(s) \in Building /\ Left(s).tried = s.tried /\ rtp_s'[c] = <<Left(s)>>
      <4>1. /\ Left(s) \in Building /\ Left(s).tried = s.tried
            /\ rtp_s' = [rtp_s EXCEPT ![c] = <<Left(s)>>]
        BY <1>1, <3>1, UdpErrorLeaves
      <4> QED BY <1>1, <4>1 DEF Types
    <3>4. thread'[c] = "error" /\ (crashed' => "freed" \in {s.rtp_sa, s.rtcp_sa})
      BY <1>1, <3>1 DEF UdpError, Types
    <3>5. s.tried \in Nat /\ Session(c)' = Left(s) /\ rtp_s'[c] # <<>>
      BY <3>3 DEF Building, Session
    <3>6. TriedInv(c)'
      BY <3>2, <3>3, <3>4, <3>5 DEF TriedInv, InUdp
    <3>7. crashed' => CrashExplained'
      BY <3>2, <3>3, <3>4, <3>5 DEF CrashExplained
    <3> QED BY <3>6, <3>7
  <2>5. ASSUME NEW s \in Building, NEW p \in Ports, NEW place \in {"rtp", "rtcp", "peer"},
               UdpWent(c, s, p, place)
        PROVE  TriedInv(c)' /\ (crashed' => CrashExplained')
    <3>1. UdpGoesOn(c, s, place) /\ Continues(c, s) /\ thread[c] \in {"try", "rtp", "rtcp"}
      BY <2>5 DEF UdpWent
    <3>2. s.tried >= 1 /\ ("freed" \in {s.rtp_sa, s.rtcp_sa} => s.tried >= 2)
      BY <2>3, <3>1
    <3>3. rtp_s'[c] = <<s>> /\ ~crashed'
      BY <1>1, <2>1, <3>1 DEF UdpGoesOn, Types
    <3>4. Session(c)' = s /\ s.tried \in Nat
      BY <3>3 DEF Session, Building
    <3> QED BY <3>2, <3>3, <3>4 DEF TriedInv
  <2>6. CASE UdpDone(c)
    <3>1. rtp_s'[c] = <<>> /\ ~crashed'
      BY <1>1, <2>1, <2>6 DEF UdpDone, SetUp, Types
    <3> QED BY <3>1 DEF TriedInv
  <2> QED BY <2>1, <2>4, <2>5, <2>6 DEF UdpOutcome
<1>9. CASE Closed(c)
  <2>1. ~crashed'
    BY <1>9 DEF Closed
  <2>2. \/ rtp_s'[c] = <<>>
        \/ rtp_s'[c] = rtp_s[c] /\ thread'[c] \in {"try", "loop", "gone"}
    BY <1>1, <1>9 DEF Closed, Types
  <2> QED BY <1>3, <2>1, <2>2 DEF TriedInv, InUdp
<1>10. CASE NullPath(c)
  <2>1. thread'[c] = "url" /\ rtp_s' = rtp_s
    BY <1>1, <1>10 DEF NullPath, Types
  <2> QED BY <1>1, <2>1 DEF TriedInv, InUdp, Session, CrashExplained
<1> QED BY <1>4, <1>5, <1>6, <1>7, <1>8, <1>9, <1>10 DEF ClientNext, UdpStep

LEMMA CrashStep ==
    ASSUME ShapeInv, CrashInv, NEW c \in Conns, ClientNext(c)
    PROVE  CrashInv'
<1>1. TriedInv(c)' /\ (crashed' => CrashExplained')
  BY TriedStep
<1>2. \A e \in Conns : e # c => TriedInv(e)'
  <2> SUFFICES ASSUME NEW e \in Conns, e # c PROVE TriedInv(e)'
    OBVIOUS
  <2>1. Same(e) /\ TriedInv(e)
    BY OwnStateOnly DEF ShapeInv, CrashInv
  <2> QED BY <2>1 DEF Same, TriedInv, InUdp, Session
<1>3. CrashExplained'
  BY <1>1 DEF CrashExplained
<1> QED BY <1>1, <1>2, <1>3 DEF CrashInv

LEMMA CrashStutter == CrashInv /\ UNCHANGED vars => CrashInv'
BY DEF CrashInv, vars, connVars, TriedInv, InUdp, Session, CrashExplained

THEOREM CrashSafe == Spec => []CrashInv
<1>1. ASSUME ShapeInv, CrashInv, [Next]_vars PROVE CrashInv'
  BY <1>1, CrashStep, CrashStutter DEF Next
<1> QED BY <1>1, ShapeSafe, CrashInit, PTL DEF Spec

\* Whatever lists of offers clients send and whichever calls fail, the transports of SETUP
\* bring the server down only by an offer of SCTP, or by freeing the addresses of a session
\* a second time; the other way is a URI whose path is NULL, before any transport is tried.
THEOREM CrashExplainedSafe == Spec => []CrashExplained
<1>1. CrashInv => CrashExplained
  BY DEF CrashInv
<1> QED BY <1>1, CrashSafe, PTL

(***************************************************************************)
(* Channels                                                                  *)
(***************************************************************************)

LEMMA ChannelInit == Init => ChannelInv
BY DEF Init, ChannelInv

\* The counter never goes back, and numbers that it gives are the next two.
LEMMA ChannelsNext ==
    ASSUME Types, NEW c \in Conns, offers[c] # <<>>
    PROVE  /\ AssignChannels(c).last >= first_free_channel[c]
           /\ /\ Head(offers[c]).rtp_channel = NoChannel
              /\ Head(offers[c]).rtcp_channel = NoChannel
              => /\ AssignChannels(c).rtp = first_free_channel[c] + 1
                 /\ AssignChannels(c).rtcp = first_free_channel[c] + 2
                 /\ AssignChannels(c).last = first_free_channel[c] + 2
BY DEF Types, AssignChannels

\* A session joins the end of the list.
LEMMA ChannelJoins ==
    ASSUME ShapeInv, ChannelInv, NEW c \in Conns, NEW s \in UdpSession \cup TcpSession,
           sessions'[c] = Append(sessions[c], s),
           first_free_channel'[c] >= first_free_channel[c], first_free_channel'[c] \in Nat,
           \/ /\ s.protocol = "UDP" /\ channels'[c] = channels[c]
           \/ /\ s.protocol = "TCP"
              /\ channels'[c] = [ch \in DOMAIN channels[c] \cup {s.rtcp} |->
                                    IF ch = s.rtcp THEN s.n ELSE channels[c][ch]]
              /\ ~s.named => /\ s.rtp = first_free_channel[c] + 1 /\ s.rtcp = first_free_channel[c] + 2
                             /\ first_free_channel'[c] = first_free_channel[c] + 2
    PROVE  \A i \in 1..Len(sessions'[c]) : Given(c, i)' => GivenInv(c, i)'
<1>1. sessions[c] \in Seq(UdpSession \cup TcpSession) /\ first_free_channel[c] \in Nat
  BY DEF ShapeInv, Types
<1> DEFINE old == sessions[c]
<1>0. PICK n \in Nat : n = Len(old)
  BY <1>1
<1>2. /\ Len(sessions'[c]) = n + 1 /\ sessions'[c][n + 1] = s
      /\ \A i \in 1..n : sessions'[c][i] = old[i] /\ old[i] \in UdpSession \cup TcpSession
  BY <1>1, <1>0
<1>3. \A i \in 1..n : Given(c, i) => GivenInv(c, i)
  BY <1>0 DEF ChannelInv
<1>4. \A i \in 1..n : (Given(c, i)' <=> Given(c, i)) /\ (Named(c, i)' <=> Named(c, i))
  BY <1>2 DEF Given, Named
<1>5. \A r \in UdpSession \cup TcpSession :
          r.protocol = "TCP" => r.rtp \in Nat /\ r.rtcp \in Nat /\ r.named \in BOOLEAN
  BY DEF UdpSession, TcpSession, Channels
<1>6. ASSUME NEW i \in 1..n, Given(c, i) PROVE GivenInv(c, i)'
  <2> DEFINE t == old[i]
  <2>1. /\ t.rtcp = t.rtp + 1 /\ t.rtcp <= first_free_channel[c] /\ t.rtcp \in DOMAIN channels[c]
        /\ \A j \in 1..n : i < j /\ Given(c, j) => t.rtcp < old[j].rtp
        /\ \/ channels[c][t.rtcp] = t.n
           \/ \E j \in 1..n : i < j /\ Named(c, j) /\ old[j].rtcp = t.rtcp
    BY <1>0, <1>3, <1>6 DEF GivenInv
  <2>2. t.rtp \in Nat /\ t.rtcp \in Nat /\ sessions'[c][i] = t /\ i \in Nat /\ i < n + 1
    BY <1>2, <1>5, <1>6 DEF Given
  <2>3. t.rtcp \in DOMAIN channels'[c]
    BY <2>1
  <2>4. t.rtcp <= first_free_channel'[c]
    BY <1>1, <2>1, <2>2
  <2>5. \A j \in 1..(n + 1) : i < j /\ Given(c, j)' => t.rtcp < sessions'[c][j].rtp
    <3> SUFFICES ASSUME NEW j \in 1..(n + 1), i < j, Given(c, j)' PROVE t.rtcp < sessions'[c][j].rtp
      OBVIOUS
    <3>1. CASE j \in 1..n
      BY <1>2, <1>4, <2>1, <3>1
    <3>2. CASE j = n + 1
      <4>1. s.protocol = "TCP" /\ ~s.named
        BY <1>2, <3>2 DEF Given
      <4>2. s.rtp = first_free_channel[c] + 1
        BY <4>1
      <4> QED BY <1>1, <1>2, <2>1, <2>2, <3>2, <4>2
    <3> QED BY <1>2, <3>1, <3>2
  <2>6. \/ channels'[c][t.rtcp] = t.n
        \/ \E j \in 1..(n + 1) : i < j /\ Named(c, j)' /\ sessions'[c][j].rtcp = t.rtcp
    <3>1. CASE \E j \in 1..n : i < j /\ Named(c, j) /\ old[j].rtcp = t.rtcp
      <4>1. PICK j \in 1..n : i < j /\ Named(c, j) /\ old[j].rtcp = t.rtcp
        BY <3>1
      <4>2. j \in 1..(n + 1) /\ Named(c, j)' /\ sessions'[c][j].rtcp = t.rtcp
        BY <1>2, <1>4, <4>1
      <4> QED BY <4>1, <4>2
    <3>2. CASE channels[c][t.rtcp] = t.n /\ channels'[c][t.rtcp] = channels[c][t.rtcp]
      BY <3>2
    <3>3. CASE s.protocol = "TCP" /\ s.rtcp = t.rtcp
      <4>1. s.named
        BY <1>1, <2>1, <2>2, <3>3
      <4>2. Named(c, n + 1)' /\ sessions'[c][n + 1].rtcp = t.rtcp /\ n + 1 \in 1..(n + 1)
        BY <1>2, <3>3, <4>1 DEF Named
      <4> QED BY <2>2, <4>2
    <3>4. (s.protocol = "TCP" /\ s.rtcp = t.rtcp) \/ channels'[c][t.rtcp] = channels[c][t.rtcp]
      BY <2>1
    <3> QED BY <2>1, <3>1, <3>2, <3>3, <3>4
  <2> HIDE DEF t, old
  <2> QED BY <1>2, <2>1, <2>2, <2>3, <2>4, <2>5, <2>6 DEF GivenInv
<1>7. ASSUME Given(c, n + 1)' PROVE GivenInv(c, n + 1)'
  <2>1. s.protocol = "TCP" /\ ~s.named
    BY <1>2, <1>7 DEF Given
  <2>2. s.rtp = first_free_channel[c] + 1 /\ s.rtcp = first_free_channel[c] + 2
        /\ first_free_channel'[c] = first_free_channel[c] + 2
    BY <2>1
  <2>3. s.rtcp \in DOMAIN channels'[c] /\ channels'[c][s.rtcp] = s.n
    BY <2>1
  <2>4. s.rtcp = s.rtp + 1 /\ s.rtcp <= first_free_channel'[c]
    BY <1>1, <2>2
  <2>5. \A j \in 1..(n + 1) : ~(n + 1 < j)
    BY <1>2
  <2> HIDE DEF old
  <2> QED BY <1>2, <2>3, <2>4, <2>5 DEF GivenInv
<1>8. \A i \in 1..(n + 1) : i \in 1..n \/ i = n + 1
  BY <1>2
<1> HIDE DEF old
<1> QED BY <1>2, <1>4, <1>6, <1>7, <1>8

LEMMA ChannelStep ==
    ASSUME ShapeInv, ChannelInv, NEW c \in Conns, ClientNext(c)
    PROVE  ChannelInv'
<1>1. Types /\ Stage(c) /\ Types'
  BY ShapeStep DEF ShapeInv
<1> DEFINE Kept(e) == \A i \in 1..Len(sessions'[e]) : Given(e, i)' => GivenInv(e, i)'
<1>2. ASSUME NEW e \in Conns, sessions'[e] = sessions[e],
             first_free_channel'[e] >= first_free_channel[e], channels'[e] = channels[e]
      PROVE  Kept(e)
  <2>1. \A i \in 1..Len(sessions[e]) : Given(e, i) => GivenInv(e, i)
    BY DEF ChannelInv
  <2>2. \A i \in 1..Len(sessions[e]) : (Given(e, i)' <=> Given(e, i)) /\ (Named(e, i)' <=> Named(e, i))
    BY <1>2 DEF Given, Named
  <2>3. first_free_channel[e] \in Nat /\ first_free_channel'[e] \in Nat
    BY <1>1 DEF Types
  <2>4. sessions[e] \in Seq(UdpSession \cup TcpSession)
    BY <1>1 DEF Types
  <2>5. ASSUME NEW i \in 1..Len(sessions[e]), Given(e, i) PROVE GivenInv(e, i)'
    <3>1. sessions[e][i] \in TcpSession
      BY <2>4, <2>5 DEF Given, UdpSession, TcpSession
    <3>2. sessions[e][i].rtcp \in Nat
      BY <3>1 DEF TcpSession, Channels
    <3>3. sessions[e][i].rtcp <= first_free_channel'[e]
      BY <1>2, <2>1, <2>3, <2>5, <3>2 DEF GivenInv
    <3> QED BY <1>2, <2>1, <2>2, <2>5, <3>3 DEF GivenInv
  <2> QED BY <1>2, <2>2, <2>5
<1>3. \A e \in Conns : e # c => Kept(e)
  <2> SUFFICES ASSUME NEW e \in Conns, e # c PROVE Kept(e)
    OBVIOUS
  <2>1. Same(e)
    BY <1>1, OwnStateOnly
  <2>2. first_free_channel[e] \in Nat
    BY <1>1 DEF Types
  <2> QED BY <1>2, <2>1, <2>2 DEF Same
<1>4. Kept(c)
  <2>1. first_free_channel[c] \in Nat /\ first_free_channel'[c] \in Nat
    BY <1>1 DEF Types
  <2>2. CASE UNCHANGED <<sessions, first_free_channel, channels>>
    <3>1. first_free_channel'[c] >= first_free_channel[c]
      BY <2>1, <2>2
    <3> QED BY <1>2, <2>2, <3>1
  <2>3. CASE \/ Accept(c) \/ HttpGet(c) \/ TrySCTP(c) \/ RTSP_teardown(c) \/ Disconnect(c) \/ Close(c)
             \/ NullPath(c) \/ \E list \in OfferLists : RTSP_setup(c, list)
    BY <2>2, <2>3 DEF Accept, HttpGet, TrySCTP, connVars, RTSP_teardown, Disconnect, Close, NullPath,
                            RTSP_setup
  <2>4. CASE TryTCP(c)
    <3>1. /\ offers[c] # <<>>
          /\ first_free_channel'[c] = AssignChannels(c).last
          /\ TcpFailed(c) \/ TcpDone(c)
      BY <1>1, <2>4, TcpOutcomes DEF Types
    <3>2. first_free_channel'[c] >= first_free_channel[c]
      BY <1>1, <3>1, ChannelsNext
    <3>3. CASE TcpFailed(c)
      BY <1>2, <3>2, <3>3 DEF TcpFailed
    <3>4. CASE TcpDone(c)
      <4> DEFINE s == TcpRecord(c)
      <4>1. s \in TcpSession /\ s.protocol = "TCP" /\ s.n = setups[c] /\ s.rtp = AssignChannels(c).rtp
            /\ s.rtcp = AssignChannels(c).rtcp
        BY <3>4 DEF TcpDone, TcpRecord
      <4>2. sessions'[c] = Append(sessions[c], s)
        BY <1>1, <3>4 DEF TcpDone, SetUp, Types
      <4>3. channels'[c] = [ch \in DOMAIN channels[c] \cup {s.rtcp} |->
                               IF ch = s.rtcp THEN s.n ELSE channels[c][ch]]
        BY <1>1, <3>4, <4>1 DEF TcpDone, Types
      <4>4. ~s.named => Head(offers[c]).rtp_channel = NoChannel /\ Head(offers[c]).rtcp_channel = NoChannel
        BY DEF TcpRecord
      <4>5. ~s.named => /\ s.rtp = first_free_channel[c] + 1 /\ s.rtcp = first_free_channel[c] + 2
                        /\ first_free_channel'[c] = first_free_channel[c] + 2
        BY <1>1, <3>1, <4>1, <4>4, ChannelsNext
      <4> HIDE DEF s
      <4> QED BY <2>1, <3>2, <4>1, <4>2, <4>3, <4>5, ChannelJoins
    <3> QED BY <3>1, <3>3, <3>4
  <2>5. CASE UdpStep(c)
    <3>1. UdpOutcome(c)
      BY <2>5, UdpOutcomes
    <3>2. CASE UdpDone(c)
      <4> DEFINE s == [protocol |-> "UDP", n |-> setups[c],
                       rtp_sd |-> Session(c).rtp_sd, rtcp_sd |-> Session(c).rtcp_sd,
                       rtp_port |-> Session(c).rtp_port, rtcp_port |-> Session(c).rtcp_port]
      <4>1. s \in UdpSession /\ s.protocol = "UDP"
        <5>1. /\ Session(c) \in Building /\ setups[c] \in Nat
              /\ Session(c).rtp_sd \in Fds /\ Session(c).rtcp_sd \in Fds
          BY <1>1, <3>2, SessionType DEF UdpDone, Types, Stage, InSetup
        <5> QED BY <5>1 DEF Building, UdpSession
      <4>2. sessions'[c] = Append(sessions[c], s) /\ channels'[c] = channels[c]
            /\ first_free_channel'[c] = first_free_channel[c]
        BY <1>1, <3>2 DEF UdpDone, SetUp, Types
      <4>3. first_free_channel'[c] >= first_free_channel[c]
        BY <2>1, <4>2
      <4> HIDE DEF s
      <4> QED BY <2>1, <4>1, <4>2, <4>3, ChannelJoins
    <3>3. CASE UNCHANGED <<sessions, first_free_channel, channels>>
      BY <2>2, <3>3
    <3> QED BY <3>1, <3>2, <3>3 DEF UdpOutcome, UdpFailed, UdpError, UdpWent, UdpGoesOn
  <2>6. CASE rtp_session_free(c)
    <3>1. /\ sessions[c] # <<>> /\ sessions'[c] = Tail(sessions[c])
          /\ first_free_channel'[c] = first_free_channel[c] /\ channels'[c] = channels[c]
      BY <1>1, <2>6 DEF rtp_session_free, Types
    <3>2. sessions[c] \in Seq(UdpSession \cup TcpSession)
      BY <1>1 DEF Types
    <3> DEFINE m == Len(sessions'[c])
    <3>3. /\ m \in Nat /\ Len(sessions[c]) = m + 1
          /\ \A i \in 1..m : sessions'[c][i] = sessions[c][i + 1] /\ i + 1 \in 1..(m + 1)
      BY <3>1, <3>2
    <3>4. \A i \in 1..m : (Given(c, i)' <=> Given(c, i + 1)) /\ (Named(c, i)' <=> Named(c, i + 1))
      BY <3>3 DEF Given, Named
    <3>5. ASSUME NEW i \in 1..m, Given(c, i)' PROVE GivenInv(c, i)'
      <4>1. GivenInv(c, i + 1)
        BY <3>3, <3>4, <3>5 DEF ChannelInv
      <4> DEFINE t == sessions[c][i + 1]
      <4>2. /\ t.rtcp = t.rtp + 1 /\ t.rtcp <= first_free_channel[c] /\ t.rtcp \in DOMAIN channels[c]
            /\ \A j \in 1..(m + 1) : i + 1 < j /\ Given(c, j) => t.rtcp < sessions[c][j].rtp
            /\ \/ channels[c][t.rtcp] = t.n
               \/ \E j \in 1..(m + 1) : i + 1 < j /\ Named(c, j) /\ sessions[c][j].rtcp = t.rtcp
        BY <3>3, <4>1 DEF GivenInv
      <4>3. sessions'[c][i] = t
        BY <3>3
      <4>4. \A j \in 1..m : i < j /\ Given(c, j)' => t.rtcp < sessions'[c][j].rtp
        <5> SUFFICES ASSUME NEW j \in 1..m, i < j, Given(c, j)' PROVE t.rtcp < sessions'[c][j].rtp
          OBVIOUS
        <5>1. i + 1 < j + 1 /\ j + 1 \in 1..(m + 1) /\ Given(c, j + 1) /\ sessions'[c][j] = sessions[c][j + 1]
          BY <3>3, <3>4
        <5> QED BY <4>2, <5>1
      <4>5. \/ channels[c][t.rtcp] = t.n
            \/ \E j \in 1..m : i < j /\ Named(c, j)' /\ sessions'[c][j].rtcp = t.rtcp
        <5>1. CASE \E j \in 1..(m + 1) : i + 1 < j /\ Named(c, j) /\ sessions[c][j].rtcp = t.rtcp
          <6>1. PICK j \in 1..(m + 1) : i + 1 < j /\ Named(c, j) /\ sessions[c][j].rtcp = t.rtcp
            BY <5>1
          <6>2. j - 1 \in 1..m /\ i < j - 1 /\ (j - 1) + 1 = j
            BY <3>3, <6>1
          <6>3. Named(c, j - 1)' /\ sessions'[c][j - 1].rtcp = t.rtcp
            BY <3>3, <3>4, <6>1, <6>2
          <6> QED BY <6>2, <6>3
        <5> QED BY <4>2, <5>1
      <4> HIDE DEF t, m
      <4> QED BY <3>1, <4>2, <4>3, <4>4, <4>5 DEF GivenInv, m
    <3> QED BY <3>5
  <2>7. CASE Closed(c)
    <3>1. \/ UNCHANGED <<sessions, first_free_channel, channels>>
          \/ sessions'[c] = <<>>
      BY <1>1, <2>7 DEF Closed
    <3> QED BY <2>2, <3>1
  <2> QED BY <2>3, <2>4, <2>5, <2>6, <2>7 DEF ClientNext, UdpStep
<1> QED BY <1>3, <1>4 DEF ChannelInv

LEMMA ChannelImplies == ShapeInv /\ ChannelInv => ChannelsGiven
<1> SUFFICES ASSUME ShapeInv, ChannelInv, NEW c \in Conns, NEW s \in Unnamed(c)
             PROVE  /\ s.rtp # s.rtcp
                    /\ \A t \in Unnamed(c) \ {s} : {s.rtp, s.rtcp} \cap {t.rtp, t.rtcp} = {}
                    /\ (\A t \in LiveOn(c, "TCP") : t.named => t.rtcp # s.rtcp) => channels[c][s.rtcp] = s.n
  BY DEF ChannelsGiven
<1> DEFINE list == sessions[c]
<1>1. list \in Seq(UdpSession \cup TcpSession)
  BY DEF ShapeInv, Types
<1>2. \A t \in Unnamed(c) : \E i \in 1..Len(list) : t = list[i] /\ Given(c, i)
  BY DEF Unnamed, LiveOn, Live, Given
<1>3. \A i \in 1..Len(list) : Given(c, i) =>
          /\ GivenInv(c, i) /\ list[i].rtp \in Nat /\ list[i].rtcp \in Nat
  BY <1>1 DEF ChannelInv, Given, UdpSession, TcpSession, Channels
<1>4. PICK i \in 1..Len(list) : s = list[i] /\ Given(c, i)
  BY <1>2
<1>5. s.rtp \in Nat /\ s.rtcp = s.rtp + 1
  BY <1>3, <1>4 DEF GivenInv
<1>6. ASSUME NEW t \in Unnamed(c) \ {s} PROVE {s.rtp, s.rtcp} \cap {t.rtp, t.rtcp} = {}
  <2>1. PICK j \in 1..Len(list) : t = list[j] /\ Given(c, j)
    BY <1>2
  <2>2. t.rtp \in Nat /\ t.rtcp = t.rtp + 1 /\ i # j
    BY <1>3, <1>4, <2>1 DEF GivenInv
  <2>3. s.rtcp < t.rtp \/ t.rtcp < s.rtp
    <3>1. i < j \/ j < i
      BY <2>2
    <3> QED BY <1>3, <1>4, <2>1, <3>1 DEF GivenInv
  <2> QED BY <1>5, <2>2, <2>3
<1>7. ASSUME \A t \in LiveOn(c, "TCP") : t.named => t.rtcp # s.rtcp PROVE channels[c][s.rtcp] = s.n
  <2>1. \A j \in 1..Len(list) : Named(c, j) => list[j].rtcp # s.rtcp
    BY <1>7 DEF LiveOn, Live, Named
  <2> QED BY <1>3, <1>4, <2>1 DEF GivenInv
<1> QED BY <1>5, <1>6, <1>7

LEMMA ChannelStutter == ChannelInv /\ UNCHANGED vars => ChannelInv'
BY DEF ChannelInv, vars, connVars, Given, Named, GivenInv

\* Two sessions never get the same channel from the counter, and the table leads from an
\* RTCP channel to the session that has it, unless a client named the same number.
THEOREM ChannelsGivenSafe == Spec => []ChannelsGiven
<1>1. ASSUME ShapeInv, ChannelInv, [Next]_vars PROVE ChannelInv'
  BY <1>1, ChannelStep, ChannelStutter DEF Next
<1> QED BY <1>1, ShapeSafe, ChannelInit, ChannelImplies, PTL DEF Spec

(***************************************************************************)
(* No descriptor is lost                                                     *)
(***************************************************************************)

LEMMA OwnersDiffer ==
    /\ Nobody.who \notin Conns /\ Process.who \notin Conns /\ Process # Nobody
    /\ \A c \in Conns : \A n : Owner(c, n).who = c /\ Owner(c, n).n = n
BY ClientsAssumption DEF Owner, Nobody, Process

LEMMA HeldInit == Init => HeldInv
<1> SUFFICES ASSUME Init, NEW d \in Fds, NEW c \in Conns, fd[d].who = c PROVE FALSE
  BY DEF HeldInv
<1> QED BY OwnersDiffer DEF Init

\* A step of c takes free descriptors for c, and frees descriptors.
LEMMA TableStep ==
    ASSUME ShapeInv, NEW c \in Conns, ClientNext(c), NEW d \in Fds
    PROVE  \/ fd'[d] = fd[d] /\ port'[d] = port[d]
           \/ fd[d] = Nobody /\ fd'[d].who = c
           \/ to_close[c] # <<>> /\ Close(c) /\ d = Head(to_close[c])[1] /\ fd'[d] = Nobody
<1>1. fd \in [Fds -> Owners] /\ port \in [Fds -> Ports \cup {0}]
  BY DEF ShapeInv, Types
<1>2. FreeFds # {} => LowestFree \in Fds /\ fd[LowestFree] = Nobody
  BY LowestFreeIsFree
<1>3. Owner(c, 0).who = c /\ Mine(c).who = c
  BY OwnersDiffer DEF Mine
<1>4. CASE Accept(c)
  BY <1>1, <1>2, <1>3, <1>4 DEF Accept, Opens
<1>5. CASE UdpStep(c)
  <2>1. UdpOutcome(c)
    BY <1>5, UdpOutcomes
  <2>2. UNCHANGED <<fd, port>> \/ \E p \in Ports \cup {0} : Opened(c, p)
    BY <2>1 DEF UdpOutcome, UdpFailed, UdpWent, UdpDone
  <2> QED BY <1>1, <1>2, <1>3, <2>2 DEF Opened
<1>6. CASE Close(c)
  <2>1. /\ to_close[c] # <<>>
        /\ fd' = [fd EXCEPT ![Head(to_close[c])[1]] = Nobody]
        /\ port' = [port EXCEPT ![Head(to_close[c])[1]] = 0]
    BY <1>6 DEF Close
  <2> QED BY <1>1, <1>6, <2>1
<1>7. CASE \/ HttpGet(c) \/ NullPath(c) \/ TrySCTP(c) \/ TryTCP(c) \/ RTSP_teardown(c) \/ Disconnect(c)
           \/ rtp_session_free(c) \/ Closed(c) \/ \E list \in OfferLists : RTSP_setup(c, list)
  BY <1>7 DEF HttpGet, NullPath, TrySCTP, TryTCP, RTSP_teardown, Disconnect, rtp_session_free,
              Closed, RTSP_setup
<1> QED BY <1>4, <1>5, <1>6, <1>7 DEF ClientNext, UdpStep

LEMMA HeldHere ==
    ASSUME ShapeInv, HeldInv, NEW c \in Conns, ClientNext(c), NEW d \in Fds, fd'[d].who = c
    PROVE  Held(c, d)'
<1>1. Types /\ Stage(c)
  BY DEF ShapeInv
<1>2. \/ fd'[d] = fd[d] /\ Held(c, d)
      \/ fd[d] = Nobody
  BY TableStep, OwnersDiffer DEF HeldInv
<1>3. CASE Accept(c)
  <2>1. /\ thread[c] = "none" /\ thread'[c] = "loop" /\ FreeFds # {} /\ sd'[c] = LowestFree
        /\ fd' = [fd EXCEPT ![LowestFree] = Owner(c, 0)]
    BY <1>1, <1>3 DEF Accept, Opens, Types
  <2>2. LowestFree \in Fds
    BY <2>1, LowestFreeIsFree
  <2>3. fd'[d] # fd[d] => d = LowestFree
    BY <1>1, <2>1 DEF Types
  <2>4. fd'[LowestFree] = Owner(c, 0)
    BY <1>1, <2>1, <2>2 DEF Types
  <2>5. sessions[c] = <<>> /\ to_close[c] = <<>>
    BY <1>1, <2>1 DEF Stage
  <2> QED BY <1>2, <2>1, <2>3, <2>4, <2>5, OwnersDiffer DEF Held
<1>4. CASE fd'[d] = fd[d]
  <2>1. Held(c, d) /\ fd'[d] = fd[d]
    BY <1>2, <1>4, OwnersDiffer
  <2>2. CASE HttpGet(c)
    BY <1>1, <2>2 DEF HttpGet, Held, Types
  <2>3. CASE (\E list \in OfferLists : RTSP_setup(c, list)) \/ RTSP_teardown(c) \/ NullPath(c)
    <3>1. /\ thread[c] = "loop" /\ thread'[c] \in {"try", "teardown", "url"}
          /\ sd'[c] = sd[c] /\ sessions'[c] = sessions[c] /\ to_close'[c] = to_close[c]
      BY <1>1, <2>3 DEF RTSP_setup, RTSP_teardown, NullPath, Running, Types
    <3> QED BY <2>1, <3>1 DEF Held
  <2>4. CASE TrySCTP(c)
    BY <2>1, <2>4 DEF TrySCTP, connVars, Held, Mine, Session
  <2>5. CASE TryTCP(c)
    <3>1. thread[c] = "try" /\ (TcpFailed(c) \/ TcpDone(c)) /\ to_close' = to_close /\ sd' = sd
      BY <2>5, TcpOutcomes
    <3>2. thread'[c] \in {"error", "loop"}
      BY <1>1, <3>1 DEF TcpFailed, TcpDone, SetUp, Types
    <3>3. sessions'[c] = sessions[c] \/ sessions'[c] = Append(sessions[c], TcpRecord(c))
      BY <1>1, <3>1 DEF TcpFailed, TcpDone, SetUp, Types
    <3>4. sessions[c] \in Seq(UdpSession \cup TcpSession)
      BY <1>1 DEF Types
    <3>5. \A i \in 1..Len(sessions[c]) : i \in 1..Len(sessions'[c]) /\ sessions'[c][i] = sessions[c][i]
      BY <3>3, <3>4
    <3> QED BY <2>1, <3>1, <3>2, <3>5 DEF Held
  <2>6. CASE Disconnect(c)
    <3>1. thread[c] = "loop" /\ to_close[c] = <<>>
      BY <1>1, <2>6 DEF Disconnect, Running, Stage
    <3>2. /\ thread'[c] = "free" /\ to_close'[c] = <<<<sd[c], Owner(c, 0)>>>> /\ sessions'[c] = sessions[c]
      BY <1>1, <2>6 DEF Disconnect, Types
    <3>3. 1 \in 1..Len(to_close'[c]) /\ to_close'[c][1] = <<sd[c], Owner(c, 0)>>
      BY <3>2
    <3> QED BY <2>1, <3>1, <3>2, <3>3 DEF Held
  <2>7. CASE rtp_session_free(c)
    <3> DEFINE s == Head(sessions[c])
    <3>1. /\ thread[c] \in {"teardown", "free"} /\ sessions[c] # <<>> /\ to_close[c] = <<>>
          /\ to_close'[c] = SocketsOf(c, s) /\ sessions'[c] = Tail(sessions[c])
          /\ thread' = thread /\ sd' = sd
      BY <1>1, <2>7 DEF rtp_session_free, Types
    <3>2. sessions[c] \in Seq(UdpSession \cup TcpSession)
      BY <1>1 DEF Types
    <3>3. /\ s = sessions[c][1]
          /\ \A i \in 1..Len(sessions[c]) : i # 1 =>
                i - 1 \in 1..Len(sessions'[c]) /\ sessions'[c][i - 1] = sessions[c][i]
      BY <3>1, <3>2
    <3>4. CASE \E i \in 1..Len(sessions[c]) :
                 /\ sessions[c][i].protocol = "UDP" /\ fd[d] = Owner(c, sessions[c][i].n)
                 /\ d \in {sessions[c][i].rtp_sd, sessions[c][i].rtcp_sd}
      <4>1. PICK i \in 1..Len(sessions[c]) :
                 /\ sessions[c][i].protocol = "UDP" /\ fd[d] = Owner(c, sessions[c][i].n)
                 /\ d \in {sessions[c][i].rtp_sd, sessions[c][i].rtcp_sd}
        BY <3>4
      <4>2. CASE i = 1
        <5>1. to_close'[c] = <<<<s.rtp_sd, Owner(c, s.n)>>, <<s.rtcp_sd, Owner(c, s.n)>>>>
          BY <3>1, <3>3, <4>1, <4>2 DEF SocketsOf
        <5>2. /\ 1 \in 1..Len(to_close'[c]) /\ to_close'[c][1] = <<s.rtp_sd, fd[d]>>
              /\ 2 \in 1..Len(to_close'[c]) /\ to_close'[c][2] = <<s.rtcp_sd, fd[d]>>
          BY <3>3, <4>1, <4>2, <5>1
        <5>3. d = s.rtp_sd \/ d = s.rtcp_sd
          BY <3>3, <4>1, <4>2
        <5> QED BY <2>1, <5>2, <5>3 DEF Held
      <4>3. CASE i # 1
        <5>1. i - 1 \in 1..Len(sessions'[c]) /\ sessions'[c][i - 1] = sessions[c][i]
          BY <3>3, <4>3
        <5> QED BY <2>1, <4>1, <5>1 DEF Held
      <4> QED BY <4>2, <4>3
    <3> HIDE DEF s
    <3> QED BY <2>1, <3>1, <3>4 DEF Held
  <2>8. CASE Closed(c)
    <3>1. to_close[c] = <<>> /\ to_close'[c] = <<>> /\ sessions'[c] = sessions[c]
      BY <2>8 DEF Closed
    <3>2. \/ thread[c] = "error" /\ thread'[c] \in {"loop", "try"} /\ sd' = sd
          \/ thread[c] = "teardown" /\ thread'[c] = "loop" /\ sd' = sd
          \/ thread[c] = "free" /\ sessions[c] = <<>>
      BY <1>1, <2>8 DEF Closed, Types
    <3> QED BY <2>1, <3>1, <3>2 DEF Held
  <2>9. CASE UdpDone(c)
    <3> DEFINE r == [protocol |-> "UDP", n |-> setups[c],
                     rtp_sd |-> Session(c).rtp_sd, rtcp_sd |-> Session(c).rtcp_sd,
                     rtp_port |-> Session(c).rtp_port, rtcp_port |-> Session(c).rtcp_port]
    <3>1. /\ thread[c] = "peer" /\ thread'[c] = "loop" /\ sd' = sd /\ to_close' = to_close
          /\ sessions'[c] = Append(sessions[c], r)
      BY <1>1, <2>9 DEF UdpDone, SetUp, Types
    <3>2. sessions[c] \in Seq(UdpSession \cup TcpSession)
      BY <1>1 DEF Types
    <3> DEFINE k == Len(sessions[c]) + 1
    <3>3. /\ r.protocol = "UDP" /\ r.n = setups[c]
          /\ r.rtp_sd = Session(c).rtp_sd /\ r.rtcp_sd = Session(c).rtcp_sd
      OBVIOUS
    <3> HIDE DEF r
    <3>4. /\ k \in 1..Len(sessions'[c]) /\ sessions'[c][k] = r
          /\ \A i \in 1..Len(sessions[c]) : i \in 1..Len(sessions'[c]) /\ sessions'[c][i] = sessions[c][i]
      BY <3>1, <3>2
    <3> HIDE DEF k
    <3>5. CASE fd[d] = Mine(c) /\ (d = Session(c).rtp_sd \/ d = Session(c).rtcp_sd)
      <4>1. fd[d] = Owner(c, r.n) /\ d \in {r.rtp_sd, r.rtcp_sd}
        BY <3>3, <3>5 DEF Mine
      <4> QED BY <2>1, <3>3, <3>4, <4>1 DEF Held
    <3>6. CASE \E i \in 1..Len(sessions[c]) :
                  /\ sessions[c][i].protocol = "UDP" /\ fd[d] = Owner(c, sessions[c][i].n)
                  /\ d \in {sessions[c][i].rtp_sd, sessions[c][i].rtcp_sd}
      <4>1. PICK i \in 1..Len(sessions[c]) :
                  /\ sessions[c][i].protocol = "UDP" /\ fd[d] = Owner(c, sessions[c][i].n)
                  /\ d \in {sessions[c][i].rtp_sd, sessions[c][i].rtcp_sd}
        BY <3>6
      <4>2. /\ i \in 1..Len(sessions'[c]) /\ sessions'[c][i].protocol = "UDP"
            /\ fd'[d] = Owner(c, sessions'[c][i].n)
            /\ d \in {sessions'[c][i].rtp_sd, sessions'[c][i].rtcp_sd}
        BY <2>1, <3>4, <4>1
      <4> QED BY <4>2, Zenon DEF Held
    <3> QED BY <2>1, <3>1, <3>5, <3>6 DEF Held
  <2>10. ASSUME NEW s \in Building, NEW firstsd \in Descriptors, NEW new \in Descriptors,
                UdpFailed(c, s, firstsd, new)
         PROVE  Held(c, d)'
    <3>1. /\ UdpError(c, s, firstsd) /\ Continues(c, s)
          /\ thread[c] \in {"try", "rtp", "rtcp", "peer"}
      BY <2>10 DEF UdpFailed
    <3> DEFINE list == Closes(Mine(c), s, firstsd)
    <3>2. /\ Mine(c) \in Owners
          /\ to_close' = [to_close EXCEPT ![c] = list]
      BY <1>1, <3>1, UdpErrorLeaves
    <3>4. \A x \in {firstsd, s.rtp_sd, s.rtcp_sd} : x \in Fds =>
             \E i \in 1..Len(list) : list[i] = <<x, Mine(c)>>
      BY <3>2, ClosesWhat
    <3> HIDE DEF list
    <3>5. /\ thread'[c] = "error" /\ sd' = sd /\ sessions' = sessions /\ to_close'[c] = list
          /\ to_close[c] = <<>>
      BY <1>1, <3>1, <3>2 DEF UdpError, Types, Stage
    <3>6. CASE fd[d] = Mine(c) /\ d \in {s.rtp_sd, s.rtcp_sd}
      BY <2>1, <3>4, <3>5, <3>6 DEF Held
    <3> QED BY <2>1, <3>1, <3>5, <3>6 DEF Held, Continues
  <2>11. CASE UdpStep(c)
    <3>1. UdpOutcome(c)
      BY <2>11, UdpOutcomes
    <3>2. ASSUME NEW s \in Building, NEW p \in Ports, NEW place \in {"rtp", "rtcp", "peer"},
                 UdpWent(c, s, p, place)
          PROVE  Held(c, d)'
      <4>1. /\ rtp_s'[c] = <<s>> /\ thread'[c] = place /\ sd' = sd /\ sessions' = sessions
            /\ setups' = setups /\ to_close' = to_close
        BY <1>1, <3>2 DEF UdpWent, UdpGoesOn, Types
      <4>2. Session(c)' = s /\ Mine(c)' = Mine(c)
        BY <4>1 DEF Session, Mine
      <4>3. Continues(c, s) /\ thread[c] \in {"try", "rtp", "rtcp"} /\ (thread[c] # "try" => place = "peer")
        BY <3>2 DEF UdpWent
      <4> QED BY <2>1, <4>1, <4>2, <4>3 DEF Held, Continues
    <3> QED BY <2>9, <2>10, <3>1, <3>2 DEF UdpOutcome
  <2>12. CASE Close(c)
    <3>1. fd' = [fd EXCEPT ![Head(to_close[c])[1]] = Nobody] /\ to_close[c] # <<>>
          /\ thread' = thread /\ sd' = sd /\ sessions' = sessions /\ to_close'[c] = Tail(to_close[c])
          /\ rtp_s' = rtp_s /\ setups' = setups
      BY <1>1, <2>12 DEF Close, Types
    <3>2. to_close[c] \in Seq(Fds \X Owners)
      BY <1>1 DEF Types
    <3>3. \A i \in 1..Len(to_close[c]) : i # 1 =>
             i - 1 \in 1..Len(to_close'[c]) /\ to_close'[c][i - 1] = to_close[c][i]
      BY <3>1, <3>2
    <3>4. to_close[c][1] # <<d, fd[d]>>
      <4> SUFFICES ASSUME to_close[c][1] = <<d, fd[d]>> PROVE FALSE
        OBVIOUS
      <4>1. to_close[c][1][1] = d
        OBVIOUS
      <4>2. fd'[d] = Nobody
        BY <1>1, <3>1, <4>1 DEF Types
      <4> QED BY <4>2, OwnersDiffer
    <3>5. CASE \E i \in 1..Len(to_close[c]) : to_close[c][i] = <<d, fd[d]>>
      <4>1. PICK i \in 1..Len(to_close[c]) : to_close[c][i] = <<d, fd[d]>>
        BY <3>5
      <4>2. i - 1 \in 1..Len(to_close'[c]) /\ to_close'[c][i - 1] = <<d, fd'[d]>>
        BY <2>1, <3>3, <3>4, <4>1
      <4> QED BY <4>2, Zenon DEF Held
    <3> QED BY <2>1, <3>1, <3>5 DEF Held, Mine, Session
  <2> QED BY <1>3, <2>2, <2>3, <2>4, <2>5, <2>6, <2>7, <2>8, <2>11, <2>12 DEF ClientNext, UdpStep
<1>5. CASE UdpStep(c) /\ fd'[d] # fd[d]
  <2>1. UdpOutcome(c)
    BY <1>5, UdpOutcomes
  <2>2. ASSUME NEW p \in Ports \cup {0}, Opened(c, p) PROVE d = LowestFree /\ fd'[d] = Mine(c)
    <3>1. FreeFds # {} /\ fd' = [fd EXCEPT ![LowestFree] = Mine(c)]
      BY <2>2 DEF Opened
    <3> QED BY <1>1, <1>5, <3>1, LowestFreeIsFree DEF Types
  <2>3. ASSUME NEW s \in Building, NEW firstsd \in Descriptors, NEW new \in Descriptors,
               UdpFailed(c, s, firstsd, new)
        PROVE  Held(c, d)'
    <3>1. new = d /\ fd'[d] = Mine(c)
      BY <1>5, <2>2, <2>3 DEF UdpFailed
    <3>2. UdpError(c, s, firstsd)
      BY <2>3 DEF UdpFailed
    <3> DEFINE list == Closes(Mine(c), s, firstsd)
    <3>3. /\ Mine(c) \in Owners
          /\ to_close' = [to_close EXCEPT ![c] = list]
      BY <1>1, <3>2, UdpErrorLeaves
    <3>4. \A x \in {firstsd, s.rtp_sd, s.rtcp_sd} : x \in Fds =>
             \E i \in 1..Len(list) : list[i] = <<x, Mine(c)>>
      BY <3>3, ClosesWhat
    <3> HIDE DEF list
    <3>5. to_close'[c] = list
      BY <1>1, <3>3 DEF Types
    <3>6. d \in {firstsd, s.rtp_sd, s.rtcp_sd}
      <4>1. d # -1
        BY ClientsAssumption DEF Fds
      <4> QED BY <2>3, <3>1, <4>1 DEF UdpFailed
    <3> QED BY <3>1, <3>4, <3>5, <3>6 DEF Held
  <2>4. ASSUME NEW s \in Building, NEW p \in Ports, NEW place \in {"rtp", "rtcp", "peer"},
               UdpWent(c, s, p, place)
        PROVE  Held(c, d)'
    <3>1. d = LowestFree /\ fd'[d] = Mine(c)
      BY <2>2, <2>4 DEF UdpWent
    <3>2. rtp_s'[c] = <<s>> /\ thread'[c] = place /\ setups' = setups
      BY <1>1, <2>4 DEF UdpWent, UdpGoesOn, Types
    <3>3. Session(c)' = s /\ Mine(c)' = Mine(c)
      BY <3>2 DEF Session, Mine
    <3>4. \/ place \in {"rtcp", "peer"} /\ s.rtp_sd = LowestFree
          \/ place \in {"rtp", "peer"} /\ s.rtcp_sd = LowestFree
      BY <2>4 DEF UdpWent
    <3> QED BY <3>1, <3>2, <3>3, <3>4 DEF Held
  <2>5. ~UdpDone(c)
    BY <1>5 DEF UdpDone
  <2> QED BY <2>1, <2>3, <2>4, <2>5 DEF UdpOutcome
<1>6. fd'[d] = fd[d] \/ Accept(c) \/ UdpStep(c)
  <2>1. CASE Close(c)
    BY <2>1, TableStep, OwnersDiffer, <1>1 DEF Close, Types
  <2>2. CASE \/ HttpGet(c) \/ NullPath(c) \/ TrySCTP(c) \/ TryTCP(c) \/ RTSP_teardown(c) \/ Disconnect(c)
             \/ rtp_session_free(c) \/ Closed(c) \/ \E list \in OfferLists : RTSP_setup(c, list)
    BY <2>2 DEF HttpGet, NullPath, TrySCTP, TryTCP, RTSP_teardown, Disconnect, rtp_session_free,
              Closed, RTSP_setup
  <2> QED BY <2>1, <2>2 DEF ClientNext, UdpStep
<1> QED BY <1>3, <1>4, <1>5, <1>6

LEMMA HeldStep ==
    ASSUME ShapeInv, HeldInv, NEW c \in Conns, ClientNext(c)
    PROVE  HeldInv'
<1> SUFFICES ASSUME NEW d \in Fds, NEW e \in Conns, fd'[d].who = e PROVE Held(e, d)'
  BY DEF HeldInv
<1>1. CASE e = c
  BY <1>1, HeldHere
<1>2. CASE e # c
  <2>1. Same(e)
    BY <1>2, OwnStateOnly DEF ShapeInv
  <2>2. fd'[d] = fd[d]
    BY <1>2, TableStep, OwnersDiffer
  <2>3. Held(e, d)
    BY <2>2 DEF HeldInv
  <2> QED BY <2>1, <2>2, <2>3 DEF Same, Held, Mine, Session
<1> QED BY <1>1, <1>2

LEMMA HeldStutter == HeldInv /\ UNCHANGED vars => HeldInv'
<1> SUFFICES ASSUME HeldInv, UNCHANGED vars, NEW d \in Fds, NEW e \in Conns, fd'[d].who = e
             PROVE  Held(e, d)'
  BY DEF HeldInv
<1>1. Same(e) /\ fd' = fd
  BY DEF Same, vars, connVars
<1>2. Held(e, d)
  BY <1>1 DEF HeldInv
<1> QED BY <1>1, <1>2 DEF Same, Held, Mine, Session

LEMMA HeldImplies == ShapeInv /\ HeldInv => SocketsAccounted
<1> SUFFICES ASSUME ShapeInv, HeldInv, NEW d \in Fds, fd[d].who \in Conns
             PROVE  LET c == fd[d].who
                    IN  \/ thread[c] = "idle"
                        \/ fd[d] = Owner(c, 0) /\ sd[c] = d /\ thread[c] # "gone"
                        \/ \E s \in LiveOn(c, "UDP") :
                              fd[d] = Owner(c, s.n) /\ d \in {s.rtp_sd, s.rtcp_sd}
                        \/ /\ rtp_s[c] # <<>> /\ fd[d] = Mine(c)
                           /\ d \in {Session(c).rtp_sd, Session(c).rtcp_sd}
                        \/ \E i \in 1..Len(to_close[c]) : to_close[c][i] = <<d, fd[d]>>
  BY DEF SocketsAccounted
<1>1. PICK c \in Conns : c = fd[d].who
  OBVIOUS
<1>2. Held(c, d) /\ Stage(c)
  BY <1>1 DEF HeldInv, ShapeInv
<1>3. thread[c] \in {"rtp", "rtcp", "peer"} => rtp_s[c] # <<>>
  BY <1>2 DEF Stage, InSetup
<1>4. \A i \in 1..Len(sessions[c]) : sessions[c][i].protocol = "UDP" => sessions[c][i] \in LiveOn(c, "UDP")
  BY DEF LiveOn, Live
<1> QED BY <1>1, <1>2, <1>3, <1>4 DEF Held

THEOREM HeldSafe == Spec => []HeldInv
<1>1. ASSUME ShapeInv, HeldInv, [Next]_vars PROVE HeldInv'
  BY <1>1, HeldStep, HeldStutter DEF Next
<1> QED BY <1>1, ShapeSafe, HeldInit, PTL DEF Spec

\* Whichever socket calls of a SETUP fail, and however many offers it tries, no descriptor
\* is lost, except with the clients that an HTTP GET leaves behind.
THEOREM SocketsAccountedSafe == Spec => []SocketsAccounted
BY ShapeSafe, HeldSafe, HeldImplies, PTL

(***************************************************************************)
(* The numbers of the sessions                                               *)
(***************************************************************************)

LEMMA NumberInit == Init => \A c \in Conns : NumberInv(c)
BY DEF Init, NumberInv, Numbered, ClosesOwn, InSetup

LEMMA SessionNumbers ==
    ASSUME Types, NEW c \in Conns
    PROVE  /\ sessions[c] \in Seq(UdpSession \cup TcpSession)
           /\ \A i \in 1..Len(sessions[c]) :
                 sessions[c][i] \in UdpSession \cup TcpSession /\ sessions[c][i].n \in Nat
BY DEF Types, UdpSession, TcpSession

\* A session with the number of this SETUP joins the end of the list.
LEMMA NumberJoins ==
    ASSUME NEW c \in Conns, Types, Types', Numbered(c), NEW s, s.n = setups[c], InSetup(c),
           sessions'[c] = Append(sessions[c], s), setups'[c] = setups[c], ~InSetup(c)'
    PROVE  Numbered(c)'
<1>1. setups[c] \in Nat /\ setups[c] > 0
  BY DEF Types, Numbered
<1>2. /\ sessions[c] \in Seq(UdpSession \cup TcpSession)
      /\ \A i \in 1..Len(sessions[c]) : sessions[c][i].n \in Nat
  BY SessionNumbers
<1> DEFINE old == sessions[c]
<1>3. PICK n \in Nat : n = Len(old)
  BY <1>2
<1>4. /\ Len(sessions'[c]) = n + 1 /\ sessions'[c][n + 1] = s
      /\ \A i \in 1..n : sessions'[c][i] = old[i]
  BY <1>2, <1>3
<1>5. \A i \in 1..n : /\ old[i].n \in 1..setups[c] /\ old[i].n < setups[c]
                      /\ \A j \in 1..n : i < j => old[i].n < old[j].n
  BY <1>3 DEF Numbered
<1>6. ASSUME NEW i \in 1..(n + 1)
      PROVE  /\ sessions'[c][i].n \in 1..setups[c]
             /\ \A j \in 1..(n + 1) : i < j => sessions'[c][i].n < sessions'[c][j].n
  <2>0. i \in 1..n \/ i = n + 1
    OBVIOUS
  <2>1. CASE i = n + 1
    BY <1>1, <1>4, <2>1
  <2>2. CASE i \in 1..n
    <3>1. ASSUME NEW j \in 1..(n + 1), i < j PROVE sessions'[c][i].n < sessions'[c][j].n
      <4>1. j \in 1..n \/ j = n + 1
        OBVIOUS
      <4> QED BY <1>4, <1>5, <2>2, <3>1, <4>1
    <3> QED BY <1>4, <1>5, <2>2, <3>1
  <2> QED BY <2>0, <2>1, <2>2
<1> HIDE DEF old
<1> QED BY <1>4, <1>6 DEF Numbered

LEMMA NumberStep ==
    ASSUME ShapeInv, \A e \in Conns : NumberInv(e), NEW c \in Conns, ClientNext(c)
    PROVE  \A e \in Conns : NumberInv(e)'
<1>1. Types /\ Stage(c) /\ Types' /\ Stage(c)' /\ Numbered(c) /\ ClosesOwn(c)
  BY ShapeStep DEF ShapeInv, NumberInv
<1>2. \A e \in Conns : e # c => NumberInv(e)'
  <2> SUFFICES ASSUME NEW e \in Conns, e # c PROVE NumberInv(e)'
    OBVIOUS
  <2>1. Same(e) /\ NumberInv(e)
    BY <1>1, OwnStateOnly
  <2> QED BY <2>1 DEF Same, NumberInv, Numbered, ClosesOwn, InSetup, Mine
<1> SUFFICES Numbered(c)' /\ ClosesOwn(c)'
  BY <1>2 DEF NumberInv
<1>3. /\ sessions[c] \in Seq(UdpSession \cup TcpSession)
      /\ \A i \in 1..Len(sessions[c]) :
            sessions[c][i] \in UdpSession \cup TcpSession /\ sessions[c][i].n \in Nat
  BY <1>1, SessionNumbers
<1>4. setups[c] \in Nat /\ setups'[c] \in Nat
  BY <1>1 DEF Types
<1>5. ASSUME to_close'[c] = <<>> PROVE ClosesOwn(c)'
  BY <1>5 DEF ClosesOwn
<1>6. ASSUME sessions'[c] = sessions[c], setups'[c] = setups[c], InSetup(c)' => InSetup(c)
      PROVE  Numbered(c)'
  BY <1>1, <1>6 DEF Numbered
<1>7. CASE Accept(c) \/ HttpGet(c) \/ NullPath(c) \/ RTSP_teardown(c)
  <2>1. /\ thread[c] \in {"none", "loop"} /\ thread'[c] \in {"loop", "idle", "url", "teardown"}
        /\ UNCHANGED <<sessions, setups, to_close>>
    BY <1>1, <1>7 DEF Accept, HttpGet, NullPath, RTSP_teardown, Running, Types
  <2>2. to_close'[c] = <<>> /\ ~InSetup(c)'
    BY <1>1, <2>1 DEF Stage, InSetup
  <2> QED BY <1>5, <1>6, <2>1, <2>2
<1>8. ASSUME NEW list \in OfferLists, RTSP_setup(c, list) PROVE Numbered(c)' /\ ClosesOwn(c)'
  <2>1. /\ thread[c] = "loop" /\ setups'[c] = setups[c] + 1 /\ sessions'[c] = sessions[c]
        /\ to_close' = to_close
    BY <1>1, <1>8 DEF RTSP_setup, Running, Types
  <2>2. to_close'[c] = <<>>
    BY <1>1, <2>1 DEF Stage
  <2>3. \A i \in 1..Len(sessions[c]) :
           /\ sessions[c][i].n \in 1..(setups[c] + 1) /\ sessions[c][i].n < setups[c] + 1
           /\ \A j \in 1..Len(sessions[c]) : i < j => sessions[c][i].n < sessions[c][j].n
    BY <1>1, <1>3, <1>4 DEF Numbered
  <2>4. setups[c] + 1 > 0
    BY <1>4
  <2> QED BY <1>5, <2>1, <2>2, <2>3, <2>4 DEF Numbered
<1>9. CASE TrySCTP(c)
  BY <1>1, <1>9 DEF TrySCTP, connVars, Numbered, ClosesOwn, InSetup, Mine
<1>10. CASE TryTCP(c)
  <2>1. thread[c] = "try" /\ (TcpFailed(c) \/ TcpDone(c)) /\ UNCHANGED <<setups, to_close>>
    BY <1>10, TcpOutcomes
  <2>2. to_close'[c] = <<>> /\ InSetup(c)
    BY <1>1, <2>1 DEF Stage, InSetup
  <2>3. CASE TcpFailed(c)
    BY <1>5, <1>6, <2>1, <2>2, <2>3 DEF TcpFailed
  <2>4. CASE TcpDone(c)
    <3>1. /\ sessions'[c] = Append(sessions[c], TcpRecord(c)) /\ thread'[c] = "loop"
          /\ TcpRecord(c).n = setups[c]
      BY <1>1, <2>4 DEF TcpDone, SetUp, Types, TcpRecord
    <3>2. ~InSetup(c)'
      BY <3>1 DEF InSetup
    <3>3. Numbered(c)'
      BY <1>1, <2>1, <2>2, <3>1, <3>2, NumberJoins
    <3> QED BY <1>5, <2>2, <3>3
  <2> QED BY <2>1, <2>3, <2>4
<1>11. CASE UdpStep(c)
  <2>1. UdpOutcome(c)
    BY <1>11, UdpOutcomes
  <2>2. ASSUME NEW s \in Building, NEW firstsd \in Descriptors, NEW new \in Descriptors,
               UdpFailed(c, s, firstsd, new)
        PROVE  Numbered(c)' /\ ClosesOwn(c)'
    <3>1. UdpError(c, s, firstsd) /\ InSetup(c)
      BY <2>2 DEF UdpFailed, InSetup
    <3> DEFINE list == Closes(Mine(c), s, firstsd)
    <3>2. Mine(c) \in Owners /\ to_close' = [to_close EXCEPT ![c] = list]
      BY <1>1, <3>1, UdpErrorLeaves
    <3>3. \A i \in 1..Len(list) : \E d \in {firstsd, s.rtp_sd, s.rtcp_sd} :
             d \in Fds /\ list[i] = <<d, Mine(c)>>
      BY <3>2, ClosesWhat
    <3> HIDE DEF list
    <3>4. to_close'[c] = list /\ thread'[c] = "error" /\ sessions' = sessions /\ setups' = setups
      BY <1>1, <3>1, <3>2 DEF UdpError, Types
    <3>5. Mine(c)' = Mine(c) /\ Mine(c).who = c
      BY <3>4, OwnersDiffer DEF Mine
    <3>6. \A i \in 1..Len(list) : list[i][2] = Mine(c)
      BY <3>3
    <3>7. ClosesOwn(c)'
      BY <3>4, <3>5, <3>6 DEF ClosesOwn
    <3> QED BY <1>6, <3>1, <3>4, <3>7
  <2>3. ASSUME NEW s \in Building, NEW p \in Ports, NEW place \in {"rtp", "rtcp", "peer"},
               UdpWent(c, s, p, place)
        PROVE  Numbered(c)' /\ ClosesOwn(c)'
    <3>1. InSetup(c) /\ thread[c] # "error" /\ UNCHANGED <<sessions, setups, to_close>>
      BY <2>3 DEF UdpWent, UdpGoesOn, InSetup
    <3>2. to_close'[c] = <<>>
      BY <1>1, <2>3, <3>1 DEF UdpWent, Stage
    <3> QED BY <1>5, <1>6, <3>1, <3>2
  <2>4. CASE UdpDone(c)
    <3> DEFINE r == [protocol |-> "UDP", n |-> setups[c],
                     rtp_sd |-> Session(c).rtp_sd, rtcp_sd |-> Session(c).rtcp_sd,
                     rtp_port |-> Session(c).rtp_port, rtcp_port |-> Session(c).rtcp_port]
    <3>1. /\ thread[c] = "peer" /\ thread'[c] = "loop" /\ setups' = setups /\ to_close' = to_close
          /\ sessions'[c] = Append(sessions[c], r)
      BY <1>1, <2>4 DEF UdpDone, SetUp, Types
    <3>2. InSetup(c) /\ ~InSetup(c)' /\ to_close'[c] = <<>> /\ r.n = setups[c]
      BY <1>1, <3>1 DEF InSetup, Stage
    <3> HIDE DEF r
    <3>3. Numbered(c)'
      BY <1>1, <3>1, <3>2, NumberJoins
    <3> QED BY <1>5, <3>2, <3>3
  <2> QED BY <2>1, <2>2, <2>3, <2>4 DEF UdpOutcome
<1>12. CASE Disconnect(c)
  <2>1. /\ thread[c] = "loop" /\ thread'[c] = "free" /\ UNCHANGED <<sessions, setups>>
        /\ to_close'[c] = <<<<sd[c], Owner(c, 0)>>>>
    BY <1>1, <1>12 DEF Disconnect, Running, Types
  <2>2. \A k \in 1..Len(to_close'[c]) : to_close'[c][k][2] = Owner(c, 0)
    BY <2>1
  <2>3. Owner(c, 0).who = c /\ Owner(c, 0).n = 0
    BY OwnersDiffer
  <2>4. \A i \in 1..Len(sessions[c]) : 0 < sessions[c][i].n
    BY <1>1, <1>3, <1>4 DEF Numbered
  <2>5. ClosesOwn(c)'
    BY <2>1, <2>2, <2>3, <2>4 DEF ClosesOwn
  <2> QED BY <1>6, <2>1, <2>5 DEF InSetup
<1>13. CASE rtp_session_free(c)
  <2> DEFINE s == Head(sessions[c])
  <2>1. /\ thread[c] \in {"teardown", "free"} /\ sessions[c] # <<>>
        /\ to_close'[c] = SocketsOf(c, s) /\ sessions'[c] = Tail(sessions[c])
        /\ thread' = thread /\ setups' = setups
    BY <1>1, <1>13 DEF rtp_session_free, Types
  <2>2. PICK m \in Nat : m = Len(sessions'[c])
    <3>1. sessions'[c] \in Seq(UdpSession \cup TcpSession)
      BY <1>1 DEF Types
    <3> QED BY <3>1
  <2>3. /\ Len(sessions[c]) = m + 1 /\ s = sessions[c][1]
        /\ \A i \in 1..m : sessions'[c][i] = sessions[c][i + 1] /\ i + 1 \in 1..(m + 1)
    BY <1>3, <2>1, <2>2
  <2>4. \A i \in 1..(m + 1) :
           /\ sessions[c][i].n \in 1..setups[c]
           /\ \A j \in 1..(m + 1) : i < j => sessions[c][i].n < sessions[c][j].n
    BY <1>1, <2>3 DEF Numbered
  <2>5. \A i \in 1..m : s.n < sessions'[c][i].n
    <3>1. \A i \in 1..m : 1 < i + 1 /\ 1 \in 1..(m + 1)
      OBVIOUS
    <3> HIDE DEF s
    <3> QED BY <2>3, <2>4, <3>1
  <2>6. s.n > 0 /\ s.n \in Nat
    BY <1>4, <2>3, <2>4
  <2>7. \A k \in 1..Len(to_close'[c]) : to_close'[c][k][2] = Owner(c, s.n)
    <3> HIDE DEF s
    <3>1. CASE s.protocol = "UDP"
      BY <2>1, <3>1 DEF SocketsOf
    <3>2. CASE s.protocol # "UDP"
      BY <2>1, <3>2 DEF SocketsOf
    <3> QED BY <3>1, <3>2
  <2>8. Owner(c, s.n).who = c /\ Owner(c, s.n).n = s.n
    BY OwnersDiffer
  <2> HIDE DEF s
  <2>9. ClosesOwn(c)'
    BY <2>1, <2>2, <2>5, <2>6, <2>7, <2>8 DEF ClosesOwn
  <2>10. \A i \in 1..m :
           /\ sessions'[c][i].n \in 1..setups[c]
           /\ \A j \in 1..m : i < j => sessions'[c][i].n < sessions'[c][j].n
    <3> SUFFICES ASSUME NEW i \in 1..m
                 PROVE  /\ sessions'[c][i].n \in 1..setups[c]
                        /\ \A j \in 1..m : i < j => sessions'[c][i].n < sessions'[c][j].n
      OBVIOUS
    <3>1. \A j \in 1..m : i < j => i + 1 < j + 1
      OBVIOUS
    <3> QED BY <2>3, <2>4, <3>1
  <2>11. Numbered(c)'
    BY <2>1, <2>2, <2>10 DEF Numbered, InSetup
  <2> QED BY <2>9, <2>11
<1>14. CASE Close(c)
  <2>1. /\ to_close[c] # <<>> /\ to_close'[c] = Tail(to_close[c])
        /\ UNCHANGED <<thread, sessions, setups>>
    BY <1>1, <1>14 DEF Close, Types
  <2>2. to_close[c] \in Seq(Fds \X Owners)
    BY <1>1 DEF Types
  <2>3. \A k \in 1..Len(to_close'[c]) :
           k + 1 \in 1..Len(to_close[c]) /\ to_close'[c][k] = to_close[c][k + 1]
    BY <2>1, <2>2
  <2>4. Mine(c)' = Mine(c)
    BY <2>1 DEF Mine
  <2>5. ClosesOwn(c)'
    BY <1>1, <2>1, <2>3, <2>4 DEF ClosesOwn
  <2> QED BY <1>6, <2>1, <2>5 DEF InSetup
<1>15. CASE Closed(c)
  <2>1. to_close'[c] = <<>> /\ UNCHANGED <<sessions, setups>>
    BY <1>15 DEF Closed
  <2>2. InSetup(c)' => InSetup(c)
    BY <1>1, <1>15 DEF Closed, InSetup, Types
  <2> QED BY <1>5, <1>6, <2>1, <2>2
<1> QED BY <1>7, <1>8, <1>9, <1>10, <1>11, <1>12, <1>13, <1>14, <1>15 DEF ClientNext, UdpStep

THEOREM NumberSafe == Spec => []NumberedInv
<1>1. NumberedInv /\ UNCHANGED vars => NumberedInv'
  BY DEF NumberedInv, NumberInv, Numbered, ClosesOwn, InSetup, Mine, vars, connVars
<1>2. ASSUME ShapeInv, NumberedInv, [Next]_vars PROVE NumberedInv'
  BY <1>1, <1>2, NumberStep DEF Next, NumberedInv
<1>3. Init => NumberedInv
  BY NumberInit DEF NumberedInv
<1> QED BY <1>2, <1>3, ShapeSafe, PTL DEF Spec

(***************************************************************************)
(* Descriptors are closed by their owners                                    *)
(***************************************************************************)

LEMMA StrayInit == Init => StrayInv
<1> SUFFICES ASSUME Init PROVE StrayInv
  OBVIOUS
<1>1. 0 \in Fds /\ 0 \in 0..1
  BY ClientsAssumption DEF Fds
<1>2. fd[0] = Process
  BY <1>1 DEF Init
<1>3. \A c \in Conns : OwnInv(c)
  BY DEF Init, OwnInv, ConnectionOwn, ListOwn, BuildingOwn, ClosesOnce
<1> QED BY <1>2, <1>3 DEF Init, StrayInv

\* Only a close() may hit a descriptor of somebody else.
LEMMA OnlyCloseStrays ==
    ASSUME NEW c \in Conns, ClientNext(c)
    PROVE  stray' = stray \/ (Close(c) /\ (stray # <<>> => stray' = stray))
BY DEF ClientNext, Accept, HttpGet, NullPath, RTSP_setup, TrySCTP, TryTCP, UdpFirst, UdpSecond, UdpConnect,
       UdpError, UdpGoesOn, RTSP_teardown, Disconnect, rtp_session_free, Close, Closed

\* The first descriptor of somebody else that is closed is one of the two kinds.
LEMMA StrayKinds ==
    ASSUME ShapeInv, StrayInv, NEW c \in Conns, ClientNext(c), stray' # <<>>
    PROVE  stray'[1].descriptor = 0 \/ stray'[1].tried >= 2
<1>1. CASE stray # <<>>
  <2>1. stray' = stray
    BY <1>1, OnlyCloseStrays
  <2> QED BY <1>1, <2>1 DEF StrayInv
<1>2. CASE stray = <<>>
  <2>1. Close(c)
    BY <1>2, OnlyCloseStrays
  <2> DEFINE d == Head(to_close[c])[1]
             owner == Head(to_close[c])[2]
             tried == IF rtp_s[c] = <<>> THEN 0 ELSE rtp_s[c][1].tried
  <2>2. to_close[c] # <<>> /\ fd[d] \notin {owner, Nobody} /\ stray' = <<[descriptor |-> d, tried |-> tried]>>
    BY <1>2, <2>1 DEF Close
  <2>3. ClosesOnce(c) /\ to_close[c] \in Seq(Fds \X Owners)
    BY <1>2 DEF StrayInv, OwnInv, ShapeInv, Types
  <2>4. 1 \in 1..Len(to_close[c]) /\ to_close[c][1] = Head(to_close[c])
    BY <2>2, <2>3
  <2>5. d = 0 \/ Retried(c)
    BY <2>2, <2>3, <2>4 DEF ClosesOnce
  <2>6. Retried(c) => tried >= 2
    BY DEF Retried, Session
  <2>7. stray'[1].descriptor = d /\ stray'[1].tried = tried
    BY <2>2
  <2> QED BY <2>5, <2>6, <2>7
<1> QED BY <1>1, <1>2

\* Otherwise what somebody owns stays as it is, unless its owner closes it.
LEMMA OwnedStays ==
    ASSUME ShapeInv, StrayInv, NEW c \in Conns, ClientNext(c), stray' = <<>>,
           NEW x \in Fds, fd[x] # Nobody
    PROVE  /\ stray = <<>>
           /\ \/ fd'[x] = fd[x] /\ port'[x] = port[x]
              \/ /\ Close(c) /\ to_close[c] # <<>> /\ x = Head(to_close[c])[1]
                 /\ fd[x] = Head(to_close[c])[2]
<1>1. stray = <<>>
  BY OnlyCloseStrays
<1>2. CASE Close(c) /\ x = Head(to_close[c])[1]
  <2> DEFINE owner == Head(to_close[c])[2]
  <2>1. to_close[c] # <<>> /\ fd[x] \in {owner, Nobody}
    BY <1>1, <1>2 DEF Close
  <2> QED BY <1>1, <1>2, <2>1
<1> QED BY <1>1, <1>2, TableStep

LEMMA OwnElsewhere ==
    ASSUME ShapeInv, NumberedInv, StrayInv, NEW c \in Conns, ClientNext(c), stray' = <<>>
    PROVE  stray = <<>> /\ fd'[0] = Process /\ \A e \in Conns : e # c => OwnInv(e)'
<1>1. 0 \in Fds
  BY ClientsAssumption DEF Fds
<1>2. \A k \in 1..Len(to_close[c]) : to_close[c][k][2].who = c
  BY DEF NumberedInv, NumberInv, ClosesOwn
<1>3. to_close[c] \in Seq(Fds \X Owners) /\ Types
  BY DEF ShapeInv, Types
<1>4. to_close[c] # <<>> => Head(to_close[c])[2].who = c
  BY <1>2, <1>3
<1>5. ASSUME NEW x \in Fds, fd[x].who # c, fd[x] # Nobody
      PROVE  stray = <<>> /\ fd'[x] = fd[x] /\ port'[x] = port[x]
  BY <1>4, <1>5, OwnedStays
<1>6. stray = <<>>
  BY OnlyCloseStrays
<1>7. fd[0] = Process /\ \A e \in Conns : OwnInv(e)
  BY <1>6 DEF StrayInv
<1>8. fd'[0] = Process
  BY <1>1, <1>5, <1>7, OwnersDiffer
<1>9. ASSUME NEW e \in Conns, e # c PROVE OwnInv(e)'
  <2>1. Same(e) /\ OwnInv(e) /\ Stage(e)
    BY <1>3, <1>7, <1>9, OwnStateOnly DEF ShapeInv
  <2>2. ASSUME NEW x \in Fds, fd[x].who = e PROVE fd'[x] = fd[x] /\ port'[x] = port[x]
    BY <1>5, <1>9, <2>2, OwnersDiffer
  <2>3. \A n : Owner(e, n).who = e
    BY OwnersDiffer
  <2>4. ConnectionOwn(e)'
    BY <2>1, <2>2, <2>3 DEF OwnInv, ConnectionOwn, Same, Stage
  <2>5. ListOwn(e)'
    <3>1. /\ sessions[e] \in Seq(UdpSession \cup TcpSession)
          /\ \A i \in 1..Len(sessions[e]) : sessions[e][i] \in UdpSession \cup TcpSession
      BY <1>3, SessionNumbers
    <3>2. \A s \in UdpSession \cup TcpSession : s.protocol = "UDP" => s.rtp_sd \in Fds /\ s.rtcp_sd \in Fds
      BY DEF UdpSession, TcpSession
    <3> QED BY <2>1, <2>2, <2>3, <3>1, <3>2 DEF OwnInv, ListOwn, Same, Bound
  <2>6. BuildingOwn(e)'
    BY <2>1, <2>2, <2>3 DEF OwnInv, BuildingOwn, Same, Bound, Stage, Session
  <2>7. ClosesOnce(e)'
    <3>1. to_close[e] \in Seq(Fds \X Owners)
      BY <1>3 DEF Types
    <3>2. \A k \in 1..Len(to_close[e]) : to_close[e][k][1] \in Fds /\ to_close[e][k][2].who = e
      BY <3>1 DEF NumberedInv, NumberInv, ClosesOwn
    <3> QED BY <2>1, <2>2, <3>2 DEF OwnInv, ClosesOnce, Same, Retried, Session
  <2> QED BY <2>4, <2>5, <2>6, <2>7 DEF OwnInv
<1> QED BY <1>6, <1>8, <1>9

\* The sockets of the session that a failing rtp_udp_transport leaves behind, unless it
\* has been tried before: each is 0, or open, its own and closed once.
LEMMA FailureCloses ==
    ASSUME ShapeInv, CrashInv, StrayInv, stray = <<>>, NEW c \in Conns,
           NEW s \in Building, NEW firstsd \in Descriptors, NEW new \in Descriptors,
           UdpFailed(c, s, firstsd, new)
    PROVE  ClosesOnce(c)'
<1>1. Types /\ Stage(c) /\ TriedInv(c) /\ BuildingOwn(c) /\ fd[0] = Process
  BY DEF ShapeInv, CrashInv, StrayInv, OwnInv
<1>2. UdpError(c, s, firstsd) /\ Continues(c, s) /\ thread[c] \in {"try", "rtp", "rtcp", "peer"}
  BY DEF UdpFailed
<1>3. rtp_s[c] # <<>> /\ Session(c) \in Building
  BY <1>1, <1>2, SessionType DEF Stage, InSetup
<1> DEFINE list == Closes(Mine(c), s, firstsd)
<1>4. /\ Left(s).tried = s.tried
      /\ rtp_s' = [rtp_s EXCEPT ![c] = <<Left(s)>>]
      /\ Mine(c) \in Owners
      /\ to_close' = [to_close EXCEPT ![c] = list]
  BY <1>1, <1>2, UdpErrorLeaves
<1>5. /\ \A i \in 1..Len(list) : \E d \in {firstsd, s.rtp_sd, s.rtcp_sd} :
            d \in Fds /\ list[i] = <<d, Mine(c)>>
      /\ \A i, j \in 1..Len(list) : i # j /\ list[i][1] = list[j][1] =>
            \/ firstsd = s.rtp_sd /\ list[i][1] = firstsd
            \/ firstsd = s.rtcp_sd /\ list[i][1] = firstsd
            \/ s.rtp_sd = s.rtcp_sd /\ list[i][1] = s.rtp_sd
  BY <1>4, ClosesWhat
<1> HIDE DEF list
<1>6. rtp_s'[c] = <<Left(s)>> /\ to_close'[c] = list
  BY <1>1, <1>4 DEF Types
<1> SUFFICES ASSUME ~Retried(c)'
             PROVE  \A k \in 1..Len(list) : list[k][1] # 0 =>
                        /\ fd'[list[k][1]] = list[k][2]
                        /\ \A l \in 1..Len(list) : list[l][1] = list[k][1] => l = k
  BY <1>6 DEF ClosesOnce
<1>7. s.tried < 2 /\ s.tried \in Nat /\ Session(c).tried \in Nat
  <2>1. ~(s.tried >= 2)
    BY <1>4, <1>6 DEF Retried, Session
  <2>2. s.tried \in Nat /\ Session(c).tried \in Nat
    BY <1>3 DEF Building
  <2> QED BY <2>1, <2>2
<1>8. thread[c] = "try" => s.rtp_sd = 0 /\ s.rtcp_sd = 0
  <2> SUFFICES ASSUME thread[c] = "try" PROVE s.rtp_sd = 0 /\ s.rtcp_sd = 0
    OBVIOUS
  <2>1. Session(c).tried = 0
    BY <1>2, <1>7 DEF Continues
  <2> QED BY <1>1, <1>3, <2>1 DEF TriedInv, UdpFailed
<1>9. -1 \notin Fds /\ 0 \in Fds /\ Nobody # Process
  BY ClientsAssumption, OwnersDiffer DEF Fds
<1>10. \/ new = -1 /\ fd' = fd
       \/ new \in Fds /\ fd[new] = Nobody /\ fd' = [fd EXCEPT ![new] = Mine(c)]
  BY LowestFreeIsFree DEF UdpFailed, Opened
<1>11. Mine(c) # Nobody
  BY OwnersDiffer DEF Mine
<1>12. new \in Fds => fd'[new] = Mine(c)
  BY <1>1, <1>9, <1>10 DEF Types
<1>13. ASSUME NEW x \in Fds, fd[x] = Mine(c) PROVE fd'[x] = Mine(c) /\ x # new
  BY <1>1, <1>10, <1>11, <1>13, <1>9 DEF Types
<1>14. /\ thread[c] \in {"rtcp", "peer"} => s.rtp_sd \in Fds /\ fd[s.rtp_sd] = Mine(c)
       /\ thread[c] \in {"rtp", "peer"} => s.rtcp_sd \in Fds /\ fd[s.rtcp_sd] = Mine(c)
       /\ thread[c] = "peer" => s.rtp_sd # s.rtcp_sd
  BY <1>1, <1>2 DEF Continues, Stage, BuildingOwn, Bound, Mine
<1>15. /\ thread[c] = "try" => firstsd = new
       /\ thread[c] # "try" => firstsd = -1
       /\ thread[c] = "rtp" => s.rtp_sd = new
       /\ thread[c] = "rtcp" => s.rtcp_sd = new
  BY DEF UdpFailed
<1>16. ASSUME NEW x \in {firstsd, s.rtp_sd, s.rtcp_sd}, x \in Fds, x # 0
       PROVE  fd'[x] = Mine(c)
  BY <1>2, <1>8, <1>9, <1>12, <1>13, <1>14, <1>15, <1>16
<1>17. /\ firstsd = s.rtp_sd \/ firstsd = s.rtcp_sd => firstsd \in {-1, 0}
       /\ s.rtp_sd = s.rtcp_sd => s.rtp_sd \in {-1, 0}
  BY <1>2, <1>8, <1>9, <1>13, <1>14, <1>15
<1>18. ASSUME NEW k \in 1..Len(list), list[k][1] # 0
       PROVE  /\ fd'[list[k][1]] = list[k][2]
              /\ \A l \in 1..Len(list) : list[l][1] = list[k][1] => l = k
  <2>1. PICK d \in {firstsd, s.rtp_sd, s.rtcp_sd} : d \in Fds /\ list[k] = <<d, Mine(c)>>
    BY <1>5
  <2>2. list[k][1] = d /\ list[k][2] = Mine(c) /\ d # 0 /\ d # -1
    BY <1>9, <1>18, <2>1
  <2>3. fd'[d] = Mine(c)
    BY <1>16, <2>1, <2>2
  <2>4. ASSUME NEW l \in 1..Len(list), list[l][1] = list[k][1], l # k PROVE FALSE
    <3>1. \/ firstsd = s.rtp_sd /\ d = firstsd
          \/ firstsd = s.rtcp_sd /\ d = firstsd
          \/ s.rtp_sd = s.rtcp_sd /\ d = s.rtp_sd
      BY <1>5, <2>2, <2>4
    <3> QED BY <1>17, <2>2, <3>1
  <2> QED BY <2>2, <2>3, <2>4
<1> QED BY <1>18

LEMMA OwnHere ==
    ASSUME ShapeInv, CrashInv, NumberedInv, StrayInv, NEW c \in Conns, ClientNext(c), stray' = <<>>
    PROVE  OwnInv(c)'
<1>1. stray = <<>>
  BY OwnElsewhere
<1>2. /\ Types /\ Stage(c) /\ Numbered(c) /\ ClosesOwn(c)
      /\ ConnectionOwn(c) /\ ListOwn(c) /\ BuildingOwn(c) /\ ClosesOnce(c)
  BY <1>1 DEF ShapeInv, NumberedInv, NumberInv, StrayInv, OwnInv
<1>3. /\ sessions[c] \in Seq(UdpSession \cup TcpSession)
      /\ \A i \in 1..Len(sessions[c]) :
            sessions[c][i] \in UdpSession \cup TcpSession /\ sessions[c][i].n \in Nat
  BY <1>2, SessionNumbers
<1>4. \A s \in UdpSession \cup TcpSession : s.protocol = "UDP" => s.rtp_sd \in Fds /\ s.rtcp_sd \in Fds
  BY DEF UdpSession, TcpSession
<1>5. \A n : Owner(c, n).who = c /\ Owner(c, n).n = n /\ Owner(c, n) # Nobody
  BY OwnersDiffer
<1>6. CASE Close(c)
  <2> DEFINE d == Head(to_close[c])[1]
             owner == Head(to_close[c])[2]
  <2>1. /\ to_close[c] # <<>> /\ to_close'[c] = Tail(to_close[c])
        /\ UNCHANGED <<thread, sd, rtp_s, sessions, setups>>
    BY <1>2, <1>6 DEF Close, Types
  <2>2. to_close[c] \in Seq(Fds \X Owners)
    BY <1>2 DEF Types
  <2>3. 1 \in 1..Len(to_close[c]) /\ to_close[c][1] = Head(to_close[c])
    BY <2>1, <2>2
  <2>4. ASSUME NEW x \in Fds, fd[x] # Nobody, x # d \/ fd[x] # owner
        PROVE  fd'[x] = fd[x] /\ port'[x] = port[x]
    BY <2>4, OwnedStays
  <2>5. thread[c] \in {"error", "teardown", "free"} /\ setups[c] \in Nat
    BY <1>2, <2>1 DEF Stage, Types
  <2>6. /\ thread[c] = "error" => owner = Owner(c, setups[c]) /\ setups[c] > 0
        /\ thread[c] = "teardown" => owner.n > 0
        /\ thread[c] # "error" => \A i \in 1..Len(sessions[c]) : owner.n < sessions[c][i].n
    BY <1>2, <2>3 DEF ClosesOwn, Numbered, InSetup, Mine
  <2>7. owner.n \in Nat
    <3>1. Head(to_close[c]) \in Fds \X Owners
      BY <2>1, <2>2
    <3>2. owner \in Owners
      BY <3>1
    <3> QED BY <3>2 DEF Owners
  <2> HIDE DEF owner, d
  <2>8. \A i \in 1..Len(sessions[c]) : owner # Owner(c, sessions[c][i].n)
    <3> TAKE i \in 1..Len(sessions[c])
    <3>1. CASE thread[c] = "error"
      <4>1. sessions[c][i].n < setups[c]
        BY <1>2, <3>1 DEF Numbered, InSetup
      <4>2. owner.n = setups[c]
        BY <1>5, <2>6, <3>1
      <4> QED BY <1>3, <1>5, <2>5, <4>1, <4>2
    <3>2. CASE thread[c] # "error"
      <4>1. owner.n < sessions[c][i].n
        BY <2>6, <3>2
      <4>2. owner.n # sessions[c][i].n
        BY <1>3, <2>7, <4>1
      <4> QED BY <1>5, <4>2
    <3> QED BY <3>1, <3>2
  <2>9. thread[c] # "free" => owner # Owner(c, 0)
    <3>1. thread[c] # "free" => owner.n > 0
      BY <1>5, <2>5, <2>6
    <3> QED BY <1>5, <2>7, <3>1
  <2>10. ConnectionOwn(c)'
    BY <1>2, <1>5, <2>1, <2>4, <2>5, <2>9 DEF ConnectionOwn, Stage
  <2>11. ListOwn(c)'
    BY <1>2, <1>3, <1>4, <1>5, <2>1, <2>4, <2>8 DEF ListOwn, Bound
  <2>12. BuildingOwn(c)'
    BY <2>1, <2>5 DEF BuildingOwn
  <2>13. ClosesOnce(c)'
    <3>1. /\ Retried(c)' <=> Retried(c)
          /\ \A k \in 1..Len(to_close'[c]) :
                /\ k + 1 \in 1..Len(to_close[c]) /\ to_close'[c][k] = to_close[c][k + 1]
                /\ k + 1 # 1
      BY <2>1, <2>2 DEF Retried, Session
    <3> SUFFICES ASSUME ~Retried(c), NEW k \in 1..Len(to_close'[c]), to_close'[c][k][1] # 0
                 PROVE  /\ fd'[to_close'[c][k][1]] = to_close'[c][k][2]
                        /\ \A l \in 1..Len(to_close'[c]) :
                              to_close'[c][l][1] = to_close'[c][k][1] => l = k
      BY <3>1 DEF ClosesOnce
    <3> DEFINE x == to_close[c][k + 1][1]
    <3>2. /\ x # 0 /\ fd[x] = to_close[c][k + 1][2]
          /\ \A l \in 1..Len(to_close[c]) : to_close[c][l][1] = x => l = k + 1
      BY <1>2, <3>1 DEF ClosesOnce
    <3>3. x \in Fds /\ x # d
      <4>1. k + 1 \in 1..Len(to_close[c]) /\ 1 \in 1..Len(to_close[c])
        BY <2>2, <3>1
      <4>2. x \in Fds
        BY <2>2, <4>1
      <4>3. to_close[c][1][1] = d
        BY <2>2 DEF d
      <4> QED BY <3>1, <3>2, <4>1, <4>2, <4>3
    <3>4. fd[x] # Nobody
      <4>1. to_close[c][k + 1][2].who = c
        BY <1>2, <3>1 DEF ClosesOwn
      <4> QED BY <3>2, <4>1, OwnersDiffer
    <3>5. fd'[x] = to_close[c][k + 1][2]
      BY <2>4, <3>2, <3>3, <3>4
    <3>6. ASSUME NEW l \in 1..Len(to_close'[c]), to_close'[c][l][1] = to_close'[c][k][1] PROVE l = k
      <4>1. l + 1 = k + 1
        BY <3>1, <3>2, <3>6
      <4> QED BY <4>1
    <3> HIDE DEF x
    <3>7. to_close'[c][k] = to_close[c][k + 1]
      BY <3>1
    <3> QED BY <3>5, <3>6, <3>7 DEF x
  <2> QED BY <2>10, <2>11, <2>12, <2>13 DEF OwnInv
<1>7. CASE ~Close(c)
  <2>1. ASSUME NEW x \in Fds, fd[x] # Nobody
        PROVE  fd'[x] = fd[x] /\ port'[x] = port[x]
    BY <1>7, <2>1, OwnedStays
  <2>2. ASSUME NEW x \in Fds, NEW n, NEW p, Bound(x, c, n, p) PROVE Bound(x, c, n, p)'
    BY <1>5, <2>1, <2>2 DEF Bound
  <2>3. thread[c] # "none" /\ thread'[c] \notin {"none", "free", "gone"} =>
           sd' = sd /\ thread[c] \notin {"free", "gone"}
    BY <1>2, <1>7 DEF ClientNext, Accept, HttpGet, NullPath, RTSP_setup, TrySCTP, connVars, TryTCP, UdpFirst, UdpSecond,
         UdpConnect, UdpError, UdpGoesOn, RTSP_teardown, Disconnect, rtp_session_free, Closed, Types, SetUp,
         Running, Trying
  <2>4. thread[c] = "none" => Accept(c)
    BY <1>2, <1>7 DEF ClientNext, HttpGet, NullPath, RTSP_setup, TrySCTP, TryTCP, UdpFirst, UdpSecond,
         UdpConnect, RTSP_teardown, Disconnect, rtp_session_free, Closed, Running, Trying
  <2>5. ConnectionOwn(c)'
    <3>1. CASE Accept(c)
      <4>1. /\ FreeFds # {} /\ fd' = [fd EXCEPT ![LowestFree] = Owner(c, 0)] /\ sd'[c] = LowestFree
        BY <1>2, <3>1 DEF Accept, Opens, Types
      <4>2. LowestFree \in Fds
        BY <4>1, LowestFreeIsFree
      <4>3. fd'[sd'[c]] = Owner(c, 0)
        BY <1>2, <4>1, <4>2 DEF Types
      <4> QED BY <4>3 DEF ConnectionOwn
    <3>2. CASE thread[c] # "none"
      BY <1>2, <1>5, <2>1, <2>3, <3>2 DEF ConnectionOwn, Stage
    <3> QED BY <2>4, <3>1, <3>2
  <2>6. CASE UdpStep(c)
    <3>1. UdpOutcome(c)
      BY <2>6, UdpOutcomes
    <3>2. ASSUME sessions'[c] = sessions[c] PROVE ListOwn(c)'
      BY <1>2, <1>3, <1>4, <2>2, <3>2 DEF ListOwn
    <3>3. ASSUME NEW s \in Building, NEW firstsd \in Descriptors, NEW new \in Descriptors,
                 UdpFailed(c, s, firstsd, new)
          PROVE  OwnInv(c)'
      <4>1. ClosesOnce(c)'
        BY <1>1, <3>3, FailureCloses
      <4>2. thread'[c] = "error" /\ sessions' = sessions
        BY <1>2, <3>3 DEF UdpFailed, UdpError, Types
      <4>3. BuildingOwn(c)'
        BY <4>2 DEF BuildingOwn
      <4> QED BY <2>5, <3>2, <4>1, <4>2, <4>3 DEF OwnInv
    <3>4. ASSUME NEW s \in Building, NEW p \in Ports, NEW place \in {"rtp", "rtcp", "peer"},
                 UdpWent(c, s, p, place)
          PROVE  OwnInv(c)'
      <4>1. /\ rtp_s'[c] = <<s>> /\ thread'[c] = place /\ sessions' = sessions
            /\ setups' = setups /\ to_close' = to_close
        BY <1>2, <3>4 DEF UdpWent, UdpGoesOn, Types
      <4>2. Session(c)' = s
        BY <4>1 DEF Session
      <4>3. /\ FreeFds # {} /\ fd' = [fd EXCEPT ![LowestFree] = Mine(c)]
            /\ port' = [port EXCEPT ![LowestFree] = p] /\ Continues(c, s)
        BY <3>4 DEF UdpWent, Opened
      <4>4. LowestFree \in Fds /\ fd[LowestFree] = Nobody
        BY <4>3, LowestFreeIsFree
      <4>5. fd'[LowestFree] = Owner(c, setups[c]) /\ port'[LowestFree] = p
        BY <1>2, <4>3, <4>4 DEF Types, Mine
      <4>6. \/ thread[c] = "try" /\ place = "rtcp" /\ s.rtp_sd = LowestFree /\ s.rtp_port = p
            \/ thread[c] = "try" /\ place = "rtp" /\ s.rtcp_sd = LowestFree /\ s.rtcp_port = p
            \/ thread[c] = "rtp" /\ place = "peer" /\ s.rtp_sd = LowestFree /\ s.rtp_port = p
            \/ thread[c] = "rtcp" /\ place = "peer" /\ s.rtcp_sd = LowestFree /\ s.rtcp_port = p
        BY <3>4 DEF UdpWent
      <4>7. thread[c] = "rtp" =>
               /\ s.rtcp_sd = Session(c).rtcp_sd /\ s.rtcp_port = Session(c).rtcp_port /\ s.rtcp_sd \in Fds
               /\ fd[s.rtcp_sd] = Owner(c, setups[c]) /\ port[s.rtcp_sd] = s.rtcp_port
        BY <1>2, <4>3 DEF Continues, BuildingOwn, Bound, Stage
      <4>8. thread[c] = "rtcp" =>
               /\ s.rtp_sd = Session(c).rtp_sd /\ s.rtp_port = Session(c).rtp_port /\ s.rtp_sd \in Fds
               /\ fd[s.rtp_sd] = Owner(c, setups[c]) /\ port[s.rtp_sd] = s.rtp_port
        BY <1>2, <4>3 DEF Continues, BuildingOwn, Bound, Stage
      <4>9. BuildingOwn(c)'
        BY <1>5, <2>1, <4>1, <4>2, <4>4, <4>5, <4>6, <4>7, <4>8 DEF BuildingOwn, Bound
      <4>10. ClosesOnce(c)'
        <5>1. to_close'[c] = <<>>
          BY <1>2, <4>1, <4>6 DEF Stage
        <5> QED BY <5>1 DEF ClosesOnce
      <4> QED BY <2>5, <3>2, <4>1, <4>9, <4>10 DEF OwnInv
    <3>5. CASE UdpDone(c)
      <4> DEFINE r == [protocol |-> "UDP", n |-> setups[c],
                       rtp_sd |-> Session(c).rtp_sd, rtcp_sd |-> Session(c).rtcp_sd,
                       rtp_port |-> Session(c).rtp_port, rtcp_port |-> Session(c).rtcp_port]
      <4>1. /\ thread[c] = "peer" /\ thread'[c] = "loop" /\ UNCHANGED <<fd, port, to_close>>
            /\ sessions'[c] = Append(sessions[c], r)
        BY <1>2, <3>5 DEF UdpDone, SetUp, Types
      <4>2. to_close'[c] = <<>>
        BY <1>2, <4>1 DEF Stage
      <4>3. BuildingOwn(c)' /\ ClosesOnce(c)'
        BY <4>1, <4>2 DEF BuildingOwn, ClosesOnce
      <4>4. /\ r.protocol = "UDP" /\ r.rtp_sd # r.rtcp_sd
            /\ fd[r.rtp_sd] = Owner(c, r.n) /\ port[r.rtp_sd] = r.rtp_port
            /\ fd[r.rtcp_sd] = Owner(c, r.n) /\ port[r.rtcp_sd] = r.rtcp_port
        BY <1>2, <4>1 DEF BuildingOwn, Bound
      <4> HIDE DEF r
      <4>5. PICK n \in Nat : n = Len(sessions[c])
        BY <1>3
      <4>6. /\ Len(sessions'[c]) = n + 1 /\ sessions'[c][n + 1] = r
            /\ \A i \in 1..n : sessions'[c][i] = sessions[c][i]
        BY <1>3, <4>1, <4>5
      <4>7. \A i \in 1..(n + 1) : i \in 1..n \/ i = n + 1
        OBVIOUS
      <4>8. ListOwn(c)'
        BY <1>2, <4>1, <4>4, <4>5, <4>6, <4>7 DEF ListOwn, Bound
      <4> QED BY <2>5, <4>3, <4>8 DEF OwnInv
    <3> QED BY <3>1, <3>3, <3>4, <3>5 DEF UdpOutcome
  <2>7. CASE rtp_session_free(c)
    <3> DEFINE s == Head(sessions[c])
    <3>1. /\ thread[c] \in {"teardown", "free"} /\ sessions[c] # <<>>
          /\ to_close'[c] = SocketsOf(c, s) /\ sessions'[c] = Tail(sessions[c])
          /\ thread' = thread /\ fd' = fd /\ port' = port
      BY <1>2, <2>7 DEF rtp_session_free, Types
    <3>2. /\ s = sessions[c][1] /\ 1 \in 1..Len(sessions[c])
          /\ \A i \in 1..Len(sessions'[c]) :
                i + 1 \in 1..Len(sessions[c]) /\ sessions'[c][i] = sessions[c][i + 1]
      BY <1>3, <3>1
    <3> HIDE DEF s
    <3>3. ListOwn(c)'
      BY <1>2, <3>1, <3>2 DEF ListOwn, Bound
    <3>4. BuildingOwn(c)'
      BY <3>1 DEF BuildingOwn
    <3>5. ClosesOnce(c)'
      <4>1. CASE s.protocol = "UDP"
        <5>1. /\ s.rtp_sd # s.rtcp_sd
              /\ fd[s.rtp_sd] = Owner(c, s.n) /\ fd[s.rtcp_sd] = Owner(c, s.n)
          BY <1>2, <3>2, <4>1 DEF ListOwn, Bound
        <5>2. to_close'[c] = <<<<s.rtp_sd, Owner(c, s.n)>>, <<s.rtcp_sd, Owner(c, s.n)>>>>
          BY <3>1, <4>1 DEF SocketsOf
        <5>3. /\ Len(to_close'[c]) = 2
              /\ to_close'[c][1][1] = s.rtp_sd /\ to_close'[c][1][2] = Owner(c, s.n)
              /\ to_close'[c][2][1] = s.rtcp_sd /\ to_close'[c][2][2] = Owner(c, s.n)
          BY <5>2
        <5>4. \A k \in 1..2 : k = 1 \/ k = 2
          OBVIOUS
        <5> QED BY <3>1, <5>1, <5>3, <5>4 DEF ClosesOnce
      <4>2. CASE s.protocol # "UDP"
        <5>1. to_close'[c] = <<>>
          BY <3>1, <4>2 DEF SocketsOf
        <5> QED BY <5>1 DEF ClosesOnce
      <4> QED BY <4>1, <4>2
    <3> QED BY <2>5, <3>3, <3>4, <3>5 DEF OwnInv
  <2>8. CASE Disconnect(c)
    <3>1. /\ thread[c] = "loop" /\ thread'[c] = "free" /\ sessions' = sessions /\ fd' = fd
          /\ to_close'[c] = <<<<sd[c], Owner(c, 0)>>>> /\ port' = port
      BY <1>2, <2>8 DEF Disconnect, Running, Types
    <3>2. ListOwn(c)' /\ BuildingOwn(c)'
      BY <1>2, <3>1 DEF ListOwn, Bound, BuildingOwn
    <3>3. fd[sd[c]] = Owner(c, 0)
      BY <1>2, <3>1 DEF ConnectionOwn
    <3>4. /\ Len(to_close'[c]) = 1
          /\ to_close'[c][1][1] = sd[c] /\ to_close'[c][1][2] = Owner(c, 0)
      BY <3>1
    <3>5. \A k \in 1..1 : k = 1
      OBVIOUS
    <3>6. ClosesOnce(c)'
      BY <3>1, <3>3, <3>4, <3>5 DEF ClosesOnce
    <3> QED BY <2>5, <3>2, <3>6 DEF OwnInv
  <2>9. CASE TryTCP(c)
    <3>1. thread[c] = "try" /\ (TcpFailed(c) \/ TcpDone(c)) /\ UNCHANGED <<fd, port, to_close>>
      BY <2>9, TcpOutcomes
    <3>2. to_close'[c] = <<>> /\ thread'[c] \in {"error", "loop"}
      BY <1>2, <3>1 DEF Stage, TcpFailed, TcpDone, SetUp, Types
    <3>3. BuildingOwn(c)' /\ ClosesOnce(c)'
      BY <3>2 DEF BuildingOwn, ClosesOnce
    <3>4. CASE TcpFailed(c)
      <4>1. ListOwn(c)'
        BY <1>2, <3>1, <3>4 DEF TcpFailed, ListOwn, Bound
      <4> QED BY <2>5, <3>3, <4>1 DEF OwnInv
    <3>5. CASE TcpDone(c)
      <4>1. sessions'[c] = Append(sessions[c], TcpRecord(c)) /\ TcpRecord(c).protocol = "TCP"
        BY <1>2, <3>5 DEF TcpDone, SetUp, TcpRecord, Types
      <4>2. PICK n \in Nat : n = Len(sessions[c])
        BY <1>3
      <4>3. /\ Len(sessions'[c]) = n + 1 /\ sessions'[c][n + 1] = TcpRecord(c)
            /\ \A i \in 1..n : sessions'[c][i] = sessions[c][i]
        BY <1>3, <4>1, <4>2
      <4>4. \A i \in 1..(n + 1) : i \in 1..n \/ i = n + 1
        OBVIOUS
      <4>5. ListOwn(c)'
        BY <1>2, <3>1, <4>1, <4>2, <4>3, <4>4 DEF ListOwn, Bound
      <4> QED BY <2>5, <3>3, <4>5 DEF OwnInv
    <3> QED BY <3>1, <3>4, <3>5
  <2>10. CASE \/ Accept(c) \/ HttpGet(c) \/ NullPath(c) \/ RTSP_teardown(c) \/ Closed(c)
              \/ \E list \in OfferLists : RTSP_setup(c, list)
    <3>1. /\ thread'[c] \in {"loop", "idle", "url", "teardown", "try", "gone"}
          /\ sessions' = sessions /\ to_close' = to_close
      BY <1>2, <2>10 DEF Accept, HttpGet, NullPath, RTSP_teardown, Closed, RTSP_setup, Types
    <3>2. to_close[c] = <<>>
      BY <1>2, <2>10 DEF Accept, HttpGet, NullPath, RTSP_teardown, Closed, RTSP_setup, Running, Stage
    <3>3. BuildingOwn(c)' /\ ClosesOnce(c)'
      BY <3>1, <3>2 DEF BuildingOwn, ClosesOnce
    <3>4. ListOwn(c)'
      BY <1>2, <1>3, <1>4, <2>2, <3>1 DEF ListOwn
    <3> QED BY <2>5, <3>3, <3>4 DEF OwnInv
  <2>11. CASE TrySCTP(c)
    BY <1>2, <2>11 DEF TrySCTP, connVars, OwnInv, ConnectionOwn, ListOwn, BuildingOwn, ClosesOnce, Bound,
                       Retried, Session
  <2> QED BY <1>7, <2>6, <2>7, <2>8, <2>9, <2>10, <2>11 DEF ClientNext, UdpStep
<1> QED BY <1>6, <1>7

LEMMA StrayStep ==
    ASSUME ShapeInv, CrashInv, NumberedInv, StrayInv, NEW c \in Conns, ClientNext(c)
    PROVE  StrayInv'
<1>1. CASE stray' # <<>>
  BY <1>1, StrayKinds DEF StrayInv
<1>2. CASE stray' = <<>>
  BY <1>2, OwnElsewhere, OwnHere DEF StrayInv
<1> QED BY <1>1, <1>2

LEMMA StrayStutter == StrayInv /\ UNCHANGED vars => StrayInv'
BY DEF StrayInv, vars, connVars, OwnInv, ConnectionOwn, ListOwn, BuildingOwn, ClosesOnce, Bound,
       Retried, Session

THEOREM StraySafe == Spec => []StrayInv
<1>1. ASSUME ShapeInv, CrashInv, NumberedInv, StrayInv, [Next]_vars PROVE StrayInv'
  BY <1>1, StrayStep, StrayStutter DEF Next
<1> QED BY <1>1, ShapeSafe, CrashSafe, NumberSafe, StrayInit, PTL DEF Spec

LEMMA LiveListed ==
    ASSUME NEW c \in Conns, NEW s \in LiveOn(c, "UDP"), ListOwn(c)
    PROVE  /\ s.rtp_sd # s.rtcp_sd
           /\ Bound(s.rtp_sd, c, s.n, s.rtp_port) /\ Bound(s.rtcp_sd, c, s.n, s.rtcp_port)
BY DEF LiveOn, Live, ListOwn

\* However the threads of any number of clients interleave, whichever calls fail and however
\* often numbers are used again, a thread closes a descriptor of somebody else only in the
\* two ways named; until then every session and connection has its own sockets.
THEOREM SocketsOwnSafe == Spec => []SocketsOwn
<1>1. StrayInv => SocketsOwn
  BY LiveListed DEF StrayInv, OwnInv, ConnectionOwn, Bound, SocketsOwn
<1> QED BY <1>1, StraySafe, PTL

\* Until then the ports that a SETUP announces are those its two sockets are bound to.
THEOREM PortsAnnouncedSafe == Spec => []PortsAnnounced
<1>1. StrayInv => PortsAnnounced
  BY LiveListed DEF StrayInv, OwnInv, Bound, PortsAnnounced
<1> QED BY <1>1, StraySafe, PTL
=============================================================================
