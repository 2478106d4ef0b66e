---------------------------- MODULE HeadersProofs ----------------------------
(***************************************************************************)
(* Proofs about the parsers of Transport, Range and URI.  Each parser reads  *)
(* token by token beside the client's grammar, so what a parser understands  *)
(* is a relation between two states: the phase of the client, with what it   *)
(* has meant so far, and the state of the machine.  Each relation below is    *)
(* preserved by every token, for all numbers and headers of any length.      *)
(***************************************************************************)
EXTENDS Headers, SequenceTheorems, TLAPS

-----------------------------------------------------------------------------
(* The Transport header. *)

Channels == {n \in Int : -1 <= n /\ n <= 65535}
Offers == [protocol : {"UDP", "TCP", "SCTP"}, mode : {"unicast", "multicast"},
           rtp_channel : Channels, rtcp_channel : Channels]

\* What the machine's variables hold whatever the client writes.
TransportType ==
    /\ parser \in {"run", "skip", "end"}
    /\ cs \subseteq T!Threads
    /\ cs # {}
    /\ number \in Nat
    /\ transport \in Seq(Offers)
    /\ Len(transport) <= 1
    /\ transports \in Seq(Offers)

\* Nothing is left of an offer that failed.
SkipsFresh == parser = "skip" => cs = {T!Start}

\* The kind of parameters that belongs to an offer.
Ctx(o) == IF o.protocol = "UDP" THEN o.mode ELSE o.protocol

\* The thread that reads what the client means, in a phase of the offer o.
IsMain(m, ph, o) ==
    CASE ph = "profile" -> m = T!At("none", "RTP/AVP")
      [] ph \in T!Prefixes -> m = T!At("none", ph)
      [] ph = "cast" -> m = T!At("none", "mode")
      [] ph = "mode" -> m = T!At("none", o.mode)
      [] ph \in {"param", "name", "eq"} -> m = T!At(Ctx(o), ph)
      [] ph = "pair" -> m = T!At(Ctx(o), "keyword")
      [] ph = "n1" -> m = T!At(Ctx(o), "number")
      [] ph = "-" -> m = T!At(Ctx(o), "first")
      [] ph = "n2" -> m = T!At(Ctx(o), "dash")
      [] ph = "value" -> m \in {T!At(Ctx(o), "value"), T!At(Ctx(o), "second")}
      [] OTHER -> FALSE

\* The other threads took a comma for a part of an earlier value.  They are all at the
\* same place of their grammar, and never where numbers are read.
GhostAt(ph) ==
    CASE ph \in {"cast", "param"} -> "param"
      [] ph \in {"mode", "name", "pair"} -> "name"
      [] ph \in {"eq", "n1"} -> "eq"
      [] OTHER -> "value"

Ghosts(ph) == {T!At(c, GhostAt(ph)) : c \in DOMAIN T!Keyword}

\* A number that has been read and not yet been assigned.
PendingRtp(ph) == ph = "-"
PendingRtcp(ph, m) == ph = "value" /\ m.at = "second"
InPair(ph, m) == ph \in {"pair", "n1", "-", "n2"} \/ PendingRtcp(ph, m)

\* The current transport of the server and the last offer of the client.
SameOffer(cur, o, ph, m, n) ==
    /\ ph \in {"profile", "/UDP"} => o.protocol = "UDP"
    /\ ph = "/TCP" => o.protocol = "TCP"
    /\ ph = "/SCTP" => o.protocol = "SCTP"
    /\ ph \in {"cast", "mode"} => o.protocol = "UDP"
    /\ ph \in {"profile", "cast"} \cup T!Prefixes => o.mode = "unicast"
    /\ o.protocol # "UDP" => o.mode = "unicast"
    /\ cur.protocol = IF ph \in {"profile"} \cup T!Prefixes THEN "UDP" ELSE o.protocol
    /\ cur.mode = IF ph = "mode" THEN "unicast" ELSE o.mode
    /\ IF PendingRtp(ph) THEN n = o.rtp_channel ELSE cur.rtp_channel = o.rtp_channel
    /\ IF PendingRtcp(ph, m) THEN n = o.rtcp_channel ELSE cur.rtcp_channel = o.rtcp_channel
    /\ InPair(ph, m) => Ctx(o) # "multicast"
    /\ PendingRtp(ph) \/ PendingRtcp(ph, m) => n <= PairLimit(o)

\* Between two offers, and inside of one.
BetweenOffers ==
    /\ T!Start \in cs
    /\ cs \subseteq {T!Start} \cup Ghosts("offer")
    /\ meant = transports \o transport

InOffer ==
    \E m \in T!Threads, o \in Offers, cur \in Offers :
        /\ IsMain(m, phase, o)
        /\ m \in cs
        /\ cs \subseteq {m} \cup Ghosts(phase)
        /\ meant = Append(transports, o)
        /\ transport = <<cur>>
        /\ SameOffer(cur, o, phase, m, number)

TransportPhases == {"offer", "profile", "/UDP", "/TCP", "/SCTP", "cast", "mode", "param", "name",
                    "eq", "value", "pair", "n1", "-", "n2", "done", "free"}

\* The machine is where the client is.
TransportRelation ==
    header = "Transport" =>
        /\ phase \in TransportPhases
        /\ phase = "done" => parser = "end" /\ transports = meant
        /\ phase \notin {"done", "free"} => parser = "run"
        /\ phase = "offer" => BetweenOffers
        /\ phase \notin {"offer", "done", "free"} => InOffer

TransportInv == TransportType /\ SkipsFresh /\ TransportSet /\ TransportRelation

-----------------------------------------------------------------------------
(* The Range header. *)

RangeType ==
    /\ reader \in {"run", "supported", "refused"}
    /\ integer \in Nat
    /\ seconds \in Nat
    /\ range_supported \in BOOLEAN
    /\ range = [begin_time |-> range.begin_time, end_time |-> range.end_time,
                playback_time |-> range.playback_time]

BeginPhases == {"bh", "bn", "b:", "bm", "b::", "bs", "b.", "bf"}
EndPhases == {"eh", "en", "e:", "em", "e::", "es", "e.", "ef"}

\* The state of the machine in a phase of the client.
IsAt(ph) ==
    CASE ph = "unit" -> at = "start"
      [] ph = "=" -> at = "first_npt"
      [] ph = "bh" -> at = "first_spec"
      [] ph = "eh" -> at = IF last = "bh" THEN "open" ELSE "dash"
      [] ph \in {"bn", "en"} -> at = "int"
      [] ph \in {"b:", "e:"} -> at = "m0"
      [] ph \in {"bm", "em"} -> at = "m"
      [] ph \in {"b::", "e::"} -> at = "s0"
      [] ph \in {"bs", "es"} -> at = "s"
      [] ph \in {"b.", "e."} -> at = "frac0"
      [] ph \in {"bf", "ef"} -> at = "frac"
      [] OTHER -> FALSE

\* The time read so far, with the number that has not been added yet.
SoFar(ph) ==
    CASE ph \in {"bn", "bs", "en", "es"} -> seconds + integer * R!Second
      [] ph \in {"bm", "em"} -> seconds + integer * 60 * R!Second
      [] ph \in {"bf", "ef"} -> seconds + integer
      [] OTHER -> seconds

InRange ==
    /\ reader = "run"
    /\ IsAt(phase)
    /\ phase \in {"unit", "=", "bh", "bn", "eh", "en"} => seconds = 0
    /\ meant.playback_time = R!Unset /\ range.playback_time = R!Unset
    /\ range.end_time = R!Unset
    /\ phase \in BeginPhases => side = "begin"
    /\ phase \in EndPhases => side = "end"
    /\ phase \in {"unit", "="} => meant = R!defaultrange /\ range.begin_time = 0
    /\ phase \in BeginPhases => /\ range.begin_time = 0
                                /\ meant.begin_time = SoFar(phase)
                                /\ meant.end_time = R!Unset
    /\ phase \in EndPhases => /\ meant.begin_time = range.begin_time
                              /\ meant.end_time = IF phase = "eh" THEN R!Unset ELSE SoFar(phase)

RangeRelation ==
    header = "Range" =>
        /\ phase \in {"unit", "=", "done", "free"} \cup BeginPhases \cup EndPhases
        /\ meant = [begin_time |-> meant.begin_time, end_time |-> meant.end_time,
                    playback_time |-> meant.playback_time]
        /\ phase = "done" => reader = "supported" /\ range = meant
        /\ phase \notin {"done", "free"} => InRange

RangeInv == RangeType /\ RangeRelation

-----------------------------------------------------------------------------
(* The URI. *)

UriParts == {"scheme", "userinfo", "host", "port", "path", "query", "fragment"}

\* Only one literal is read.
Fresh == literal = [groups |-> 0, gap |-> FALSE, octets |-> 0, decimal |-> FALSE]
BeforeLiteral == {"start", "scheme", "colon", "root", "authority", "name", "port_or_user", "digits",
                  "user", "host0", "[", "[:"}

LiteralType ==
    /\ literal.groups \in 0..8
    /\ literal.gap \in BOOLEAN
    /\ literal.octets \in 0..4
    /\ literal.decimal \in BOOLEAN
    /\ literal.gap => literal.groups <= 7
    /\ place = "g:" /\ ~literal.gap => literal.groups <= 7
    /\ place = "." => literal.octets <= 3
    /\ place \in BeforeLiteral => Fresh

UriType ==
    /\ place \in U!Places
    /\ p \in Nat
    /\ mark \in 0..p
    /\ stack \in Seq(Nat \X Nat)
    /\ uri = [c \in UriParts |-> uri[c]]
    /\ \A c \in UriParts \ {"path"} :
          uri[c] # <<>> =>
              uri[c][1] \in Nat /\ uri[c][2] \in Nat /\ uri[c][1] <= uri[c][2] /\ uri[c][2] < p

\* The places of the machine in a phase of the client.
PlacesOf(ph) ==
    CASE ph \in {"start", "scheme", "host0", "[", "]", "segment"} -> {ph}
      [] ph = ":" -> {"colon"}
      [] ph = ":/" -> {"root"}
      [] ph = "//" -> {"authority"}
      [] ph = "user" -> {"name"}
      [] ph = "pass0" -> {"port_or_user"}
      [] ph = "pass" -> {"user"}
      [] ph = "host" -> {"name", "host"}
      [] ph = "literal" -> U!InAddress
      [] ph = "[v" -> {"v"}
      [] ph = "[v." -> {"v."}
      [] ph = "[v.x" -> {"vx"}
      [] ph = "port" -> {"port_or_user", "digits", "port0", "port"}
      [] ph = "path" -> {"slash"}
      [] ph = "query" -> {"query0", "query"}
      [] ph = "fragment" -> {"fragment0", "fragment"}
      [] OTHER -> {}

\* Where a part is about to begin.
AtBeginning ==
    \/ place \in {"start", "authority", "host0", "slash", "query0", "fragment0", "port0"}
    \/ place = "port_or_user" /\ phase = "port"

\* The phases in which uri.host may hold user information taken for a host.
HostOpen == {"pass0", "pass", "host0", "host", "literal", "[", "[v", "[v.", "[v.x", "]"}

InUri ==
    /\ place \in PlacesOf(phase)
    /\ begun = IF AtBeginning THEN p ELSE IF place \in {"colon", "root"} THEN begun ELSE mark
    /\ meant = [c \in UriParts |-> meant[c]]
    /\ meant["path"] = stack
    /\ \A c \in UriParts \ {"path", "host"} : meant[c] = uri[c]
    /\ phase \notin HostOpen => meant["host"] = uri["host"]

\* What has been read of an IPv6 address and what is left of it.
InLiteral ==
    LET groups == literal.groups + plan.before + plan.after + IF plan.octets = 4 THEN 2 ELSE 0
    IN  /\ plan = [before |-> plan.before, gap |-> plan.gap, after |-> plan.after,
                   octets |-> plan.octets, due |-> plan.due]
        /\ plan.before \in Nat /\ plan.after \in Nat
        /\ plan.gap \in 0..2 /\ plan.octets \in 0..4
        /\ plan.due \in {"none", ":", "."}
        /\ plan.gap > 0 => ~literal.gap /\ groups <= 7
        /\ plan.gap < 2 => plan.before = 0
        /\ plan.octets \notin {0, 4} => plan.before = 0 /\ plan.gap = 0 /\ plan.after = 0
        /\ place # "o" /\ plan.gap = 0 /\ plan.octets \in {0, 4} =>
              IF literal.gap THEN groups <= 7 ELSE groups = 8
        /\ CASE place = "[" -> plan.due = "none" /\ plan.gap # 1 /\ plan.octets \in {0, 4}
             [] place = "[:" -> plan.due = "none" /\ plan.gap = 1
             [] place = "::" -> /\ plan.due = "none" /\ plan.gap = 0 /\ literal.gap
                                /\ plan.octets \in {0, 4}
             [] place = "g:" -> /\ plan.due = "none"
                                /\ IF plan.gap = 2 THEN plan.before > 0
                                   ELSE plan.gap = 1 \/ plan.after > 0 \/ plan.octets = 4
                                /\ plan.gap = 1 => plan.before = 0
                                /\ plan.octets \in {0, 4}
             [] place = "g" -> /\ plan.gap # 1
                               /\ IF plan.octets \in {1, 2, 3}
                                  THEN /\ plan.octets = 3 /\ plan.due = "."
                                       /\ literal.decimal
                                       /\ IF literal.gap THEN literal.groups <= 6
                                          ELSE literal.groups = 7
                                  ELSE plan.due = IF IF plan.gap = 2 THEN plan.before > 0
                                                     ELSE plan.after > 0 \/ plan.octets = 4
                                                  THEN ":" ELSE "none"
             [] place = "." -> plan.due = "none" /\ plan.octets \in 1..3
                               /\ literal.octets = 4 - plan.octets
             [] place = "o" -> plan.octets \in 0..2 /\ literal.octets = 4 - plan.octets
                               /\ plan.due = (IF plan.octets > 0 THEN "." ELSE "none")
                               /\ plan.before = 0 /\ plan.gap = 0 /\ plan.after = 0
             [] OTHER -> FALSE

UriPhases == {"start", "scheme", ":", ":/", "//", "user", "pass0", "pass", "host0", "host",
              "literal", "[", "[v", "[v.", "[v.x", "]", "port", "path", "segment", "query",
              "fragment", "done", "free"}

UriRelation ==
    header = "URI" =>
        /\ phase \in UriPhases
        /\ phase = "done" => place = "final" /\ uri = meant
        /\ phase \notin {"done", "free"} => InUri
        /\ phase = "literal" => InLiteral

UriInv == UriType /\ LiteralType /\ UriRelation

-----------------------------------------------------------------------------
(* Tokens. *)

\* A token has a kind, and its value is a number of the header's constants or 0.
LEMMA TokenType ==
    ASSUME NEW kinds, NEW numbers, numbers \subseteq Nat, NEW tok \in Tokens(kinds, numbers)
    PROVE  /\ tok.kind \in kinds
           /\ tok.value \in Nat
           /\ tok.kind = "number" => tok.value \in numbers
<1>1. \/ tok \in [kind : kinds \ {"number"}, value : {0}]
      \/ tok \in [kind : kinds \cap {"number"}, value : numbers]
  BY DEF Tokens
<1>2. \/ tok.kind \in kinds \ {"number"} /\ tok.value \in {0}
      \/ tok.kind \in kinds \cap {"number"} /\ tok.value \in numbers
  BY <1>1
<1>3. tok.value \in numbers => tok.value \in Nat OBVIOUS
<1>4. tok.value \in {0} => tok.value \in Nat OBVIOUS
<1> QED BY <1>2, <1>3, <1>4

-----------------------------------------------------------------------------
(* One thread of the transport machine. *)

\* DOMAIN Keyword, spelled out.
LEMMA Contexts == DOMAIN T!Keyword = {"unicast", "multicast", "TCP", "SCTP"}
  BY DEF T!Keyword

\* A thread becomes threads.
LEMMA AfterType ==
    ASSUME NEW t \in T!Threads, NEW tok, tok.kind \in T!Kinds, NEW u \in T!After(t, tok)
    PROVE  u \in T!Threads
<1> USE Contexts DEF T!At, T!Start, T!Final
<1>0. /\ t.ctx \in {"none"} \cup DOMAIN T!Keyword
      /\ T!Start \in T!Threads /\ T!Final \in T!Threads
  BY DEF T!Threads
<1>1. CASE t.ctx = "none"
  <2>1. u \in T!ReadProtocol(t, tok)
    <3>1. t.at \notin {"param", "keyword", "name", "eq", "value"} BY <1>1 DEF T!Threads, T!Prefixes
    <3> QED BY <1>1, <3>1 DEF T!After
  <2>2. \A c \in DOMAIN T!Keyword : T!At(c, "param") \in T!Threads BY DEF T!Threads
  <2>3. \A x \in T!Prefixes \cup {"RTP/AVP", "mode", "unicast", "multicast"} :
           T!At("none", x) \in T!Threads
    BY DEF T!Threads
  <2> QED BY <2>1, <2>2, <2>3 DEF T!ReadProtocol
<1>2. CASE t.ctx # "none"
  <2>1. t.ctx \in DOMAIN T!Keyword BY <1>0, <1>2
  <2>2. \A x \in {"param", "keyword", "name", "number", "eq", "value", "first", "dash", "second"} :
           T!At(t.ctx, x) \in T!Threads
    BY <2>1 DEF T!Threads
  <2>3. u \in T!ReadName(t, tok) \/ u \in T!ReadValue(t, tok) \/ u \in T!ReadNumbers(t, tok)
    BY <1>2 DEF T!After
  <2>4. CASE u \in T!ReadName(t, tok) BY <2>2, <2>4, <1>0 DEF T!ReadName
  <2>5. CASE u \in T!ReadValue(t, tok) BY <2>2, <2>5, <1>0 DEF T!ReadValue
  <2>6. CASE u \in T!ReadNumbers(t, tok) BY <2>2, <2>5, <2>6, <1>0 DEF T!ReadNumbers
  <2> QED BY <2>3, <2>4, <2>5, <2>6
<1> QED BY <1>1, <1>2

\* What the threads become is what each of them becomes.
LEMMA MovedIs ==
    ASSUME NEW tok, NEW u
    PROVE  u \in T!Moved(tok) <=> \E t \in cs : u \in T!After(t, tok)
  BY DEF T!Moved

LEMMA MovedType ==
    ASSUME cs \subseteq T!Threads, NEW tok, tok.kind \in T!Kinds
    PROVE  T!Moved(tok) \subseteq T!Threads
  BY AfterType, MovedIs

\* Only in a context of parameters does a thread read numbers.
LEMMA NumberThread ==
    ASSUME NEW t \in T!Threads, t.at \in {"number", "first", "dash", "second"}
    PROVE  t.ctx \in DOMAIN T!Keyword
  BY DEF T!Threads, T!Start, T!Final, T!At, T!Prefixes

\* A number that is assigned fits.
LEMMA ClampedType ==
    ASSUME number \in Nat, NEW c \in DOMAIN T!Keyword
    PROVE  T!Clamped(c) \in Channels
<1>1. T!Limit[c] = 65535 \/ T!Limit[c] = 255 \/ T!Limit[c] = 0
  <2>1. CASE c = "unicast" BY <2>1 DEF T!Limit
  <2>2. CASE c = "multicast" BY <2>2 DEF T!Limit
  <2>3. CASE c = "TCP" BY <2>3 DEF T!Limit
  <2>4. CASE c = "SCTP" BY <2>4 DEF T!Limit
  <2> QED BY <2>1, <2>2, <2>3, <2>4, Contexts
<1>2. T!Limit[c] \in Nat /\ T!Limit[c] <= 65535 BY <1>1
<1>3. \A n, l \in Nat : l <= 65535 => (IF n > l THEN l ELSE n) \in Channels BY DEF Channels
<1> QED BY <1>2, <1>3 DEF T!Clamped

\* The current transport stays one, whatever is assigned.
LEMMA AssignType ==
    ASSUME number \in Nat, cs \subseteq T!Threads, NEW tr \in Offers, NEW tok
    PROVE  T!Assign(tr, tok) \in Offers
<1> DEFINE protocols == {q \in {"UDP", "TCP", "SCTP"} : tok.kind = "semicolon" /\ \E t \in cs :
                         \/ q = "UDP" /\ t.at \in {"RTP/AVP", "/UDP"}
                         \/ q = "TCP" /\ t.at = "/TCP"
                         \/ q = "SCTP" /\ t.at = "/SCTP"}
           modes == {m \in {"unicast", "multicast"} : tok.kind = "semicolon"
                      /\ T!At("none", m) \in cs}
           first == {t \in cs : tok.kind = "-" /\ t.at \in {"number", "first"}}
           second == {t \in cs : tok.kind \in T!Ends /\ t.at \in {"dash", "second"}}
           pr == IF protocols = {} THEN tr.protocol ELSE CHOOSE q \in protocols : TRUE
           mo == IF modes = {} THEN tr.mode ELSE CHOOSE m \in modes : TRUE
           c1 == IF first = {} THEN tr.rtp_channel
                 ELSE T!Clamped((CHOOSE t \in first : TRUE).ctx)
           c2 == IF second = {} THEN tr.rtcp_channel
                 ELSE T!Clamped((CHOOSE t \in second : TRUE).ctx)
<1>0. /\ tr.protocol \in {"UDP", "TCP", "SCTP"} /\ tr.mode \in {"unicast", "multicast"}
      /\ tr.rtp_channel \in Channels /\ tr.rtcp_channel \in Channels
  BY DEF Offers
<1>1. pr \in {"UDP", "TCP", "SCTP"}
  <2>1. protocols # {} => (CHOOSE q \in protocols : TRUE) \in protocols OBVIOUS
  <2> QED BY <1>0, <2>1
<1>2. mo \in {"unicast", "multicast"}
  <2>1. modes # {} => (CHOOSE m \in modes : TRUE) \in modes OBVIOUS
  <2> QED BY <1>0, <2>1
<1>3. c1 \in Channels
  <2>1. CASE first = {} BY <2>1, <1>0
  <2>2. CASE first # {}
    <3>1. PICK t \in first : t = CHOOSE x \in first : TRUE BY <2>2
    <3>2. t.ctx \in DOMAIN T!Keyword BY <3>1, NumberThread
    <3>3. c1 = T!Clamped(t.ctx) BY <2>2, <3>1
    <3>4. T!Clamped(t.ctx) \in Channels BY <3>2, ClampedType
    <3> HIDE DEF c1
    <3> QED BY <3>3, <3>4
  <2> QED BY <2>1, <2>2
<1>4. c2 \in Channels
  <2>1. CASE second = {} BY <2>1, <1>0
  <2>2. CASE second # {}
    <3>1. PICK t \in second : t = CHOOSE x \in second : TRUE BY <2>2
    <3>2. t.ctx \in DOMAIN T!Keyword BY <3>1, NumberThread
    <3>3. c2 = T!Clamped(t.ctx) BY <2>2, <3>1
    <3>4. T!Clamped(t.ctx) \in Channels BY <3>2, ClampedType
    <3> HIDE DEF c2
    <3> QED BY <3>3, <3>4
  <2> QED BY <2>1, <2>2
<1>5. T!Assign(tr, tok) = [protocol |-> pr, mode |-> mo, rtp_channel |-> c1, rtcp_channel |-> c2]
  BY DEF T!Assign
<1> HIDE DEF pr, mo, c1, c2
<1> QED BY <1>1, <1>2, <1>3, <1>4, <1>5 DEF Offers

-----------------------------------------------------------------------------
(* A token of a Transport header: the list and the current transport. *)

ListAfter(tok) == IF T!Begins(tok) THEN transports \o transport ELSE transports
CurAfter(tok) == IF T!Begins(tok) THEN <<T!NewTransport>>
                 ELSE [i \in DOMAIN transport |-> T!Assign(transport[i], tok)]

\* The ways a token is read.
Goes(tok) ==
    /\ T!Moved(tok) \notin {{}, {T!Final}}
    /\ cs' = T!Moved(tok) /\ number' = T!NumberAfter(tok)
    /\ transports' = ListAfter(tok) /\ transport' = CurAfter(tok)
    /\ parser' = parser
Accepts(tok) ==
    /\ T!Moved(tok) = {T!Final}
    /\ transports' = ListAfter(tok) \o CurAfter(tok) /\ transport' = <<>> /\ parser' = "end"
    /\ cs' = cs /\ number' = number
Stops(tok) ==
    /\ transports' = transports \o transport /\ transport' = <<>> /\ parser' = "end"
    /\ T!Moved(tok) = {} /\ cs' = cs /\ number' = number
Drops(tok) ==
    /\ T!Moved(tok) = {}
    /\ transports' = ListAfter(tok) /\ transport' = <<>>
    /\ cs' = {T!Start} /\ number' = number
    /\ parser' \in {"run", "skip", "end"}

\* A step of the Transport machine is one of four.
LEMMA ReadCases ==
    ASSUME NEW tok, T!ReadTransport(tok)
    PROVE  parser = "run" /\ (Goes(tok) \/ Accepts(tok) \/ Stops(tok) \/ Drops(tok))
<1> DEFINE moved == T!Moved(tok)
<1>1. parser = "run" BY DEF T!ReadTransport
<1>2. \/ /\ moved \notin {{}, {T!Final}}
         /\ cs' = moved /\ number' = T!NumberAfter(tok)
         /\ transports' = ListAfter(tok) /\ transport' = CurAfter(tok)
         /\ UNCHANGED parser
      \/ /\ moved = {T!Final}
         /\ T!Finish(ListAfter(tok), CurAfter(tok))
         /\ UNCHANGED <<cs, number>>
      \/ /\ moved = {} /\ cs = {T!Start} /\ ~T!Begins(tok)
         /\ T!Finish(transports, transport)
         /\ UNCHANGED <<cs, number>>
      \/ /\ moved = {} /\ (cs # {T!Start} \/ T!Begins(tok))
         /\ T!Fail(tok, ListAfter(tok))
  BY Zenon DEF T!ReadTransport, ListAfter, CurAfter
<1>3. CASE T!Fail(tok, ListAfter(tok)) /\ moved = {}
  BY <1>1, <1>3 DEF T!Fail, Drops
<1>4. CASE moved = {T!Final} /\ T!Finish(ListAfter(tok), CurAfter(tok)) /\ UNCHANGED <<cs, number>>
  BY <1>1, <1>4 DEF T!Finish, Accepts
<1>5. CASE T!Finish(transports, transport) /\ moved = {} /\ UNCHANGED <<cs, number>>
  BY <1>1, <1>5 DEF T!Finish, Stops
<1>6. CASE /\ moved \notin {{}, {T!Final}}
           /\ cs' = moved /\ number' = T!NumberAfter(tok)
           /\ transports' = ListAfter(tok) /\ transport' = CurAfter(tok)
           /\ UNCHANGED parser
  BY <1>1, <1>6 DEF Goes
<1> QED BY <1>1, <1>2, <1>3, <1>4, <1>5, <1>6

LEMMA NewTransportType == T!NewTransport \in Offers
  BY DEF T!NewTransport, Offers, Channels

\* The current transport and the list stay offers.
LEMMA CurAfterType ==
    ASSUME TransportType, NEW tok
    PROVE  /\ CurAfter(tok) \in Seq(Offers)
           /\ Len(CurAfter(tok)) <= 1
           /\ CurAfter(tok) = <<>> => transport = <<>> /\ ~T!Begins(tok)
           /\ transport = <<>> /\ ~T!Begins(tok) => CurAfter(tok) = <<>>
           /\ ListAfter(tok) \in Seq(Offers)
<1>1. CASE T!Begins(tok)
  <2>1. CurAfter(tok) = <<T!NewTransport>> /\ ListAfter(tok) = transports \o transport
    BY <1>1 DEF CurAfter, ListAfter
  <2>2. transports \o transport \in Seq(Offers) BY ConcatProperties DEF TransportType
  <2>3. \A x \in Offers : <<x>> \in Seq(Offers) /\ Len(<<x>>) = 1 /\ <<x>> # <<>> OBVIOUS
  <2> QED BY <1>1, <2>1, <2>2, <2>3, NewTransportType
<1>2. CASE ~T!Begins(tok)
  <2> DEFINE f == [i \in DOMAIN transport |-> T!Assign(transport[i], tok)]
  <2>1. CurAfter(tok) = f /\ ListAfter(tok) = transports
    BY <1>2 DEF CurAfter, ListAfter
  <2>2. transport \in Seq(Offers) /\ Len(transport) \in Nat /\ DOMAIN transport = 1..Len(transport)
    BY DEF TransportType
  <2>3. \A i \in DOMAIN transport : T!Assign(transport[i], tok) \in Offers
    <3> TAKE i \in DOMAIN transport
    <3>1. transport[i] \in Offers BY <2>2
    <3> QED BY <3>1, AssignType DEF TransportType
  <2>4. f \in [1..Len(transport) -> Offers] BY <2>2, <2>3
  <2>5. f \in Seq(Offers) BY <2>2, <2>4
  <2>6. Len(f) = Len(transport)
    <3>1. DOMAIN f = 1..Len(transport) BY <2>2
    <3>2. DOMAIN f = 1..Len(f) /\ Len(f) \in Nat BY <2>5
    <3> HIDE DEF f
    <3> QED BY <2>2, <3>1, <3>2
  <2> HIDE DEF f
  <2>7. f = <<>> <=> transport = <<>> BY <2>2, <2>5, <2>6
  <2> QED BY <1>2, <2>1, <2>2, <2>5, <2>6, <2>7 DEF TransportType
<1> QED BY <1>1, <1>2

LEMMA NumberAfterType ==
    ASSUME number \in Nat, NEW tok, tok.value \in Nat
    PROVE  T!NumberAfter(tok) \in Nat
<1>1. T!NumberAfter(tok) \in {tok.value, 0, number} BY Zenon DEF T!NumberAfter
<1>2. CASE T!NumberAfter(tok) = tok.value BY <1>2
<1>3. CASE T!NumberAfter(tok) = 0 BY <1>3
<1>4. CASE T!NumberAfter(tok) = number BY <1>4
<1> QED BY <1>1, <1>2, <1>3, <1>4

\* An offer begins with the token that sets the current transport.
LEMMA StartMoves ==
    ASSUME NEW tok, cs = {T!Start}, T!Moved(tok) # {}
    PROVE  T!Begins(tok)
<1>1. PICK u : u \in T!After(T!Start, tok) BY MovedIs
<1>2. T!Start.ctx = "none" /\ T!Start.at = "start" BY DEF T!Start, T!At
<1>3. T!After(T!Start, tok) = T!ReadProtocol(T!Start, tok) BY <1>2 DEF T!After
<1>4. tok.kind = "RTP/AVP" BY <1>1, <1>2, <1>3 DEF T!ReadProtocol, T!Prefixes
<1> QED BY <1>4 DEF T!Begins

\* Whatever the client writes, the machine's variables keep their types, and it is inside
\* an offer only with a current transport.
LEMMA TransportStepType ==
    ASSUME TransportType, SkipsFresh, TransportSet,
           NEW tok, tok.kind \in T!Kinds, tok.value \in Nat, T!TransportNext(tok)
    PROVE  TransportType' /\ SkipsFresh' /\ TransportSet'
<1>0. /\ CurAfter(tok) \in Seq(Offers) /\ Len(CurAfter(tok)) <= 1
      /\ ListAfter(tok) \in Seq(Offers)
      /\ transports \in Seq(Offers) /\ transport \in Seq(Offers)
      /\ CurAfter(tok) = <<>> => transport = <<>> /\ ~T!Begins(tok)
  BY CurAfterType DEF TransportType
<1>a. T!Start \in T!Threads BY DEF T!Threads
<1>b. <<>> \in Seq(Offers) /\ Len(<<>>) <= 1 OBVIOUS
<1>1. CASE Goes(tok) /\ parser = "run"
  <2>1. T!Moved(tok) \subseteq T!Threads /\ T!Moved(tok) # {}
    BY <1>1, MovedType DEF TransportType, Goes
  <2>2. TransportType'
    BY <1>0, <1>1, <2>1, NumberAfterType DEF TransportType, Goes
  <2>3. TransportSet'
    <3>1. CASE cs = {T!Start} BY <1>0, <1>1, <2>1, <3>1, StartMoves DEF TransportSet, Goes
    <3>2. CASE cs # {T!Start} BY <1>0, <1>1, <3>2 DEF TransportSet, Goes
    <3> QED BY <3>1, <3>2
  <2>4. SkipsFresh' BY <1>1 DEF Goes, SkipsFresh
  <2> QED BY <2>2, <2>3, <2>4
<1>2. CASE Accepts(tok)
  <2>1. ListAfter(tok) \o CurAfter(tok) \in Seq(Offers) BY <1>0, ConcatProperties
  <2> QED BY <1>2, <1>b, <2>1 DEF TransportType, Accepts, SkipsFresh, TransportSet
<1>3. CASE Stops(tok)
  <2>1. transports \o transport \in Seq(Offers) BY <1>0, ConcatProperties
  <2> QED BY <1>3, <1>b, <2>1 DEF TransportType, Stops, SkipsFresh, TransportSet
<1>4. CASE Drops(tok)
  BY <1>0, <1>4, <1>a, <1>b DEF TransportType, Drops, SkipsFresh, TransportSet
<1>5. CASE T!SkipToComma(tok)
  <2>1. /\ cs' = cs /\ number' = number /\ transport' = transport /\ transports' = transports
        /\ parser' \in {"run", "skip", "end"} /\ parser = "skip"
    BY <1>5 DEF T!SkipToComma
  <2> QED BY <2>1 DEF TransportType, SkipsFresh, TransportSet
<1> QED BY <1>1, <1>2, <1>3, <1>4, <1>5, ReadCases DEF T!TransportNext

-----------------------------------------------------------------------------
(* The threads beside the client's grammar. *)

\* What a thread in a context of parameters becomes.
LEMMA ParameterThread ==
    ASSUME NEW c \in DOMAIN T!Keyword, NEW tok
    PROVE  /\ tok.kind \in T!Names =>
                 T!After(T!At(c, "param"), tok) =
                    {T!At(c, IF tok.kind = T!Keyword[c] THEN "keyword" ELSE "name")}
           /\ tok.kind = "=" => /\ T!After(T!At(c, "name"), tok) = {T!At(c, "eq")}
                                /\ T!After(T!At(c, "keyword"), tok) = {T!At(c, "number")}
           /\ tok.kind = "semicolon" => \A a \in {"name", "value", "second"} :
                                   T!After(T!At(c, a), tok) = {T!At(c, "param")}
           /\ tok.kind = "NUL" => \A a \in {"name", "value", "second"} :
                                     T!After(T!At(c, a), tok) = {T!Final}
           /\ tok.kind = "comma" => /\ T!After(T!At(c, "name"), tok) = {T!Start}
                                /\ \A a \in {"value", "second"} :
                                      T!After(T!At(c, a), tok) = {T!At(c, "value"), T!Start}
           /\ tok.kind \in T!Texts => \A a \in {"eq", "value"} :
                                         T!After(T!At(c, a), tok) = {T!At(c, "value")}
           /\ tok.kind = "-" => T!After(T!At(c, "first"), tok) = {T!At(c, "dash")}
           /\ tok.kind = "number" /\ tok.value <= T!Largest[c] =>
                 /\ T!After(T!At(c, "number"), tok) = {T!At(c, "first")}
                 /\ T!After(T!At(c, "dash"), tok) = {T!At(c, "second")}
<1>0. \A a : T!At(c, a).ctx = c /\ T!At(c, a).at = a /\ c # "none" BY Contexts DEF T!At
<1>1. \A a \in {"param", "keyword", "name"} :
         T!After(T!At(c, a), tok) = T!ReadName(T!At(c, a), tok)
  BY <1>0 DEF T!After
<1>2. \A a \in {"eq", "value"} : T!After(T!At(c, a), tok) = T!ReadValue(T!At(c, a), tok)
  BY <1>0 DEF T!After
<1>3. \A a \in {"number", "first", "dash", "second"} :
         T!After(T!At(c, a), tok) = T!ReadNumbers(T!At(c, a), tok)
  BY <1>0 DEF T!After
<1>4. tok.kind \in T!Names =>
         T!ReadName(T!At(c, "param"), tok) =
            {T!At(c, IF tok.kind = T!Keyword[c] THEN "keyword" ELSE "name")}
  BY <1>0 DEF T!ReadName, T!Names
<1>5. tok.kind \in {"=", "semicolon", "NUL", "comma"} =>
         /\ tok.kind = "=" => /\ T!ReadName(T!At(c, "name"), tok) = {T!At(c, "eq")}
                              /\ T!ReadName(T!At(c, "keyword"), tok) = {T!At(c, "number")}
         /\ tok.kind = "semicolon" => T!ReadName(T!At(c, "name"), tok) = {T!At(c, "param")}
         /\ tok.kind = "NUL" => T!ReadName(T!At(c, "name"), tok) = {T!Final}
         /\ tok.kind = "comma" => T!ReadName(T!At(c, "name"), tok) = {T!Start}
  BY <1>0 DEF T!ReadName, T!Names
<1>6. /\ tok.kind \in T!Texts => \A a \in {"eq", "value"} :
             T!ReadValue(T!At(c, a), tok) = {T!At(c, "value")}
      /\ tok.kind = "semicolon" => \A a \in {"value", "second"} :
             T!ReadValue(T!At(c, a), tok) = {T!At(c, "param")}
      /\ tok.kind = "NUL" => \A a \in {"value", "second"} :
             T!ReadValue(T!At(c, a), tok) = {T!Final}
      /\ tok.kind = "comma" => \A a \in {"value", "second"} :
             T!ReadValue(T!At(c, a), tok) = {T!At(c, "value"), T!Start}
  BY <1>0 DEF T!ReadValue, T!Texts, T!Names, T!Prefixes
<1>7. tok.kind \in {"semicolon", "comma", "NUL"} =>
         T!ReadNumbers(T!At(c, "second"), tok) = T!ReadValue(T!At(c, "second"), tok)
  BY <1>0 DEF T!ReadNumbers
<1>8. tok.kind = "-" => T!ReadNumbers(T!At(c, "first"), tok) = {T!At(c, "dash")}
  BY <1>0 DEF T!ReadNumbers
<1>9. tok.kind = "number" /\ tok.value <= T!Largest[c] =>
         /\ T!ReadNumbers(T!At(c, "number"), tok) = {T!At(c, "first")}
         /\ T!ReadNumbers(T!At(c, "dash"), tok) = {T!At(c, "second")}
  <2> SUFFICES ASSUME tok.kind = "number", tok.value <= T!Largest[c]
               PROVE  /\ T!ReadNumbers(T!At(c, "number"), tok) = {T!At(c, "first")}
                      /\ T!ReadNumbers(T!At(c, "dash"), tok) = {T!At(c, "second")}
    OBVIOUS
  <2>1. \A a : T!FewDigits(T!At(c, a), tok) BY <1>0 DEF T!FewDigits
  <2> QED BY <1>0, <2>1 DEF T!ReadNumbers
<1>10. tok.kind = "semicolon" \/ tok.kind = "NUL" \/ tok.kind = "comma" => tok.kind \in {"=", "semicolon", "NUL", "comma"} OBVIOUS
<1> QED BY <1>1, <1>2, <1>3, <1>4, <1>5, <1>6, <1>7, <1>8, <1>9, Zenon

\* What a thread that reads a protocol becomes.
LEMMA ProtocolThread ==
    ASSUME NEW tok
    PROVE  /\ tok.kind = "RTP/AVP" => T!After(T!Start, tok) = {T!At("none", "RTP/AVP")}
           /\ tok.kind \in T!Prefixes =>
                 T!After(T!At("none", "RTP/AVP"), tok) = {T!At("none", tok.kind)}
           /\ tok.kind = "semicolon" =>
                 /\ T!After(T!At("none", "RTP/AVP"), tok) = {T!At("none", "mode")}
                 /\ T!After(T!At("none", "/UDP"), tok) = {T!At("none", "mode")}
                 /\ T!After(T!At("none", "/TCP"), tok) = {T!At("TCP", "param")}
                 /\ T!After(T!At("none", "/SCTP"), tok) = {T!At("SCTP", "param")}
                 /\ \A a \in {"unicast", "multicast"} :
                       T!After(T!At("none", a), tok) = {T!At(a, "param")}
           /\ tok.kind \in {"unicast", "multicast"} =>
                 T!After(T!At("none", "mode"), tok) = {T!At("none", tok.kind)}
<1>0. \A a : T!At("none", a).ctx = "none" /\ T!At("none", a).at = a BY DEF T!At
<1>1. \A a : a \notin {"param", "keyword", "name", "eq", "value"} =>
         T!After(T!At("none", a), tok) = T!ReadProtocol(T!At("none", a), tok)
  BY <1>0 DEF T!After
<1>2. /\ tok.kind = "RTP/AVP" =>
           T!ReadProtocol(T!At("none", "start"), tok) = {T!At("none", "RTP/AVP")}
      /\ tok.kind \in T!Prefixes =>
            T!ReadProtocol(T!At("none", "RTP/AVP"), tok) = {T!At("none", tok.kind)}
      /\ tok.kind \in {"unicast", "multicast"} =>
            T!ReadProtocol(T!At("none", "mode"), tok) = {T!At("none", tok.kind)}
  BY <1>0 DEF T!ReadProtocol, T!Prefixes
<1>3. tok.kind = "semicolon" =>
         /\ T!ReadProtocol(T!At("none", "RTP/AVP"), tok) = {T!At("none", "mode")}
         /\ T!ReadProtocol(T!At("none", "/UDP"), tok) = {T!At("none", "mode")}
         /\ T!ReadProtocol(T!At("none", "/TCP"), tok) = {T!At("TCP", "param")}
         /\ T!ReadProtocol(T!At("none", "/SCTP"), tok) = {T!At("SCTP", "param")}
         /\ \A a \in {"unicast", "multicast"} :
               T!ReadProtocol(T!At("none", a), tok) = {T!At(a, "param")}
  BY <1>0 DEF T!ReadProtocol, T!Prefixes
<1>4. T!Start = T!At("none", "start") BY DEF T!Start
<1>5. \A a \in {"start", "RTP/AVP", "/UDP", "/TCP", "/SCTP", "unicast", "multicast", "mode"} :
         T!After(T!At("none", a), tok) = T!ReadProtocol(T!At("none", a), tok)
  BY <1>1
<1> HIDE DEF T!At
<1> QED BY <1>2, <1>3, <1>4, <1>5, Zenon

\* The client's grammar, rule by rule.
LEMMA TransportRules ==
    ASSUME NEW ph, NEW k, NEW q, <<ph, k, q>> \in TransportGrammar
    PROVE  \/ ph = "offer" /\ k = "RTP/AVP" /\ q = "profile"
           \/ ph = "profile" /\ k \in T!Prefixes /\ q = k
           \/ ph \in {"profile", "/UDP"} /\ k = "semicolon" /\ q = "cast"
           \/ ph \in {"/TCP", "/SCTP"} /\ k = "semicolon" /\ q = "param"
           \/ ph = "cast" /\ k \in {"unicast", "multicast"} /\ q = "mode"
           \/ ph = "mode" /\ k = "semicolon" /\ q = "param"
           \/ ph = "param" /\ k = "word" /\ q = "name"
           \/ ph = "name" /\ k = "=" /\ q = "eq"
           \/ ph = "eq" /\ k \in {"text", "word", "number"} /\ q = "value"
           \/ ph = "pair" /\ k = "=" /\ q = "n1"
           \/ ph = "n1" /\ k = "number" /\ q = "-"
           \/ ph = "-" /\ k = "-" /\ q = "n2"
           \/ ph = "n2" /\ k = "number" /\ q = "value"
           \/ ph \in {"name", "value"} /\ k = "semicolon" /\ q = "param"
           \/ ph \in {"name", "value"} /\ k = "comma" /\ q = "offer"
           \/ ph \in {"name", "value"} /\ k = "NUL" /\ q = "done"
  BY DEF TransportGrammar, T!Prefixes

\* A step of the client inside its grammar, when o is the offer it writes.
TransportRule(ph, tok, ph2, o) ==
    \/ ph = "param" /\ tok.kind = PairName(o) /\ tok.kind \in T!Kinds /\ ph2 = "pair"
    \/ /\ <<ph, tok.kind, ph2>> \in TransportGrammar
       /\ ph \in {"n1", "n2"} => ~(tok.value > PairLimit(o))

\* The client leaves the grammar or follows one of its rules.
LEMMA TransportPhaseRule ==
    ASSUME NEW tok, tok.kind \in T!Kinds, TransportPhase(tok) # "free"
    PROVE  TransportRule(phase, tok, TransportPhase(tok), Offer)
<1> DEFINE G == {q \in TransportGrammar : q[1] = phase /\ q[2] = tok.kind}
           c == CHOOSE q \in TransportGrammar : q[1] = phase /\ q[2] = tok.kind
<1>1. CASE phase = "param" /\ tok.kind = PairName(Offer)
  BY <1>1 DEF TransportPhase, TransportRule
<1>2. CASE ~(phase = "param" /\ tok.kind = PairName(Offer))
  <2>1. ~(phase \in {"n1", "n2"} /\ tok.value > PairLimit(Offer)) BY <1>2, Zenon DEF TransportPhase
  <2>2. \E q \in TransportGrammar : q[1] = phase /\ q[2] = tok.kind
    BY <1>2, <2>1, Zenon DEF TransportPhase
  <2>3. TransportPhase(tok) = c[3] BY <1>2, <2>1, <2>2, Zenon DEF TransportPhase
  <2>4. c \in TransportGrammar /\ c[1] = phase /\ c[2] = tok.kind BY <2>2, Zenon
  <2> HIDE DEF c
  <2>5. \A q \in TransportGrammar : q = <<q[1], q[2], q[3]>> BY DEF TransportGrammar
  <2>6. <<phase, tok.kind, TransportPhase(tok)>> \in TransportGrammar BY <2>3, <2>4, <2>5
  <2> QED BY <2>1, <2>6 DEF TransportRule
<1> QED BY <1>1, <1>2

\* The pair of numbers that the client and the machine know by the same name.
LEMMA PairKeyword ==
    ASSUME NEW o \in Offers
    PROVE  /\ Ctx(o) \in DOMAIN T!Keyword
           /\ PairName(o) = T!Keyword[Ctx(o)]
           /\ PairName(o) \in T!Kinds => Ctx(o) # "multicast" /\ PairName(o) \in T!Names
           /\ o.protocol # "UDP" => Ctx(o) # "multicast"
           /\ Ctx(o) # "multicast" => /\ PairLimit(o) = T!Limit[Ctx(o)]
                                      /\ PairLimit(o) \in Nat
                                      /\ PairLimit(o) <= 65535
                                      /\ PairLimit(o) <= T!Largest[Ctx(o)]
                                      /\ T!Largest[Ctx(o)] \in Nat
           /\ \A c \in DOMAIN T!Keyword :
                 c # Ctx(o) => PairName(o) # T!Keyword[c] \/ PairName(o) \notin T!Kinds
<1>0. o.protocol \in {"UDP", "TCP", "SCTP"} /\ o.mode \in {"unicast", "multicast"} BY DEF Offers
<1>1. CASE o.protocol = "TCP"
  BY <1>1, Contexts
  DEF Ctx, PairName, PairLimit, T!Keyword, T!Limit, T!Largest, T!Kinds, T!Texts, T!Names, T!Prefixes
<1>2. CASE o.protocol = "SCTP"
  BY <1>2, Contexts
  DEF Ctx, PairName, PairLimit, T!Keyword, T!Limit, T!Largest, T!Kinds, T!Texts, T!Names, T!Prefixes
<1>3. CASE o.protocol = "UDP" /\ o.mode = "unicast"
  BY <1>3, Contexts
  DEF Ctx, PairName, PairLimit, T!Keyword, T!Limit, T!Largest, T!Kinds, T!Texts, T!Names, T!Prefixes
<1>4. CASE o.protocol = "UDP" /\ o.mode = "multicast"
  BY <1>4, Contexts
  DEF Ctx, PairName, PairLimit, T!Keyword, T!Limit, T!Largest, T!Kinds, T!Texts, T!Names, T!Prefixes
<1> QED BY <1>0, <1>1, <1>2, <1>3, <1>4

\* The names that are nobody's keyword.
LEMMA NoKeyword ==
    ASSUME NEW c \in DOMAIN T!Keyword
    PROVE  T!Keyword[c] \notin {"unicast", "multicast", "word"}
<1>1. CASE c = "unicast" BY <1>1 DEF T!Keyword
<1>2. CASE c = "multicast" BY <1>2 DEF T!Keyword
<1>3. CASE c = "TCP" BY <1>3 DEF T!Keyword
<1>4. CASE c = "SCTP" BY <1>4 DEF T!Keyword
<1> QED BY <1>1, <1>2, <1>3, <1>4, Contexts

\* The thread that reads on for the client, when the rule leads to the phase ph2.
MainAfter(ph, ph2, o) ==
    CASE ph2 = "profile" -> T!At("none", "RTP/AVP")
      [] ph2 \in T!Prefixes -> T!At("none", ph2)
      [] ph2 = "cast" -> T!At("none", "mode")
      [] ph2 = "mode" -> T!At("none", o.mode)
      [] ph2 = "pair" -> T!At(Ctx(o), "keyword")
      [] ph2 = "n1" -> T!At(Ctx(o), "number")
      [] ph2 = "-" -> T!At(Ctx(o), "first")
      [] ph2 = "n2" -> T!At(Ctx(o), "dash")
      [] ph2 = "value" -> T!At(Ctx(o), IF ph = "n2" THEN "second" ELSE "value")
      [] OTHER -> T!At(Ctx(o), ph2)

\* What an element of an offer adds to it.
OfferAfter(o, ph, tok) ==
    CASE ph = "profile" /\ tok.kind \in {"/TCP", "/SCTP"} ->
            [o EXCEPT !.protocol = IF tok.kind = "/TCP" THEN "TCP" ELSE "SCTP"]
      [] ph = "cast" /\ tok.kind = "multicast" -> [o EXCEPT !.mode = "multicast"]
      [] ph = "n1" -> [o EXCEPT !.rtp_channel = tok.value]
      [] ph = "n2" -> [o EXCEPT !.rtcp_channel = tok.value]
      [] OTHER -> o

\* The phases inside of an offer.
InnerPhases == {"profile", "/UDP", "/TCP", "/SCTP", "cast", "mode", "param", "name",
                "eq", "value", "pair", "n1", "-", "n2"}

\* The parts of SameOffer that say in which phase an offer can be what.
Fits(o, ph, m) ==
    /\ ph \in {"profile", "/UDP", "cast", "mode"} => o.protocol = "UDP"
    /\ ph = "/TCP" => o.protocol = "TCP"
    /\ ph = "/SCTP" => o.protocol = "SCTP"
    /\ ph \in {"profile", "cast"} \cup T!Prefixes => o.mode = "unicast"
    /\ o.protocol # "UDP" => o.mode = "unicast"
    /\ InPair(ph, m) => Ctx(o) # "multicast"

LEMMA OfferAfterType ==
    ASSUME NEW o \in Offers, NEW ph \in InnerPhases, NEW ph2, NEW tok, tok.value \in Nat,
           TransportRule(ph, tok, ph2, o), ph \in {"n1", "n2"} => Ctx(o) # "multicast"
    PROVE  /\ OfferAfter(o, ph, tok) \in Offers
           /\ ph \in {"n1", "n2"} => tok.value <= PairLimit(o) /\ tok.kind = "number"
<1>1. ph \in {"n1", "n2"} => tok.value <= PairLimit(o) /\ tok.value <= 65535 /\ tok.kind = "number"
  <2> SUFFICES ASSUME ph \in {"n1", "n2"}
               PROVE  tok.value <= PairLimit(o) /\ tok.value <= 65535 /\ tok.kind = "number"
    OBVIOUS
  <2>1. /\ <<ph, tok.kind, ph2>> \in TransportGrammar
        /\ ~(tok.value > PairLimit(o))
    BY DEF TransportRule
  <2>2. PairLimit(o) \in Nat /\ PairLimit(o) <= 65535 BY PairKeyword
  <2>3. tok.kind = "number" BY <2>1, TransportRules, Zenon
  <2> QED BY <2>1, <2>2, <2>3
<1>2. ph \in {"n1", "n2"} => tok.value \in Channels BY <1>1 DEF Channels
<1>3. OfferAfter(o, ph, tok) \in Offers
  <2>1. CASE ph \in {"n1", "n2"} BY <1>2, <2>1 DEF OfferAfter, Offers
  <2>2. CASE ph \notin {"n1", "n2"} BY <2>2 DEF OfferAfter, Offers
  <2> QED BY <2>1, <2>2
<1> QED BY <1>1, <1>3

\* The thread of the client moves on with it.
LEMMA MainMoves ==
    ASSUME NEW o \in Offers, NEW ph \in InnerPhases, NEW ph2, NEW tok, tok.value \in Nat,
           TransportRule(ph, tok, ph2, o), NEW m, IsMain(m, ph, o), Fits(o, ph, m)
    PROVE  /\ ph2 \in InnerPhases =>
                 T!After(m, tok) = {MainAfter(ph, ph2, OfferAfter(o, ph, tok))}
           /\ ph2 = "offer" => /\ T!Start \in T!After(m, tok)
                               /\ T!After(m, tok) \subseteq {T!Start, T!At(Ctx(o), "value")}
           /\ ph2 = "done" => T!After(m, tok) = {T!Final}
<1> DEFINE c == Ctx(o)
           o2 == OfferAfter(o, ph, tok)
<1>0. c \in DOMAIN T!Keyword BY PairKeyword
<1> HIDE DEF c
<1>1. CASE ph = "param" /\ tok.kind = PairName(o) /\ tok.kind \in T!Kinds /\ ph2 = "pair"
  <2>1. m = T!At(c, "param") BY <1>1 DEF IsMain, c
  <2>2. tok.kind \in T!Names /\ tok.kind = T!Keyword[c] BY <1>1, PairKeyword DEF c
  <2>3. T!After(m, tok) = {T!At(c, "keyword")} BY <1>0, <2>1, <2>2, ParameterThread
  <2>4. o2 = o /\ MainAfter(ph, ph2, o) = T!At(c, "keyword")
    BY <1>1 DEF OfferAfter, MainAfter, c, T!Prefixes
  <2> QED BY <1>1, <2>3, <2>4
<1>2. CASE ph = "profile" /\ tok.kind \in T!Prefixes /\ ph2 = tok.kind
  <2>1. m = T!At("none", "RTP/AVP") BY <1>2 DEF IsMain, T!Prefixes
  <2>2. T!After(m, tok) = {T!At("none", tok.kind)} BY <1>2, <2>1, ProtocolThread
  <2>3. MainAfter(ph, ph2, o2) = T!At("none", ph2) BY <1>2 DEF MainAfter, T!Prefixes
  <2> QED BY <1>2, <2>2, <2>3 DEF T!Prefixes
<1>3. CASE ph \in {"profile", "/UDP"} /\ tok.kind = "semicolon" /\ ph2 = "cast"
  <2>1. m = T!At("none", IF ph = "profile" THEN "RTP/AVP" ELSE "/UDP")
    BY <1>3 DEF IsMain, T!Prefixes
  <2>2. T!After(m, tok) = {T!At("none", "mode")} BY <1>3, <2>1, ProtocolThread
  <2>3. MainAfter(ph, ph2, o2) = T!At("none", "mode") BY <1>3 DEF MainAfter, T!Prefixes
  <2> QED BY <1>3, <2>2, <2>3
<1>4. CASE ph \in {"/TCP", "/SCTP"} /\ tok.kind = "semicolon" /\ ph2 = "param"
  <2>1. m = T!At("none", ph) BY <1>4 DEF IsMain, T!Prefixes
  <2>2. T!After(m, tok) = {T!At(IF ph = "/TCP" THEN "TCP" ELSE "SCTP", "param")}
    BY <1>4, <2>1, ProtocolThread
  <2>3. o2 = o /\ c = IF ph = "/TCP" THEN "TCP" ELSE "SCTP" BY <1>4 DEF OfferAfter, Fits, Ctx, c
  <2>4. MainAfter(ph, ph2, o) = T!At(c, "param") BY <1>4 DEF MainAfter, T!Prefixes, c
  <2> QED BY <1>4, <2>2, <2>3, <2>4
<1>5. CASE ph = "cast" /\ tok.kind \in {"unicast", "multicast"} /\ ph2 = "mode"
  <2>1. m = T!At("none", "mode") BY <1>5 DEF IsMain, T!Prefixes
  <2>2. T!After(m, tok) = {T!At("none", tok.kind)} BY <1>5, <2>1, ProtocolThread
  <2>3. o2.mode = tok.kind BY <1>5 DEF OfferAfter, Fits, Offers
  <2> HIDE DEF o2
  <2>4. MainAfter(ph, ph2, o2) = T!At("none", o2.mode) BY <1>5 DEF MainAfter, T!Prefixes
  <2> QED BY <1>5, <2>2, <2>3, <2>4 DEF o2
<1>6. CASE ph = "mode" /\ tok.kind = "semicolon" /\ ph2 = "param"
  <2>1. m = T!At("none", o.mode) /\ o.mode \in {"unicast", "multicast"}
    BY <1>6 DEF IsMain, T!Prefixes, Offers
  <2>2. T!After(m, tok) = {T!At(o.mode, "param")} BY <1>6, <2>1, ProtocolThread
  <2>3. o2 = o /\ c = o.mode BY <1>6 DEF OfferAfter, Fits, Ctx, c
  <2>4. MainAfter(ph, ph2, o) = T!At(c, "param") BY <1>6 DEF MainAfter, T!Prefixes, c
  <2> QED BY <1>6, <2>2, <2>3, <2>4
<1>7. CASE ph = "param" /\ tok.kind = "word" /\ ph2 = "name"
  <2>1. m = T!At(c, "param") BY <1>7 DEF IsMain, T!Prefixes, c
  <2>2. tok.kind \in T!Names /\ tok.kind # T!Keyword[c] BY <1>0, <1>7, NoKeyword DEF T!Names
  <2>3. T!After(m, tok) = {T!At(c, "name")} BY <1>0, <2>1, <2>2, ParameterThread
  <2>4. o2 = o /\ MainAfter(ph, ph2, o) = T!At(c, "name")
    BY <1>7 DEF OfferAfter, MainAfter, T!Prefixes, c
  <2> QED BY <1>7, <2>3, <2>4
<1>8. CASE \/ ph = "name" /\ tok.kind = "=" /\ ph2 = "eq"
           \/ ph = "pair" /\ tok.kind = "=" /\ ph2 = "n1"
           \/ ph = "-" /\ tok.kind = "-" /\ ph2 = "n2"
  <2>1. m = T!At(c, IF ph = "name" THEN "name" ELSE IF ph = "pair" THEN "keyword" ELSE "first")
    BY <1>8 DEF IsMain, T!Prefixes, c
  <2>2. T!After(m, tok) =
           {T!At(c, IF ph = "name" THEN "eq" ELSE IF ph = "pair" THEN "number" ELSE "dash")}
    BY <1>0, <1>8, <2>1, ParameterThread
  <2>3. o2 = o BY <1>8 DEF OfferAfter
  <2>4. MainAfter(ph, ph2, o) =
           T!At(c, IF ph = "name" THEN "eq" ELSE IF ph = "pair" THEN "number" ELSE "dash")
    BY <1>8 DEF MainAfter, T!Prefixes, c
  <2> QED BY <1>8, <2>2, <2>3, <2>4
<1>9. CASE ph = "eq" /\ tok.kind \in {"text", "word", "number"} /\ ph2 = "value"
  <2>1. m = T!At(c, "eq") BY <1>9 DEF IsMain, T!Prefixes, c
  <2>2. T!After(m, tok) = {T!At(c, "value")}
    BY <1>0, <1>9, <2>1, ParameterThread DEF T!Texts, T!Names
  <2>3. o2 = o /\ MainAfter(ph, ph2, o) = T!At(c, "value")
    BY <1>9 DEF OfferAfter, MainAfter, T!Prefixes, c
  <2> QED BY <1>9, <2>2, <2>3
<1>10. CASE \/ ph = "n1" /\ tok.kind = "number" /\ ph2 = "-"
            \/ ph = "n2" /\ tok.kind = "number" /\ ph2 = "value"
  <2>1. m = T!At(c, IF ph = "n1" THEN "number" ELSE "dash")
    BY <1>10 DEF IsMain, T!Prefixes, c
  <2>2. c # "multicast" BY <1>10 DEF Fits, InPair, c
  <2>3. tok.value <= PairLimit(o) BY <1>10, <2>2, OfferAfterType DEF c
  <2>4. PairLimit(o) \in Nat /\ PairLimit(o) <= T!Largest[c] /\ T!Largest[c] \in Nat
    BY <2>2, PairKeyword DEF c
  <2>5. tok.value <= T!Largest[c]
    <3> DEFINE limit == PairLimit(o) largest == T!Largest[c]
    <3> HIDE DEF limit, largest
    <3>1. tok.value <= limit /\ limit <= largest /\ limit \in Nat /\ largest \in Nat
      BY <2>3, <2>4 DEF limit, largest
    <3>2. tok.value <= largest BY <3>1
    <3> QED BY <3>2 DEF largest
  <2>6. T!After(m, tok) = {T!At(c, IF ph = "n1" THEN "first" ELSE "second")}
    BY <1>0, <1>10, <2>1, <2>5, ParameterThread
  <2>7. Ctx(o2) = c
    <3>1. o2.protocol = o.protocol /\ o2.mode = o.mode BY <1>10 DEF OfferAfter, Offers
    <3> HIDE DEF o2
    <3> QED BY <3>1 DEF Ctx, c
  <2> HIDE DEF o2
  <2>8. MainAfter(ph, ph2, o2) = T!At(Ctx(o2), IF ph = "n1" THEN "first" ELSE "second")
    BY <1>10 DEF MainAfter, T!Prefixes
  <2> QED BY <1>10, <2>6, <2>7, <2>8 DEF o2
<1>11. CASE ph \in {"name", "value"} /\ tok.kind \in {"semicolon", "comma", "NUL"}
            /\ ph2 = (CASE tok.kind = "semicolon" -> "param" [] tok.kind = "comma" -> "offer"
                      [] OTHER -> "done")
  <2>1. PICK a \in {"name", "value", "second"} : m = T!At(c, a) BY <1>11 DEF IsMain, T!Prefixes, c
  <2>2. o2 = o BY <1>11 DEF OfferAfter
  <2>3. ph2 = "param" => MainAfter(ph, ph2, o) = T!At(c, "param") BY DEF MainAfter, T!Prefixes, c
  <2>4. CASE tok.kind = "semicolon"
    BY <1>0, <1>11, <2>1, <2>2, <2>3, <2>4, ParameterThread
  <2>5. CASE tok.kind = "NUL"
    <3>1. ph2 = "done" BY <1>11, <2>5
    <3>2. T!After(m, tok) = {T!Final} BY <1>0, <2>1, <2>5, ParameterThread
    <3> QED BY <3>1, <3>2 DEF InnerPhases
  <2>6. CASE tok.kind = "comma"
    <3>1. T!After(m, tok) \in {{T!Start}, {T!At(c, "value"), T!Start}}
      BY <1>0, <2>1, <2>6, ParameterThread
    <3>2. ph2 = "offer" BY <1>11, <2>6
    <3> QED BY <3>1, <3>2 DEF c, InnerPhases
  <2> QED BY <1>11, <2>4, <2>5, <2>6
<1>12. CASE <<ph, tok.kind, ph2>> \in TransportGrammar
  <2>1. ph # "offer" BY DEF InnerPhases
  <2> QED
    BY <2>1, <1>12, <1>2, <1>3, <1>4, <1>5, <1>6, <1>7, <1>8, <1>9, <1>10, <1>11, TransportRules
<1> QED BY <1>1, <1>12 DEF TransportRule

\* The other threads move on beside it, and stay away from the numbers.
LEMMA GhostMoves ==
    ASSUME NEW o \in Offers, NEW ph \in InnerPhases, NEW ph2, NEW tok,
           TransportRule(ph, tok, ph2, o), NEW c \in DOMAIN T!Keyword
    PROVE  /\ ph2 \in InnerPhases =>
                 \/ T!After(T!At(c, GhostAt(ph)), tok) = {T!At(c, GhostAt(ph2))}
                 \/ /\ ph2 = "pair" /\ c = Ctx(o)
                    /\ T!After(T!At(c, GhostAt(ph)), tok) = {T!At(c, "keyword")}
           /\ ph2 = "offer" => T!After(T!At(c, GhostAt(ph)), tok) \subseteq {T!Start, T!At(c, "value")}
           /\ ph2 = "done" => T!After(T!At(c, GhostAt(ph)), tok) = {T!Final}
<1>1. CASE ph = "param" /\ tok.kind = PairName(o) /\ tok.kind \in T!Kinds /\ ph2 = "pair"
  <2>1. tok.kind \in T!Names /\ (c # Ctx(o) => tok.kind # T!Keyword[c])
             /\ tok.kind = T!Keyword[Ctx(o)]
    BY <1>1, PairKeyword
  <2>2. GhostAt(ph) = "param" /\ GhostAt(ph2) = "name" BY <1>1 DEF GhostAt
  <2>3. CASE c = Ctx(o) BY <1>1, <2>1, <2>2, <2>3, ParameterThread
  <2>4. CASE c # Ctx(o) BY <1>1, <2>1, <2>2, <2>4, ParameterThread
  <2> QED BY <2>3, <2>4
<1>2. CASE GhostAt(ph) = "value" /\ tok.kind \in T!Texts /\ GhostAt(ph2) = "value"
           /\ ph2 \in InnerPhases
  BY <1>2, ParameterThread DEF InnerPhases
<1>3. CASE ph \in {"profile", "/UDP", "/TCP", "/SCTP", "mode", "name", "value"}
           /\ tok.kind = "semicolon" /\ ph2 \in {"cast", "param"}
  <2>1. GhostAt(ph) \in {"name", "value"} /\ GhostAt(ph2) = "param" BY <1>3 DEF GhostAt
  <2> QED BY <1>3, <2>1, ParameterThread
<1>4. CASE ph \in {"cast", "param"} /\ tok.kind \in {"unicast", "multicast", "word"}
           /\ ph2 \in {"mode", "name"}
  <2>1. GhostAt(ph) = "param" /\ GhostAt(ph2) = "name" BY <1>4 DEF GhostAt
  <2>2. tok.kind \in T!Names /\ tok.kind # T!Keyword[c] BY <1>4, NoKeyword DEF T!Names
  <2> QED BY <1>4, <2>1, <2>2, ParameterThread
<1>5. CASE ph \in {"name", "pair"} /\ tok.kind = "=" /\ ph2 \in {"eq", "n1"}
  <2>1. GhostAt(ph) = "name" /\ GhostAt(ph2) = "eq" BY <1>5 DEF GhostAt
  <2> QED BY <1>5, <2>1, ParameterThread
<1>6. CASE ph \in {"eq", "n1"} /\ tok.kind \in {"text", "word", "number"} /\ ph2 \in {"value", "-"}
  <2>1. GhostAt(ph) = "eq" /\ GhostAt(ph2) = "value" /\ tok.kind \in T!Texts
    BY <1>6 DEF GhostAt, T!Texts, T!Names
  <2> QED BY <1>6, <2>1, ParameterThread
<1>7. CASE ph \in {"name", "value"} /\ tok.kind = "comma" /\ ph2 = "offer"
  <2>1. GhostAt(ph) \in {"name", "value"} BY <1>7 DEF GhostAt
  <2>2. T!After(T!At(c, GhostAt(ph)), tok) \in {{T!Start}, {T!At(c, "value"), T!Start}}
    BY <1>7, <2>1, ParameterThread
  <2> QED BY <1>7, <2>2 DEF InnerPhases
<1>8. CASE ph \in {"name", "value"} /\ tok.kind = "NUL" /\ ph2 = "done"
  <2>1. GhostAt(ph) \in {"name", "value"} BY <1>8 DEF GhostAt
  <2> QED BY <1>8, <2>1, ParameterThread DEF InnerPhases
<1>9. CASE <<ph, tok.kind, ph2>> \in TransportGrammar
  <2>1. CASE \/ ph = "profile" /\ tok.kind \in T!Prefixes /\ ph2 = tok.kind
             \/ ph = "-" /\ tok.kind = "-" /\ ph2 = "n2"
             \/ ph = "n2" /\ tok.kind = "number" /\ ph2 = "value"
    BY <2>1, <1>2 DEF GhostAt, T!Texts, T!Names, T!Prefixes, InnerPhases
  <2>2. ph # "offer" BY DEF InnerPhases
  <2> QED BY <2>1, <2>2, <1>9, <1>3, <1>4, <1>5, <1>6, <1>7, <1>8, TransportRules
<1> QED BY <1>1, <1>9 DEF TransportRule

-----------------------------------------------------------------------------
(* All threads together. *)

\* The threads of an offer: the client's, and ghosts.
ThreadsOf(s, m, ph) == m \in s /\ s \subseteq {m} \cup Ghosts(ph)

\* After a token of the grammar, the threads are the main one and ghosts, in step.
LEMMA ThreadsMove ==
    ASSUME NEW o \in Offers, NEW ph \in InnerPhases, NEW ph2, NEW tok, tok.value \in Nat,
           TransportRule(ph, tok, ph2, o), NEW m, IsMain(m, ph, o), Fits(o, ph, m),
           ThreadsOf(cs, m, ph)
    PROVE  /\ ph2 \in InnerPhases =>
                 ThreadsOf(T!Moved(tok), MainAfter(ph, ph2, OfferAfter(o, ph, tok)), ph2)
           /\ ph2 = "offer" => /\ T!Start \in T!Moved(tok)
                               /\ T!Moved(tok) \subseteq {T!Start} \cup Ghosts("offer")
           /\ ph2 = "done" => T!Moved(tok) = {T!Final}
<1> DEFINE m2 == MainAfter(ph, ph2, OfferAfter(o, ph, tok))
<1>0. m \in cs /\ \A t \in cs : t = m \/ \E c \in DOMAIN T!Keyword : t = T!At(c, GhostAt(ph))
  BY DEF ThreadsOf, Ghosts
<1>1. CASE ph2 \in InnerPhases
  <2>1. T!After(m, tok) = {m2} BY <1>1, MainMoves
  <2>2. m2 \in T!Moved(tok) BY <1>0, <2>1, MovedIs
  <2>3. ASSUME NEW u \in T!Moved(tok) PROVE u \in {m2} \cup Ghosts(ph2)
    <3>1. PICK t \in cs : u \in T!After(t, tok) BY MovedIs
    <3>2. CASE t = m BY <2>1, <3>1, <3>2
    <3>3. CASE t # m
      <4>1. PICK c \in DOMAIN T!Keyword : t = T!At(c, GhostAt(ph)) BY <1>0, <3>3
      <4>2. \/ T!After(t, tok) = {T!At(c, GhostAt(ph2))}
            \/ ph2 = "pair" /\ c = Ctx(o) /\ T!After(t, tok) = {T!At(c, "keyword")}
        BY <1>1, <4>1, GhostMoves
      <4>3. CASE T!After(t, tok) = {T!At(c, GhostAt(ph2))} BY <3>1, <4>3 DEF Ghosts
      <4>4. CASE ph2 = "pair" /\ c = Ctx(o) /\ T!After(t, tok) = {T!At(c, "keyword")}
        <5>1. ph = "param"
          BY <4>4, TransportRules DEF TransportRule, T!Prefixes
        <5>2. m2 = T!At(Ctx(o), "keyword")
          BY <4>4, <5>1 DEF MainAfter, OfferAfter, T!Prefixes
        <5> QED BY <3>1, <4>4, <5>2
      <4> QED BY <4>2, <4>3, <4>4
    <3> QED BY <3>2, <3>3
  <2>4. ph2 # "offer" /\ ph2 # "done" BY <1>1 DEF InnerPhases
  <2> QED BY <2>2, <2>3, <2>4 DEF ThreadsOf
<1>2. CASE ph2 = "offer"
  <2>1. T!Start \in T!Moved(tok) BY <1>0, <1>2, MainMoves, MovedIs
  <2>2. GhostAt("offer") = "value" BY DEF GhostAt
  <2>3. ASSUME NEW u \in T!Moved(tok) PROVE u \in {T!Start} \cup Ghosts("offer")
    <3>1. PICK t \in cs : u \in T!After(t, tok) BY MovedIs
    <3>2. PICK c \in DOMAIN T!Keyword : u \in {T!Start, T!At(c, "value")}
      <4>1. CASE t = m BY <1>2, <3>1, <4>1, MainMoves, PairKeyword
      <4>2. CASE t # m
        <5>1. PICK c \in DOMAIN T!Keyword : t = T!At(c, GhostAt(ph)) BY <1>0, <4>2
        <5> QED BY <1>2, <3>1, <5>1, GhostMoves
      <4> QED BY <4>1, <4>2
    <3> QED BY <2>2, <3>2 DEF Ghosts
  <2> QED BY <1>2, <2>1, <2>3 DEF InnerPhases
<1>3. CASE ph2 = "done"
  <2>1. \A t \in cs : T!After(t, tok) = {T!Final} BY <1>0, <1>3, MainMoves, GhostMoves
  <2>2. \A u : u \in T!Moved(tok) <=> u = T!Final BY <1>0, <2>1, MovedIs
  <2> QED BY <1>3, <2>2 DEF InnerPhases
<1> QED BY <1>1, <1>2, <1>3

\* Ghosts read no numbers and assign nothing.
LEMMA GhostIdle ==
    ASSUME NEW ph, NEW t \in Ghosts(ph)
    PROVE  t.at \in {"param", "name", "eq", "value"} /\ t.ctx # "none"
  BY Contexts DEF Ghosts, GhostAt, T!At

\* The number is that of the client's thread.
LEMMA NumberOf ==
    ASSUME NEW tok, NEW m, NEW ph, ThreadsOf(T!Moved(tok), m, ph)
    PROVE  T!NumberAfter(tok) = IF m.at \in {"first", "second"} THEN tok.value
                                ELSE IF m.at \in {"number", "dash"} THEN 0 ELSE number
<1>1. \A u \in T!Moved(tok) : u = m \/ u.at \in {"param", "name", "eq", "value"}
  BY GhostIdle DEF ThreadsOf
<1>2. (\E u \in T!Moved(tok) : u.at \in {"first", "second"}) <=> m.at \in {"first", "second"}
  BY <1>1 DEF ThreadsOf
<1>3. (\E u \in T!Moved(tok) : u.at \in {"number", "dash"}) <=> m.at \in {"number", "dash"}
  BY <1>1 DEF ThreadsOf
<1> QED BY <1>2, <1>3, Zenon DEF T!NumberAfter

\* And so is what is assigned.
LEMMA AssignOf ==
    ASSUME NEW tok, NEW m, NEW ph, ThreadsOf(cs, m, ph), NEW tr
    PROVE  /\ T!Assign(tr, tok).protocol =
                 IF tok.kind = "semicolon" /\ m.at \in {"RTP/AVP", "/UDP"} THEN "UDP" ELSE
                 IF tok.kind = "semicolon" /\ m.at = "/TCP" THEN "TCP" ELSE
                 IF tok.kind = "semicolon" /\ m.at = "/SCTP" THEN "SCTP" ELSE tr.protocol
           /\ T!Assign(tr, tok).mode =
                 IF tok.kind = "semicolon" /\ m = T!At("none", "unicast") THEN "unicast" ELSE
                 IF tok.kind = "semicolon" /\ m = T!At("none", "multicast") THEN "multicast"
                 ELSE tr.mode
           /\ T!Assign(tr, tok).rtp_channel =
                 IF tok.kind = "-" /\ m.at \in {"number", "first"} THEN T!Clamped(m.ctx)
                 ELSE tr.rtp_channel
           /\ T!Assign(tr, tok).rtcp_channel =
                 IF tok.kind \in T!Ends /\ m.at \in {"dash", "second"} THEN T!Clamped(m.ctx)
                 ELSE tr.rtcp_channel
<1> DEFINE protocols == {q \in {"UDP", "TCP", "SCTP"} : tok.kind = "semicolon" /\ \E t \in cs :
                         \/ q = "UDP" /\ t.at \in {"RTP/AVP", "/UDP"}
                         \/ q = "TCP" /\ t.at = "/TCP"
                         \/ q = "SCTP" /\ t.at = "/SCTP"}
           modes == {x \in {"unicast", "multicast"} : tok.kind = "semicolon"
                      /\ T!At("none", x) \in cs}
           first == {t \in cs : tok.kind = "-" /\ t.at \in {"number", "first"}}
           second == {t \in cs : tok.kind \in T!Ends /\ t.at \in {"dash", "second"}}
           pr == IF protocols = {} THEN tr.protocol ELSE CHOOSE q \in protocols : TRUE
           mo == IF modes = {} THEN tr.mode ELSE CHOOSE x \in modes : TRUE
           c1 == IF first = {} THEN tr.rtp_channel
                 ELSE T!Clamped((CHOOSE t \in first : TRUE).ctx)
           c2 == IF second = {} THEN tr.rtcp_channel
                 ELSE T!Clamped((CHOOSE t \in second : TRUE).ctx)
<1>0. /\ m \in cs
      /\ \A t \in cs : t = m \/ (t.at \in {"param", "name", "eq", "value"} /\ t.ctx # "none")
  BY GhostIdle DEF ThreadsOf
<1>1. T!Assign(tr, tok) = [protocol |-> pr, mode |-> mo, rtp_channel |-> c1, rtcp_channel |-> c2]
  BY DEF T!Assign
<1>2. pr = IF tok.kind = "semicolon" /\ m.at \in {"RTP/AVP", "/UDP"} THEN "UDP" ELSE
           IF tok.kind = "semicolon" /\ m.at = "/TCP" THEN "TCP" ELSE
           IF tok.kind = "semicolon" /\ m.at = "/SCTP" THEN "SCTP" ELSE tr.protocol
  <2>1. protocols = IF tok.kind = "semicolon" /\ m.at \in {"RTP/AVP", "/UDP"} THEN {"UDP"} ELSE
                    IF tok.kind = "semicolon" /\ m.at = "/TCP" THEN {"TCP"} ELSE
                    IF tok.kind = "semicolon" /\ m.at = "/SCTP" THEN {"SCTP"} ELSE {}
    BY <1>0
  <2> HIDE DEF protocols
  <2>2. \A x : (CHOOSE q \in {x} : TRUE) = x OBVIOUS
  <2> QED BY <2>1, <2>2
<1>3. mo = IF tok.kind = "semicolon" /\ m = T!At("none", "unicast") THEN "unicast" ELSE
           IF tok.kind = "semicolon" /\ m = T!At("none", "multicast") THEN "multicast"
           ELSE tr.mode
  <2>1. \A x : T!At("none", x) \in cs <=> m = T!At("none", x)
    BY <1>0 DEF T!At
  <2>2. T!At("none", "unicast") # T!At("none", "multicast") BY DEF T!At
  <2>3. modes = IF tok.kind = "semicolon" /\ m = T!At("none", "unicast") THEN {"unicast"} ELSE
                IF tok.kind = "semicolon"
                           /\ m = T!At("none", "multicast") THEN {"multicast"} ELSE {}
    BY <2>1, <2>2
  <2> HIDE DEF modes
  <2>4. \A x : (CHOOSE q \in {x} : TRUE) = x OBVIOUS
  <2> QED BY <2>3, <2>4
<1>4. c1 = IF tok.kind = "-" /\ m.at \in {"number", "first"} THEN T!Clamped(m.ctx)
           ELSE tr.rtp_channel
  <2>1. first = IF tok.kind = "-" /\ m.at \in {"number", "first"} THEN {m} ELSE {}
    BY <1>0
  <2> HIDE DEF first
  <2>2. \A x : (CHOOSE q \in {x} : TRUE) = x OBVIOUS
  <2> QED BY <2>1, <2>2
<1>5. c2 = IF tok.kind \in T!Ends /\ m.at \in {"dash", "second"} THEN T!Clamped(m.ctx)
           ELSE tr.rtcp_channel
  <2>1. second = IF tok.kind \in T!Ends /\ m.at \in {"dash", "second"} THEN {m} ELSE {}
    BY <1>0
  <2> HIDE DEF second
  <2>2. \A x : (CHOOSE q \in {x} : TRUE) = x OBVIOUS
  <2> QED BY <2>1, <2>2
<1> HIDE DEF pr, mo, c1, c2
<1>6. /\ T!Assign(tr, tok).protocol = pr /\ T!Assign(tr, tok).mode = mo
      /\ T!Assign(tr, tok).rtp_channel = c1 /\ T!Assign(tr, tok).rtcp_channel = c2
  BY <1>1
<1> QED BY <1>2, <1>3, <1>4, <1>5, <1>6, Zenon

-----------------------------------------------------------------------------
(* The current transport and the offer. *)

LEMMA ClampedPair ==
    ASSUME NEW o \in Offers, Ctx(o) # "multicast", number \in Nat, number <= PairLimit(o)
    PROVE  T!Clamped(Ctx(o)) = number
<1>1. PairLimit(o) = T!Limit[Ctx(o)] /\ PairLimit(o) \in Nat BY PairKeyword
<1>2. ~(number > PairLimit(o)) BY <1>1
<1> QED BY <1>1, <1>2, Zenon DEF T!Clamped

\* The relation of an offer gives what it can be in each phase.
LEMMA SameOfferFits ==
    ASSUME NEW cur, NEW o, NEW ph, NEW m, NEW n, SameOffer(cur, o, ph, m, n)
    PROVE  Fits(o, ph, m)
  BY DEF SameOffer, Fits

\* With every element inside of an offer, the server's transport and the client's offer
\* stay the same.
LEMMA OfferStep ==
    ASSUME NEW o \in Offers, NEW cur \in Offers, NEW ph \in InnerPhases, NEW ph2 \in InnerPhases,
           NEW tok, tok.value \in Nat, number \in Nat,
           TransportRule(ph, tok, ph2, o), NEW m, IsMain(m, ph, o), ThreadsOf(cs, m, ph),
           SameOffer(cur, o, ph, m, number)
    PROVE  LET o2 == OfferAfter(o, ph, tok)
               m2 == MainAfter(ph, ph2, o2)
           IN  /\ IsMain(m2, ph2, o2)
               /\ SameOffer(T!Assign(cur, tok), o2, ph2, m2, T!NumberAfter(tok))
<1> DEFINE o2 == OfferAfter(o, ph, tok)
           m2 == MainAfter(ph, ph2, o2)
           cur2 == T!Assign(cur, tok)
           n2 == T!NumberAfter(tok)
<1>0. Fits(o, ph, m) BY SameOfferFits
<1>m. IsMain(m2, ph2, o2)
  <2> HIDE DEF o2
  <2> QED BY DEF m2, MainAfter, IsMain, InnerPhases, T!Prefixes
<1>n. n2 = IF m2.at \in {"first", "second"} THEN tok.value
           ELSE IF m2.at \in {"number", "dash"} THEN 0 ELSE number
  BY <1>0, ThreadsMove, NumberOf
<1>a. /\ cur2.protocol = IF tok.kind = "semicolon" /\ m.at \in {"RTP/AVP", "/UDP"} THEN "UDP" ELSE
                         IF tok.kind = "semicolon" /\ m.at = "/TCP" THEN "TCP" ELSE
                         IF tok.kind = "semicolon" /\ m.at = "/SCTP" THEN "SCTP" ELSE cur.protocol
      /\ cur2.mode = IF tok.kind = "semicolon" /\ m = T!At("none", "unicast") THEN "unicast" ELSE
                     IF tok.kind = "semicolon" /\ m = T!At("none", "multicast") THEN "multicast"
                     ELSE cur.mode
      /\ cur2.rtp_channel = IF tok.kind = "-" /\ m.at \in {"number", "first"} THEN T!Clamped(m.ctx)
                            ELSE cur.rtp_channel
      /\ cur2.rtcp_channel = IF tok.kind \in T!Ends /\ m.at \in {"dash", "second"}
                             THEN T!Clamped(m.ctx) ELSE cur.rtcp_channel
  BY AssignOf
<1>e. T!Ends = {"NUL", "comma", "semicolon"} BY DEF T!Ends
<1>c. Ctx(o) \in DOMAIN T!Keyword BY PairKeyword
<1> HIDE DEF o2, m2, cur2, n2
<1>1. CASE ph = "param" /\ tok.kind = PairName(o) /\ tok.kind \in T!Kinds /\ ph2 = "pair"
  <2>1. o2 = o /\ m2 = T!At(Ctx(o), "keyword") /\ m2.at = "keyword"
    BY <1>1 DEF o2, m2, OfferAfter, MainAfter, T!Prefixes, T!At
  <2>2. tok.kind \in T!Names /\ Ctx(o) # "multicast" BY <1>1, PairKeyword
  <2>3. m.at = "param" BY <1>1 DEF IsMain, T!Prefixes, T!At
  <2>4. /\ cur2.protocol = cur.protocol /\ cur2.mode = cur.mode
        /\ cur2.rtp_channel = cur.rtp_channel /\ cur2.rtcp_channel = cur.rtcp_channel
    BY <1>a, <1>e, <2>2, <2>3 DEF T!Names
  <2> QED BY <1>1, <2>1, <2>2, <2>4, <1>m
         DEF SameOffer, InPair, PendingRtp, PendingRtcp, T!Prefixes, o2, m2, cur2, n2
<1>2. CASE ph = "profile" /\ tok.kind \in T!Prefixes /\ ph2 = tok.kind
  <2>1. /\ o2.protocol = IF tok.kind = "/TCP" THEN "TCP" ELSE
                         IF tok.kind = "/SCTP" THEN "SCTP" ELSE o.protocol
        /\ o2.mode = o.mode /\ o2.rtp_channel = o.rtp_channel /\ o2.rtcp_channel = o.rtcp_channel
    BY <1>2 DEF o2, OfferAfter, T!Prefixes, Offers
  <2>2. m.at = "RTP/AVP" /\ m = T!At("none", "RTP/AVP") BY <1>2 DEF IsMain, T!Prefixes, T!At
  <2>3. /\ cur2.protocol = cur.protocol /\ cur2.mode = cur.mode
        /\ cur2.rtp_channel = cur.rtp_channel /\ cur2.rtcp_channel = cur.rtcp_channel
    BY <1>2, <1>a, <1>e, <2>2 DEF T!Prefixes
  <2> QED BY <1>2, <2>1, <2>3, <1>m
         DEF SameOffer, InPair, PendingRtp, PendingRtcp, T!Prefixes, o2, m2, cur2, n2
<1>3. CASE ph \in {"profile", "/UDP"} /\ tok.kind = "semicolon" /\ ph2 = "cast"
  <2>1. o2 = o BY <1>3 DEF o2, OfferAfter
  <2>2. m.at \in {"RTP/AVP", "/UDP"} BY <1>3 DEF IsMain, T!Prefixes, T!At
  <2>3. /\ cur2.protocol = "UDP" /\ cur2.mode = cur.mode
        /\ cur2.rtp_channel = cur.rtp_channel /\ cur2.rtcp_channel = cur.rtcp_channel
    BY <1>3, <1>a, <1>e, <2>2 DEF T!At
  <2> QED BY <1>3, <2>1, <2>3, <1>m
         DEF SameOffer, InPair, PendingRtp, PendingRtcp, T!Prefixes, o2, m2, cur2, n2
<1>4. CASE ph \in {"/TCP", "/SCTP"} /\ tok.kind = "semicolon" /\ ph2 = "param"
  <2>1. o2 = o BY <1>4 DEF o2, OfferAfter
  <2>2. m.at = ph BY <1>4 DEF IsMain, T!Prefixes, T!At
  <2>3. /\ cur2.protocol = (IF ph = "/TCP" THEN "TCP" ELSE "SCTP") /\ cur2.mode = cur.mode
        /\ cur2.rtp_channel = cur.rtp_channel /\ cur2.rtcp_channel = cur.rtcp_channel
    BY <1>4, <1>a, <1>e, <2>2 DEF T!At
  <2> QED BY <1>4, <2>1, <2>3, <1>m
         DEF SameOffer, InPair, PendingRtp, PendingRtcp, T!Prefixes, o2, m2, cur2, n2
<1>5. CASE ph = "cast" /\ tok.kind \in {"unicast", "multicast"} /\ ph2 = "mode"
  <2>1. /\ o2.protocol = o.protocol /\ o2.mode = tok.kind
        /\ o2.rtp_channel = o.rtp_channel /\ o2.rtcp_channel = o.rtcp_channel
    BY <1>5, <1>0 DEF o2, OfferAfter, Offers, Fits
  <2>2. m.at = "mode" BY <1>5 DEF IsMain, T!Prefixes, T!At
  <2>3. /\ cur2.protocol = cur.protocol /\ cur2.mode = cur.mode
        /\ cur2.rtp_channel = cur.rtp_channel /\ cur2.rtcp_channel = cur.rtcp_channel
    BY <1>5, <1>a, <1>e, <2>2 DEF T!At
  <2> QED BY <1>5, <2>1, <2>3, <1>m
         DEF SameOffer, InPair, PendingRtp, PendingRtcp, T!Prefixes, o2, m2, cur2, n2
<1>6. CASE ph = "mode" /\ tok.kind = "semicolon" /\ ph2 = "param"
  <2>1. o2 = o BY <1>6 DEF o2, OfferAfter
  <2>2. /\ m = T!At("none", o.mode) /\ m.at = o.mode /\ o.mode \in {"unicast", "multicast"}
    BY <1>6 DEF IsMain, T!Prefixes, T!At, Offers
  <2>3. /\ cur2.protocol = cur.protocol /\ cur2.mode = o.mode
        /\ cur2.rtp_channel = cur.rtp_channel /\ cur2.rtcp_channel = cur.rtcp_channel
    BY <1>6, <1>a, <1>e, <2>2 DEF T!At
  <2> QED BY <1>6, <2>1, <2>3, <1>m
         DEF SameOffer, InPair, PendingRtp, PendingRtcp, T!Prefixes, o2, m2, cur2, n2
<1>7. CASE \/ ph = "param" /\ tok.kind = "word" /\ ph2 = "name"
           \/ ph = "name" /\ tok.kind = "=" /\ ph2 = "eq"
           \/ ph = "eq" /\ tok.kind \in {"text", "word", "number"} /\ ph2 = "value"
           \/ ph = "pair" /\ tok.kind = "=" /\ ph2 = "n1"
  <2>1. o2 = o BY <1>7 DEF o2, OfferAfter
  <2>2. m2.at # "second" BY <1>7, <2>1 DEF m2, MainAfter, T!At, T!Prefixes
  <2>3. /\ cur2.protocol = cur.protocol /\ cur2.mode = cur.mode
        /\ cur2.rtp_channel = cur.rtp_channel /\ cur2.rtcp_channel = cur.rtcp_channel
    BY <1>7, <1>a, <1>e
  <2> QED BY <1>7, <2>1, <2>2, <2>3, <1>m
         DEF SameOffer, InPair, PendingRtp, PendingRtcp, T!Prefixes, o2, m2, cur2, n2
<1>8. CASE ph = "n1" /\ tok.kind = "number" /\ ph2 = "-"
  <2>1. /\ o2.protocol = o.protocol /\ o2.mode = o.mode
        /\ o2.rtp_channel = tok.value /\ o2.rtcp_channel = o.rtcp_channel
    BY <1>8 DEF o2, OfferAfter, Offers
  <2>2. Ctx(o) # "multicast" BY <1>8, <1>0 DEF Fits, InPair
  <2>3. tok.value <= PairLimit(o) BY <1>8, <2>2, OfferAfterType
  <2>4. m2 = T!At(Ctx(o2), "first") /\ m2.at = "first" BY <1>8 DEF m2, MainAfter, T!At, T!Prefixes
  <2>5. n2 = tok.value BY <1>n, <2>4
  <2>6. /\ cur2.protocol = cur.protocol /\ cur2.mode = cur.mode
        /\ cur2.rtp_channel = cur.rtp_channel /\ cur2.rtcp_channel = cur.rtcp_channel
    BY <1>8, <1>a, <1>e
  <2>7. PairLimit(o2) = PairLimit(o) /\ Ctx(o2) = Ctx(o) BY <2>1 DEF PairLimit, Ctx
  <2> QED BY <1>8, <2>1, <2>2, <2>3, <2>4, <2>5, <2>6, <2>7, <1>m
         DEF SameOffer, InPair, PendingRtp, PendingRtcp, T!Prefixes, o2, m2, cur2, n2
<1>9. CASE ph = "-" /\ tok.kind = "-" /\ ph2 = "n2"
  <2>1. o2 = o BY <1>9 DEF o2, OfferAfter
  <2>2. Ctx(o) # "multicast" BY <1>9, <1>0 DEF Fits, InPair
  <2>3. m.at = "first" /\ m.ctx = Ctx(o) BY <1>9 DEF IsMain, T!Prefixes, T!At
  <2>4. number = o.rtp_channel /\ number <= PairLimit(o) BY <1>9 DEF SameOffer, PendingRtp
  <2>5. T!Clamped(m.ctx) = o.rtp_channel BY <2>2, <2>3, <2>4, ClampedPair
  <2>6. /\ cur2.protocol = cur.protocol /\ cur2.mode = cur.mode
        /\ cur2.rtp_channel = o.rtp_channel /\ cur2.rtcp_channel = cur.rtcp_channel
    BY <1>9, <1>a, <1>e, <2>3, <2>5
  <2> QED BY <1>9, <2>1, <2>2, <2>6, <1>m
         DEF SameOffer, InPair, PendingRtp, PendingRtcp, T!Prefixes, o2, m2, cur2, n2
<1>10. CASE ph = "n2" /\ tok.kind = "number" /\ ph2 = "value"
  <2>1. /\ o2.protocol = o.protocol /\ o2.mode = o.mode
        /\ o2.rtp_channel = o.rtp_channel /\ o2.rtcp_channel = tok.value
    BY <1>10 DEF o2, OfferAfter, Offers
  <2>2. Ctx(o) # "multicast" BY <1>10, <1>0 DEF Fits, InPair
  <2>3. tok.value <= PairLimit(o) BY <1>10, <2>2, OfferAfterType
  <2>4. m2 = T!At(Ctx(o2), "second") /\ m2.at = "second"
    BY <1>10 DEF m2, MainAfter, T!At, T!Prefixes
  <2>5. n2 = tok.value BY <1>n, <2>4
  <2>6. /\ cur2.protocol = cur.protocol /\ cur2.mode = cur.mode
        /\ cur2.rtp_channel = cur.rtp_channel /\ cur2.rtcp_channel = cur.rtcp_channel
    BY <1>10, <1>a, <1>e
  <2>7. PairLimit(o2) = PairLimit(o) /\ Ctx(o2) = Ctx(o) BY <2>1 DEF PairLimit, Ctx
  <2> QED BY <1>10, <2>1, <2>2, <2>3, <2>4, <2>5, <2>6, <2>7, <1>m
         DEF SameOffer, InPair, PendingRtp, PendingRtcp, T!Prefixes, o2, m2, cur2, n2
<1>11. CASE ph \in {"name", "value"} /\ tok.kind = "semicolon" /\ ph2 = "param"
  <2>1. o2 = o BY <1>11 DEF o2, OfferAfter
  <2>2. /\ m.at \in {"name", "value", "second"} /\ m.ctx = Ctx(o)
        /\ m.at = "second" <=> PendingRtcp(ph, m)
    BY <1>11 DEF IsMain, T!Prefixes, T!At, PendingRtcp
  <2>3. PendingRtcp(ph, m) => T!Clamped(m.ctx) = o.rtcp_channel
    BY <2>2, ClampedPair DEF SameOffer, InPair
  <2>4. cur2.rtcp_channel = o.rtcp_channel
    BY <1>11, <1>a, <1>e, <2>2, <2>3 DEF SameOffer
  <2>5. /\ cur2.protocol = cur.protocol /\ cur2.mode = cur.mode
        /\ cur2.rtp_channel = cur.rtp_channel
    BY <1>11, <1>a, <1>e, <2>2 DEF T!At
  <2> QED BY <1>11, <2>1, <2>4, <2>5, <1>m
         DEF SameOffer, InPair, PendingRtp, PendingRtcp, T!Prefixes, o2, m2, cur2, n2
<1>12. CASE <<ph, tok.kind, ph2>> \in TransportGrammar
  <2>1. ph # "offer" /\ ph2 # "offer" /\ ph2 # "done" BY DEF InnerPhases
  <2> QED
    BY <2>1, <1>12, <1>2, <1>3, <1>4, <1>5, <1>6, <1>7, <1>8, <1>9, <1>10, <1>11, TransportRules
<1> QED BY <1>1, <1>12 DEF TransportRule

\* Where an offer ends, it is the server's transport.
LEMMA OfferEnds ==
    ASSUME NEW o \in Offers, NEW cur \in Offers, NEW ph \in InnerPhases, NEW ph2 \in {"offer", "done"},
           NEW tok, number \in Nat, cs \subseteq T!Threads,
           TransportRule(ph, tok, ph2, o), NEW m, IsMain(m, ph, o), ThreadsOf(cs, m, ph),
           SameOffer(cur, o, ph, m, number)
    PROVE  T!Assign(cur, tok) = o
<1> DEFINE cur2 == T!Assign(cur, tok)
<1>1. ph \in {"name", "value"} /\ tok.kind \in {"comma", "NUL"}
  BY TransportRules DEF TransportRule, InnerPhases, T!Prefixes
<1>2. /\ m.at \in {"name", "value", "second"} /\ m.ctx = Ctx(o)
      /\ m.at = "second" <=> PendingRtcp(ph, m)
  BY <1>1 DEF IsMain, T!Prefixes, T!At, PendingRtcp
<1>3. PendingRtcp(ph, m) => T!Clamped(m.ctx) = o.rtcp_channel
  BY <1>2, ClampedPair DEF SameOffer, InPair
<1>4. /\ cur2.protocol = cur.protocol /\ cur2.mode = cur.mode
      /\ cur2.rtp_channel = cur.rtp_channel
      /\ cur2.rtcp_channel = IF m.at \in {"dash", "second"} THEN T!Clamped(m.ctx)
                             ELSE cur.rtcp_channel
  <2>1. tok.kind \in T!Ends BY <1>1 DEF T!Ends
  <2> QED BY <1>1, <2>1, AssignOf
<1>5. cur2 \in Offers BY AssignType
<1> HIDE DEF cur2
<1>6. cur2.rtcp_channel = o.rtcp_channel BY <1>2, <1>3, <1>4 DEF SameOffer
<1>7. cur2.protocol = o.protocol /\ cur2.mode = o.mode /\ cur2.rtp_channel = o.rtp_channel
  BY <1>1, <1>4 DEF SameOffer, PendingRtp, T!Prefixes
<1>8. cur2 = o BY <1>5, <1>6, <1>7 DEF Offers
<1> QED BY <1>8 DEF cur2

-----------------------------------------------------------------------------
(* A token of a Transport header beside the client. *)

\* The last offer of a list, changed.
LEMMA LastOffer ==
    ASSUME NEW s \in Seq(Offers), NEW o \in Offers, NEW l, l = Append(s, o)
    PROVE  /\ l[Len(l)] = o /\ Len(l) \in DOMAIN l
           /\ \A x : [l EXCEPT ![Len(l)] = x] = Append(s, x)
<1> DEFINE t == Append(s, o)
           n == Len(s) + 1
<1>1. t \in Seq(Offers) /\ Len(t) = n /\ t[n] = o /\ Len(s) \in Nat
      /\ DOMAIN t = 1..n /\ \A i \in 1..Len(s) : t[i] = s[i]
  BY AppendProperties
<1>2. ASSUME NEW x
      PROVE  [t EXCEPT ![n] = x] = Append(s, x)
  <2> DEFINE S == Offers \cup {x}
             f == [t EXCEPT ![n] = x]
             g == Append(s, x)
  <2>1. s \in Seq(S) /\ t \in Seq(S) BY <1>1
  <2>2. g \in Seq(S) /\ Len(g) = n /\ g[n] = x /\ \A i \in 1..Len(s) : g[i] = s[i]
    BY <2>1, AppendProperties
  <2>3. f \in Seq(S) /\ Len(f) = n /\ \A i \in 1..n : f[i] = IF i = n THEN x ELSE t[i]
    <3>1. n \in 1..Len(t) /\ x \in S BY <1>1
    <3> HIDE DEF t, n, S
    <3>2. Len(t) = n BY <1>1
    <3> QED BY <2>1, <3>1, <3>2, ExceptSeq
  <2>4. \A i \in 1..n : i # n => i \in 1..Len(s) BY <1>1
  <2>5. \A i \in 1..Len(f) : f[i] = g[i] BY <1>1, <2>2, <2>3, <2>4
  <2> HIDE DEF f, g, S
  <2>6. f = g BY <2>2, <2>3, <2>5, SeqEqual
  <2> QED BY <2>6 DEF f, g
<1> HIDE DEF t, n
<1> QED BY <1>1, <1>2 DEF t, n

\* What the client means changes in its last offer only.
LEMMA MeantAfter ==
    ASSUME NEW o \in Offers, NEW tok, transports \in Seq(Offers), meant = Append(transports, o),
           phase \in InnerPhases
    PROVE  TransportMeans(tok) = Append(transports, OfferAfter(o, phase, tok)) /\ Offer = o
<1>1. Offer = o BY LastOffer DEF Offer
<1>0. meant[Len(meant)] = o /\ Len(meant) \in DOMAIN meant
      /\ \A x : [meant EXCEPT ![Len(meant)] = x] = Append(transports, x)
  BY LastOffer
<1>2. CASE phase = "profile" /\ tok.kind \in {"/TCP", "/SCTP"}
  <2>1. TransportMeans(tok) =
           [meant EXCEPT ![Len(meant)].protocol = IF tok.kind = "/TCP" THEN "TCP" ELSE "SCTP"]
    BY <1>2, Zenon DEF TransportMeans
  <2>2. OfferAfter(o, phase, tok) = [o EXCEPT !.protocol = IF tok.kind = "/TCP" THEN "TCP" ELSE "SCTP"]
    BY <1>2, Zenon DEF OfferAfter
  <2>3. [meant EXCEPT ![Len(meant)].protocol = IF tok.kind = "/TCP" THEN "TCP" ELSE "SCTP"] =
          [meant EXCEPT ![Len(meant)] = [o EXCEPT !.protocol = IF tok.kind = "/TCP" THEN "TCP" ELSE "SCTP"]]
    BY <1>0
  <2>4. TransportMeans(tok) = [meant EXCEPT ![Len(meant)] = OfferAfter(o, phase, tok)]
    BY <2>1, <2>2, <2>3
  <2> QED BY <1>0, <1>1, <2>4, Zenon
<1>3. CASE phase = "cast" /\ tok.kind = "multicast"
  <2>1. TransportMeans(tok) = [meant EXCEPT ![Len(meant)].mode = "multicast"]
    BY <1>3, Zenon DEF TransportMeans
  <2>2. OfferAfter(o, phase, tok) = [o EXCEPT !.mode = "multicast"]
    BY <1>3, Zenon DEF OfferAfter
  <2>3. [meant EXCEPT ![Len(meant)].mode = "multicast"] =
          [meant EXCEPT ![Len(meant)] = [o EXCEPT !.mode = "multicast"]]
    BY <1>0
  <2>4. TransportMeans(tok) = [meant EXCEPT ![Len(meant)] = OfferAfter(o, phase, tok)]
    BY <2>1, <2>2, <2>3
  <2> QED BY <1>0, <1>1, <2>4, Zenon
<1>4. CASE phase = "n1"
  <2>1. TransportMeans(tok) = [meant EXCEPT ![Len(meant)].rtp_channel = tok.value]
    BY <1>4, Zenon DEF TransportMeans
  <2>2. OfferAfter(o, phase, tok) = [o EXCEPT !.rtp_channel = tok.value]
    BY <1>4, Zenon DEF OfferAfter
  <2>3. [meant EXCEPT ![Len(meant)].rtp_channel = tok.value] =
          [meant EXCEPT ![Len(meant)] = [o EXCEPT !.rtp_channel = tok.value]]
    BY <1>0
  <2>4. TransportMeans(tok) = [meant EXCEPT ![Len(meant)] = OfferAfter(o, phase, tok)]
    BY <2>1, <2>2, <2>3
  <2> QED BY <1>0, <1>1, <2>4, Zenon
<1>5. CASE phase = "n2"
  <2>1. TransportMeans(tok) = [meant EXCEPT ![Len(meant)].rtcp_channel = tok.value]
    BY <1>5, Zenon DEF TransportMeans
  <2>2. OfferAfter(o, phase, tok) = [o EXCEPT !.rtcp_channel = tok.value]
    BY <1>5, Zenon DEF OfferAfter
  <2>3. [meant EXCEPT ![Len(meant)].rtcp_channel = tok.value] =
          [meant EXCEPT ![Len(meant)] = [o EXCEPT !.rtcp_channel = tok.value]]
    BY <1>0
  <2>4. TransportMeans(tok) = [meant EXCEPT ![Len(meant)] = OfferAfter(o, phase, tok)]
    BY <2>1, <2>2, <2>3
  <2> QED BY <1>0, <1>1, <2>4, Zenon
<1>6. CASE /\ ~(phase = "profile" /\ tok.kind \in {"/TCP", "/SCTP"})
           /\ ~(phase = "cast" /\ tok.kind = "multicast")
           /\ phase # "n1" /\ phase # "n2"
  <2>1. phase # "offer" BY DEF InnerPhases
  <2>2. TransportMeans(tok) = meant BY <1>6, <2>1 DEF TransportMeans
  <2>3. OfferAfter(o, phase, tok) = o BY <1>6 DEF OfferAfter
  <2> QED BY <1>1, <2>2, <2>3
<1> QED BY <1>2, <1>3, <1>4, <1>5, <1>6

\* The rule that the client follows.
LEMMA FollowsRule ==
    ASSUME NEW tok, tok.kind \in T!Kinds, WriteTransport(tok), TransportRelation, phase' # "free"
    PROVE  /\ TransportRule(phase, tok, phase', Offer)
           /\ phase \in {"offer"} \cup InnerPhases
           /\ phase' \in {"offer", "done"} \cup InnerPhases
           /\ meant' = TransportMeans(tok)
           /\ T!ReadTransport(tok) /\ parser = "run"
           /\ header' = header /\ header = "Transport"
<1>1. TransportRule(phase, tok, phase', Offer) BY TransportPhaseRule DEF WriteTransport
<1>2. phase \in {"offer"} \cup InnerPhases /\ phase' \in {"offer", "done"} \cup InnerPhases
  BY <1>1, TransportRules DEF TransportRule, InnerPhases, T!Prefixes
<1>3. header = "Transport" /\ header' = header /\ meant' = TransportMeans(tok)
      /\ T!TransportNext(tok)
  BY DEF WriteTransport
<1>4. parser = "run" BY <1>2, <1>3 DEF TransportRelation, InnerPhases
<1>5. T!ReadTransport(tok) BY <1>3, <1>4 DEF T!TransportNext, T!SkipToComma
<1> QED BY <1>1, <1>2, <1>3, <1>4, <1>5

\* An offer begins.
LEMMA OfferBegins ==
    ASSUME NEW tok, tok.kind \in T!Kinds, tok.value \in Nat, WriteTransport(tok), TransportType,
           TransportRelation, phase' # "free", phase = "offer"
    PROVE  phase' = "profile" /\ parser' = "run" /\ InOffer'
<1>0. /\ TransportRule(phase, tok, phase', Offer) /\ meant' = TransportMeans(tok)
      /\ T!ReadTransport(tok) /\ BetweenOffers
  BY FollowsRule DEF TransportRelation
<1>1. tok.kind = "RTP/AVP" /\ phase' = "profile"
  BY <1>0, TransportRules DEF TransportRule, T!Prefixes
<1> DEFINE m == T!At("none", "RTP/AVP")
           o == T!NewTransport
<1>2. ThreadsOf(T!Moved(tok), m, "profile")
  <2>1. T!After(T!Start, tok) = {m} BY <1>1, ProtocolThread
  <2>2. m \in T!Moved(tok) BY <1>0, <2>1, MovedIs DEF BetweenOffers
  <2>3. GhostAt("offer") = "value" /\ GhostAt("profile") = "value" BY DEF GhostAt
  <2>4. ASSUME NEW u \in T!Moved(tok) PROVE u \in {m} \cup Ghosts("profile")
    <3>1. PICK t \in cs : u \in T!After(t, tok) BY MovedIs
    <3>2. CASE t = T!Start BY <2>1, <3>1, <3>2
    <3>3. CASE t # T!Start
      <4>1. PICK c \in DOMAIN T!Keyword : t = T!At(c, "value")
        BY <1>0, <2>3, <3>3 DEF BetweenOffers, Ghosts
      <4>2. tok.kind \in T!Texts BY <1>1 DEF T!Texts
      <4>3. T!After(t, tok) = {T!At(c, "value")} BY <4>1, <4>2, ParameterThread
      <4> QED BY <2>3, <3>1, <4>3 DEF Ghosts
    <3> QED BY <3>2, <3>3
  <2> QED BY <2>2, <2>4 DEF ThreadsOf
<1>3. Goes(tok) /\ parser = "run"
  <2>1. m \in T!Moved(tok) BY <1>2 DEF ThreadsOf
  <2>2. m # T!Final BY DEF T!Final, T!At
  <2>3. T!Moved(tok) # {} /\ T!Moved(tok) # {T!Final} BY <2>1, <2>2
  <2> QED BY <1>0, <2>3, ReadCases DEF Accepts, Stops, Drops
<1>4. T!Begins(tok) BY <1>0, <1>1 DEF T!Begins, BetweenOffers
<1>5. transports' = transports \o transport /\ transport' = <<o>> /\ cs' = T!Moved(tok)
           /\ parser' = "run"
  BY <1>3, <1>4 DEF Goes, ListAfter, CurAfter
<1>6. meant' = Append(transports', o)
  <2>1. meant' = Append(meant, o) BY <1>0, <1>1 DEF TransportMeans, T!NewTransport
  <2> QED BY <1>0, <1>5, <2>1 DEF BetweenOffers
<1>7. m \in T!Threads /\ o \in Offers BY NewTransportType DEF T!Threads, T!At
<1>8. IsMain(m, phase', o) BY <1>1 DEF IsMain, T!Prefixes
<1>9. SameOffer(o, o, phase', m, number')
  BY <1>1 DEF SameOffer, InPair, PendingRtp, PendingRtcp, T!Prefixes, T!NewTransport
<1>10. m \in cs' /\ cs' \subseteq {m} \cup Ghosts(phase') BY <1>1, <1>2, <1>5 DEF ThreadsOf
<1> HIDE DEF m, o
<1> QED BY <1>1, <1>5, <1>6, <1>7, <1>8, <1>9, <1>10 DEF InOffer

\* Nothing begins inside of an offer.
LEMMA NothingBegins ==
    ASSUME NEW o \in Offers, NEW cur \in Offers, NEW ph \in InnerPhases, NEW m, IsMain(m, ph, o),
           ThreadsOf(cs, m, ph), transport = <<cur>>, NEW tok
    PROVE  /\ ListAfter(tok) = transports
           /\ CurAfter(tok) = <<T!Assign(cur, tok)>>
<1>1. m # T!Start
  BY DEF IsMain, InnerPhases, T!Start, T!At, T!Prefixes, Offers
<1>2. T!Start \notin cs
  <2>1. T!Start \notin Ghosts(ph) BY GhostIdle DEF T!Start, T!At
  <2> QED BY <1>1, <2>1 DEF ThreadsOf
<1>3. ~T!Begins(tok) BY <1>2 DEF T!Begins
<1>4. [i \in DOMAIN transport |-> T!Assign(transport[i], tok)] = <<T!Assign(cur, tok)>>
  OBVIOUS
<1> QED BY <1>3, <1>4 DEF ListAfter, CurAfter

\* The next element of an offer, or its end.
LEMMA OfferContinues ==
    ASSUME NEW tok, tok.kind \in T!Kinds, tok.value \in Nat, WriteTransport(tok), TransportType,
           TransportRelation, phase' # "free", phase \in InnerPhases
    PROVE  /\ phase' \in InnerPhases => parser' = "run" /\ InOffer'
           /\ phase' = "offer" => parser' = "run" /\ BetweenOffers'
           /\ phase' = "done" => parser' = "end" /\ transports' = meant'
<1>0. /\ TransportRule(phase, tok, phase', Offer) /\ meant' = TransportMeans(tok)
      /\ T!ReadTransport(tok) /\ InOffer
      /\ phase' \in {"offer", "done"} \cup InnerPhases
  BY FollowsRule DEF TransportRelation, InnerPhases
<1>1. PICK m \in T!Threads, o \in Offers, cur \in Offers :
        /\ IsMain(m, phase, o)
        /\ m \in cs
        /\ cs \subseteq {m} \cup Ghosts(phase)
        /\ meant = Append(transports, o)
        /\ transport = <<cur>>
        /\ SameOffer(cur, o, phase, m, number)
  BY <1>0 DEF InOffer
<1>2. ThreadsOf(cs, m, phase) /\ Fits(o, phase, m) BY <1>1, SameOfferFits DEF ThreadsOf
<1>3. number \in Nat /\ transports \in Seq(Offers) /\ cs \subseteq T!Threads BY DEF TransportType
<1>4. Offer = o /\ meant' = Append(transports, OfferAfter(o, phase, tok))
  BY <1>0, <1>1, <1>3, MeantAfter
<1>5. ListAfter(tok) = transports /\ CurAfter(tok) = <<T!Assign(cur, tok)>>
  BY <1>1, <1>2, NothingBegins
<1>6. parser = "run" /\ (Goes(tok) \/ Accepts(tok) \/ Stops(tok) \/ Drops(tok))
  BY <1>0, ReadCases
<1>7. T!Assign(cur, tok) \in Offers BY <1>3, AssignType
<1>8. TransportRule(phase, tok, phase', o) BY <1>0, <1>4
<1>9. CASE phase' \in InnerPhases
  <2> DEFINE o2 == OfferAfter(o, phase, tok)
             m2 == MainAfter(phase, phase', o2)
             cur2 == T!Assign(cur, tok)
  <2>1. ThreadsOf(T!Moved(tok), m2, phase') BY <1>1, <1>2, <1>8, <1>9, ThreadsMove
  <2>2. IsMain(m2, phase', o2) /\ SameOffer(cur2, o2, phase', m2, T!NumberAfter(tok))
    BY <1>1, <1>2, <1>3, <1>8, <1>9, OfferStep
  <2>3. o2 \in Offers
    <3>1. phase \in {"n1", "n2"} => Ctx(o) # "multicast" BY <1>2 DEF Fits, InPair
    <3> QED BY <1>8, <3>1, OfferAfterType
  <2>4. m2 \in T!Moved(tok) /\ T!Moved(tok) \subseteq T!Threads
    BY <1>3, <2>1, MovedType DEF ThreadsOf
  <2> HIDE DEF o2, m2, cur2
  <2>5. m2 # T!Final
    BY <1>9, <2>2, <2>3 DEF IsMain, InnerPhases, T!Final, T!At, T!Prefixes, Offers
  <2>6. Goes(tok) BY <1>6, <2>4, <2>5 DEF Accepts, Stops, Drops
  <2>7. /\ cs' = T!Moved(tok) /\ number' = T!NumberAfter(tok) /\ parser' = "run"
        /\ transports' = transports /\ transport' = <<cur2>>
    BY <1>5, <1>6, <2>6 DEF Goes, cur2
  <2>8. meant' = Append(transports', o2) BY <1>4, <2>7 DEF o2
  <2>9. m2 \in cs' /\ cs' \subseteq {m2} \cup Ghosts(phase') BY <2>1, <2>7 DEF ThreadsOf
  <2>10. cur2 \in Offers /\ m2 \in T!Threads BY <1>7, <2>4 DEF cur2
  <2>11. SameOffer(cur2, o2, phase', m2, number') BY <2>2, <2>7
  <2>12. InOffer' BY <2>2, <2>3, <2>7, <2>8, <2>9, <2>10, <2>11 DEF InOffer
  <2> QED BY <1>9, <2>7, <2>12 DEF InnerPhases
<1>10. CASE phase' \in {"offer", "done"}
  <2>1. T!Assign(cur, tok) = o BY <1>1, <1>2, <1>3, <1>8, <1>10, OfferEnds
  <2>2. OfferAfter(o, phase, tok) = o
    <3>1. phase \in {"name", "value"}
      BY <1>8, <1>10, TransportRules DEF TransportRule, InnerPhases, T!Prefixes
    <3> QED BY <3>1 DEF OfferAfter
  <2>3. meant' = transports \o <<o>> BY <1>3, <1>4, <2>2
  <2>4. CASE phase' = "offer"
    <3>1. T!Start \in T!Moved(tok) /\ T!Moved(tok) \subseteq {T!Start} \cup Ghosts("offer")
      BY <1>1, <1>2, <1>8, <2>4, ThreadsMove
    <3>2. T!Start # T!Final BY DEF T!Start, T!Final, T!At
    <3>3. Goes(tok) BY <1>6, <3>1, <3>2 DEF Accepts, Stops, Drops
    <3>4. cs' = T!Moved(tok) /\ transports' = transports /\ transport' = <<o>> /\ parser' = "run"
      BY <1>5, <1>6, <2>1, <3>3 DEF Goes
    <3> QED BY <2>3, <2>4, <3>1, <3>4 DEF BetweenOffers, InnerPhases
  <2>5. CASE phase' = "done"
    <3>1. T!Moved(tok) = {T!Final} BY <1>1, <1>2, <1>8, <2>5, ThreadsMove
    <3>2. Accepts(tok) BY <1>6, <3>1 DEF Goes, Stops, Drops
    <3>3. transports' = transports \o <<o>> /\ parser' = "end" BY <1>5, <2>1, <3>2 DEF Accepts
    <3> QED BY <2>3, <2>5, <3>3 DEF InnerPhases
  <2> QED BY <1>10, <2>4, <2>5
<1> QED BY <1>0, <1>9, <1>10

\* Every token of a Transport header keeps the machine where the client is.
LEMMA TransportStepRelation ==
    ASSUME NEW tok, tok.kind \in T!Kinds, tok.value \in Nat, WriteTransport(tok), TransportType,
           TransportRelation
    PROVE  TransportRelation'
<1>1. CASE phase' = "free" BY <1>1 DEF TransportRelation, TransportPhases
<1>2. CASE phase' # "free"
  <2>1. /\ phase \in {"offer"} \cup InnerPhases
        /\ phase' \in {"offer", "done"} \cup InnerPhases
    BY <1>2, FollowsRule
  <2>2. CASE phase = "offer"
    <3>1. phase' = "profile" /\ parser' = "run" /\ InOffer' BY <1>2, <2>2, OfferBegins
    <3> QED BY <3>1 DEF TransportRelation, TransportPhases
  <2>3. CASE phase \in InnerPhases
    <3>1. /\ phase' \in InnerPhases => parser' = "run" /\ InOffer'
          /\ phase' = "offer" => parser' = "run" /\ BetweenOffers'
          /\ phase' = "done" => parser' = "end" /\ transports' = meant'
      BY <1>2, <2>3, OfferContinues
    <3>2. phase' \in TransportPhases BY <2>1 DEF TransportPhases, InnerPhases
    <3>3. phase' \in InnerPhases => phase' \notin {"offer", "done", "free"} BY DEF InnerPhases
    <3> QED BY <2>1, <3>1, <3>2, <3>3 DEF TransportRelation
  <2> QED BY <2>1, <2>2, <2>3
<1> QED BY <1>1, <1>2

-----------------------------------------------------------------------------
(* Numbers of a Range header. *)

NineDigits(n) == n < 1000000000

\* There is a denominator for every number of up to nine digits.
LEMMA DenominatorIs ==
    ASSUME NEW n \in Nat, n < 1000000000
    PROVE  LET d == R!Denominator(n)
           IN  d \in R!Denominators /\ n < d /\ (d = 10 \/ 10 * n >= d)
<1>1. \E d \in R!Denominators : n < d /\ (d = 10 \/ 10 * n >= d)
  <2>1. CASE n < 10 BY <2>1, SMT DEF R!Denominators
  <2>2. CASE n >= 10 /\ n < 100 BY <2>2, SMT DEF R!Denominators
  <2>3. CASE n >= 100 /\ n < 1000 BY <2>3, SMT DEF R!Denominators
  <2>4. CASE n >= 1000 /\ n < 10000 BY <2>4, SMT DEF R!Denominators
  <2>5. CASE n >= 10000 /\ n < 100000 BY <2>5, SMT DEF R!Denominators
  <2>6. CASE n >= 100000 /\ n < 1000000 BY <2>6, SMT DEF R!Denominators
  <2>7. CASE n >= 1000000 /\ n < 10000000 BY <2>7, SMT DEF R!Denominators
  <2>8. CASE n >= 10000000 /\ n < 100000000 BY <2>8, SMT DEF R!Denominators
  <2>9. CASE n >= 100000000 BY <2>9, SMT DEF R!Denominators
  <2> QED BY <2>1, <2>2, <2>3, <2>4, <2>5, <2>6, <2>7, <2>8, <2>9, SMT
<1> QED BY <1>1, SMT DEF R!Denominator

\* The fraction of the machine, in tenths, is the first digit.
LEMMA FractionIs ==
    ASSUME NEW tok, tok.value \in Nat, NineDigits(tok.value)
    PROVE  R!Fraction(tok) = FirstDigit(tok.value) /\ R!Fraction(tok) \in Nat
<1> DEFINE n == tok.value
           d == R!Denominator(n)
           P(x) == n = x \/ (x > 0 /\ \E k \in R!Denominators : n \div k = x)
<1> HIDE DEF n, d
<1>1. n \in Nat /\ d \in R!Denominators /\ n < d /\ (d = 10 \/ 10 * n >= d)
  BY DenominatorIs, SMT DEF n, d, NineDigits
<1>2. R!Fraction(tok) = (n * 10) \div d BY SMT DEF R!Fraction, R!Second, n, d
<1>3. FirstDigit(n) = CHOOSE x \in 0..9 : P(x) BY SMT DEF FirstDigit
<1>4. ASSUME NEW f \in 0..9, f = (n * 10) \div d, \A x \in 0..9 : P(x) <=> x = f
      PROVE  R!Fraction(tok) = FirstDigit(n) /\ R!Fraction(tok) \in Nat
  <2> HIDE DEF P
  <2>1. (CHOOSE x \in 0..9 : P(x)) = f BY <1>4, SMT
  <2> QED BY <1>2, <1>3, <1>4, <2>1, SMT
<1>5. CASE d = 10
  <2>1. \A k \in R!Denominators : n \div k = 0 BY <1>1, <1>5, SMT DEF R!Denominators
  <2>2. (n * 10) \div d = n /\ n \in 0..9 BY <1>1, <1>5, SMT
  <2>3. \A x \in 0..9 : P(x) <=> x = n BY <1>1, <2>1, SMT
  <2> QED BY <1>4, <2>2, <2>3, SMT DEF n
<1>6. CASE d # 10
  <2>1. ASSUME NEW e \in R!Denominators, d = 10 * e
        PROVE  R!Fraction(tok) = FirstDigit(n) /\ R!Fraction(tok) \in Nat
    <3>1. e <= n /\ n < 10 * e /\ e \in Nat /\ e >= 10 BY <1>1, <1>6, <2>1, SMT DEF R!Denominators
    <3>2. \A k \in R!Denominators : k # e => n \div k = 0 \/ n \div k > 9
      BY <1>1, <2>1, <3>1, SMT DEF R!Denominators
    <3>3. n \div e \in 1..9 BY <1>1, <2>1, <3>1, SMT DEF R!Denominators
    <3>4. (n * 10) \div d = n \div e BY <1>1, <2>1, <3>1, SMT DEF R!Denominators
    <3>5. \A x \in 0..9 : P(x) <=> x = n \div e BY <1>1, <3>1, <3>2, <3>3, SMT
    <3> QED BY <1>4, <3>3, <3>4, <3>5, SMT DEF n
  <2>2. \E e \in R!Denominators : d = 10 * e BY <1>1, <1>6, SMT DEF R!Denominators
  <2> QED BY <2>1, <2>2, SMT DEF n
<1> QED BY <1>1, <1>5, <1>6, SMT DEF n

-----------------------------------------------------------------------------
(* A token of a Range header. *)

\* A step of the machine that is not a refusal of now.
RangeGoes(tok) ==
    /\ at' = R!Target(tok)
    /\ side' = IF at' \in {"spec", "first_spec"} THEN "begin" ELSE
               IF at' \in {"open", "dash"} THEN "end" ELSE side
    /\ integer' = CASE at' \in {"int", "m", "s"} -> tok.value
                    [] at' = "frac" -> R!Fraction(tok)
                    [] OTHER -> integer
    /\ seconds' = R!SecondsAfter(tok)
    /\ R!Store(tok)
    /\ reader' = IF at' # "end" THEN "run"
                 ELSE IF range_supported' THEN "supported" ELSE "refused"

\* A step of the Range machine: it goes on, or it refuses now.
LEMMA RangeCases ==
    ASSUME NEW tok, R!ReadRange(tok)
    PROVE  /\ reader = "run"
           /\ \/ RangeGoes(tok)
              \/ /\ at = "now" /\ reader' = "refused" /\ integer' = integer /\ seconds' = seconds
                 /\ range' = range /\ range_supported' = range_supported
  BY Zenon DEF R!ReadRange, RangeGoes, R!SaysNow

\* Whatever the client writes, the times stay natural numbers.
LEMMA RangeStepType ==
    ASSUME RangeType, NEW tok, tok.value \in Nat, NineDigits(tok.value), R!ReadRange(tok)
    PROVE  RangeType'
<1>1. CASE RangeGoes(tok)
  <2>1. integer' \in Nat
    <3>1. R!Fraction(tok) \in Nat BY FractionIs, SMT
    <3>2. integer \in Nat BY SMT DEF RangeType
    <3>3. integer' = tok.value \/ integer' = R!Fraction(tok) \/ integer' = integer
      BY <1>1, SMT DEF RangeGoes
    <3> QED BY <3>1, <3>2, <3>3, SMT
  <2>2. seconds' \in Nat
    <3>1. seconds \in Nat /\ integer \in Nat BY SMT DEF RangeType
    <3>2. R!Added(tok) \in Nat BY <3>1, SMT DEF R!Added, R!Second
    <3>3. seconds' = 0 \/ seconds' = seconds + R!Added(tok)
      BY <1>1, SMT DEF RangeGoes, R!SecondsAfter
    <3> QED BY <3>1, <3>2, <3>3, SMT
  <2>3. range_supported' \in BOOLEAN BY <1>1, SMT DEF RangeGoes, R!Store
  <2>4. range' = [begin_time |-> range'.begin_time, end_time |-> range'.end_time,
                  playback_time |-> range'.playback_time]
    BY <1>1, SMT DEF RangeGoes, R!Store
  <2>5. reader' \in {"run", "supported", "refused"} BY <1>1, SMT DEF RangeGoes
  <2> QED BY <2>1, <2>2, <2>3, <2>4, <2>5, SMT DEF RangeType
<1>2. CASE reader' = "refused" /\ integer' = integer /\ seconds' = seconds
           /\ range' = range /\ range_supported' = range_supported
  BY <1>2, SMT DEF RangeType
<1> QED BY <1>1, <1>2, RangeCases, SMT

\* The rules of the grammar of a range.
LEMMA RangeRules ==
    ASSUME NEW ph, NEW k, NEW q, <<ph, k, q>> \in RangeGrammar
    PROVE  \/ ph = "unit" /\ k = "npt" /\ q = "="
           \/ ph = "=" /\ k = "=" /\ q = "bh"
           \/ ph = "bh" /\ k = "number" /\ q = "bn"
           \/ ph = "eh" /\ k = "number" /\ q = "en"
           \/ ph = "bn" /\ k = ":" /\ q = "b:"
           \/ ph = "en" /\ k = ":" /\ q = "e:"
           \/ ph = "b:" /\ k = "number" /\ q = "bm"
           \/ ph = "e:" /\ k = "number" /\ q = "em"
           \/ ph = "bm" /\ k = ":" /\ q = "b::"
           \/ ph = "em" /\ k = ":" /\ q = "e::"
           \/ ph = "b::" /\ k = "number" /\ q = "bs"
           \/ ph = "e::" /\ k = "number" /\ q = "es"
           \/ ph \in {"bn", "bs"} /\ k = "." /\ q = "b."
           \/ ph \in {"en", "es"} /\ k = "." /\ q = "e."
           \/ ph = "b." /\ k = "number" /\ q = "bf"
           \/ ph = "e." /\ k = "number" /\ q = "ef"
           \/ ph \in {"bn", "bs", "bf"} /\ k = "-" /\ q = "eh"
           \/ ph = "bh" /\ k = "-" /\ q = "eh"
           \/ ph \in {"en", "es", "ef"} /\ k = "NUL" /\ q = "done"
           \/ ph = "eh" /\ k = "NUL" /\ q = "done"
  BY DEF RangeGrammar, TimeGrammar

\* The client leaves the grammar or follows one of its rules.
LEMMA RangePhaseRule ==
    ASSUME NEW tok, RangePhase(tok) # "free"
    PROVE  /\ <<phase, tok.kind, RangePhase(tok)>> \in RangeGrammar
           /\ phase \in {"b:", "b::", "e:", "e::"} => ~(tok.value >= 60)
           /\ ~(phase = "eh" /\ tok.kind = "NUL" /\ last = "bh")
<1> DEFINE c == CHOOSE q \in RangeGrammar : q[1] = phase /\ q[2] = tok.kind
<1>1. /\ ~(phase \in {"b:", "b::", "e:", "e::"} /\ tok.value >= 60)
      /\ ~(phase = "eh" /\ tok.kind = "NUL" /\ last = "bh")
  BY SMT DEF RangePhase
<1>2. \E q \in RangeGrammar : q[1] = phase /\ q[2] = tok.kind
  BY <1>1, SMT DEF RangePhase
<1>3. RangePhase(tok) = c[3] BY <1>1, <1>2, SMT DEF RangePhase
<1>4. c \in RangeGrammar /\ c[1] = phase /\ c[2] = tok.kind BY <1>2, SMT
<1> HIDE DEF c
<1>5. \A q \in RangeGrammar : q = <<q[1], q[2], q[3]>> BY SMT DEF RangeGrammar, TimeGrammar
<1>6. <<phase, tok.kind, RangePhase(tok)>> \in RangeGrammar BY <1>3, <1>4, <1>5, SMT
<1> QED BY <1>1, <1>6, SMT

\* With every element of a range, the machine is where the client is and has read the
\* time that the client has written.
LEMMA RangeStep ==
    ASSUME NEW tok, tok.value \in Nat, NineDigits(tok.value), WriteRange(tok), RangeType, RangeRelation,
           phase' # "free"
    PROVE  /\ phase' \in {"=", "done"} \cup BeginPhases \cup EndPhases
           /\ meant' = [begin_time |-> meant'.begin_time, end_time |-> meant'.end_time,
                        playback_time |-> meant'.playback_time]
           /\ phase' = "done" => reader' = "supported" /\ range' = meant'
           /\ phase' # "done" => InRange'
<1>0. /\ <<phase, tok.kind, phase'>> \in RangeGrammar
      /\ phase \in {"b:", "b::", "e:", "e::"} => tok.value < 60
      /\ ~(phase = "eh" /\ tok.kind = "NUL" /\ last = "bh")
  BY RangePhaseRule, SMT DEF WriteRange
<1>1. /\ header = "Range" /\ meant' = RangeMeans(tok) /\ R!ReadRange(tok)
      /\ last' = IF tok.kind = "number" THEN "number" ELSE IF phase = "bh" THEN "bh" ELSE "none"
  BY SMT DEF WriteRange
<1>2. phase \in {"unit", "="} \cup BeginPhases \cup EndPhases
  BY <1>0, RangeRules, SMT DEF BeginPhases, EndPhases
<1>3. /\ InRange
      /\ meant = [begin_time |-> meant.begin_time, end_time |-> meant.end_time,
                  playback_time |-> meant.playback_time]
  BY <1>1, <1>2, SMT DEF RangeRelation, BeginPhases, EndPhases
<1>4. /\ integer \in Nat /\ seconds \in Nat
      /\ range = [begin_time |-> range.begin_time, end_time |-> range.end_time,
                  playback_time |-> range.playback_time]
  BY SMT DEF RangeType
<1>5. IsAt(phase) BY <1>3, SMT DEF InRange
<1>6. RangeGoes(tok)
  <2>1. at # "now" BY <1>2, <1>5, SMT DEF IsAt, BeginPhases, EndPhases
  <2> QED BY <1>1, <2>1, RangeCases, SMT
<1>7. R!Fraction(tok) = FirstDigit(tok.value) /\ R!Fraction(tok) \in Nat BY FractionIs, SMT
<1>8. /\ seconds' = IF R!EndsBegin(tok) \/ R!EndsEnd(tok) THEN 0 ELSE seconds + R!Added(tok)
      /\ range'.begin_time = IF R!EndsBegin(tok) THEN R!Whole ELSE range.begin_time
      /\ range'.end_time = IF R!EndsEnd(tok) THEN R!Whole ELSE range.end_time
      /\ at # "utc" => range'.playback_time = range.playback_time
      /\ range' = [begin_time |-> range'.begin_time, end_time |-> range'.end_time,
                   playback_time |-> range'.playback_time]
      /\ R!EndsEnd(tok) \/ (at = "dash" /\ R!EndsRange(tok)) => range_supported' = TRUE
  <2>1. seconds' = R!SecondsAfter(tok) /\ R!Store(tok) BY <1>6, SMT DEF RangeGoes
  <2>2. seconds' = IF R!EndsBegin(tok) \/ R!EndsEnd(tok) THEN 0 ELSE seconds + R!Added(tok)
    BY <2>1, SMT DEF R!SecondsAfter
  <2>3. /\ range'.begin_time = IF R!EndsBegin(tok) THEN R!Whole ELSE range.begin_time
        /\ range'.end_time = IF R!EndsEnd(tok) THEN R!Whole ELSE range.end_time
        /\ at # "utc" => range'.playback_time = range.playback_time
        /\ range' = [begin_time |-> range'.begin_time, end_time |-> range'.end_time,
                     playback_time |-> range'.playback_time]
    BY <2>1, SMT DEF R!Store
  <2>4. range_supported' = (range_supported \/ R!EndsEnd(tok) \/ (at = "dash" /\ R!EndsRange(tok)))
    BY <2>1, Zenon DEF R!Store
  <2> QED BY <2>2, <2>3, <2>4, Zenon
<1>s. phase \in BeginPhases => side = "begin" BY <1>3, SMT DEF InRange
<1>t. phase \in EndPhases => side = "end" BY <1>3, SMT DEF InRange
<1>9. CASE phase = "unit" /\ tok.kind = "npt" /\ phase' = "="
  <2>1. at = "start" BY <1>5, <1>9, SMT DEF IsAt
  <2>2. at' = "first_npt"
    BY <1>0, <1>6, <1>9, <2>1, SMT
    DEF RangeGoes, R!Target, R!FirstUnit, R!Time, R!Spec1, R!TextTarget, R!Letters, BeginPhases,
        EndPhases
  <2>3. side' = side /\ integer' = integer /\ reader' = "run"
    BY <1>6, <2>2, SMT DEF RangeGoes
  <2>4. ~R!EndsBegin(tok) /\ ~R!EndsEnd(tok)
    BY <1>9, <1>s, <1>t, <2>1, SMT
    DEF R!EndsBegin, R!EndsEnd, R!EndsRange, R!Letters, BeginPhases, EndPhases
  <2>5. seconds' = seconds + 0
    BY <1>4, <1>8, <1>9, <2>1, <2>4, SMT DEF R!Added, R!Second
  <2>6. range'.begin_time = range.begin_time /\ range'.end_time = range.end_time
        /\ range'.playback_time = range.playback_time
    BY <1>8, <2>1, <2>4, SMT
  <2>8. RangeMeans(tok) = [begin_time |-> RangeMeans(tok).begin_time, end_time |-> RangeMeans(tok).end_time,
                           playback_time |-> RangeMeans(tok).playback_time]
        /\ RangeMeans(tok).playback_time = meant.playback_time
    BY <1>3, <1>9, SMT DEF RangeMeans
  <2> QED
    BY <1>1, <1>3, <1>4, <1>7, <1>8, <1>9, <2>2, <2>3, <2>5, <2>6, <2>8, SMT
    DEF InRange, IsAt, SoFar, RangeMeans, Plus, Weight, BeginPhases, EndPhases, R!Second, R!Unset,
        R!defaultrange
<1>10. CASE phase = "=" /\ tok.kind = "=" /\ phase' = "bh"
  <2>1. at = "first_npt" BY <1>5, <1>10, SMT DEF IsAt
  <2>2. at' = "first_spec"
    BY <1>0, <1>6, <1>10, <2>1, SMT
    DEF RangeGoes, R!Target, R!FirstUnit, R!Time, R!Spec1, R!TextTarget, R!Letters, BeginPhases,
        EndPhases
  <2>3. side' = "begin" /\ integer' = integer /\ reader' = "run"
    BY <1>6, <2>2, SMT DEF RangeGoes
  <2>4. ~R!EndsBegin(tok) /\ ~R!EndsEnd(tok)
    BY <1>10, <1>s, <1>t, <2>1, SMT
    DEF R!EndsBegin, R!EndsEnd, R!EndsRange, R!Letters, BeginPhases, EndPhases
  <2>5. seconds' = seconds + 0
    BY <1>4, <1>8, <1>10, <2>1, <2>4, SMT DEF R!Added, R!Second
  <2>6. range'.begin_time = range.begin_time /\ range'.end_time = range.end_time
        /\ range'.playback_time = range.playback_time
    BY <1>8, <2>1, <2>4, SMT
  <2>8. RangeMeans(tok) = [begin_time |-> RangeMeans(tok).begin_time, end_time |-> RangeMeans(tok).end_time,
                           playback_time |-> RangeMeans(tok).playback_time]
        /\ RangeMeans(tok).playback_time = meant.playback_time
    BY <1>3, <1>10, SMT DEF RangeMeans
  <2> QED
    BY <1>1, <1>3, <1>4, <1>7, <1>8, <1>10, <2>2, <2>3, <2>5, <2>6, <2>8, SMT
    DEF InRange, IsAt, SoFar, RangeMeans, Plus, Weight, BeginPhases, EndPhases, R!Second, R!Unset,
        R!defaultrange
<1>11. CASE phase \in {"bh", "eh"} /\ tok.kind = "number"
           /\ phase' = IF phase = "bh" THEN "bn" ELSE "en"
  <2>1. at \in {"first_spec", "open", "dash"} BY <1>5, <1>11, SMT DEF IsAt
  <2>2. at' = "int"
    BY <1>0, <1>6, <1>11, <2>1, SMT
    DEF RangeGoes, R!Target, R!FirstUnit, R!Time, R!Spec1, R!TextTarget, R!Letters, BeginPhases,
        EndPhases
  <2>3. side' = side /\ integer' = tok.value /\ reader' = "run"
    BY <1>6, <2>2, SMT DEF RangeGoes
  <2>4. ~R!EndsBegin(tok) /\ ~R!EndsEnd(tok)
    BY <1>11, <1>s, <1>t, <2>1, SMT
    DEF R!EndsBegin, R!EndsEnd, R!EndsRange, R!Letters, BeginPhases, EndPhases
  <2>5. seconds' = seconds + 0
    BY <1>4, <1>8, <1>11, <2>1, <2>4, SMT DEF R!Added, R!Second
  <2>6. range'.begin_time = range.begin_time /\ range'.end_time = range.end_time
        /\ range'.playback_time = range.playback_time
    BY <1>8, <2>1, <2>4, SMT
  <2>8. RangeMeans(tok) = [begin_time |-> RangeMeans(tok).begin_time, end_time |-> RangeMeans(tok).end_time,
                           playback_time |-> RangeMeans(tok).playback_time]
        /\ RangeMeans(tok).playback_time = meant.playback_time
    BY <1>3, <1>11, SMT DEF RangeMeans
  <2> QED
    BY <1>1, <1>3, <1>4, <1>7, <1>8, <1>11, <2>2, <2>3, <2>5, <2>6, <2>8, SMT
    DEF InRange, IsAt, SoFar, RangeMeans, Plus, Weight, BeginPhases, EndPhases, R!Second, R!Unset,
        R!defaultrange
<1>12. CASE phase \in {"bn", "en"} /\ tok.kind = ":" /\ phase' = IF phase = "bn" THEN "b:" ELSE "e:"
  <2>1. at = "int" BY <1>5, <1>12, SMT DEF IsAt
  <2>2. at' = "m0"
    BY <1>0, <1>6, <1>12, <2>1, <1>s, <1>t, SMT
    DEF RangeGoes, R!Target, R!FirstUnit, R!Time, R!Spec1, R!TextTarget, R!Letters, BeginPhases,
        EndPhases
  <2>3. side' = side /\ integer' = integer /\ reader' = "run"
    BY <1>6, <2>2, SMT DEF RangeGoes
  <2>4. ~R!EndsBegin(tok) /\ ~R!EndsEnd(tok)
    BY <1>12, <1>s, <1>t, <2>1, SMT
    DEF R!EndsBegin, R!EndsEnd, R!EndsRange, R!Letters, BeginPhases, EndPhases
  <2>5. seconds' = seconds + integer * 36000
    BY <1>4, <1>8, <1>12, <2>1, <2>4, SMT DEF R!Added, R!Second
  <2>6. range'.begin_time = range.begin_time /\ range'.end_time = range.end_time
        /\ range'.playback_time = range.playback_time
    BY <1>8, <2>1, <2>4, SMT
  <2>8. RangeMeans(tok) = [begin_time |-> RangeMeans(tok).begin_time, end_time |-> RangeMeans(tok).end_time,
                           playback_time |-> RangeMeans(tok).playback_time]
        /\ RangeMeans(tok).playback_time = meant.playback_time
    BY <1>3, <1>12, SMT DEF RangeMeans
  <2>9. \A x, y \in Nat : x + y * 10 # R!Unset /\ (x + y * 10) * 3600 = x * 3600 + y * 36000
             /\ x # R!Unset
    BY SMT DEF R!Unset
  <2>10. CASE phase \in {"bn"}
    <3>1. meant.begin_time = SoFar(phase) BY <1>3, <2>10, SMT DEF InRange, BeginPhases, EndPhases
    <3>2. SoFar(phase) \in Nat /\ SoFar(phase) = integer * 10
      BY <1>3, <1>4, <2>10, SMT DEF SoFar, InRange, R!Second
    <3>3. Plus(meant.begin_time, tok) = integer * 36000
      BY <1>4, <1>12, <2>10, <3>1, <3>2, SMT DEF Plus, Weight, R!Unset
    <3>4. RangeMeans(tok) = [meant EXCEPT !.begin_time = Plus(meant.begin_time, tok)]
      BY <1>12, <2>10, SMT DEF RangeMeans
    <3>5. RangeMeans(tok).begin_time = integer * 36000
          /\ RangeMeans(tok).end_time = meant.end_time
      BY <1>3, <3>3, <3>4, SMT
    <3>6. SoFar(phase)' = integer * 36000
      BY <1>3, <1>4, <1>12, <2>10, <2>3, <2>5, SMT DEF SoFar, InRange, R!Second
    <3> HIDE DEF RangeMeans
    <3> QED
      BY <1>1, <1>3, <1>8, <1>12, <2>2, <2>3, <2>6, <2>8, <2>10, <3>5, <3>6, SMT
      DEF InRange, IsAt, BeginPhases, EndPhases
  <2>11. CASE phase \in {"en"}
    <3>1. meant.end_time = SoFar(phase) BY <1>3, <2>11, SMT DEF InRange, BeginPhases, EndPhases
    <3>2. SoFar(phase) \in Nat /\ SoFar(phase) = integer * 10
      BY <1>3, <1>4, <2>11, SMT DEF SoFar, InRange, R!Second
    <3>3. Plus(meant.end_time, tok) = integer * 36000
      BY <1>4, <1>12, <2>11, <3>1, <3>2, SMT DEF Plus, Weight, R!Unset
    <3>4. RangeMeans(tok) = [meant EXCEPT !.end_time = Plus(meant.end_time, tok)]
      BY <1>12, <2>11, SMT DEF RangeMeans
    <3>5. RangeMeans(tok).end_time = integer * 36000
          /\ RangeMeans(tok).begin_time = meant.begin_time
      BY <1>3, <3>3, <3>4, SMT
    <3>6. SoFar(phase)' = integer * 36000
      BY <1>3, <1>4, <1>12, <2>11, <2>3, <2>5, SMT DEF SoFar, InRange, R!Second
    <3> HIDE DEF RangeMeans
    <3> QED
      BY <1>1, <1>3, <1>8, <1>12, <2>2, <2>3, <2>6, <2>8, <2>11, <3>5, <3>6, SMT
      DEF InRange, IsAt, BeginPhases, EndPhases
  <2> QED BY <1>12, <2>10, <2>11, SMT
<1>13. CASE phase \in {"b:", "e:"} /\ tok.kind = "number"
           /\ phase' = IF phase = "b:" THEN "bm" ELSE "em"
  <2>1. at = "m0" BY <1>5, <1>13, SMT DEF IsAt
  <2>2. at' = "m"
    BY <1>0, <1>6, <1>13, <2>1, SMT
    DEF RangeGoes, R!Target, R!FirstUnit, R!Time, R!Spec1, R!TextTarget, R!Letters, BeginPhases,
        EndPhases
  <2>3. side' = side /\ integer' = tok.value /\ reader' = "run"
    BY <1>6, <2>2, SMT DEF RangeGoes
  <2>4. ~R!EndsBegin(tok) /\ ~R!EndsEnd(tok)
    BY <1>13, <1>s, <1>t, <2>1, SMT
    DEF R!EndsBegin, R!EndsEnd, R!EndsRange, R!Letters, BeginPhases, EndPhases
  <2>5. seconds' = seconds + 0
    BY <1>4, <1>8, <1>13, <2>1, <2>4, SMT DEF R!Added, R!Second
  <2>6. range'.begin_time = range.begin_time /\ range'.end_time = range.end_time
        /\ range'.playback_time = range.playback_time
    BY <1>8, <2>1, <2>4, SMT
  <2>8. RangeMeans(tok) = [begin_time |-> RangeMeans(tok).begin_time, end_time |-> RangeMeans(tok).end_time,
                           playback_time |-> RangeMeans(tok).playback_time]
        /\ RangeMeans(tok).playback_time = meant.playback_time
    BY <1>3, <1>13, SMT DEF RangeMeans
  <2>9. \A x, y \in Nat : x + y * 10 # R!Unset /\ (x + y * 10) * 3600 = x * 3600 + y * 36000
             /\ x # R!Unset
    BY SMT DEF R!Unset
  <2>10. CASE phase \in {"b:"}
    <3>1. meant.begin_time = SoFar(phase) BY <1>3, <2>10, SMT DEF InRange, BeginPhases, EndPhases
    <3>2. SoFar(phase) \in Nat /\ SoFar(phase) = seconds
      BY <1>3, <1>4, <2>10, SMT DEF SoFar, InRange, R!Second
    <3>3. Plus(meant.begin_time, tok) = seconds + tok.value * 600
      BY <1>4, <1>13, <2>10, <3>1, <3>2, SMT DEF Plus, Weight, R!Unset
    <3>4. RangeMeans(tok) = [meant EXCEPT !.begin_time = Plus(meant.begin_time, tok)]
      BY <1>13, <2>10, SMT DEF RangeMeans
    <3>5. RangeMeans(tok).begin_time = seconds + tok.value * 600
          /\ RangeMeans(tok).end_time = meant.end_time
      BY <1>3, <3>3, <3>4, SMT
    <3>6. SoFar(phase)' = seconds + tok.value * 600
      BY <1>3, <1>4, <1>13, <2>10, <2>3, <2>5, SMT DEF SoFar, InRange, R!Second
    <3> HIDE DEF RangeMeans
    <3> QED
      BY <1>1, <1>3, <1>8, <1>13, <2>2, <2>3, <2>6, <2>8, <2>10, <3>5, <3>6, SMT
      DEF InRange, IsAt, BeginPhases, EndPhases
  <2>11. CASE phase \in {"e:"}
    <3>1. meant.end_time = SoFar(phase) BY <1>3, <2>11, SMT DEF InRange, BeginPhases, EndPhases
    <3>2. SoFar(phase) \in Nat /\ SoFar(phase) = seconds
      BY <1>3, <1>4, <2>11, SMT DEF SoFar, InRange, R!Second
    <3>3. Plus(meant.end_time, tok) = seconds + tok.value * 600
      BY <1>4, <1>13, <2>11, <3>1, <3>2, SMT DEF Plus, Weight, R!Unset
    <3>4. RangeMeans(tok) = [meant EXCEPT !.end_time = Plus(meant.end_time, tok)]
      BY <1>13, <2>11, SMT DEF RangeMeans
    <3>5. RangeMeans(tok).end_time = seconds + tok.value * 600
          /\ RangeMeans(tok).begin_time = meant.begin_time
      BY <1>3, <3>3, <3>4, SMT
    <3>6. SoFar(phase)' = seconds + tok.value * 600
      BY <1>3, <1>4, <1>13, <2>11, <2>3, <2>5, SMT DEF SoFar, InRange, R!Second
    <3> HIDE DEF RangeMeans
    <3> QED
      BY <1>1, <1>3, <1>8, <1>13, <2>2, <2>3, <2>6, <2>8, <2>11, <3>5, <3>6, SMT
      DEF InRange, IsAt, BeginPhases, EndPhases
  <2> QED BY <1>13, <2>10, <2>11, SMT
<1>14. CASE phase \in {"bm", "em"} /\ tok.kind = ":"
           /\ phase' = IF phase = "bm" THEN "b::" ELSE "e::"
  <2>1. at = "m" BY <1>5, <1>14, SMT DEF IsAt
  <2>2. at' = "s0"
    BY <1>0, <1>6, <1>14, <2>1, SMT
    DEF RangeGoes, R!Target, R!FirstUnit, R!Time, R!Spec1, R!TextTarget, R!Letters, BeginPhases,
        EndPhases
  <2>3. side' = side /\ integer' = integer /\ reader' = "run"
    BY <1>6, <2>2, SMT DEF RangeGoes
  <2>4. ~R!EndsBegin(tok) /\ ~R!EndsEnd(tok)
    BY <1>14, <1>s, <1>t, <2>1, SMT
    DEF R!EndsBegin, R!EndsEnd, R!EndsRange, R!Letters, BeginPhases, EndPhases
  <2>5. seconds' = seconds + integer * 600
    BY <1>4, <1>8, <1>14, <2>1, <2>4, SMT DEF R!Added, R!Second
  <2>6. range'.begin_time = range.begin_time /\ range'.end_time = range.end_time
        /\ range'.playback_time = range.playback_time
    BY <1>8, <2>1, <2>4, SMT
  <2>8. RangeMeans(tok) = [begin_time |-> RangeMeans(tok).begin_time, end_time |-> RangeMeans(tok).end_time,
                           playback_time |-> RangeMeans(tok).playback_time]
        /\ RangeMeans(tok).playback_time = meant.playback_time
    BY <1>3, <1>14, SMT DEF RangeMeans
  <2>10. CASE phase \in {"bm"}
    <3>1. meant.begin_time = SoFar(phase) BY <1>3, <2>10, SMT DEF InRange, BeginPhases, EndPhases
    <3>2. SoFar(phase) \in Nat /\ SoFar(phase) = seconds + integer * 600
      BY <1>4, <2>10, SMT DEF SoFar, R!Second
    <3>3. Plus(meant.begin_time, tok) = meant.begin_time
      BY <1>14, <2>10, <3>1, <3>2, SMT DEF Plus, Weight, R!Unset
    <3>4. RangeMeans(tok) = meant \/ RangeMeans(tok) = [meant EXCEPT !.begin_time = Plus(meant.begin_time, tok)]
      BY <1>14, <2>10, SMT DEF RangeMeans
    <3>5. RangeMeans(tok).begin_time = seconds + integer * 600
               /\ RangeMeans(tok).end_time = meant.end_time
      BY <1>3, <3>1, <3>2, <3>3, <3>4, SMT
    <3>6. SoFar(phase)' = seconds + integer * 600
      BY <1>4, <1>14, <2>10, <2>3, <2>5, SMT DEF SoFar
    <3> HIDE DEF RangeMeans
    <3> QED
      BY <1>1, <1>3, <1>8, <1>14, <2>2, <2>3, <2>6, <2>8, <2>10, <3>5, <3>6, SMT
      DEF InRange, IsAt, BeginPhases, EndPhases
  <2>11. CASE phase \in {"em"}
    <3>1. meant.end_time = SoFar(phase) BY <1>3, <2>11, SMT DEF InRange, BeginPhases, EndPhases
    <3>2. SoFar(phase) \in Nat /\ SoFar(phase) = seconds + integer * 600
      BY <1>4, <2>11, SMT DEF SoFar, R!Second
    <3>3. Plus(meant.end_time, tok) = meant.end_time
      BY <1>14, <2>11, <3>1, <3>2, SMT DEF Plus, Weight, R!Unset
    <3>4. RangeMeans(tok) = meant \/ RangeMeans(tok) = [meant EXCEPT !.end_time = Plus(meant.end_time, tok)]
      BY <1>14, <2>11, SMT DEF RangeMeans
    <3>5. RangeMeans(tok).end_time = seconds + integer * 600
               /\ RangeMeans(tok).begin_time = meant.begin_time
      BY <1>3, <3>1, <3>2, <3>3, <3>4, SMT
    <3>6. SoFar(phase)' = seconds + integer * 600
      BY <1>4, <1>14, <2>11, <2>3, <2>5, SMT DEF SoFar
    <3> HIDE DEF RangeMeans
    <3> QED
      BY <1>1, <1>3, <1>8, <1>14, <2>2, <2>3, <2>6, <2>8, <2>11, <3>5, <3>6, SMT
      DEF InRange, IsAt, BeginPhases, EndPhases
  <2> QED BY <1>14, <2>10, <2>11, SMT
<1>15. CASE phase \in {"b::", "e::"} /\ tok.kind = "number"
           /\ phase' = IF phase = "b::" THEN "bs" ELSE "es"
  <2>1. at = "s0" BY <1>5, <1>15, SMT DEF IsAt
  <2>2. at' = "s"
    BY <1>0, <1>6, <1>15, <2>1, SMT
    DEF RangeGoes, R!Target, R!FirstUnit, R!Time, R!Spec1, R!TextTarget, R!Letters, BeginPhases,
        EndPhases
  <2>3. side' = side /\ integer' = tok.value /\ reader' = "run"
    BY <1>6, <2>2, SMT DEF RangeGoes
  <2>4. ~R!EndsBegin(tok) /\ ~R!EndsEnd(tok)
    BY <1>15, <1>s, <1>t, <2>1, SMT
    DEF R!EndsBegin, R!EndsEnd, R!EndsRange, R!Letters, BeginPhases, EndPhases
  <2>5. seconds' = seconds + 0
    BY <1>4, <1>8, <1>15, <2>1, <2>4, SMT DEF R!Added, R!Second
  <2>6. range'.begin_time = range.begin_time /\ range'.end_time = range.end_time
        /\ range'.playback_time = range.playback_time
    BY <1>8, <2>1, <2>4, SMT
  <2>8. RangeMeans(tok) = [begin_time |-> RangeMeans(tok).begin_time, end_time |-> RangeMeans(tok).end_time,
                           playback_time |-> RangeMeans(tok).playback_time]
        /\ RangeMeans(tok).playback_time = meant.playback_time
    BY <1>3, <1>15, SMT DEF RangeMeans
  <2> QED
    BY <1>1, <1>3, <1>4, <1>7, <1>8, <1>15, <2>2, <2>3, <2>5, <2>6, <2>8, SMT
    DEF InRange, IsAt, SoFar, RangeMeans, Plus, Weight, BeginPhases, EndPhases, R!Second, R!Unset,
        R!defaultrange
<1>16. CASE phase \in {"bn", "bs", "en", "es"} /\ tok.kind = "."
           /\ phase' = IF phase \in {"bn", "bs"} THEN "b." ELSE "e."
  <2>1. at \in {"int", "s"} BY <1>5, <1>16, SMT DEF IsAt
  <2>2. at' = "frac0"
    BY <1>0, <1>6, <1>16, <2>1, <1>s, <1>t, SMT
    DEF RangeGoes, R!Target, R!FirstUnit, R!Time, R!Spec1, R!TextTarget, R!Letters, BeginPhases,
        EndPhases
  <2>3. side' = side /\ integer' = integer /\ reader' = "run"
    BY <1>6, <2>2, SMT DEF RangeGoes
  <2>4. ~R!EndsBegin(tok) /\ ~R!EndsEnd(tok)
    BY <1>16, <1>s, <1>t, <2>1, SMT
    DEF R!EndsBegin, R!EndsEnd, R!EndsRange, R!Letters, BeginPhases, EndPhases
  <2>5. seconds' = seconds + integer * 10
    BY <1>4, <1>8, <1>16, <2>1, <2>4, SMT DEF R!Added, R!Second
  <2>6. range'.begin_time = range.begin_time /\ range'.end_time = range.end_time
        /\ range'.playback_time = range.playback_time
    BY <1>8, <2>1, <2>4, SMT
  <2>8. RangeMeans(tok) = [begin_time |-> RangeMeans(tok).begin_time, end_time |-> RangeMeans(tok).end_time,
                           playback_time |-> RangeMeans(tok).playback_time]
        /\ RangeMeans(tok).playback_time = meant.playback_time
    BY <1>3, <1>16, SMT DEF RangeMeans
  <2>10. CASE phase \in {"bn", "bs"}
    <3>1. meant.begin_time = SoFar(phase) BY <1>3, <2>10, SMT DEF InRange, BeginPhases, EndPhases
    <3>2. SoFar(phase) \in Nat /\ SoFar(phase) = seconds + integer * 10
      BY <1>4, <2>10, SMT DEF SoFar, R!Second
    <3>3. Plus(meant.begin_time, tok) = meant.begin_time
      BY <1>16, <2>10, <3>1, <3>2, SMT DEF Plus, Weight, R!Unset
    <3>4. RangeMeans(tok) = meant \/ RangeMeans(tok) = [meant EXCEPT !.begin_time = Plus(meant.begin_time, tok)]
      BY <1>16, <2>10, SMT DEF RangeMeans
    <3>5. RangeMeans(tok).begin_time = seconds + integer * 10
               /\ RangeMeans(tok).end_time = meant.end_time
      BY <1>3, <3>1, <3>2, <3>3, <3>4, SMT
    <3>6. SoFar(phase)' = seconds + integer * 10
      BY <1>4, <1>16, <2>10, <2>3, <2>5, SMT DEF SoFar
    <3> HIDE DEF RangeMeans
    <3> QED
      BY <1>1, <1>3, <1>8, <1>16, <2>2, <2>3, <2>6, <2>8, <2>10, <3>5, <3>6, SMT
      DEF InRange, IsAt, BeginPhases, EndPhases
  <2>11. CASE phase \in {"en", "es"}
    <3>1. meant.end_time = SoFar(phase) BY <1>3, <2>11, SMT DEF InRange, BeginPhases, EndPhases
    <3>2. SoFar(phase) \in Nat /\ SoFar(phase) = seconds + integer * 10
      BY <1>4, <2>11, SMT DEF SoFar, R!Second
    <3>3. Plus(meant.end_time, tok) = meant.end_time
      BY <1>16, <2>11, <3>1, <3>2, SMT DEF Plus, Weight, R!Unset
    <3>4. RangeMeans(tok) = meant \/ RangeMeans(tok) = [meant EXCEPT !.end_time = Plus(meant.end_time, tok)]
      BY <1>16, <2>11, SMT DEF RangeMeans
    <3>5. RangeMeans(tok).end_time = seconds + integer * 10
               /\ RangeMeans(tok).begin_time = meant.begin_time
      BY <1>3, <3>1, <3>2, <3>3, <3>4, SMT
    <3>6. SoFar(phase)' = seconds + integer * 10
      BY <1>4, <1>16, <2>11, <2>3, <2>5, SMT DEF SoFar
    <3> HIDE DEF RangeMeans
    <3> QED
      BY <1>1, <1>3, <1>8, <1>16, <2>2, <2>3, <2>6, <2>8, <2>11, <3>5, <3>6, SMT
      DEF InRange, IsAt, BeginPhases, EndPhases
  <2> QED BY <1>16, <2>10, <2>11, SMT
<1>17. CASE phase \in {"b.", "e."} /\ tok.kind = "number"
           /\ phase' = IF phase = "b." THEN "bf" ELSE "ef"
  <2>1. at = "frac0" BY <1>5, <1>17, SMT DEF IsAt
  <2>2. at' = "frac"
    BY <1>0, <1>6, <1>17, <2>1, <1>s, <1>t, SMT
    DEF RangeGoes, R!Target, R!FirstUnit, R!Time, R!Spec1, R!TextTarget, R!Letters, BeginPhases,
        EndPhases
  <2>3. side' = side /\ integer' = R!Fraction(tok) /\ reader' = "run"
    BY <1>6, <2>2, SMT DEF RangeGoes
  <2>4. ~R!EndsBegin(tok) /\ ~R!EndsEnd(tok)
    BY <1>17, <1>s, <1>t, <2>1, SMT
    DEF R!EndsBegin, R!EndsEnd, R!EndsRange, R!Letters, BeginPhases, EndPhases
  <2>5. seconds' = seconds + 0
    BY <1>4, <1>8, <1>17, <2>1, <2>4, SMT DEF R!Added, R!Second
  <2>6. range'.begin_time = range.begin_time /\ range'.end_time = range.end_time
        /\ range'.playback_time = range.playback_time
    BY <1>8, <2>1, <2>4, SMT
  <2>8. RangeMeans(tok) = [begin_time |-> RangeMeans(tok).begin_time, end_time |-> RangeMeans(tok).end_time,
                           playback_time |-> RangeMeans(tok).playback_time]
        /\ RangeMeans(tok).playback_time = meant.playback_time
    BY <1>3, <1>17, SMT DEF RangeMeans
  <2> QED
    BY <1>1, <1>3, <1>4, <1>7, <1>8, <1>17, <2>2, <2>3, <2>5, <2>6, <2>8, SMT
    DEF InRange, IsAt, SoFar, RangeMeans, Plus, Weight, BeginPhases, EndPhases, R!Second, R!Unset,
        R!defaultrange
<1>18. CASE phase \in {"bn", "bs", "bf"} /\ tok.kind = "-" /\ phase' = "eh"
  <2>1. at \in {"int", "s", "frac"} BY <1>5, <1>18, SMT DEF IsAt
  <2>2. at' = "dash"
    BY <1>0, <1>6, <1>18, <2>1, <1>s, <1>t, SMT
    DEF RangeGoes, R!Target, R!FirstUnit, R!Time, R!Spec1, R!TextTarget, R!Letters, BeginPhases,
        EndPhases
  <2>3. side' = "end" /\ integer' = integer /\ reader' = "run"
    BY <1>6, <2>2, SMT DEF RangeGoes
  <2>4. R!EndsBegin(tok) /\ ~R!EndsEnd(tok)
    BY <1>18, <1>s, <1>t, <2>1, SMT
    DEF R!EndsBegin, R!EndsEnd, R!EndsRange, R!Letters, BeginPhases, EndPhases
  <2>5. seconds' = 0 /\ R!Whole = SoFar(phase)
    BY <1>4, <1>5, <1>8, <1>18, <2>4, SMT DEF R!Whole, SoFar, IsAt, R!Second
  <2>6. range'.begin_time = SoFar(phase) /\ range'.end_time = range.end_time
        /\ range'.playback_time = range.playback_time
    BY <1>8, <2>1, <2>4, <2>5, SMT
  <2>8. RangeMeans(tok) = [begin_time |-> RangeMeans(tok).begin_time, end_time |-> RangeMeans(tok).end_time,
                           playback_time |-> RangeMeans(tok).playback_time]
        /\ RangeMeans(tok).playback_time = meant.playback_time
    BY <1>3, <1>18, SMT DEF RangeMeans
  <2>9. meant.begin_time = SoFar(phase) /\ meant.end_time = R!Unset
    BY <1>3, <1>18, SMT DEF InRange, BeginPhases
  <2>10. RangeMeans(tok) = meant BY <1>18, SMT DEF RangeMeans
  <2> QED
    BY <1>1, <1>3, <1>8, <1>18, <2>2, <2>3, <2>5, <2>6, <2>8, <2>9, <2>10, SMT
    DEF InRange, IsAt, BeginPhases, EndPhases
<1>19. CASE phase = "bh" /\ tok.kind = "-" /\ phase' = "eh"
  <2>1. at = "first_spec" BY <1>5, <1>19, SMT DEF IsAt
  <2>2. at' = "open"
    BY <1>0, <1>6, <1>19, <2>1, SMT
    DEF RangeGoes, R!Target, R!FirstUnit, R!Time, R!Spec1, R!TextTarget, R!Letters, BeginPhases,
        EndPhases
  <2>3. side' = "end" /\ integer' = integer /\ reader' = "run"
    BY <1>6, <2>2, SMT DEF RangeGoes
  <2>4. ~R!EndsBegin(tok) /\ ~R!EndsEnd(tok)
    BY <1>19, <1>s, <1>t, <2>1, SMT
    DEF R!EndsBegin, R!EndsEnd, R!EndsRange, R!Letters, BeginPhases, EndPhases
  <2>5. seconds' = seconds + 0
    BY <1>4, <1>8, <1>19, <2>1, <2>4, SMT DEF R!Added, R!Second
  <2>6. range'.begin_time = range.begin_time /\ range'.end_time = range.end_time
        /\ range'.playback_time = range.playback_time
    BY <1>8, <2>1, <2>4, SMT
  <2>8. RangeMeans(tok) = [begin_time |-> RangeMeans(tok).begin_time, end_time |-> RangeMeans(tok).end_time,
                           playback_time |-> RangeMeans(tok).playback_time]
        /\ RangeMeans(tok).playback_time = meant.playback_time
    BY <1>3, <1>19, SMT DEF RangeMeans
  <2> QED
    BY <1>1, <1>3, <1>4, <1>7, <1>8, <1>19, <2>2, <2>3, <2>5, <2>6, <2>8, SMT
    DEF InRange, IsAt, SoFar, RangeMeans, Plus, Weight, BeginPhases, EndPhases, R!Second, R!Unset,
        R!defaultrange
<1>20. CASE phase \in {"en", "es", "ef"} /\ tok.kind = "NUL" /\ phase' = "done"
  <2>1. at \in {"int", "s", "frac"} BY <1>5, <1>20, SMT DEF IsAt
  <2>2. at' = "end"
    BY <1>0, <1>6, <1>20, <2>1, <1>s, <1>t, SMT
    DEF RangeGoes, R!Target, R!FirstUnit, R!Time, R!Spec1, R!TextTarget, R!Letters, BeginPhases,
        EndPhases
  <2>3. side' = side /\ integer' = integer
             /\ reader' = (IF range_supported' THEN "supported" ELSE "refused")
    BY <1>6, <2>2, SMT DEF RangeGoes
  <2>4. ~R!EndsBegin(tok) /\ R!EndsEnd(tok)
    BY <1>20, <1>s, <1>t, <2>1, SMT
    DEF R!EndsBegin, R!EndsEnd, R!EndsRange, R!Letters, BeginPhases, EndPhases
  <2>5. seconds' = 0 /\ R!Whole = SoFar(phase)
    BY <1>4, <1>5, <1>8, <1>20, <2>4, SMT DEF R!Whole, SoFar, IsAt, R!Second
  <2>7. reader' = "supported" BY <1>8, <1>20, <2>1, <2>3, <2>4, SMT DEF R!EndsRange
  <2>6. range'.begin_time = range.begin_time /\ range'.end_time = SoFar(phase)
        /\ range'.playback_time = range.playback_time
    BY <1>8, <2>1, <2>4, <2>5, SMT
  <2>8. RangeMeans(tok) = [begin_time |-> RangeMeans(tok).begin_time, end_time |-> RangeMeans(tok).end_time,
                           playback_time |-> RangeMeans(tok).playback_time]
        /\ RangeMeans(tok).playback_time = meant.playback_time
    BY <1>3, <1>20, SMT DEF RangeMeans
  <2> QED
    BY <1>1, <1>3, <1>4, <1>7, <1>8, <1>20, <2>2, <2>3, <2>5, <2>6, <2>8, <2>7, SMT
    DEF InRange, IsAt, SoFar, RangeMeans, Plus, Weight, BeginPhases, EndPhases, R!Second, R!Unset,
        R!defaultrange
<1>21. CASE phase = "eh" /\ tok.kind = "NUL" /\ phase' = "done" /\ last # "bh"
  <2>1. at = "dash" BY <1>5, <1>21, SMT DEF IsAt
  <2>2. at' = "end"
    BY <1>0, <1>6, <1>21, <2>1, SMT
    DEF RangeGoes, R!Target, R!FirstUnit, R!Time, R!Spec1, R!TextTarget, R!Letters, BeginPhases,
        EndPhases
  <2>3. side' = side /\ integer' = integer
             /\ reader' = (IF range_supported' THEN "supported" ELSE "refused")
    BY <1>6, <2>2, SMT DEF RangeGoes
  <2>4. ~R!EndsBegin(tok) /\ ~R!EndsEnd(tok)
    BY <1>21, <1>s, <1>t, <2>1, SMT
    DEF R!EndsBegin, R!EndsEnd, R!EndsRange, R!Letters, BeginPhases, EndPhases
  <2>5. seconds' = seconds + 0
    BY <1>4, <1>8, <1>21, <2>1, <2>4, SMT DEF R!Added, R!Second
  <2>7. reader' = "supported" BY <1>8, <1>21, <2>1, <2>3, <2>4, SMT DEF R!EndsRange
  <2>6. range'.begin_time = range.begin_time /\ range'.end_time = range.end_time
        /\ range'.playback_time = range.playback_time
    BY <1>8, <2>1, <2>4, SMT
  <2>8. RangeMeans(tok) = [begin_time |-> RangeMeans(tok).begin_time, end_time |-> RangeMeans(tok).end_time,
                           playback_time |-> RangeMeans(tok).playback_time]
        /\ RangeMeans(tok).playback_time = meant.playback_time
    BY <1>3, <1>21, SMT DEF RangeMeans
  <2> QED
    BY <1>1, <1>3, <1>4, <1>7, <1>8, <1>21, <2>2, <2>3, <2>5, <2>6, <2>8, <2>7, SMT
    DEF InRange, IsAt, SoFar, RangeMeans, Plus, Weight, BeginPhases, EndPhases, R!Second, R!Unset,
        R!defaultrange
<1> QED
  BY <1>0, RangeRules, <1>9, <1>10, <1>11, <1>12, <1>13, <1>14, <1>15, <1>16, <1>17, <1>18, <1>19,
      <1>20, <1>21, SMT

\* Every token of a Range header keeps the machine where the client is.
LEMMA RangeStepRelation ==
    ASSUME NEW tok, tok.value \in Nat, NineDigits(tok.value), WriteRange(tok), RangeType, RangeRelation
    PROVE  RangeRelation'
<1>1. CASE phase' = "free"
  <2>1. meant' = R!defaultrange BY <1>1, SMT DEF WriteRange
  <2> QED BY <1>1, <2>1, SMT DEF RangeRelation, R!defaultrange
<1>2. CASE phase' # "free" BY <1>2, RangeStep, SMT DEF RangeRelation
<1> QED BY <1>1, <1>2, SMT

-----------------------------------------------------------------------------
(* A token of a URI: what the machine does whatever the client means. *)

LEMMA TargetType ==
    ASSUME NEW k, place \in U!Places, place \notin {"final", "error"}
    PROVE  U!Target(k) \in U!Places
<1>1. U!Rest(k) \in U!Places BY DEF U!Rest, U!Places
<1>2. U!Scheme(k) \in U!Places BY DEF U!Scheme, U!Places
<1>3. U!Hierarchy(k) \in U!Places BY <1>1 DEF U!Hierarchy, U!Places
<1>4. U!Authority(k) \in U!Places BY <1>1 DEF U!Authority, U!Places, U!InAddress
<1>5. U!Host(k) \in U!Places BY <1>1 DEF U!Host, U!Places, U!InAddress
<1>6. U!PathQueryFragment(k) \in U!Places BY <1>1 DEF U!PathQueryFragment, U!Places
<1>7. U!Literal(k) \in U!Places BY DEF U!Literal, U!Places, U!InAddress
<1>8. U!Future(k) \in U!Places BY DEF U!Future, U!Places
<1> QED BY <1>2, <1>3, <1>4, <1>5, <1>6, <1>7, <1>8 DEF U!Target

\* What a token does to the parts.
UriAfter(k) ==
    LET target == U!Target(k)
        part == IF U!EmptyPart(k, target) THEN U!Empty ELSE U!Part
    IN  [c \in DOMAIN uri |-> IF c = "path" /\ target = "final" THEN U!Pushed(k, target)
                              ELSE IF c = U!Ended(k, target) THEN part ELSE uri[c]]

LEMMA UriStepIs ==
    ASSUME NEW k, U!ReadUri(k)
    PROVE  /\ place \notin {"final", "error"}
           /\ place' = U!Target(k)
           /\ p' = p + 1
           /\ mark' = IF U!Marks(k, place') THEN p ELSE mark
           /\ literal' = U!LiteralAfter(k, place')
           /\ stack' = U!Pushed(k, place')
           /\ uri' = UriAfter(k)
  BY DEF U!ReadUri, UriAfter

\* The value of a part after a token.
LEMMA PartIs ==
    ASSUME NEW k, U!ReadUri(k), UriType, NEW c \in UriParts
    PROVE  /\ uri' = [d \in UriParts |-> uri'[d]]
           /\ uri'[c] = IF c = "path" /\ place' = "final" THEN stack'
                        ELSE IF c = U!Ended(k, place')
                        THEN IF U!EmptyPart(k, place') THEN <<p, p>> ELSE <<mark, p>>
                        ELSE uri[c]
<1>1. DOMAIN uri = UriParts BY DEF UriType
<1>2. uri' = UriAfter(k) /\ place' = U!Target(k) /\ stack' = U!Pushed(k, place') BY UriStepIs
<1> HIDE DEF UriParts
<1> QED BY <1>1, <1>2 DEF UriAfter, U!Part, U!Empty

\* Whatever the client writes, the parts are intervals of what has been read.
LEMMA UriStepType ==
    ASSUME NEW k, U!ReadUri(k), UriType
    PROVE  UriType'
<1>1. /\ place \notin {"final", "error"} /\ place' = U!Target(k) /\ p' = p + 1
      /\ mark' = IF U!Marks(k, place') THEN p ELSE mark
      /\ stack' = U!Pushed(k, place')
  BY UriStepIs
<1>2. place' \in U!Places BY <1>1, TargetType DEF UriType
<1>3. p \in Nat /\ mark \in Nat /\ mark <= p BY DEF UriType
<1>4. p' \in Nat /\ mark' \in 0..p' BY <1>1, <1>3
<1>5. stack' \in Seq(Nat \X Nat)
  <2>1. stack' = stack \/ stack' = Append(stack, <<mark, p>>) BY <1>1 DEF U!Pushed, U!Part
  <2>2. <<mark, p>> \in Nat \X Nat BY <1>3
  <2>3. stack \in Seq(Nat \X Nat) BY DEF UriType
  <2> DEFINE S == Nat \X Nat
  <2> HIDE DEF S
  <2>4. Append(stack, <<mark, p>>) \in Seq(S) BY <2>2, <2>3, AppendProperties DEF S
  <2> QED BY <2>1, <2>3, <2>4 DEF S
<1>6. uri' = [c \in UriParts |-> uri'[c]]
  <2>1. "path" \in UriParts BY DEF UriParts
  <2> QED BY <2>1, PartIs
<1>7. ASSUME NEW c \in UriParts \ {"path"}, uri'[c] # <<>>
      PROVE  /\ uri'[c][1] \in Nat /\ uri'[c][2] \in Nat
             /\ uri'[c][1] <= uri'[c][2] /\ uri'[c][2] < p'
  <2>1. uri'[c] = <<p, p>> \/ uri'[c] = <<mark, p>> \/ uri'[c] = uri[c] BY <1>7, PartIs
  <2>2. CASE uri'[c] = <<p, p>> BY <1>1, <1>3, <2>2
  <2>3. CASE uri'[c] = <<mark, p>> BY <1>1, <1>3, <2>3
  <2>4. CASE uri'[c] = uri[c]
    <3>1. /\ uri[c][1] \in Nat /\ uri[c][2] \in Nat
          /\ uri[c][1] <= uri[c][2] /\ uri[c][2] < p
      BY <1>7, <2>4 DEF UriType
    <3> QED BY <1>1, <1>3, <2>4, <3>1
  <2> QED BY <2>1, <2>2, <2>3, <2>4
<1> QED BY <1>2, <1>4, <1>5, <1>6, <1>7 DEF UriType

\* The places inside an address are reached only from such places.
LEMMA AddressFromAddress ==
    ASSUME NEW k, place \in U!Places, U!Target(k) \in U!InAddress \ {"["}
    PROVE  place \in U!InAddress /\ U!Target(k) = U!Literal(k)
<1>1. U!Rest(k) \notin U!InAddress BY DEF U!Rest, U!InAddress
<1>2. U!Scheme(k) \notin U!InAddress BY DEF U!Scheme, U!InAddress
<1>3. U!Hierarchy(k) \notin U!InAddress BY <1>1 DEF U!Hierarchy, U!InAddress
<1>4. U!Authority(k) \notin U!InAddress \ {"["} BY <1>1 DEF U!Authority, U!InAddress
<1>5. U!Host(k) \notin U!InAddress \ {"["} BY <1>1 DEF U!Host, U!InAddress
<1>6. U!PathQueryFragment(k) \notin U!InAddress BY <1>1 DEF U!PathQueryFragment, U!InAddress
<1>8. U!Future(k) \notin U!InAddress BY DEF U!Future, U!InAddress
<1> QED BY <1>2, <1>3, <1>4, <1>5, <1>6, <1>8 DEF U!Target

\* An address is read only once.
LEMMA BeforeFromBefore ==
    ASSUME NEW k, place \in U!Places, U!Target(k) \in BeforeLiteral
    PROVE  place \in BeforeLiteral
<1>1. U!Rest(k) \notin BeforeLiteral BY DEF U!Rest, BeforeLiteral
<1>5. U!Host(k) \in BeforeLiteral => place = "host0" BY <1>1 DEF U!Host, BeforeLiteral
<1>6. U!PathQueryFragment(k) \notin BeforeLiteral BY <1>1 DEF U!PathQueryFragment, BeforeLiteral
<1>7. U!Literal(k) \in BeforeLiteral => place = "[" BY DEF U!Literal, BeforeLiteral
<1>8. U!Future(k) \notin BeforeLiteral BY DEF U!Future, BeforeLiteral
<1>9. U!Hierarchy(k) \in BeforeLiteral => place \in {"colon", "root"}
  BY <1>1 DEF U!Hierarchy, BeforeLiteral
<1> QED BY <1>5, <1>6, <1>7, <1>8, <1>9 DEF U!Target, BeforeLiteral

\* What the machine has counted after a token, field by field.
LEMMA LiteralIs ==
    ASSUME NEW k, U!ReadUri(k), LiteralType
    PROVE  /\ literal' = [groups |-> literal'.groups, gap |-> literal'.gap,
                          octets |-> literal'.octets, decimal |-> literal'.decimal]
           /\ literal'.groups = literal.groups + IF place' = "g" THEN 1 ELSE 0
           /\ literal'.gap \in BOOLEAN /\ (literal'.gap <=> literal.gap \/ place' = "::")
           /\ literal'.octets = IF place' = "o" THEN literal.octets + 1
                                ELSE IF place = "g" /\ place' = "." THEN 1 ELSE literal.octets
           /\ literal'.decimal \in BOOLEAN
           /\ literal'.decimal <=> IF place' = "g" THEN k = "octet" ELSE literal.decimal
<1>1. literal' = U!LiteralAfter(k, place') BY UriStepIs
<1>2. literal.gap \in BOOLEAN /\ literal.decimal \in BOOLEAN BY DEF LiteralType
<1> DEFINE l == U!LiteralAfter(k, place')
<1>3. /\ l = [groups |-> l.groups, gap |-> l.gap, octets |-> l.octets, decimal |-> l.decimal]
      /\ l.groups = literal.groups + IF place' = "g" THEN 1 ELSE 0
      /\ l.octets = IF place' = "o" THEN literal.octets + 1
                    ELSE IF place = "g" /\ place' = "." THEN 1 ELSE literal.octets
  BY DEF U!LiteralAfter
<1>4. l.gap = (literal.gap \/ place' = "::") BY DEF U!LiteralAfter
<1>5. l.decimal = IF place' = "g" THEN k = "octet" ELSE literal.decimal BY DEF U!LiteralAfter
<1> HIDE DEF l
<1>6. literal' = l BY <1>1 DEF l
<1>7. literal'.gap \in BOOLEAN /\ (literal'.gap <=> literal.gap \/ place' = "::")
  BY <1>2, <1>4, <1>6
<1>8. literal'.decimal \in BOOLEAN
      /\ (literal'.decimal <=> IF place' = "g" THEN k = "octet" ELSE literal.decimal)
  BY <1>2, <1>5, <1>6
<1> QED BY <1>3, <1>6, <1>7, <1>8

\* Whatever the client writes, there is never more of an address than fits.
LEMMA LiteralStepType ==
    ASSUME NEW k, U!ReadUri(k), UriType, LiteralType
    PROVE  LiteralType'
<1>1. place' = U!Target(k) /\ place \in U!Places BY UriStepIs DEF UriType
<1>2. /\ literal' = [groups |-> literal'.groups, gap |-> literal'.gap,
                     octets |-> literal'.octets, decimal |-> literal'.decimal]
      /\ literal'.groups = literal.groups + IF place' = "g" THEN 1 ELSE 0
      /\ literal'.gap \in BOOLEAN /\ (literal'.gap <=> literal.gap \/ place' = "::")
      /\ literal'.octets = IF place' = "o" THEN literal.octets + 1
                           ELSE IF place = "g" /\ place' = "." THEN 1 ELSE literal.octets
      /\ literal'.decimal \in BOOLEAN
      /\ literal'.decimal <=> IF place' = "g" THEN k = "octet" ELSE literal.decimal
  BY LiteralIs
<1>3. /\ literal.groups \in 0..8 /\ literal.octets \in 0..4
      /\ literal.gap \in BOOLEAN
      /\ literal.gap => literal.groups <= 7
      /\ place = "g:" /\ ~literal.gap => literal.groups <= 7
      /\ place = "." => literal.octets <= 3
  BY DEF LiteralType
<1>4. CASE place' \in U!InAddress \ {"["}
  <2>1. place \in U!InAddress /\ place' = U!Literal(k) BY <1>1, <1>4, AddressFromAddress
  <2>2. place \in {"[", "[:"} => literal.groups = 0 BY DEF LiteralType, BeforeLiteral, Fresh
  <2>3. /\ place' = "g" => U!Room(literal.groups, literal.gap)
        /\ place' = "::" => place = "[:" \/ (place = "g:" /\ ~literal.gap)
        /\ place' = "g:" => U!Room(literal.groups, literal.gap)
        /\ place' = "." => place = "g" \/ literal.octets < 4
        /\ place' = "o" => place = "."
    BY <2>1 DEF U!Literal
  <2>4. literal'.groups \in 0..8 /\ literal'.octets \in 0..4 BY <1>2, <1>3, <2>3 DEF U!Room
  <2>5. literal'.gap => literal'.groups <= 7 BY <1>2, <1>3, <2>2, <2>3 DEF U!Room
  <2>6. place' = "g:" /\ ~literal'.gap => literal'.groups <= 7 BY <1>2, <1>3, <2>3 DEF U!Room
  <2>7. place' = "." => literal'.octets <= 3 BY <1>2, <1>3, <2>3
  <2>8. place' \in BeforeLiteral => Fresh'
    <3>1. ASSUME place' \in BeforeLiteral PROVE Fresh'
      <4>1. Fresh BY <1>1, <3>1, BeforeFromBefore DEF LiteralType
      <4>2. place' \notin {"g", "::", ".", "o"} BY <3>1 DEF BeforeLiteral
      <4> QED BY <1>2, <4>1, <4>2 DEF Fresh
    <3> QED BY <3>1
  <2> QED BY <1>2, <2>4, <2>5, <2>6, <2>7, <2>8 DEF LiteralType
<1>5. CASE place' \notin U!InAddress \ {"["}
  <2>1. place' \notin {"g", "::", ".", "o", "g:"} BY <1>5 DEF U!InAddress
  <2>2. /\ literal'.groups = literal.groups /\ literal'.octets = literal.octets
        /\ literal'.gap <=> literal.gap
    BY <1>2, <1>3, <2>1
  <2>8. place' \in BeforeLiteral => Fresh'
    <3>1. ASSUME place' \in BeforeLiteral PROVE Fresh'
      <4>1. Fresh BY <1>1, <3>1, BeforeFromBefore DEF LiteralType
      <4> QED BY <1>2, <2>1, <4>1 DEF Fresh
    <3> QED BY <3>1
  <2> QED BY <1>2, <1>3, <2>1, <2>2, <2>8 DEF LiteralType
<1> QED BY <1>4, <1>5

-----------------------------------------------------------------------------
(* The grammar of a URI, rule by rule. *)

\* A rule that begins or continues a part.
Continues(g, k) ==
    \/ g[1] = "start" /\ k \in U!Words /\ g[3] = "scheme"
    \/ g[1] = "scheme" /\ k \in U!Digits \cup {".", "-"} /\ g[3] = "scheme"
    \/ g[1] = ":" /\ k = "/" /\ g[3] = ":/"
    \/ g[1] = ":/" /\ k = "/" /\ g[3] = "//"
    \/ g[1] \in {"//", "user"} /\ k \in Plain /\ g[3] = "user"
    \/ g[1] \in {"//", "user"} /\ k = ":" /\ g[3] = "pass0"
    \/ g[1] = "pass0" /\ k \in (Plain \ U!Digits) \cup {":"} /\ g[3] = "pass"
    \/ g[1] = "pass" /\ k \in Plain \cup {":"} /\ g[3] = "pass"
    \/ g[1] \in {"//", "host0", "host"} /\ k \in Plain /\ g[3] = "host"
    \/ g[1] \in {"//", "host0"} /\ k = "[" /\ g[3] \in {"literal", "["}
    \/ g[1] = "[" /\ k = "v" /\ g[3] = "[v"
    \/ g[1] = "[v" /\ k = "." /\ g[3] = "[v."
    \/ g[1] \in {"[v.", "[v.x"} /\ k \in Future /\ g[3] = "[v.x"
    \/ g[1] = "[v.x" /\ k = "]" /\ g[3] = "]"
    \/ g[1] = "port" /\ k \in U!Digits /\ g[3] = "port"
    \/ g[1] \in {"path", "segment"} /\ k \in Plain \cup {":", "@"} /\ g[3] = "segment"
    \/ g[1] = "query" /\ k \in Plain \cup {":", "@", "/", "?"} /\ g[3] = "query"
    \/ g[1] = "fragment" /\ k \in Plain \cup {":", "@", "/", "?"} /\ g[3] = "fragment"

\* The phase behind what ends the authority or the path.
RestPhase(k, ph) ==
    \/ k = "/" /\ ph = "path"
    \/ k = "?" /\ ph = "query"
    \/ k = "#" /\ ph = "fragment"
    \/ k = "NUL" /\ ph = "done"

\* A rule that ends the part g[4].
Ends(g, k) ==
    \/ g[1] = "scheme" /\ k = ":" /\ g[3] = ":" /\ g[4] = "scheme"
    \/ g[1] \in {"//", "user", "pass0", "pass"} /\ k = "@" /\ g[3] = "host0" /\ g[4] = "userinfo"
    \/ g[1] \in {"//", "host0", "host", "]"} /\ g[4] = "host"
       /\ (RestPhase(k, g[3]) \/ (k = ":" /\ g[3] = "port"))
    \/ g[1] = "port" /\ RestPhase(k, g[3]) /\ g[4] = "port"
    \/ g[1] = "segment" /\ RestPhase(k, g[3]) /\ g[4] = "path"
    \/ g[1] = "query" /\ k \in {"#", "NUL"} /\ RestPhase(k, g[3]) /\ g[4] = "query"
    \/ g[1] = "fragment" /\ k = "NUL" /\ g[3] = "done" /\ g[4] = "fragment"

\* Separators in a row end no part.
Passes(g, k) == g[1] = "path" /\ RestPhase(k, g[3])

\* Every rule of the grammar continues a part, ends one, or passes a separator.
LEMMA UriRules ==
    ASSUME NEW g \in UriGrammar, NEW k \in g[2]
    PROVE  \/ Continues(g, k) /\ g[4] = "none"
           \/ Ends(g, k)
           \/ Passes(g, k) /\ g[4] = "none"
<1> DEFINE
      R1 == {<<ph, {"@"}, "host0", "userinfo">> : ph \in {"//", "user", "pass0", "pass"}}
      R2 == {<<ph, {e[1]}, e[2], "host">> : ph \in {"//", "host0", "host", "]"}, e \in EndsPart}
      R3 == {<<"port", {e[1]}, e[2], "port">> : e \in EndsPart \ {<<":", "port">>}}
      R4 == {<<"path", {e[1]}, e[2], "none">> : e \in EndsPart \ {<<":", "port">>}}
      R5 == {<<"segment", {e[1]}, e[2], "path">> : e \in EndsPart \ {<<":", "port">>}}
      R6 == {<<"query", {e}, IF e = "#" THEN "fragment" ELSE "done", "query">> : e \in {"#", "NUL"}}
<1>0. \A e \in EndsPart : RestPhase(e[1], e[2]) \/ (e[1] = ":" /\ e[2] = "port")
  BY DEF EndsPart, RestPhase
<1>a. \A e \in EndsPart \ {<<":", "port">>} : RestPhase(e[1], e[2])
  BY DEF EndsPart, RestPhase
<1>1. CASE g \in R1
  <2>1. PICK ph \in {"//", "user", "pass0", "pass"} : g = <<ph, {"@"}, "host0", "userinfo">>
    BY <1>1
  <2> QED BY <2>1 DEF Ends
<1>2. CASE g \in R2
  <2>1. PICK ph \in {"//", "host0", "host", "]"}, e \in EndsPart : g = <<ph, {e[1]}, e[2], "host">>
    BY <1>2
  <2>2. k = e[1] /\ g[1] = ph /\ g[3] = e[2] /\ g[4] = "host" BY <2>1
  <2> QED BY <1>0, <2>2 DEF Ends
<1>3. CASE g \in R3
  <2>1. PICK e \in EndsPart \ {<<":", "port">>} : g = <<"port", {e[1]}, e[2], "port">> BY <1>3
  <2>2. k = e[1] /\ g[1] = "port" /\ g[3] = e[2] /\ g[4] = "port" BY <2>1
  <2> QED BY <1>a, <2>2 DEF Ends
<1>4. CASE g \in R4
  <2>1. PICK e \in EndsPart \ {<<":", "port">>} : g = <<"path", {e[1]}, e[2], "none">> BY <1>4
  <2>2. k = e[1] /\ g[1] = "path" /\ g[3] = e[2] /\ g[4] = "none" BY <2>1
  <2> QED BY <1>a, <2>2 DEF Passes
<1>5. CASE g \in R5
  <2>1. PICK e \in EndsPart \ {<<":", "port">>} : g = <<"segment", {e[1]}, e[2], "path">> BY <1>5
  <2>2. k = e[1] /\ g[1] = "segment" /\ g[3] = e[2] /\ g[4] = "path" BY <2>1
  <2> QED BY <1>a, <2>2 DEF Ends
<1>6. CASE g \in R6
  <2>1. PICK e \in {"#", "NUL"} :
            g = <<"query", {e}, IF e = "#" THEN "fragment" ELSE "done", "query">>
    BY <1>6
  <2> QED BY <2>1 DEF Ends, RestPhase
<1>7. CASE g \notin R1 \cup R2 \cup R3 \cup R4 \cup R5 \cup R6
  <2> HIDE DEF R1, R2, R3, R4, R5, R6
  <2>1. \/ g = <<"start", U!Words, "scheme", "none">>
        \/ g = <<"scheme", U!Digits \cup {".", "-"}, "scheme", "none">>
        \/ g = <<"scheme", {":"}, ":", "scheme">>
        \/ g = <<":", {"/"}, ":/", "none">>
        \/ g = <<":/", {"/"}, "//", "none">>
        \/ g = <<"//", Plain, "user", "none">>
        \/ g = <<"user", Plain, "user", "none">>
        \/ g = <<"//", {":"}, "pass0", "none">>
        \/ g = <<"user", {":"}, "pass0", "none">>
        \/ g = <<"pass0", (Plain \ U!Digits) \cup {":"}, "pass", "none">>
        \/ g = <<"pass", Plain \cup {":"}, "pass", "none">>
        \/ g = <<"//", Plain, "host", "none">>
        \/ g = <<"host0", Plain, "host", "none">>
        \/ g = <<"host", Plain, "host", "none">>
        \/ g = <<"//", {"["}, "literal", "none">>
        \/ g = <<"host0", {"["}, "literal", "none">>
        \/ g = <<"//", {"["}, "[", "none">>
        \/ g = <<"host0", {"["}, "[", "none">>
        \/ g = <<"[", {"v"}, "[v", "none">>
        \/ g = <<"[v", {"."}, "[v.", "none">>
        \/ g = <<"[v.", Future, "[v.x", "none">>
        \/ g = <<"[v.x", Future, "[v.x", "none">>
        \/ g = <<"[v.x", {"]"}, "]", "none">>
        \/ g = <<"port", U!Digits, "port", "none">>
        \/ g = <<"path", Plain \cup {":", "@"}, "segment", "none">>
        \/ g = <<"segment", Plain \cup {":", "@"}, "segment", "none">>
        \/ g = <<"query", Plain \cup {":", "@", "/", "?"}, "query", "none">>
        \/ g = <<"fragment", Plain \cup {":", "@", "/", "?"}, "fragment", "none">>
        \/ g = <<"fragment", {"NUL"}, "done", "fragment">>
    BY <1>7, SMT DEF UriGrammar, R1, R2, R3, R4, R5, R6
  <2> HIDE DEF Plain, Future
  <2> QED BY <2>1 DEF Continues, Ends
<1> QED BY <1>1, <1>2, <1>3, <1>4, <1>5, <1>6, <1>7

-----------------------------------------------------------------------------
(* Where the machine goes with a rule of the grammar, and which part it ends. *)

\* The part that ends begins where the client began it.
BegunIs(k) == begun = IF U!EmptyPart(k, place') THEN p ELSE mark

\* After the token, the part being read begins where the client began it.
BegunNext ==
    begun' = IF AtBeginning' THEN p' ELSE IF place' \in {"colon", "root"} THEN begun' ELSE mark'

Begun(g) ==
    IF g[3] \in Beginnings /\ (g[3] # g[1] \/ g[3] = "path") THEN p + 1 ELSE begun

\* Inside a part the machine stays in step and ends nothing that it cannot take back.
LEMMA ContinuesGoes ==
    ASSUME NEW k, NEW g, g[1] = phase, phase' = g[3], Continues(g, k), begun' = Begun(g),
           InUri, UriType, U!ReadUri(k)
    PROVE  /\ place' \in PlacesOf(phase') /\ phase' # "done"
           /\ \/ U!Ended(k, place') = "nothing"
              \/ U!Ended(k, place') = "host" /\ phase' \in HostOpen
           /\ BegunNext
           /\ phase \in HostOpen => phase' \in HostOpen
<1>0. /\ place' = U!Target(k) /\ p' = p + 1 /\ p \in Nat
      /\ mark' = IF U!Marks(k, place') THEN p ELSE mark
  BY UriStepIs DEF UriType
<1>1. /\ place \in PlacesOf(phase)
      /\ begun = IF AtBeginning THEN p ELSE IF place \in {"colon", "root"} THEN begun ELSE mark
  BY DEF InUri
<1>2. CASE g[1] = "start" /\ k \in U!Words /\ g[3] = "scheme"
  <2>1. place = "start" BY <1>1, <1>2 DEF PlacesOf
  <2>2. place' = "scheme"
    BY <1>0, <1>2, <2>1 DEF U!Target, U!Scheme, U!InAddress, U!Words, U!Digits, U!PlainText, Plain
  <2>3. /\ place' \in PlacesOf(phase') /\ phase' # "done"
        /\ phase \in HostOpen => phase' \in HostOpen
    BY <1>2, <2>1, <2>2 DEF PlacesOf, HostOpen, U!InAddress
  <2>4. \/ U!Ended(k, place') = "nothing"
        \/ U!Ended(k, place') = "host" /\ phase' \in HostOpen
    BY <1>2, <2>1, <2>2 DEF U!Ended, HostOpen, U!Words, U!Digits, U!PlainText, Plain
  <2>5. BegunNext
    BY <1>0, <1>1, <1>2, <2>1, <2>2 DEF BegunNext, AtBeginning, Begun, Beginnings, U!Marks
  <2> QED BY <2>3, <2>4, <2>5
<1>3. CASE g[1] = "scheme" /\ k \in U!Digits \cup {".", "-"} /\ g[3] = "scheme"
  <2>1. place = "scheme" BY <1>1, <1>3 DEF PlacesOf
  <2>2. place' = "scheme"
    BY <1>0, <1>3, <2>1 DEF U!Target, U!Scheme, U!InAddress, U!Words, U!Digits, U!PlainText, Plain
  <2>3. /\ place' \in PlacesOf(phase') /\ phase' # "done"
        /\ phase \in HostOpen => phase' \in HostOpen
    BY <1>3, <2>1, <2>2 DEF PlacesOf, HostOpen, U!InAddress
  <2>4. \/ U!Ended(k, place') = "nothing"
        \/ U!Ended(k, place') = "host" /\ phase' \in HostOpen
    BY <1>3, <2>1, <2>2 DEF U!Ended, HostOpen, U!Words, U!Digits, U!PlainText, Plain
  <2>5. BegunNext
    BY <1>0, <1>1, <1>3, <2>1, <2>2 DEF BegunNext, AtBeginning, Begun, Beginnings, U!Marks
  <2> QED BY <2>3, <2>4, <2>5
<1>4. CASE g[1] = ":" /\ k = "/" /\ g[3] = ":/"
  <2>1. place = "colon" BY <1>1, <1>4 DEF PlacesOf
  <2>2. place' = "root"
    BY <1>0, <1>4, <2>1
    DEF U!Target, U!Hierarchy, U!InAddress, U!Words, U!Digits, U!PlainText, Plain
  <2>3. /\ place' \in PlacesOf(phase') /\ phase' # "done"
        /\ phase \in HostOpen => phase' \in HostOpen
    BY <1>4, <2>1, <2>2 DEF PlacesOf, HostOpen, U!InAddress
  <2>4. \/ U!Ended(k, place') = "nothing"
        \/ U!Ended(k, place') = "host" /\ phase' \in HostOpen
    BY <1>4, <2>1, <2>2 DEF U!Ended, HostOpen, U!Words, U!Digits, U!PlainText, Plain
  <2>5. BegunNext
    BY <1>0, <1>1, <1>4, <2>1, <2>2 DEF BegunNext, AtBeginning, Begun, Beginnings, U!Marks
  <2> QED BY <2>3, <2>4, <2>5
<1>5. CASE g[1] = ":/" /\ k = "/" /\ g[3] = "//"
  <2>1. place = "root" BY <1>1, <1>5 DEF PlacesOf
  <2>2. place' = "authority"
    BY <1>0, <1>5, <2>1
    DEF U!Target, U!Hierarchy, U!InAddress, U!Words, U!Digits, U!PlainText, Plain
  <2>3. /\ place' \in PlacesOf(phase') /\ phase' # "done"
        /\ phase \in HostOpen => phase' \in HostOpen
    BY <1>5, <2>1, <2>2 DEF PlacesOf, HostOpen, U!InAddress
  <2>4. \/ U!Ended(k, place') = "nothing"
        \/ U!Ended(k, place') = "host" /\ phase' \in HostOpen
    BY <1>5, <2>1, <2>2 DEF U!Ended, HostOpen, U!Words, U!Digits, U!PlainText, Plain
  <2>5. BegunNext
    BY <1>0, <1>1, <1>5, <2>1, <2>2 DEF BegunNext, AtBeginning, Begun, Beginnings, U!Marks
  <2> QED BY <2>3, <2>4, <2>5
<1>6. CASE g[1] \in {"//", "user"} /\ k \in Plain /\ g[3] = "user"
  <2>1. place \in {"authority", "name"} BY <1>1, <1>6 DEF PlacesOf
  <2>2. place' = "name"
    BY <1>0, <1>6, <2>1
    DEF U!Target, U!Authority, U!InAddress, U!Words, U!Digits, U!PlainText, Plain
  <2>3. /\ place' \in PlacesOf(phase') /\ phase' # "done"
        /\ phase \in HostOpen => phase' \in HostOpen
    BY <1>6, <2>1, <2>2 DEF PlacesOf, HostOpen, U!InAddress
  <2>4. \/ U!Ended(k, place') = "nothing"
        \/ U!Ended(k, place') = "host" /\ phase' \in HostOpen
    BY <1>6, <2>1, <2>2 DEF U!Ended, HostOpen, U!Words, U!Digits, U!PlainText, Plain
  <2>5. BegunNext
    BY <1>0, <1>1, <1>6, <2>1, <2>2 DEF BegunNext, AtBeginning, Begun, Beginnings, U!Marks
  <2> QED BY <2>3, <2>4, <2>5
<1>7. CASE g[1] \in {"//", "user"} /\ k = ":" /\ g[3] = "pass0"
  <2>1. place \in {"authority", "name"} BY <1>1, <1>7 DEF PlacesOf
  <2>2. place' = "port_or_user"
    BY <1>0, <1>7, <2>1
    DEF U!Target, U!Authority, U!InAddress, U!Words, U!Digits, U!PlainText, Plain
  <2>3. /\ place' \in PlacesOf(phase') /\ phase' # "done"
        /\ phase \in HostOpen => phase' \in HostOpen
    BY <1>7, <2>1, <2>2 DEF PlacesOf, HostOpen, U!InAddress
  <2>4. \/ U!Ended(k, place') = "nothing"
        \/ U!Ended(k, place') = "host" /\ phase' \in HostOpen
    BY <1>7, <2>1, <2>2 DEF U!Ended, HostOpen, U!Words, U!Digits, U!PlainText, Plain
  <2>5. BegunNext
    BY <1>0, <1>1, <1>7, <2>1, <2>2 DEF BegunNext, AtBeginning, Begun, Beginnings, U!Marks
  <2> QED BY <2>3, <2>4, <2>5
<1>8. CASE g[1] = "pass0" /\ k \in (Plain \ U!Digits) \cup {":"} /\ g[3] = "pass"
  <2>1. place = "port_or_user" BY <1>1, <1>8 DEF PlacesOf
  <2>2. place' = "user"
    BY <1>0, <1>8, <2>1
    DEF U!Target, U!Authority, U!InAddress, U!Words, U!Digits, U!PlainText, Plain
  <2>3. /\ place' \in PlacesOf(phase') /\ phase' # "done"
        /\ phase \in HostOpen => phase' \in HostOpen
    BY <1>8, <2>1, <2>2 DEF PlacesOf, HostOpen, U!InAddress
  <2>4. \/ U!Ended(k, place') = "nothing"
        \/ U!Ended(k, place') = "host" /\ phase' \in HostOpen
    BY <1>8, <2>1, <2>2 DEF U!Ended, HostOpen, U!Words, U!Digits, U!PlainText, Plain
  <2>5. BegunNext
    BY <1>0, <1>1, <1>8, <2>1, <2>2 DEF BegunNext, AtBeginning, Begun, Beginnings, U!Marks
  <2> QED BY <2>3, <2>4, <2>5
<1>9. CASE g[1] = "pass" /\ k \in Plain \cup {":"} /\ g[3] = "pass"
  <2>1. place = "user" BY <1>1, <1>9 DEF PlacesOf
  <2>2. place' = "user"
    BY <1>0, <1>9, <2>1
    DEF U!Target, U!Authority, U!InAddress, U!Words, U!Digits, U!PlainText, Plain
  <2>3. /\ place' \in PlacesOf(phase') /\ phase' # "done"
        /\ phase \in HostOpen => phase' \in HostOpen
    BY <1>9, <2>1, <2>2 DEF PlacesOf, HostOpen, U!InAddress
  <2>4. \/ U!Ended(k, place') = "nothing"
        \/ U!Ended(k, place') = "host" /\ phase' \in HostOpen
    BY <1>9, <2>1, <2>2 DEF U!Ended, HostOpen, U!Words, U!Digits, U!PlainText, Plain
  <2>5. BegunNext
    BY <1>0, <1>1, <1>9, <2>1, <2>2 DEF BegunNext, AtBeginning, Begun, Beginnings, U!Marks
  <2> QED BY <2>3, <2>4, <2>5
<1>10. CASE g[1] \in {"//", "host0", "host"} /\ k \in Plain /\ g[3] = "host"
  <2>1. place \in {"authority", "name", "host0", "host"} BY <1>1, <1>10 DEF PlacesOf
  <2>2. place' = IF place \in {"authority", "name"} THEN "name" ELSE "host"
    BY <1>0, <1>10, <2>1
    DEF U!Target, U!Authority, U!Host, U!InAddress, U!Words, U!Digits, U!PlainText, Plain
  <2>3. /\ place' \in PlacesOf(phase') /\ phase' # "done"
        /\ phase \in HostOpen => phase' \in HostOpen
    BY <1>10, <2>1, <2>2 DEF PlacesOf, HostOpen, U!InAddress
  <2>4. \/ U!Ended(k, place') = "nothing"
        \/ U!Ended(k, place') = "host" /\ phase' \in HostOpen
    BY <1>10, <2>1, <2>2 DEF U!Ended, HostOpen, U!Words, U!Digits, U!PlainText, Plain
  <2>5. BegunNext
    BY <1>0, <1>1, <1>10, <2>1, <2>2 DEF BegunNext, AtBeginning, Begun, Beginnings, U!Marks
  <2> QED BY <2>3, <2>4, <2>5
<1>11. CASE g[1] \in {"//", "host0"} /\ k = "[" /\ g[3] \in {"literal", "["}
  <2>1. place \in {"authority", "host0"} BY <1>1, <1>11 DEF PlacesOf
  <2>2. place' = "["
    BY <1>0, <1>11, <2>1
    DEF U!Target, U!Authority, U!Host, U!InAddress, U!Words, U!Digits, U!PlainText, Plain
  <2>3. /\ place' \in PlacesOf(phase') /\ phase' # "done"
        /\ phase \in HostOpen => phase' \in HostOpen
    BY <1>11, <2>1, <2>2 DEF PlacesOf, HostOpen, U!InAddress
  <2>4. \/ U!Ended(k, place') = "nothing"
        \/ U!Ended(k, place') = "host" /\ phase' \in HostOpen
    BY <1>11, <2>1, <2>2 DEF U!Ended, HostOpen, U!Words, U!Digits, U!PlainText, Plain
  <2>5. BegunNext
    BY <1>0, <1>1, <1>11, <2>1, <2>2 DEF BegunNext, AtBeginning, Begun, Beginnings, U!Marks
  <2> QED BY <2>3, <2>4, <2>5
<1>12. CASE g[1] = "[" /\ k = "v" /\ g[3] = "[v"
  <2>1. place = "[" BY <1>1, <1>12 DEF PlacesOf
  <2>2. place' = "v"
    BY <1>0, <1>12, <2>1 DEF U!Target, U!Literal, U!InAddress, U!Words, U!Digits, U!PlainText, Plain
  <2>3. /\ place' \in PlacesOf(phase') /\ phase' # "done"
        /\ phase \in HostOpen => phase' \in HostOpen
    BY <1>12, <2>1, <2>2 DEF PlacesOf, HostOpen, U!InAddress
  <2>4. \/ U!Ended(k, place') = "nothing"
        \/ U!Ended(k, place') = "host" /\ phase' \in HostOpen
    BY <1>12, <2>1, <2>2 DEF U!Ended, HostOpen, U!Words, U!Digits, U!PlainText, Plain
  <2>5. BegunNext
    BY <1>0, <1>1, <1>12, <2>1, <2>2 DEF BegunNext, AtBeginning, Begun, Beginnings, U!Marks
  <2> QED BY <2>3, <2>4, <2>5
<1>13. CASE g[1] = "[v" /\ k = "." /\ g[3] = "[v."
  <2>1. place = "v" BY <1>1, <1>13 DEF PlacesOf
  <2>2. place' = "v."
    BY <1>0, <1>13, <2>1 DEF U!Target, U!Future, U!InAddress, U!Words, U!Digits, U!PlainText, Plain
  <2>3. /\ place' \in PlacesOf(phase') /\ phase' # "done"
        /\ phase \in HostOpen => phase' \in HostOpen
    BY <1>13, <2>1, <2>2 DEF PlacesOf, HostOpen, U!InAddress
  <2>4. \/ U!Ended(k, place') = "nothing"
        \/ U!Ended(k, place') = "host" /\ phase' \in HostOpen
    BY <1>13, <2>1, <2>2 DEF U!Ended, HostOpen, U!Words, U!Digits, U!PlainText, Plain
  <2>5. BegunNext
    BY <1>0, <1>1, <1>13, <2>1, <2>2 DEF BegunNext, AtBeginning, Begun, Beginnings, U!Marks
  <2> QED BY <2>3, <2>4, <2>5
<1>14. CASE g[1] \in {"[v.", "[v.x"} /\ k \in Future /\ g[3] = "[v.x"
  <2>1. place \in {"v.", "vx"} BY <1>1, <1>14 DEF PlacesOf
  <2>2. place' = "vx"
    BY <1>0, <1>14, <2>1
    DEF U!Target, U!Future, Future, U!InAddress, U!Words, U!Digits, U!PlainText, Plain
  <2>3. /\ place' \in PlacesOf(phase') /\ phase' # "done"
        /\ phase \in HostOpen => phase' \in HostOpen
    BY <1>14, <2>1, <2>2 DEF PlacesOf, HostOpen, U!InAddress
  <2>4. \/ U!Ended(k, place') = "nothing"
        \/ U!Ended(k, place') = "host" /\ phase' \in HostOpen
    BY <1>14, <2>1, <2>2 DEF U!Ended, HostOpen, U!Words, U!Digits, U!PlainText, Plain
  <2>5. BegunNext
    BY <1>0, <1>1, <1>14, <2>1, <2>2 DEF BegunNext, AtBeginning, Begun, Beginnings, U!Marks
  <2> QED BY <2>3, <2>4, <2>5
<1>15. CASE g[1] = "[v.x" /\ k = "]" /\ g[3] = "]"
  <2>1. place = "vx" BY <1>1, <1>15 DEF PlacesOf
  <2>2. place' = "]"
    BY <1>0, <1>15, <2>1 DEF U!Target, U!Future, U!InAddress, U!Words, U!Digits, U!PlainText, Plain
  <2>3. /\ place' \in PlacesOf(phase') /\ phase' # "done"
        /\ phase \in HostOpen => phase' \in HostOpen
    BY <1>15, <2>1, <2>2 DEF PlacesOf, HostOpen, U!InAddress
  <2>4. \/ U!Ended(k, place') = "nothing"
        \/ U!Ended(k, place') = "host" /\ phase' \in HostOpen
    BY <1>15, <2>1, <2>2 DEF U!Ended, HostOpen, U!Words, U!Digits, U!PlainText, Plain
  <2>5. BegunNext
    BY <1>0, <1>1, <1>15, <2>1, <2>2 DEF BegunNext, AtBeginning, Begun, Beginnings, U!Marks
  <2> QED BY <2>3, <2>4, <2>5
<1>16. CASE g[1] = "port" /\ k \in U!Digits /\ g[3] = "port"
  <2>1. place \in {"port_or_user", "digits", "port0", "port"} BY <1>1, <1>16 DEF PlacesOf
  <2>2. place' = IF place \in {"port_or_user", "digits"} THEN "digits" ELSE "port"
    BY <1>0, <1>16, <2>1
    DEF U!Target, U!Authority, U!Host, U!InAddress, U!Words, U!Digits, U!PlainText, Plain
  <2>3. /\ place' \in PlacesOf(phase') /\ phase' # "done"
        /\ phase \in HostOpen => phase' \in HostOpen
    BY <1>16, <2>1, <2>2 DEF PlacesOf, HostOpen, U!InAddress
  <2>4. \/ U!Ended(k, place') = "nothing"
        \/ U!Ended(k, place') = "host" /\ phase' \in HostOpen
    BY <1>16, <2>1, <2>2 DEF U!Ended, HostOpen, U!Words, U!Digits, U!PlainText, Plain
  <2>5. BegunNext
    BY <1>0, <1>1, <1>16, <2>1, <2>2 DEF BegunNext, AtBeginning, Begun, Beginnings, U!Marks
  <2> QED BY <2>3, <2>4, <2>5
<1>17. CASE g[1] \in {"path", "segment"} /\ k \in Plain \cup {":", "@"} /\ g[3] = "segment"
  <2>1. place \in {"slash", "segment"} BY <1>1, <1>17 DEF PlacesOf
  <2>2. place' = "segment"
    BY <1>0, <1>17, <2>1
    DEF U!Target, U!PathQueryFragment, U!InAddress, U!Words, U!Digits, U!PlainText, Plain
  <2>3. /\ place' \in PlacesOf(phase') /\ phase' # "done"
        /\ phase \in HostOpen => phase' \in HostOpen
    BY <1>17, <2>1, <2>2 DEF PlacesOf, HostOpen, U!InAddress
  <2>4. \/ U!Ended(k, place') = "nothing"
        \/ U!Ended(k, place') = "host" /\ phase' \in HostOpen
    BY <1>17, <2>1, <2>2 DEF U!Ended, HostOpen, U!Words, U!Digits, U!PlainText, Plain
  <2>5. BegunNext
    BY <1>0, <1>1, <1>17, <2>1, <2>2 DEF BegunNext, AtBeginning, Begun, Beginnings, U!Marks
  <2> QED BY <2>3, <2>4, <2>5
<1>18. CASE g[1] = "query" /\ k \in Plain \cup {":", "@", "/", "?"} /\ g[3] = "query"
  <2>1. place \in {"query0", "query"} BY <1>1, <1>18 DEF PlacesOf
  <2>2. place' = "query"
    BY <1>0, <1>18, <2>1
    DEF U!Target, U!PathQueryFragment, U!InAddress, U!Words, U!Digits, U!PlainText, Plain
  <2>3. /\ place' \in PlacesOf(phase') /\ phase' # "done"
        /\ phase \in HostOpen => phase' \in HostOpen
    BY <1>18, <2>1, <2>2 DEF PlacesOf, HostOpen, U!InAddress
  <2>4. \/ U!Ended(k, place') = "nothing"
        \/ U!Ended(k, place') = "host" /\ phase' \in HostOpen
    BY <1>18, <2>1, <2>2 DEF U!Ended, HostOpen, U!Words, U!Digits, U!PlainText, Plain
  <2>5. BegunNext
    BY <1>0, <1>1, <1>18, <2>1, <2>2 DEF BegunNext, AtBeginning, Begun, Beginnings, U!Marks
  <2> QED BY <2>3, <2>4, <2>5
<1>19. CASE g[1] = "fragment" /\ k \in Plain \cup {":", "@", "/", "?"} /\ g[3] = "fragment"
  <2>1. place \in {"fragment0", "fragment"} BY <1>1, <1>19 DEF PlacesOf
  <2>2. place' = "fragment"
    BY <1>0, <1>19, <2>1
    DEF U!Target, U!PathQueryFragment, U!InAddress, U!Words, U!Digits, U!PlainText, Plain
  <2>3. /\ place' \in PlacesOf(phase') /\ phase' # "done"
        /\ phase \in HostOpen => phase' \in HostOpen
    BY <1>19, <2>1, <2>2 DEF PlacesOf, HostOpen, U!InAddress
  <2>4. \/ U!Ended(k, place') = "nothing"
        \/ U!Ended(k, place') = "host" /\ phase' \in HostOpen
    BY <1>19, <2>1, <2>2 DEF U!Ended, HostOpen, U!Words, U!Digits, U!PlainText, Plain
  <2>5. BegunNext
    BY <1>0, <1>1, <1>19, <2>1, <2>2 DEF BegunNext, AtBeginning, Begun, Beginnings, U!Marks
  <2> QED BY <2>3, <2>4, <2>5
<1> QED
  BY <1>2, <1>3, <1>4, <1>5, <1>6, <1>7, <1>8, <1>9, <1>10, <1>11, <1>12, <1>13, <1>14, <1>15,
      <1>16, <1>17, <1>18, <1>19 DEF Continues

\* Where the machine is behind what ends the authority or the path.
RestPlace(k) ==
    CASE k = "/" -> "slash" [] k = "?" -> "query0" [] k = "#" -> "fragment0" [] OTHER -> "final"

LEMMA RestGoes ==
    ASSUME NEW k, NEW ph, RestPhase(k, ph)
    PROVE  /\ U!Rest(k) = RestPlace(k) /\ k \in {"/", "?", "#", "NUL"}
           /\ RestPlace(k) \in {"slash", "query0", "fragment0", "final"}
           /\ ph = "done" <=> RestPlace(k) = "final"
           /\ ph # "done" => RestPlace(k) \in PlacesOf(ph)
           /\ ph \in {"path", "query", "fragment", "done"} /\ ph \notin HostOpen
  BY DEF RestPhase, RestPlace, U!Rest, PlacesOf, HostOpen

\* Where a part ends, the machine ends the same part, and from the same beginning.
LEMMA EndsGoes ==
    ASSUME NEW k, NEW g, g[1] = phase, phase' = g[3], Ends(g, k), begun' = Begun(g),
           InUri, UriType, U!ReadUri(k)
    PROVE  /\ IF phase' = "done" THEN place' = "final" ELSE place' \in PlacesOf(phase')
           /\ place' = "final" => phase' = "done"
           /\ g[4] \in UriParts
           /\ U!Ended(k, place') = IF g[4] = "path" THEN "segment" ELSE g[4]
           /\ BegunIs(k)
           /\ phase' # "done" => BegunNext
           /\ phase \in HostOpen => phase' \in HostOpen \/ g[4] = "host"
<1>0. /\ place' = U!Target(k) /\ p' = p + 1 /\ p \in Nat
      /\ mark' = IF U!Marks(k, place') THEN p ELSE mark
  BY UriStepIs DEF UriType
<1>1. /\ place \in PlacesOf(phase)
      /\ begun = IF AtBeginning THEN p ELSE IF place \in {"colon", "root"} THEN begun ELSE mark
  BY DEF InUri
<1>2. CASE g[1] = "scheme" /\ k = ":" /\ g[3] = ":" /\ g[4] = "scheme"
  <2>1. place = "scheme" BY <1>1, <1>2 DEF PlacesOf
  <2>2. place' = "colon"
    BY <1>0, <1>2, <2>1 DEF U!Target, U!Scheme, U!InAddress, U!Words, U!Digits, U!PlainText, Plain
  <2>3. /\ IF phase' = "done" THEN place' = "final" ELSE place' \in PlacesOf(phase')
        /\ place' = "final" => phase' = "done"
        /\ g[4] \in UriParts
        /\ phase \in HostOpen => phase' \in HostOpen \/ g[4] = "host"
    BY <1>2, <2>1, <2>2 DEF PlacesOf, HostOpen, UriParts
  <2>4. U!Ended(k, place') = IF g[4] = "path" THEN "segment" ELSE g[4]
    BY <1>2, <2>1, <2>2 DEF U!Ended
  <2>5. BegunIs(k) BY <1>1, <1>2, <2>1 DEF BegunIs, AtBeginning, U!EmptyPart
  <2>6. phase' # "done" => BegunNext
    BY <1>0, <1>1, <1>2, <2>1, <2>2 DEF BegunNext, AtBeginning, Begun, Beginnings
  <2> QED BY <2>3, <2>4, <2>5, <2>6
<1>3. CASE g[1] \in {"//", "user", "pass0", "pass"} /\ k = "@" /\ g[3] = "host0"
           /\ g[4] = "userinfo"
  <2>1. place \in {"authority", "name", "port_or_user", "user"} BY <1>1, <1>3 DEF PlacesOf
  <2>2. place' = "host0"
    BY <1>0, <1>3, <2>1
    DEF U!Target, U!Authority, U!InAddress, U!Words, U!Digits, U!PlainText, Plain
  <2>3. /\ IF phase' = "done" THEN place' = "final" ELSE place' \in PlacesOf(phase')
        /\ place' = "final" => phase' = "done"
        /\ g[4] \in UriParts
        /\ phase \in HostOpen => phase' \in HostOpen \/ g[4] = "host"
    BY <1>3, <2>1, <2>2 DEF PlacesOf, HostOpen, UriParts
  <2>4. U!Ended(k, place') = IF g[4] = "path" THEN "segment" ELSE g[4]
    BY <1>3, <2>1, <2>2 DEF U!Ended
  <2>5. BegunIs(k) BY <1>1, <1>3, <2>1 DEF BegunIs, AtBeginning, U!EmptyPart
  <2>6. phase' # "done" => BegunNext
    BY <1>0, <1>1, <1>3, <2>1, <2>2 DEF BegunNext, AtBeginning, Begun, Beginnings
  <2> QED BY <2>3, <2>4, <2>5, <2>6
<1>4. CASE g[1] \in {"//", "host0", "host", "]"} /\ k = ":" /\ g[3] = "port" /\ g[4] = "host"
  <2>1. place \in {"authority", "name", "host0", "host", "]"} BY <1>1, <1>4 DEF PlacesOf
  <2>2. place' = IF place \in {"authority", "name"} THEN "port_or_user" ELSE "port0"
    BY <1>0, <1>4, <2>1
    DEF U!Target, U!Authority, U!Host, U!InAddress, U!Words, U!Digits, U!PlainText, Plain
  <2>3. /\ IF phase' = "done" THEN place' = "final" ELSE place' \in PlacesOf(phase')
        /\ place' = "final" => phase' = "done"
        /\ g[4] \in UriParts
        /\ phase \in HostOpen => phase' \in HostOpen \/ g[4] = "host"
    BY <1>4, <2>1, <2>2 DEF PlacesOf, HostOpen, UriParts
  <2>4. U!Ended(k, place') = IF g[4] = "path" THEN "segment" ELSE g[4]
    BY <1>4, <2>1, <2>2 DEF U!Ended
  <2>5. BegunIs(k) BY <1>1, <1>4, <2>1 DEF BegunIs, AtBeginning, U!EmptyPart
  <2>6. phase' # "done" => BegunNext
    BY <1>0, <1>1, <1>4, <2>1, <2>2 DEF BegunNext, AtBeginning, Begun, Beginnings
  <2> QED BY <2>3, <2>4, <2>5, <2>6
<1>5. CASE g[1] \in {"//", "host0", "host", "]"} /\ RestPhase(k, g[3]) /\ g[4] = "host"
  <2>1. place \in {"authority", "name", "host0", "host", "]"} BY <1>1, <1>5 DEF PlacesOf
  <2>0. /\ U!Rest(k) = RestPlace(k) /\ k \in {"/", "?", "#", "NUL"}
        /\ RestPlace(k) \in {"slash", "query0", "fragment0", "final"}
        /\ phase' = "done" <=> RestPlace(k) = "final"
        /\ phase' # "done" => RestPlace(k) \in PlacesOf(phase')
        /\ phase' \in {"path", "query", "fragment", "done"} /\ phase' \notin HostOpen
    BY <1>5, RestGoes
  <2>2. place' = RestPlace(k)
    BY <1>0, <1>5, <2>0, <2>1
    DEF U!Target, U!Authority, U!Host, U!InAddress, U!Words, U!Digits, U!PlainText, Plain
  <2>3. /\ IF phase' = "done" THEN place' = "final" ELSE place' \in PlacesOf(phase')
        /\ place' = "final" => phase' = "done"
        /\ g[4] \in UriParts
        /\ phase \in HostOpen => phase' \in HostOpen \/ g[4] = "host"
    BY <1>5, <2>0, <2>1, <2>2 DEF HostOpen, UriParts
  <2>4. U!Ended(k, place') = IF g[4] = "path" THEN "segment" ELSE g[4]
    BY <1>5, <2>0, <2>1, <2>2 DEF U!Ended
  <2>5. BegunIs(k) BY <1>1, <1>5, <2>0, <2>1 DEF BegunIs, AtBeginning, U!EmptyPart
  <2>6. phase' # "done" => BegunNext
    BY <1>0, <1>1, <1>5, <2>0, <2>1, <2>2 DEF BegunNext, AtBeginning, Begun, Beginnings
  <2> QED BY <2>3, <2>4, <2>5, <2>6
<1>6. CASE g[1] = "port" /\ RestPhase(k, g[3]) /\ g[4] = "port"
  <2>1. place \in {"port_or_user", "digits", "port0", "port"} BY <1>1, <1>6 DEF PlacesOf
  <2>0. /\ U!Rest(k) = RestPlace(k) /\ k \in {"/", "?", "#", "NUL"}
        /\ RestPlace(k) \in {"slash", "query0", "fragment0", "final"}
        /\ phase' = "done" <=> RestPlace(k) = "final"
        /\ phase' # "done" => RestPlace(k) \in PlacesOf(phase')
        /\ phase' \in {"path", "query", "fragment", "done"} /\ phase' \notin HostOpen
    BY <1>6, RestGoes
  <2>2. place' = RestPlace(k)
    BY <1>0, <1>6, <2>0, <2>1
    DEF U!Target, U!Authority, U!Host, U!InAddress, U!Words, U!Digits, U!PlainText, Plain
  <2>3. /\ IF phase' = "done" THEN place' = "final" ELSE place' \in PlacesOf(phase')
        /\ place' = "final" => phase' = "done"
        /\ g[4] \in UriParts
        /\ phase \in HostOpen => phase' \in HostOpen \/ g[4] = "host"
    BY <1>6, <2>0, <2>1, <2>2 DEF HostOpen, UriParts
  <2>4. U!Ended(k, place') = IF g[4] = "path" THEN "segment" ELSE g[4]
    BY <1>6, <2>0, <2>1, <2>2 DEF U!Ended
  <2>5. BegunIs(k) BY <1>1, <1>6, <2>0, <2>1 DEF BegunIs, AtBeginning, U!EmptyPart
  <2>6. phase' # "done" => BegunNext
    BY <1>0, <1>1, <1>6, <2>0, <2>1, <2>2 DEF BegunNext, AtBeginning, Begun, Beginnings
  <2> QED BY <2>3, <2>4, <2>5, <2>6
<1>7. CASE g[1] = "segment" /\ RestPhase(k, g[3]) /\ g[4] = "path"
  <2>1. place = "segment" BY <1>1, <1>7 DEF PlacesOf
  <2>0. /\ U!Rest(k) = RestPlace(k) /\ k \in {"/", "?", "#", "NUL"}
        /\ RestPlace(k) \in {"slash", "query0", "fragment0", "final"}
        /\ phase' = "done" <=> RestPlace(k) = "final"
        /\ phase' # "done" => RestPlace(k) \in PlacesOf(phase')
        /\ phase' \in {"path", "query", "fragment", "done"} /\ phase' \notin HostOpen
    BY <1>7, RestGoes
  <2>2. place' = RestPlace(k)
    BY <1>0, <1>7, <2>0, <2>1
    DEF U!Target, U!PathQueryFragment, U!InAddress, U!Words, U!Digits, U!PlainText, Plain
  <2>3. /\ IF phase' = "done" THEN place' = "final" ELSE place' \in PlacesOf(phase')
        /\ place' = "final" => phase' = "done"
        /\ g[4] \in UriParts
        /\ phase \in HostOpen => phase' \in HostOpen \/ g[4] = "host"
    BY <1>7, <2>0, <2>1, <2>2 DEF HostOpen, UriParts
  <2>4. U!Ended(k, place') = IF g[4] = "path" THEN "segment" ELSE g[4]
    BY <1>7, <2>0, <2>1, <2>2 DEF U!Ended
  <2>5. BegunIs(k) BY <1>1, <1>7, <2>0, <2>1 DEF BegunIs, AtBeginning, U!EmptyPart
  <2>6. phase' # "done" => BegunNext
    BY <1>0, <1>1, <1>7, <2>0, <2>1, <2>2 DEF BegunNext, AtBeginning, Begun, Beginnings
  <2> QED BY <2>3, <2>4, <2>5, <2>6
<1>8. CASE g[1] = "query" /\ k \in {"#", "NUL"} /\ RestPhase(k, g[3]) /\ g[4] = "query"
  <2>1. place \in {"query0", "query"} BY <1>1, <1>8 DEF PlacesOf
  <2>0. /\ U!Rest(k) = RestPlace(k) /\ k \in {"/", "?", "#", "NUL"}
        /\ RestPlace(k) \in {"slash", "query0", "fragment0", "final"}
        /\ phase' = "done" <=> RestPlace(k) = "final"
        /\ phase' # "done" => RestPlace(k) \in PlacesOf(phase')
        /\ phase' \in {"path", "query", "fragment", "done"} /\ phase' \notin HostOpen
    BY <1>8, RestGoes
  <2>2. place' = RestPlace(k)
    BY <1>0, <1>8, <2>0, <2>1
    DEF U!Target, U!PathQueryFragment, U!InAddress, U!Words, U!Digits, U!PlainText, Plain
  <2>3. /\ IF phase' = "done" THEN place' = "final" ELSE place' \in PlacesOf(phase')
        /\ place' = "final" => phase' = "done"
        /\ g[4] \in UriParts
        /\ phase \in HostOpen => phase' \in HostOpen \/ g[4] = "host"
    BY <1>8, <2>0, <2>1, <2>2 DEF HostOpen, UriParts
  <2>4. U!Ended(k, place') = IF g[4] = "path" THEN "segment" ELSE g[4]
    BY <1>8, <2>0, <2>1, <2>2 DEF U!Ended
  <2>5. BegunIs(k) BY <1>1, <1>8, <2>0, <2>1 DEF BegunIs, AtBeginning, U!EmptyPart
  <2>6. phase' # "done" => BegunNext
    BY <1>0, <1>1, <1>8, <2>0, <2>1, <2>2 DEF BegunNext, AtBeginning, Begun, Beginnings, RestPhase
  <2> QED BY <2>3, <2>4, <2>5, <2>6
<1>9. CASE g[1] = "fragment" /\ k = "NUL" /\ g[3] = "done" /\ g[4] = "fragment"
  <2>1. place \in {"fragment0", "fragment"} BY <1>1, <1>9 DEF PlacesOf
  <2>2. place' = "final"
    BY <1>0, <1>9, <2>1
    DEF U!Target, U!PathQueryFragment, U!Rest, U!InAddress, U!Words, U!Digits, U!PlainText, Plain
  <2>3. /\ IF phase' = "done" THEN place' = "final" ELSE place' \in PlacesOf(phase')
        /\ place' = "final" => phase' = "done"
        /\ g[4] \in UriParts
        /\ phase \in HostOpen => phase' \in HostOpen \/ g[4] = "host"
    BY <1>9, <2>1, <2>2 DEF PlacesOf, HostOpen, UriParts
  <2>4. U!Ended(k, place') = IF g[4] = "path" THEN "segment" ELSE g[4]
    BY <1>9, <2>1, <2>2 DEF U!Ended
  <2>5. BegunIs(k) BY <1>1, <1>9, <2>1 DEF BegunIs, AtBeginning, U!EmptyPart
  <2>6. phase' # "done" => BegunNext
    BY <1>0, <1>1, <1>9, <2>1, <2>2 DEF BegunNext, AtBeginning, Begun, Beginnings
  <2> QED BY <2>3, <2>4, <2>5, <2>6
<1> QED BY <1>2, <1>3, <1>4, <1>5, <1>6, <1>7, <1>8, <1>9 DEF Ends

\* An empty segment ends no part.
LEMMA PassesGoes ==
    ASSUME NEW k, NEW g, g[1] = phase, phase' = g[3], Passes(g, k), begun' = Begun(g),
           InUri, UriType, U!ReadUri(k)
    PROVE  /\ IF phase' = "done" THEN place' = "final" ELSE place' \in PlacesOf(phase')
           /\ place' = "final" => phase' = "done"
           /\ U!Ended(k, place') = "nothing"
           /\ phase' # "done" => BegunNext
           /\ phase \notin HostOpen
<1>0. place' = U!Target(k) /\ p' = p + 1 /\ p \in Nat BY UriStepIs DEF UriType
<1>1. phase = "path" /\ RestPhase(k, phase') BY DEF Passes
<1>2. place = "slash" BY <1>1 DEF InUri, PlacesOf
<1>3. /\ U!Rest(k) = RestPlace(k) /\ k \in {"/", "?", "#", "NUL"}
      /\ RestPlace(k) \in {"slash", "query0", "fragment0", "final"}
      /\ phase' = "done" <=> RestPlace(k) = "final"
      /\ phase' # "done" => RestPlace(k) \in PlacesOf(phase')
      /\ phase' \in {"path", "query", "fragment", "done"}
  BY <1>1, RestGoes
<1>4. place' = RestPlace(k)
  BY <1>0, <1>2, <1>3
  DEF U!Target, U!PathQueryFragment, U!InAddress, U!Words, U!Digits, U!PlainText, Plain
<1>5. U!Ended(k, place') = "nothing" /\ phase \notin HostOpen BY <1>1, <1>2 DEF U!Ended, HostOpen
<1>6. phase' # "done" => BegunNext
  BY <1>0, <1>1, <1>3, <1>4 DEF BegunNext, AtBeginning, Begun, Beginnings
<1> QED BY <1>3, <1>4, <1>5, <1>6

-----------------------------------------------------------------------------
(* The parts of the URI after a token. *)

Means(part) ==
    CASE part = "none" -> meant
      [] part = "path" -> [meant EXCEPT !.path = Append(@, <<begun, p>>)]
      [] OTHER -> [meant EXCEPT ![part] = <<begun, p>>]

\* The machine and the client end the same part, or the machine takes the user for a host
\* while it may still be one.
SameEnd(k, part) ==
    /\ part = "none" => \/ U!Ended(k, place') = "nothing"
                        \/ U!Ended(k, place') = "host" /\ phase' \in HostOpen
    /\ part # "none" => /\ U!Ended(k, place') = IF part = "path" THEN "segment" ELSE part
                        /\ BegunIs(k)

SameParts ==
    /\ meant = [c \in UriParts |-> meant[c]]
    /\ meant["path"] = stack
    /\ \A c \in UriParts \ {"path", "host"} : meant[c] = uri[c]
    /\ phase \notin HostOpen => meant["host"] = uri["host"]

\* As long as the same parts end, the parts of the URI are the same.
LEMMA PartsFollow ==
    ASSUME NEW k, U!ReadUri(k), UriType, InUri, NEW part \in UriParts \cup {"none"},
           meant' = Means(part), SameEnd(k, part),
           phase \in HostOpen => phase' \in HostOpen \/ part = "host"
    PROVE  SameParts' /\ (place' = "final" => uri'["path"] = stack')
<1>1. /\ meant = [c \in UriParts |-> meant[c]]
      /\ meant["path"] = stack
      /\ \A c \in UriParts \ {"path", "host"} : meant[c] = uri[c]
      /\ phase \notin HostOpen => meant["host"] = uri["host"]
  BY DEF InUri
<1>2. DOMAIN meant = UriParts /\ "path" \in UriParts /\ "host" \in UriParts BY <1>1 DEF UriParts
<1>3. \A c \in UriParts : uri'[c] = IF c = "path" /\ place' = "final" THEN stack'
                                    ELSE IF c = U!Ended(k, place')
                                    THEN IF U!EmptyPart(k, place') THEN <<p, p>> ELSE <<mark, p>>
                                    ELSE uri[c]
  BY PartIs
<1>4. stack' = IF U!Ended(k, place') = "segment" THEN Append(stack, <<mark, p>>) ELSE stack
  BY UriStepIs DEF U!Pushed, U!Part
<1>5. meant' = [c \in UriParts |-> meant'[c]]
           /\ \A c \in UriParts : c # part => meant'[c] = meant[c]
  BY <1>1, <1>2 DEF Means
<1>6. part \notin {"none", "path"} => meant'[part] = <<begun, p>>
  BY <1>2 DEF Means
<1>7. part = "path" => meant'["path"] = Append(meant["path"], <<begun, p>>)
  BY <1>2 DEF Means
<1>8. "segment" \notin UriParts /\ "nothing" \notin UriParts /\ "none" \notin UriParts
  BY DEF UriParts
<1>9. meant'["path"] = stack'
  <2>1. CASE part = "path"
    <3>1. U!Ended(k, place') = "segment" /\ BegunIs(k) BY <2>1 DEF SameEnd
    <3>2. place = "segment" BY <3>1 DEF U!Ended
    <3>3. begun = mark BY <3>1, <3>2 DEF BegunIs, U!EmptyPart
    <3> QED BY <1>1, <1>4, <1>7, <2>1, <3>1, <3>3
  <2>2. CASE part # "path"
    <3>1. U!Ended(k, place') # "segment" BY <1>8, <2>2 DEF SameEnd
    <3> QED BY <1>1, <1>2, <1>4, <1>5, <2>2, <3>1
  <2> QED BY <2>1, <2>2
<1>10. ASSUME NEW c \in UriParts \ {"path"}, c = part PROVE meant'[c] = uri'[c]
  <2>1. U!Ended(k, place') = c /\ BegunIs(k) BY <1>8, <1>10 DEF SameEnd
  <2>2. meant'[c] = <<begun, p>> BY <1>6, <1>8, <1>10
  <2>3. uri'[c] = IF U!EmptyPart(k, place') THEN <<p, p>> ELSE <<mark, p>> BY <1>3, <1>10, <2>1
  <2> QED BY <2>1, <2>2, <2>3 DEF BegunIs
<1>11. ASSUME NEW c \in UriParts \ {"path"}, c # part, c # U!Ended(k, place'), meant[c] = uri[c]
       PROVE  meant'[c] = uri'[c]
  BY <1>3, <1>5, <1>11
<1>12. ASSUME NEW c \in UriParts \ {"path", "host"} PROVE meant'[c] = uri'[c]
  <2>1. c # part => c # U!Ended(k, place') BY <1>8, <1>12 DEF SameEnd
  <2> QED BY <1>1, <1>10, <1>11, <1>12, <2>1
<1>13. ASSUME phase' \notin HostOpen PROVE meant'["host"] = uri'["host"]
  <2>1. CASE part = "host" BY <1>2, <1>10, <2>1
  <2>2. CASE part # "host"
    <3>1. meant["host"] = uri["host"] BY <1>1, <1>13, <2>2
    <3>2. U!Ended(k, place') # "host" BY <1>13, <2>2 DEF SameEnd
    <3> QED BY <1>2, <1>11, <2>2, <3>1, <3>2
  <2> QED BY <2>1, <2>2
<1>14. place' = "final" => uri'["path"] = stack' BY <1>2, <1>3
<1> QED BY <1>5, <1>9, <1>12, <1>13, <1>14 DEF SameParts

\* The planned address is read from its beginning.
LEMMA LiteralBegins ==
    ASSUME place = "[", Fresh, plan \in Addresses
    PROVE  InLiteral
<1>1. /\ plan \in [before : 0..7, gap : {0, 2}, after : 0..8, octets : {0, 4}, due : {"none"}]
      /\ LET groups == plan.before + plan.after + IF plan.octets = 4 THEN 2 ELSE 0
         IN  IF plan.gap = 0 THEN plan.before = 0 /\ groups = 8 ELSE groups <= 7
  BY DEF Addresses
<1>2. literal.groups = 0 /\ literal.gap = FALSE BY DEF Fresh
<1>3. /\ plan = [before |-> plan.before, gap |-> plan.gap, after |-> plan.after,
                 octets |-> plan.octets, due |-> plan.due]
      /\ plan.before \in Nat /\ plan.after \in Nat
      /\ plan.gap \in {0, 2} /\ plan.octets \in {0, 4} /\ plan.due = "none"
  BY <1>1
<1> QED BY <1>1, <1>2, <1>3 DEF InLiteral

\* A token outside of an address keeps the machine where the client is.
LEMMA PartStep ==
    ASSUME NEW k, WriteUri(k), WritePart(k), UriType, LiteralType, UriRelation
    PROVE  UriRelation'
<1>1. PICK g \in UriGrammar :
          /\ g[1] = phase /\ k \in g[2]
          /\ phase' = g[3]
          /\ meant' = Means(g[4])
          /\ begun' = Begun(g)
          /\ plan' \in IF g[3] = "literal" THEN Addresses ELSE {NoPlan}
  BY DEF WritePart, Means, Begun
<1>2. header = "URI" /\ U!ReadUri(k) BY DEF WriteUri
<1>3. \/ Continues(g, k) /\ g[4] = "none"
      \/ Ends(g, k)
      \/ Passes(g, k) /\ g[4] = "none"
  <2>1. k \in g[2] BY <1>1
  <2> QED BY <2>1, UriRules
<1>4. phase \notin {"done", "free"}
  <2>1. Continues(g, k) => g[1] \notin {"done", "free"} BY DEF Continues
  <2>2. Ends(g, k) => g[1] \notin {"done", "free"} BY DEF Ends
  <2>3. Passes(g, k) => g[1] \notin {"done", "free"} BY DEF Passes
  <2> QED BY <1>1, <1>3, <2>1, <2>2, <2>3
<1>5. InUri BY <1>2, <1>4 DEF UriRelation
<1>6. phase' \in UriPhases
  <2>0. \A ph : RestPhase(k, ph) => ph \in UriPhases BY DEF RestPhase, UriPhases
  <2>1. Continues(g, k) => g[3] \in UriPhases BY DEF Continues, UriPhases
  <2>2. Ends(g, k) => g[3] \in UriPhases BY <2>0 DEF Ends, UriPhases
  <2>3. Passes(g, k) => g[3] \in UriPhases BY <2>0 DEF Passes
  <2> QED BY <1>1, <1>3, <2>1, <2>2, <2>3
<1>7. /\ IF phase' = "done" THEN place' = "final" ELSE place' \in PlacesOf(phase')
      /\ phase' # "done" => BegunNext
      /\ g[4] \in UriParts \cup {"none"}
      /\ SameEnd(k, g[4])
      /\ phase \in HostOpen => phase' \in HostOpen \/ g[4] = "host"
  <2>0. "none" \notin UriParts BY DEF UriParts
  <2>1. CASE Continues(g, k) /\ g[4] = "none" BY <1>1, <1>2, <1>5, <2>1, ContinuesGoes DEF SameEnd
  <2>2. CASE Ends(g, k) BY <1>1, <1>2, <1>5, <2>0, <2>2, EndsGoes DEF SameEnd
  <2>3. CASE Passes(g, k) /\ g[4] = "none" BY <1>1, <1>2, <1>5, <2>3, PassesGoes DEF SameEnd
  <2> QED BY <1>3, <2>1, <2>2, <2>3
<1>8. SameParts' /\ (place' = "final" => uri'["path"] = stack')
  BY <1>1, <1>2, <1>5, <1>7, PartsFollow
<1>9. phase' = "done" => place' = "final" /\ uri' = meant'
  <2>1. ASSUME phase' = "done" PROVE place' = "final" /\ uri' = meant'
    <3>1. place' = "final" BY <1>7, <2>1
    <3>2. "path" \in UriParts /\ phase' \notin HostOpen BY <2>1 DEF UriParts, HostOpen
    <3>3. /\ meant' = [c \in UriParts |-> meant'[c]]
          /\ meant'["path"] = stack'
          /\ \A c \in UriParts \ {"path", "host"} : meant'[c] = uri'[c]
          /\ meant'["host"] = uri'["host"]
      BY <1>8, <3>2 DEF SameParts
    <3>4. \A c \in UriParts : meant'[c] = uri'[c] BY <1>8, <3>1, <3>3
    <3>5. uri' = [c \in UriParts |-> uri'[c]] BY <1>2, <3>2, PartIs
    <3> HIDE DEF UriParts
    <3>6. meant' = uri' BY <3>3, <3>4, <3>5
    <3> QED BY <3>1, <3>6
  <2> QED BY <2>1
<1>10. phase' # "done" => InUri' BY <1>7, <1>8 DEF InUri, SameParts, BegunNext
<1>11. phase' = "literal" => InLiteral'
  <2>1. ASSUME phase' = "literal" PROVE InLiteral'
    <3>1. g[1] \in {"//", "host0"} /\ k = "["
      <4>1. ~Ends(g, k) BY <1>1, <2>1 DEF Ends, RestPhase
      <4>2. ~Passes(g, k) BY <1>1, <2>1 DEF Passes, RestPhase
      <4>3. Continues(g, k) BY <1>3, <4>1, <4>2
      <4> QED BY <1>1, <2>1, <4>3 DEF Continues
    <3>2. place \in {"authority", "host0"} BY <1>1, <1>5, <3>1 DEF InUri, PlacesOf
    <3>3. place' = "["
      <4>1. place' = U!Target(k) BY <1>2, UriStepIs
      <4> QED BY <3>1, <3>2, <4>1
      DEF U!Target, U!InAddress, U!Authority, U!Host, U!PlainText, U!Words, U!Digits
    <3>4. LiteralType' BY <1>2, LiteralStepType
    <3>5. Fresh' BY <3>3, <3>4 DEF LiteralType, BeforeLiteral
    <3>6. plan' \in Addresses BY <1>1, <2>1
    <3>7. (place = "[" /\ Fresh /\ plan \in Addresses => InLiteral)' BY LiteralBegins, PTL
    <3> QED BY <3>3, <3>5, <3>6, <3>7
  <2> QED BY <2>1
<1> QED BY <1>6, <1>9, <1>10, <1>11 DEF UriRelation

-----------------------------------------------------------------------------
(* An IPv6 address, element by element. *)

PlanIs(b, g, a, o, d) ==
    plan' = [before |-> b, gap |-> g, after |-> a, octets |-> o, due |-> d]

\* What can be written next of a planned address.
LEMMA WrittenIs ==
    ASSUME NEW k, InLiteral, Written(k) # plan, plan' = Written(k)
    PROVE  \/ /\ plan.due # "none" /\ k = plan.due
              /\ PlanIs(plan.before, plan.gap, plan.after, plan.octets, "none")
           \/ /\ plan.due = "none" /\ plan.before > 0 /\ k \in {"hex", "octet", "group"}
              /\ PlanIs(plan.before - 1, plan.gap, plan.after, plan.octets,
                        IF plan.before > 1 THEN ":" ELSE "none")
           \/ /\ plan.due = "none" /\ plan.before = 0 /\ plan.gap > 0 /\ k = ":"
              /\ PlanIs(0, plan.gap - 1, plan.after, plan.octets, "none")
           \/ /\ plan.due = "none" /\ plan.before = 0 /\ plan.gap = 0 /\ plan.after > 0
              /\ k \in {"hex", "octet", "group"}
              /\ PlanIs(0, 0, plan.after - 1, plan.octets,
                        IF plan.after > 1 \/ plan.octets > 0 THEN ":" ELSE "none")
           \/ /\ plan.due = "none" /\ plan.before = 0 /\ plan.gap = 0 /\ plan.after = 0
              /\ plan.octets > 0 /\ k = "octet"
              /\ PlanIs(0, 0, 0, plan.octets - 1, IF plan.octets > 1 THEN "." ELSE "none")
<1>1. /\ plan = [before |-> plan.before, gap |-> plan.gap, after |-> plan.after,
                 octets |-> plan.octets, due |-> plan.due]
      /\ plan.before \in Nat /\ plan.after \in Nat
      /\ plan.gap \in 0..2 /\ plan.octets \in 0..4
  BY DEF InLiteral
<1>2. CASE plan.due # "none" /\ k = plan.due BY <1>1, <1>2 DEF Written, PlanIs
<1>3. CASE plan.due = "none" /\ plan.before > 0 /\ k \in {"hex", "octet", "group"}
  <2>1. Written(k) = [plan EXCEPT !.before = @ - 1, !.due = IF plan.before > 1 THEN ":" ELSE "none"]
    BY <1>1, <1>3 DEF Written
  <2>2. PlanIs(plan.before - 1, plan.gap, plan.after, plan.octets,
               IF plan.before > 1 THEN ":" ELSE "none")
    BY <1>1, <2>1 DEF PlanIs
  <2> QED BY <1>3, <2>2
<1>4. CASE plan.due = "none" /\ plan.before = 0 /\ plan.gap > 0 /\ k = ":"
  BY <1>1, <1>4 DEF Written, PlanIs
<1>5. CASE /\ plan.due = "none" /\ plan.before + plan.gap = 0 /\ plan.after > 0
           /\ k \in {"hex", "octet", "group"}
  <2>1. plan.before = 0 /\ plan.gap = 0 BY <1>1, <1>5
  <2>2. Written(k) = [plan EXCEPT !.after = @ - 1,
                                  !.due = IF plan.after > 1 \/ plan.octets > 0 THEN ":" ELSE "none"]
    BY <1>1, <1>5, <2>1 DEF Written
  <2>3. PlanIs(0, 0, plan.after - 1, plan.octets,
               IF plan.after > 1 \/ plan.octets > 0 THEN ":" ELSE "none")
    BY <1>1, <2>1, <2>2 DEF PlanIs
  <2> QED BY <1>5, <2>1, <2>3
<1>6. CASE /\ plan.due = "none" /\ plan.before + plan.gap + plan.after = 0 /\ plan.octets > 0
           /\ k = "octet"
  <2>1. plan.before = 0 /\ plan.gap = 0 /\ plan.after = 0 BY <1>1, <1>6
  <2>2. Written(k) = [plan EXCEPT !.octets = @ - 1,
                                  !.due = IF plan.octets > 1 THEN "." ELSE "none"]
    BY <1>1, <1>6, <2>1 DEF Written
  <2>3. PlanIs(0, 0, 0, plan.octets - 1, IF plan.octets > 1 THEN "." ELSE "none")
    BY <1>1, <2>1, <2>2 DEF PlanIs
  <2> QED BY <1>6, <2>1, <2>3
<1> QED BY <1>2, <1>3, <1>4, <1>5, <1>6 DEF Written

\* The machine follows the plan.
LEMMA ElementStep ==
    ASSUME NEW k, U!ReadUri(k), UriType, LiteralType, InLiteral, Written(k) # plan, plan' = Written(k)
    PROVE  place' \in U!InAddress /\ InLiteral'
<1>1. /\ literal'.groups = literal.groups + IF place' = "g" THEN 1 ELSE 0
      /\ literal'.gap \in BOOLEAN /\ (literal'.gap <=> literal.gap \/ place' = "::")
      /\ literal'.octets = IF place' = "o" THEN literal.octets + 1
                           ELSE IF place = "g" /\ place' = "." THEN 1 ELSE literal.octets
      /\ literal'.decimal \in BOOLEAN
      /\ literal'.decimal <=> IF place' = "g" THEN k = "octet" ELSE literal.decimal
  BY LiteralIs
<1>2. /\ literal.groups \in 0..8 /\ literal.octets \in 0..4
      /\ literal.gap \in BOOLEAN /\ literal.decimal \in BOOLEAN
      /\ place \in {"[", "[:"} => literal.groups = 0 /\ ~literal.gap
  BY DEF LiteralType, BeforeLiteral, Fresh
<1>3. place \in U!InAddress BY DEF InLiteral, U!InAddress
<1>4. place' = U!Literal(k) BY <1>3, UriStepIs DEF U!Target, U!InAddress
<1>5. CASE /\ plan.due # "none" /\ k = plan.due
           /\ PlanIs(plan.before, plan.gap, plan.after, plan.octets, "none")
  <2>1. CASE k = ":"
    <3>1. place = "g" BY <1>5, <2>1 DEF InLiteral
    <3>2. U!Room(literal.groups, literal.gap) BY <1>2, <1>5, <2>1, <3>1 DEF InLiteral, U!Room
    <3>3. place' = "g:" BY <1>4, <2>1, <3>1, <3>2 DEF U!Literal
    <3> QED BY <1>1, <1>2, <1>5, <2>1, <3>1, <3>3 DEF InLiteral, PlanIs, U!InAddress
  <2>2. CASE k = "." /\ place = "g"
    <3>1. U!Room(literal.groups, literal.gap) /\ literal.decimal
          /\ (literal.gap \/ literal.groups = 7)
      BY <1>2, <1>5, <2>2 DEF InLiteral, U!Room
    <3>2. place' = "." BY <1>4, <2>2, <3>1 DEF U!Literal
    <3> QED BY <1>1, <1>2, <1>5, <2>2, <3>2 DEF InLiteral, PlanIs, U!InAddress
  <2>3. CASE k = "." /\ place = "o"
    <3>1. literal.octets < 4 BY <1>5, <2>3 DEF InLiteral
    <3>2. place' = "." BY <1>4, <2>3, <3>1 DEF U!Literal
    <3> QED BY <1>1, <1>2, <1>5, <2>3, <3>2 DEF InLiteral, PlanIs, U!InAddress
  <2> QED BY <1>5, <2>1, <2>2, <2>3 DEF InLiteral
<1>6. CASE /\ plan.due = "none" /\ plan.before > 0 /\ k \in {"hex", "octet", "group"}
           /\ PlanIs(plan.before - 1, plan.gap, plan.after, plan.octets,
                     IF plan.before > 1 THEN ":" ELSE "none")
  <2>1. place \in {"[", "g:"} /\ plan.gap = 2 BY <1>6 DEF InLiteral
  <2>2. U!Room(literal.groups, literal.gap) BY <1>2, <1>6, <2>1 DEF InLiteral, U!Room
  <2>3. place' = "g" BY <1>4, <1>6, <2>1, <2>2 DEF U!Literal
  <2> QED BY <1>1, <1>2, <1>6, <2>1, <2>3 DEF InLiteral, PlanIs, U!InAddress
<1>7. CASE /\ plan.due = "none" /\ plan.before = 0 /\ plan.gap > 0 /\ k = ":"
           /\ PlanIs(0, plan.gap - 1, plan.after, plan.octets, "none")
  <2>1. CASE place = "["
    <3>1. place' = "[:" BY <1>4, <1>7, <2>1 DEF U!Literal
    <3> QED BY <1>1, <1>2, <1>7, <2>1, <3>1 DEF InLiteral, PlanIs, U!InAddress
  <2>2. CASE place = "g"
    <3>1. U!Room(literal.groups, literal.gap) BY <1>2, <1>7, <2>2 DEF InLiteral, U!Room
    <3>2. place' = "g:" BY <1>4, <1>7, <2>2, <3>1 DEF U!Literal
    <3> QED BY <1>1, <1>2, <1>7, <2>2, <3>2 DEF InLiteral, PlanIs, U!InAddress
  <2>3. CASE place \in {"[:", "g:"}
    <3>1. ~literal.gap BY <1>7 DEF InLiteral
    <3>2. place' = "::" BY <1>4, <1>7, <2>3, <3>1 DEF U!Literal
    <3> QED BY <1>1, <1>2, <1>7, <2>3, <3>2 DEF InLiteral, PlanIs, U!InAddress
  <2> QED BY <1>7, <2>1, <2>2, <2>3 DEF InLiteral
<1>8. CASE /\ plan.due = "none" /\ plan.before = 0 /\ plan.gap = 0 /\ plan.after > 0
           /\ k \in {"hex", "octet", "group"}
           /\ PlanIs(0, 0, plan.after - 1, plan.octets,
                     IF plan.after > 1 \/ plan.octets > 0 THEN ":" ELSE "none")
  <2>1. place \in {"[", "g:", "::"} /\ plan.octets \in {0, 4} BY <1>8 DEF InLiteral
  <2>2. U!Room(literal.groups, literal.gap) BY <1>2, <1>8, <2>1 DEF InLiteral, U!Room
  <2>3. place' = "g" BY <1>4, <1>8, <2>1, <2>2 DEF U!Literal
  <2> QED BY <1>1, <1>2, <1>8, <2>1, <2>3 DEF InLiteral, PlanIs, U!InAddress
<1>9. CASE /\ plan.due = "none" /\ plan.before = 0 /\ plan.gap = 0 /\ plan.after = 0
           /\ plan.octets > 0 /\ k = "octet"
           /\ PlanIs(0, 0, 0, plan.octets - 1, IF plan.octets > 1 THEN "." ELSE "none")
  <2>1. CASE plan.octets = 4
    <3>1. place \in {"::", "g:"} BY <1>2, <1>9, <2>1 DEF InLiteral
    <3>2. U!Room(literal.groups, literal.gap) BY <1>2, <1>9, <2>1, <3>1 DEF InLiteral, U!Room
    <3>3. place' = "g" BY <1>4, <1>9, <3>1, <3>2 DEF U!Literal
    <3> QED BY <1>1, <1>2, <1>9, <2>1, <3>1, <3>3 DEF InLiteral, PlanIs, U!InAddress
  <2>2. CASE plan.octets # 4
    <3>1. place = "." BY <1>2, <1>9, <2>2 DEF InLiteral
    <3>2. place' = "o" BY <1>4, <1>9, <3>1 DEF U!Literal
    <3> QED BY <1>1, <1>2, <1>9, <2>2, <3>1, <3>2 DEF InLiteral, PlanIs, U!InAddress
  <2> QED BY <2>1, <2>2
<1> QED BY <1>5, <1>6, <1>7, <1>8, <1>9, WrittenIs

\* A whole address is closed.
LEMMA LiteralEnds ==
    ASSUME U!ReadUri("]"), UriType, LiteralType, InLiteral, plan = NoPlan
    PROVE  place' = "]"
<1>1. /\ literal.groups \in 0..8 /\ literal.octets \in 0..4 /\ literal.gap \in BOOLEAN
      /\ place \in {"[", "[:"} => literal.groups = 0 /\ ~literal.gap
  BY DEF LiteralType, BeforeLiteral, Fresh
<1>2. /\ plan.before = 0 /\ plan.gap = 0 /\ plan.after = 0 /\ plan.octets = 0 /\ plan.due = "none"
  BY DEF NoPlan
<1>3. place \in {"g", "::", "o"} BY <1>1, <1>2 DEF InLiteral
<1>4. place \in {"g", "::"} => U!Complete BY <1>1, <1>2 DEF InLiteral, U!Complete
<1>5. place = "o" => literal.octets = 4 BY <1>1, <1>2 DEF InLiteral
<1>6. place' = U!Literal("]") BY <1>3, UriStepIs DEF U!Target, U!InAddress
<1> QED BY <1>3, <1>4, <1>5, <1>6 DEF U!Literal

\* So does a token inside of an address.
LEMMA AddressStep ==
    ASSUME NEW k, WriteUri(k), WriteLiteral(k), UriType, LiteralType, UriRelation, phase' # "free"
    PROVE  UriRelation'
<1>1. header = "URI" /\ U!ReadUri(k) /\ phase = "literal" BY DEF WriteUri, WriteLiteral
<1>2. InUri /\ InLiteral BY <1>1 DEF UriRelation
<1>3. meant' = meant /\ begun' = begun BY DEF WriteLiteral
<1>4. \/ phase' = "literal" /\ place' \in U!InAddress /\ InLiteral'
      \/ phase' = "]" /\ place' = "]"
  <2>1. CASE Written(k) # plan /\ plan' = Written(k) /\ phase' = phase
    BY <1>1, <1>2, <2>1, ElementStep
  <2>2. CASE plan = NoPlan /\ k = "]" /\ phase' = "]" BY <1>1, <1>2, <2>2, LiteralEnds
  <2> QED BY <2>1, <2>2 DEF WriteLiteral
<1>5. place \in U!InAddress BY <1>1, <1>2 DEF InUri, PlacesOf
<1>6. U!Ended(k, place') = "nothing" BY <1>5 DEF U!Ended, U!InAddress
<1>7. meant' = Means("none") BY <1>3 DEF Means
<1>8. SameEnd(k, "none") BY <1>6 DEF SameEnd
<1>9. phase' \in HostOpen BY <1>4 DEF HostOpen
<1>10. SameParts' BY <1>1, <1>2, <1>7, <1>8, <1>9, PartsFollow
<1>11. place' \in PlacesOf(phase') BY <1>4 DEF PlacesOf
<1>12. BegunNext
  <2>1. mark' = mark BY <1>1, <1>5, UriStepIs DEF U!Marks, U!InAddress
  <2>2. begun = mark BY <1>2, <1>5 DEF InUri, AtBeginning, U!InAddress
  <2> QED BY <1>3, <1>4, <2>1, <2>2 DEF BegunNext, AtBeginning, U!InAddress
<1>13. InUri' BY <1>10, <1>11, <1>12 DEF InUri, SameParts, BegunNext
<1> QED BY <1>4, <1>13 DEF UriRelation, UriPhases

\* Every token of a URI keeps the machine where the client is.
LEMMA UriStepRelation ==
    ASSUME NEW k, WriteUri(k), UriType, LiteralType, UriRelation
    PROVE  UriRelation'
<1>1. CASE phase' = "free" BY <1>1 DEF UriRelation, UriPhases
<1>2. CASE phase' # "free"
  <2>1. WriteLiteral(k) \/ WritePart(k) BY <1>2 DEF WriteUri, LeaveGrammar
  <2> QED BY <1>2, <2>1, AddressStep, PartStep
<1> QED BY <1>1, <1>2

-----------------------------------------------------------------------------
(* The three headers together. *)

HeadersInv ==
    /\ header \in {"Transport", "Range", "URI"}
    /\ TransportInv
    /\ RangeInv
    /\ UriInv

LEMMA NumbersType ==
    Numbers \subseteq Nat /\ TimeNumbers \subseteq Nat /\ \A n \in TimeNumbers : NineDigits(n)
  BY HeadersAssumption, SMT DEF NineDigits

\* What a token can hold.
LEMMA TokenOf ==
    ASSUME NEW kinds, NEW numbers, numbers \subseteq Nat, NEW tok \in Tokens(kinds, numbers)
    PROVE  tok.kind \in kinds /\ tok.value \in Nat /\ (tok.value = 0 \/ tok.value \in numbers)
<1>1. CASE tok \in [kind : kinds \ {"number"}, value : {0}] BY <1>1
<1>2. CASE tok \in [kind : kinds \cap {"number"}, value : numbers] BY <1>2
<1> QED BY <1>1, <1>2 DEF Tokens

\* A header that is not being written stays as it is.
LEMMA TransportUntouched ==
    ASSUME TransportInv, header' = header, UNCHANGED transportVars,
           header = "Transport" => UNCHANGED <<phase, meant>>
    PROVE  TransportInv'
<1>1. /\ parser' = parser /\ cs' = cs /\ number' = number /\ transport' = transport
      /\ transports' = transports
  BY DEF transportVars
<1>2. TransportType' /\ SkipsFresh' /\ TransportSet'
  BY <1>1 DEF TransportInv, TransportType, SkipsFresh, TransportSet
<1>3. TransportRelation'
  <2>1. CASE header = "Transport"
    <3>1. phase' = phase /\ meant' = meant BY <2>1
    <3>2. TransportRelation BY DEF TransportInv
    <3> QED BY <1>1, <3>1, <3>2 DEF TransportRelation, BetweenOffers, InOffer
  <2>2. CASE header # "Transport" BY <2>2 DEF TransportRelation
  <2> QED BY <2>1, <2>2
<1> QED BY <1>2, <1>3 DEF TransportInv

LEMMA RangeUntouched ==
    ASSUME RangeInv, header' = header, UNCHANGED rangeVars,
           header = "Range" => UNCHANGED <<phase, meant, last>>
    PROVE  RangeInv'
<1>1. /\ reader' = reader /\ at' = at /\ side' = side /\ integer' = integer /\ seconds' = seconds
      /\ range' = range /\ range_supported' = range_supported
  BY DEF rangeVars
<1>2. RangeType' BY <1>1 DEF RangeInv, RangeType
<1>3. RangeRelation'
  <2>1. CASE header = "Range"
    <3>1. phase' = phase /\ meant' = meant /\ last' = last BY <2>1
    <3>2. RangeRelation BY DEF RangeInv
    <3>3. InRange' <=> InRange BY <1>1, <3>1, Zenon DEF InRange, IsAt, SoFar
    <3> QED BY <1>1, <3>1, <3>2, <3>3 DEF RangeRelation
  <2>2. CASE header # "Range" BY <2>2 DEF RangeRelation
  <2> QED BY <2>1, <2>2
<1> QED BY <1>2, <1>3 DEF RangeInv

LEMMA UriUntouched ==
    ASSUME UriInv, header' = header, UNCHANGED uriVars,
           header = "URI" => UNCHANGED <<phase, meant, begun, plan>>
    PROVE  UriInv'
<1>1. place' = place /\ literal' = literal /\ p' = p /\ mark' = mark /\ stack' = stack /\ uri' = uri
  BY DEF uriVars
<1>2. UriType' /\ LiteralType' BY <1>1 DEF UriInv, UriType, LiteralType, Fresh
<1>3. UriRelation'
  <2>1. CASE header = "URI"
    <3>1. phase' = phase /\ meant' = meant /\ begun' = begun /\ plan' = plan BY <2>1
    <3>2. UriRelation BY DEF UriInv
    <3>3. InUri' <=> InUri BY <1>1, <3>1, Zenon DEF InUri, AtBeginning
    <3>4. InLiteral' <=> InLiteral BY <1>1, <3>1, ZenonT(60) DEF InLiteral
    <3> QED BY <1>1, <3>1, <3>2, <3>3, <3>4 DEF UriRelation
  <2>2. CASE header # "URI" BY <2>2 DEF UriRelation
  <2> QED BY <2>1, <2>2
<1> QED BY <1>2, <1>3 DEF UriInv

LEMMA HeadersInit == Init => HeadersInv
<1> SUFFICES ASSUME Init PROVE HeadersInv OBVIOUS
<1>1. header \in {"Transport", "Range", "URI"} BY DEF Init
<1>2. TransportInv
  <2>1. parser = "run" /\ cs = {T!Start} /\ number = 0 /\ transport = <<>> /\ transports = <<>>
    BY DEF Init, T!TransportInit
  <2>2. TransportType
    <3>1. <<>> \in Seq(Offers) /\ Len(<<>>) = 0 OBVIOUS
    <3> QED BY <2>1, <3>1 DEF TransportType, T!Threads
  <2>3. SkipsFresh /\ TransportSet BY <2>1 DEF SkipsFresh, TransportSet
  <2>4. header = "Transport" => phase = "offer" /\ meant = <<>> BY DEF Init
  <2>5. header = "Transport" => BetweenOffers BY <2>1, <2>4 DEF BetweenOffers
  <2>6. TransportRelation BY <2>1, <2>4, <2>5 DEF TransportRelation, TransportPhases
  <2> QED BY <2>2, <2>3, <2>6 DEF TransportInv
<1>3. RangeInv
  <2>1. /\ reader = "run" /\ at = "start" /\ integer = 0 /\ seconds = 0
        /\ range = R!defaultrange /\ range_supported = FALSE
    BY DEF Init, R!RangeInit
  <2>2. RangeType BY <2>1 DEF RangeType, R!defaultrange
  <2>3. header = "Range" => phase = "unit" /\ meant = R!defaultrange BY DEF Init
  <2>4. header = "Range" => InRange
    BY <2>1, <2>3 DEF InRange, IsAt, R!defaultrange, R!Unset, BeginPhases, EndPhases
  <2>5. RangeRelation BY <2>3, <2>4 DEF RangeRelation, R!defaultrange
  <2> QED BY <2>2, <2>5 DEF RangeInv
<1>4. UriInv
  <2>1. /\ place = "start" /\ p = 0 /\ mark = 0 /\ stack = <<>>
        /\ literal = [groups |-> 0, gap |-> FALSE, octets |-> 0, decimal |-> FALSE]
        /\ uri = [scheme |-> <<>>, userinfo |-> <<>>, host |-> <<>>, port |-> <<>>,
                  path |-> <<>>, query |-> <<>>, fragment |-> <<>>]
    BY DEF Init, U!UriInit, U!None
  <2>2. uri = [c \in UriParts |-> uri[c]] /\ \A c \in UriParts : uri[c] = <<>> BY <2>1 DEF UriParts
  <2>3. UriType
    <3>1. <<>> \in Seq(Nat \X Nat) OBVIOUS
    <3> QED BY <2>1, <2>2, <3>1 DEF UriType, U!Places
  <2>4. LiteralType BY <2>1 DEF LiteralType, Fresh
  <2>5. header = "URI" => phase = "start" /\ meant = uri /\ begun = 0 BY DEF Init
  <2>6. "path" \in UriParts /\ "host" \in UriParts BY DEF UriParts
  <2>7. header = "URI" => InUri BY <2>1, <2>2, <2>5, <2>6 DEF InUri, PlacesOf, AtBeginning
  <2>8. UriRelation BY <2>5, <2>7 DEF UriRelation, UriPhases
  <2> QED BY <2>3, <2>4, <2>8 DEF UriInv
<1> QED BY <1>1, <1>2, <1>3, <1>4 DEF HeadersInv

\* Every step is a token of one header and leaves the other two machines alone.
LEMMA HeadersStep == HeadersInv /\ [Next]_vars => HeadersInv'
<1> SUFFICES ASSUME HeadersInv, [Next]_vars PROVE HeadersInv' OBVIOUS
<1>0. TransportInv /\ RangeInv /\ UriInv /\ header \in {"Transport", "Range", "URI"}
  BY DEF HeadersInv
<1>1. ASSUME NEW tok \in Tokens(T!Kinds, Numbers), WriteTransport(tok) PROVE HeadersInv'
  <2>1. tok.kind \in T!Kinds /\ tok.value \in Nat BY NumbersType, TokenOf
  <2>2. header = "Transport" /\ header' = header /\ UNCHANGED rangeVars /\ UNCHANGED uriVars
    BY <1>1 DEF WriteTransport
  <2>3. TransportInv'
    <3>1. T!TransportNext(tok) BY <1>1 DEF WriteTransport
    <3>2. TransportType /\ SkipsFresh /\ TransportSet /\ TransportRelation BY <1>0 DEF TransportInv
    <3>3. TransportType' /\ SkipsFresh' /\ TransportSet' BY <2>1, <3>1, <3>2, TransportStepType
    <3>4. TransportRelation' BY <1>1, <2>1, <3>2, TransportStepRelation
    <3> QED BY <3>3, <3>4 DEF TransportInv
  <2>4. RangeInv' BY <1>0, <2>2, RangeUntouched
  <2>5. UriInv' BY <1>0, <2>2, UriUntouched
  <2> QED BY <1>0, <2>2, <2>3, <2>4, <2>5 DEF HeadersInv
<1>2. ASSUME NEW tok \in Tokens(R!Kinds, TimeNumbers), WriteRange(tok) PROVE HeadersInv'
  <2>1. tok.value \in Nat /\ NineDigits(tok.value)
    <3>1. NineDigits(0) BY SMT DEF NineDigits
    <3> QED BY <3>1, NumbersType, TokenOf
  <2>2. header = "Range" /\ header' = header /\ UNCHANGED transportVars /\ UNCHANGED uriVars
    BY <1>2 DEF WriteRange
  <2>3. RangeInv'
    <3>1. R!ReadRange(tok) BY <1>2 DEF WriteRange
    <3>2. RangeType /\ RangeRelation BY <1>0 DEF RangeInv
    <3>3. RangeType' BY <2>1, <3>1, <3>2, RangeStepType
    <3>4. RangeRelation' BY <1>2, <2>1, <3>2, RangeStepRelation
    <3> QED BY <3>3, <3>4 DEF RangeInv
  <2>4. TransportInv' BY <1>0, <2>2, TransportUntouched
  <2>5. UriInv' BY <1>0, <2>2, UriUntouched
  <2> QED BY <1>0, <2>2, <2>3, <2>4, <2>5 DEF HeadersInv
<1>3. ASSUME NEW k \in U!Kinds, WriteUri(k) PROVE HeadersInv'
  <2>1. header = "URI" /\ header' = header /\ UNCHANGED transportVars /\ UNCHANGED rangeVars
    BY <1>3 DEF WriteUri
  <2>2. UriInv'
    <3>1. U!ReadUri(k) BY <1>3 DEF WriteUri
    <3>2. UriType /\ LiteralType /\ UriRelation BY <1>0 DEF UriInv
    <3>3. UriType' /\ LiteralType' BY <3>1, <3>2, UriStepType, LiteralStepType
    <3>4. UriRelation' BY <1>3, <3>2, UriStepRelation
    <3> QED BY <3>3, <3>4 DEF UriInv
  <2>3. TransportInv' BY <1>0, <2>1, TransportUntouched
  <2>4. RangeInv' BY <1>0, <2>1, RangeUntouched
  <2> QED BY <1>0, <2>1, <2>2, <2>3, <2>4 DEF HeadersInv
<1>4. CASE UNCHANGED vars
  <2>1. /\ header' = header /\ UNCHANGED transportVars /\ UNCHANGED rangeVars /\ UNCHANGED uriVars
        /\ phase' = phase /\ meant' = meant /\ last' = last /\ begun' = begun /\ plan' = plan
    BY <1>4 DEF vars, clientVars, uriClientVars
  <2>2. TransportInv' BY <1>0, <2>1, TransportUntouched
  <2>3. RangeInv' BY <1>0, <2>1, RangeUntouched
  <2>4. UriInv' BY <1>0, <2>1, UriUntouched
  <2> QED BY <1>0, <2>1, <2>2, <2>3, <2>4 DEF HeadersInv
<1> QED BY <1>1, <1>2, <1>3, <1>4 DEF Next

LEMMA HeadersInvariant == Spec => []HeadersInv
  BY HeadersInit, HeadersStep, PTL DEF Spec

-----------------------------------------------------------------------------
(* Theorems *)

\* The states of the three machines have their types whatever the client writes: every
\* number of a Transport header is cut to the 16 bits of a port, no address has more groups
\* or octets than there are, and every part of a URI is an interval of what has been read.
THEOREM HeadersTypeCorrect == Spec => []TypeOK
<1>1. HeadersInv => TypeOK
  <2> SUFFICES ASSUME HeadersInv PROVE TypeOK OBVIOUS
  <2>0. TransportType /\ RangeType /\ UriType /\ LiteralType
    BY DEF HeadersInv, TransportInv, RangeInv, UriInv
  <2>1. /\ parser \in {"run", "skip", "end"}
        /\ cs \subseteq T!Threads /\ cs # {}
        /\ number \in Nat
        /\ Len(transport) <= 1
    BY <2>0 DEF TransportType
  <2>2. ASSUME NEW i \in DOMAIN transports,
               NEW c \in {transports[i].rtp_channel, transports[i].rtcp_channel}
        PROVE  -1 <= c /\ c <= 65535
    <3>1. transports \in Seq(Offers) BY <2>0 DEF TransportType
    <3> HIDE DEF Offers
    <3>2. transports[i] \in Offers BY <2>2, <3>1
    <3>3. c \in Channels BY <2>2, <3>2 DEF Offers
    <3> QED BY <3>3, SMT DEF Channels
  <2>3. /\ reader \in {"run", "supported", "refused"}
        /\ integer \in Nat /\ seconds \in Nat
        /\ range_supported \in BOOLEAN
    BY <2>0 DEF RangeType
  <2>4. place \in U!Places BY <2>0 DEF UriType
  <2>5. literal.groups + (IF literal.gap THEN 1 ELSE 0) <= 8 /\ literal.octets <= 4
    BY <2>0 DEF LiteralType
  <2>6. \A c \in DOMAIN uri \ {"path"} : uri[c] # <<>> => uri[c][1] <= uri[c][2] /\ uri[c][2] < p
    <3>1. DOMAIN uri = UriParts BY <2>0 DEF UriType
    <3> QED BY <2>0, <3>1 DEF UriType
  <2> QED BY <2>1, <2>2, <2>3, <2>4, <2>5, <2>6, SMT DEF TypeOK
<1> QED BY <1>1, HeadersInvariant, PTL

\* ragel_transport.c:2028-2058: the parser never writes through a transport that is not
\* there, whatever the header, also when it goes on after an offer it has given up.
THEOREM TransportSetSafe == Spec => []TransportSet
<1>1. HeadersInv => TransportSet BY DEF HeadersInv, TransportInv
<1> QED BY <1>1, HeadersInvariant, PTL

\* rtsp_method_setup.c:194-200: every Transport header of the grammar, of any length and
\* with any numbers, is accepted and gives exactly the client's offers in its order.
THEOREM OffersKeptSafe == Spec => []OffersKept
<1>1. HeadersInv => OffersKept
  BY DEF HeadersInv, TransportInv, TransportRelation, OffersKept
<1> QED BY <1>1, HeadersInvariant, PTL

\* rtsp_method_play.c:212-219: every normal play time range is understood as the client
\* wrote it, with the fractions cut to tenths.
THEOREM RangeUnderstoodSafe == Spec => []RangeUnderstood
<1>1. HeadersInv => RangeUnderstood
  BY DEF HeadersInv, RangeInv, RangeRelation, InRange, RangeUnderstood
<1> QED BY <1>1, HeadersInvariant, PTL

\* ragel_uri.c:40-49: every URI of the grammar is accepted and split where the client
\* began and ended its parts, the user information told from the host behind it, and
\* every IPv6 address is accepted.
THEOREM UriSplitSafe == Spec => []UriSplit
<1>1. HeadersInv => UriSplit
  <2> SUFFICES ASSUME HeadersInv, header = "URI", phase # "free"
      PROVE  IF phase = "done" THEN place = "final" /\ uri = meant ELSE place # "error"
    BY DEF UriSplit
  <2>1. UriRelation BY DEF HeadersInv, UriInv
  <2>2. CASE phase = "done" BY <2>1, <2>2 DEF UriRelation
  <2>3. CASE phase # "done"
    <3>1. place \in PlacesOf(phase) BY <2>1, <2>3 DEF UriRelation, InUri
    <3>2. "error" \notin PlacesOf(phase) BY DEF PlacesOf, U!InAddress
    <3> QED BY <2>3, <3>1, <3>2
  <2> QED BY <2>2, <2>3
<1> QED BY <1>1, HeadersInvariant, PTL
=============================================================================
