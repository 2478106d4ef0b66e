------------------------------- MODULE Headers -------------------------------
(***************************************************************************)
(* A client writes the URI or one header of a request, token by token, and   *)
(* the server's parser for it reads them: the URI of any request, Transport  *)
(* for SETUP, Range for PLAY.                                                *)
(*                                                                           *)
(* Beside the parser stands the reference: the grammar of RFC 2326 (12.39    *)
(* and 3.6) and of RFC 3986, as far as the server claims to know it, with    *)
(* the meaning of what has been written.  The client may leave the grammar   *)
(* at any token; from then on there is no meaning, and only safety is asked  *)
(* for.                                                                      *)
(***************************************************************************)
EXTENDS Integers, Sequences

CONSTANTS
    Numbers,        \* the numbers in a Transport header
    TimeNumbers,    \* the numbers in a Range header
    MaxOffers,      \* bound: offers in a Transport header
    MaxNpt,         \* bound: times that npt occurs in a Range header
    MaxSeparators   \* bound: separators in a URI, those in an IP literal not counted

ASSUME HeadersAssumption ==
    /\ Numbers \subseteq Nat
    /\ TimeNumbers \subseteq Nat /\ \A n \in TimeNumbers : n < 1000000000   \* nine digits
    /\ MaxOffers \in Nat \ {0}
    /\ MaxNpt \in Nat
    /\ MaxSeparators \in Nat

VARIABLES
    header,         \* "Transport", "Range" or "URI"
    phase,          \* of the client's grammar; "free" outside of it
    meant,          \* what it has written: offers, a range, or the parts of a URI
    last,           \* what of the last token matters for the next
    npt,            \* how often npt has been written
    separators,     \* how many separators have been
    begun,          \* where the part of the URI being written began
    plan,           \* the rest of the IP address being written
    parser, cs, number, transport, transports,                      \* TransportHeader
    reader, at, side, integer, seconds, range, range_supported,     \* RangeHeader
    place, literal, p, mark, stack, uri                             \* UriParser

T == INSTANCE TransportHeader
R == INSTANCE RangeHeader
U == INSTANCE UriParser

uriClientVars == <<separators, begun, plan>>
clientVars == <<header, phase, meant, last, npt, uriClientVars>>
transportVars == <<parser, cs, number, transport, transports>>
rangeVars == <<reader, at, side, integer, seconds, range, range_supported>>
uriVars == <<place, literal, p, mark, stack, uri>>
vars == <<clientVars, transportVars, rangeVars, uriVars>>

NoPlan == [before |-> 0, gap |-> 0, after |-> 0, octets |-> 0, due |-> "none"]

Init ==
    /\ T!TransportInit
    /\ R!RangeInit
    /\ U!UriInit
    /\ \/ header = "Transport" /\ phase = "offer" /\ meant = <<>>
       \/ header = "Range" /\ phase = "unit" /\ meant = R!defaultrange
       \/ header = "URI" /\ phase = "start" /\ meant = uri
    /\ last = "none" /\ npt = 0
    /\ separators = 0 /\ begun = 0 /\ plan = NoPlan

Tokens(kinds, numbers) ==
    [kind : kinds \ {"number"}, value : {0}] \cup [kind : kinds \cap {"number"}, value : numbers]

-----------------------------------------------------------------------------
(* The Transport header of RFC 2326. *)

\* An offer names its protocol, for UDP the mode, and parameters: its own pair of
\* numbers, or others that the server ignores, whose values have no comma here.
TransportGrammar ==
    {<<"offer", "RTP/AVP", "profile">>, <<"profile", "/UDP", "/UDP">>,
     <<"profile", "/TCP", "/TCP">>, <<"profile", "/SCTP", "/SCTP">>,
     <<"profile", "semicolon", "cast">>, <<"/UDP", "semicolon", "cast">>,
     <<"/TCP", "semicolon", "param">>, <<"/SCTP", "semicolon", "param">>,
     <<"cast", "unicast", "mode">>, <<"cast", "multicast", "mode">>, <<"mode", "semicolon", "param">>,
     <<"param", "word", "name">>, <<"name", "=", "eq">>,
     <<"eq", "text", "value">>, <<"eq", "word", "value">>, <<"eq", "number", "value">>,
     <<"pair", "=", "n1">>, <<"n1", "number", "-">>, <<"-", "-", "n2">>,
     <<"n2", "number", "value">>, <<"name", "semicolon", "param">>, <<"value", "semicolon", "param">>,
     <<"name", "comma", "offer">>, <<"value", "comma", "offer">>, <<"name", "NUL", "done">>,
     <<"value", "NUL", "done">>}

Offer == meant[Len(meant)]

\* The pair of numbers that belongs to the offer, and how large they may be.
PairName(offer) ==
    CASE offer.protocol = "TCP" -> "interleaved" [] offer.protocol = "SCTP" -> "streams"
      [] OTHER -> IF offer.mode = "unicast" THEN "client_port" ELSE "none"
PairLimit(offer) == IF offer.protocol = "UDP" THEN 65535 ELSE 255

TransportPhase(tok) ==
    IF phase = "param" /\ tok.kind = PairName(Offer) THEN "pair"
    ELSE IF phase \in {"n1", "n2"} /\ tok.value > PairLimit(Offer) THEN "free"
    ELSE IF \E q \in TransportGrammar : q[1] = phase /\ q[2] = tok.kind
    THEN (CHOOSE q \in TransportGrammar : q[1] = phase /\ q[2] = tok.kind)[3]
    ELSE "free"

TransportMeans(tok) ==
    CASE phase = "offer" /\ tok.kind = "RTP/AVP" ->
            Append(meant, [protocol |-> "UDP", mode |-> "unicast",
                           rtp_channel |-> -1, rtcp_channel |-> -1])
      [] phase = "profile" /\ tok.kind \in {"/TCP", "/SCTP"} ->
            [meant EXCEPT ![Len(meant)].protocol = IF tok.kind = "/TCP" THEN "TCP" ELSE "SCTP"]
      [] phase = "cast" /\ tok.kind = "multicast" -> [meant EXCEPT ![Len(meant)].mode = "multicast"]
      [] phase = "n1" -> [meant EXCEPT ![Len(meant)].rtp_channel = tok.value]
      [] phase = "n2" -> [meant EXCEPT ![Len(meant)].rtcp_channel = tok.value]
      [] OTHER -> meant

WriteTransport(tok) ==
    /\ header = "Transport"
    /\ parser # "end"
    /\ tok.kind = "number" => last # "number"
    /\ tok.kind \in {"RTP/AVP", "Rword"} => Len(transports) + Len(transport) < MaxOffers
    /\ phase' = TransportPhase(tok)
    /\ meant' = IF phase' = "free" THEN <<>> ELSE TransportMeans(tok)
    /\ last' = IF tok.kind = "number" THEN "number" ELSE "none"
    /\ T!TransportNext(tok)
    /\ UNCHANGED <<header, npt, uriClientVars, rangeVars, uriVars>>

-----------------------------------------------------------------------------
(* The Range header of RFC 2326, for normal play time. *)

\* begin and end are seconds or hours, minutes and seconds, with a fraction.
TimeGrammar ==
    {<<"bh", "number", "bn">>, <<"bn", ":", "b:">>, <<"b:", "number", "bm">>,
     <<"bm", ":", "b::">>, <<"b::", "number", "bs">>, <<"bn", ".", "b.">>,
     <<"bs", ".", "b.">>, <<"b.", "number", "bf">>,
     <<"eh", "number", "en">>, <<"en", ":", "e:">>, <<"e:", "number", "em">>,
     <<"em", ":", "e::">>, <<"e::", "number", "es">>, <<"en", ".", "e.">>,
     <<"es", ".", "e.">>, <<"e.", "number", "ef">>}

RangeGrammar ==
    TimeGrammar \cup
    {<<"unit", "npt", "=">>, <<"=", "=", "bh">>, <<"bn", "-", "eh">>, <<"bs", "-", "eh">>,
     <<"bf", "-", "eh">>, <<"bh", "-", "eh">>, <<"en", "NUL", "done">>, <<"es", "NUL", "done">>,
     <<"ef", "NUL", "done">>, <<"eh", "NUL", "done">>}

\* "npt=-" is no range.
RangePhase(tok) ==
    IF phase \in {"b:", "b::", "e:", "e::"} /\ tok.value >= 60 THEN "free"
    ELSE IF phase = "eh" /\ tok.kind = "NUL" /\ last = "bh" THEN "free"
    ELSE IF \E q \in RangeGrammar : q[1] = phase /\ q[2] = tok.kind
    THEN (CHOOSE q \in RangeGrammar : q[1] = phase /\ q[2] = tok.kind)[3]
    ELSE "free"

\* The first digit of a number: that many tenths are a fraction.
FirstDigit(n) ==
    CHOOSE d \in 0..9 : n = d \/ (d > 0 /\ \E k \in R!Denominators : n \div k = d)

\* The weight of a number: a number alone is seconds until a colon follows it.
Weight(tok) ==
    CASE phase \in {"bh", "eh"} -> tok.value * 10
      [] phase \in {"b:", "e:"} -> tok.value * 600
      [] phase \in {"b::", "e::"} -> tok.value * 10
      [] phase \in {"b.", "e."} -> FirstDigit(tok.value)
      [] OTHER -> 0

Plus(time, tok) ==
    LET t == IF time = R!Unset THEN 0 ELSE time
    IN  IF phase \in {"bn", "en"} /\ tok.kind = ":" THEN t * 3600 ELSE t + Weight(tok)

RangeMeans(tok) ==
    CASE phase \in {"bh", "bn", "b:", "b::", "b."} /\ tok.kind # "-" ->
            [meant EXCEPT !.begin_time = Plus(@, tok)]
      [] phase \in {"eh", "en", "e:", "e::", "e."} /\ tok.kind # "NUL" ->
            [meant EXCEPT !.end_time = Plus(@, tok)]
      [] OTHER -> meant

WriteRange(tok) ==
    /\ header = "Range"
    /\ reader = "run"
    /\ tok.kind = "number" => last # "number"
    /\ tok.kind = "utc" => at = "date"
    /\ npt' = npt + IF tok.kind = "npt" THEN 1 ELSE 0
    /\ npt' <= MaxNpt
    /\ phase' = RangePhase(tok)
    /\ meant' = IF phase' = "free" THEN R!defaultrange ELSE RangeMeans(tok)
    /\ last' = IF tok.kind = "number" THEN "number" ELSE IF phase = "bh" THEN "bh" ELSE "none"
    /\ R!ReadRange(tok)
    /\ UNCHANGED <<header, uriClientVars, transportVars, uriVars>>

-----------------------------------------------------------------------------
(* The URI of RFC 3986, with an authority. *)

Plain == U!PlainText
Future == (Plain \ {"pct"}) \cup {":"}
EndsPart == {<<":", "port">>, <<"/", "path">>, <<"?", "query">>, <<"#", "fragment">>, <<"NUL", "done">>}

\* Phase, tokens, next phase and the part of the URI that ends there.  A password that
\* begins with a digit is left out: uri_parse keeps only the password of it.  An IP literal
\* is a future version, or an address ("literal"), which is planned ahead.
UriGrammar ==
    {<<"start", U!Words, "scheme", "none">>, <<"scheme", U!Digits \cup {".", "-"}, "scheme", "none">>,
     <<"scheme", {":"}, ":", "scheme">>, <<":", {"/"}, ":/", "none">>, <<":/", {"/"}, "//", "none">>,
     <<"//", Plain, "user", "none">>, <<"user", Plain, "user", "none">>,
     <<"//", {":"}, "pass0", "none">>, <<"user", {":"}, "pass0", "none">>,
     <<"pass0", (Plain \ U!Digits) \cup {":"}, "pass", "none">>,
     <<"pass", Plain \cup {":"}, "pass", "none">>,
     <<"//", Plain, "host", "none">>, <<"host0", Plain, "host", "none">>,
     <<"host", Plain, "host", "none">>,
     <<"//", {"["}, "literal", "none">>, <<"host0", {"["}, "literal", "none">>,
     <<"//", {"["}, "[", "none">>, <<"host0", {"["}, "[", "none">>, <<"[", {"v"}, "[v", "none">>,
     <<"[v", {"."}, "[v.", "none">>, <<"[v.", Future, "[v.x", "none">>,
     <<"[v.x", Future, "[v.x", "none">>, <<"[v.x", {"]"}, "]", "none">>,
     <<"port", U!Digits, "port", "none">>,
     <<"path", Plain \cup {":", "@"}, "segment", "none">>,
     <<"segment", Plain \cup {":", "@"}, "segment", "none">>,
     <<"query", Plain \cup {":", "@", "/", "?"}, "query", "none">>,
     <<"fragment", Plain \cup {":", "@", "/", "?"}, "fragment", "none">>,
     <<"fragment", {"NUL"}, "done", "fragment">>}
    \cup {<<ph, {"@"}, "host0", "userinfo">> : ph \in {"//", "user", "pass0", "pass"}}
    \cup {<<ph, {e[1]}, e[2], "host">> : ph \in {"//", "host0", "host", "]"}, e \in EndsPart}
    \cup {<<"port", {e[1]}, e[2], "port">> : e \in EndsPart \ {<<":", "port">>}}
    \cup {<<"path", {e[1]}, e[2], "none">> : e \in EndsPart \ {<<":", "port">>}}
    \cup {<<"segment", {e[1]}, e[2], "path">> : e \in EndsPart \ {<<":", "port">>}}
    \cup {<<"query", {e}, IF e = "#" THEN "fragment" ELSE "done", "query">> : e \in {"#", "NUL"}}

\* An IPv6 address has eight groups, or fewer around a gap of two colons; the last two may
\* be an IPv4 address of four octets.  Without a gap all groups are after it.
Addresses ==
    {a \in [before : 0..7, gap : {0, 2}, after : 0..8, octets : {0, 4}, due : {"none"}] :
        LET groups == a.before + a.after + IF a.octets = 4 THEN 2 ELSE 0
        IN  IF a.gap = 0 THEN a.before = 0 /\ groups = 8 ELSE groups <= 7}

\* What is left of an address when one of its elements has been written: with the
\* separator that is due before the next element, the colons of the gap being elements.
Written(k) ==
    CASE plan.due # "none" /\ k = plan.due -> [plan EXCEPT !.due = "none"]
      [] plan.due = "none" /\ plan.before > 0 /\ k \in {"hex", "octet", "group"} ->
            [plan EXCEPT !.before = @ - 1, !.due = IF plan.before > 1 THEN ":" ELSE "none"]
      [] plan.due = "none" /\ plan.before = 0 /\ plan.gap > 0 /\ k = ":" ->
            [plan EXCEPT !.gap = @ - 1]
      [] plan.due = "none" /\ plan.before + plan.gap = 0 /\ plan.after > 0
            /\ k \in {"hex", "octet", "group"} ->
            [plan EXCEPT !.after = @ - 1,
                         !.due = IF plan.after > 1 \/ plan.octets > 0 THEN ":" ELSE "none"]
      [] plan.due = "none" /\ plan.before + plan.gap + plan.after = 0 /\ plan.octets > 0
            /\ k = "octet" ->
            [plan EXCEPT !.octets = @ - 1, !.due = IF plan.octets > 1 THEN "." ELSE "none"]
      [] OTHER -> plan

WriteLiteral(k) ==
    /\ phase = "literal"
    /\ \/ /\ Written(k) # plan
          /\ plan' = Written(k)
          /\ UNCHANGED <<phase, meant, begun>>
       \/ /\ plan = NoPlan /\ k = "]"
          /\ phase' = "]"
          /\ UNCHANGED <<plan, meant, begun>>
       \/ /\ Written(k) = plan /\ ~(plan = NoPlan /\ k = "]")
          /\ phase' = "free" /\ plan' = NoPlan /\ meant' = <<>> /\ begun' = 0

\* The phases behind the separator that a part begins after.
Beginnings == {"//", "host0", "port", "path", "query", "fragment"}

WritePart(k) ==
    /\ phase # "literal"
    /\ \E g \in UriGrammar :
          /\ g[1] = phase /\ k \in g[2]
          /\ phase' = g[3]
          /\ meant' = CASE g[4] = "none" -> meant
                       [] g[4] = "path" -> [meant EXCEPT !.path = Append(@, <<begun, p>>)]
                       [] OTHER -> [meant EXCEPT ![g[4]] = <<begun, p>>]
          /\ begun' = IF g[3] \in Beginnings /\ (g[3] # g[1] \/ g[3] = "path") THEN p + 1 ELSE begun
          /\ plan' \in IF g[3] = "literal" THEN Addresses ELSE {NoPlan}

LeaveGrammar(k) ==
    /\ phase # "literal"
    /\ ~ \E g \in UriGrammar : g[1] = phase /\ k \in g[2]
    /\ phase' = "free" /\ meant' = <<>> /\ begun' = 0 /\ plan' = NoPlan

\* Two words in a row would be one.
WriteUri(k) ==
    /\ header = "URI"
    /\ place \notin {"final", "error"}
    /\ k \in Plain => last \in {"none", "number"} \/ place \in {"v", "v.", "g", "o", "."}
    /\ k \in U!Words \cup U!Digits => last # "number"
    /\ last' = IF k \in U!Digits THEN "number" ELSE IF k \in Plain THEN "text" ELSE "none"
    /\ separators' = separators + IF k \in Plain \cup {"NUL"} \/ place \in U!InAddress THEN 0 ELSE 1
    /\ separators' <= MaxSeparators
    /\ WriteLiteral(k) \/ WritePart(k) \/ LeaveGrammar(k)
    /\ U!ReadUri(k)
    /\ UNCHANGED <<header, npt, transportVars, rangeVars>>

-----------------------------------------------------------------------------

Next ==
    \/ \E tok \in Tokens(T!Kinds, Numbers) : WriteTransport(tok)
    \/ \E tok \in Tokens(R!Kinds, TimeNumbers) : WriteRange(tok)
    \/ \E k \in U!Kinds : WriteUri(k)

Spec == Init /\ [][Next]_vars

-----------------------------------------------------------------------------
(* Properties *)

\* Types; whatever the header, a number that was read fits the 16 bits of a port.
TypeOK ==
    /\ parser \in {"run", "skip", "end"}
    /\ cs \subseteq T!Threads /\ cs # {}
    /\ number \in Nat
    /\ Len(transport) <= 1
    /\ \A i \in DOMAIN transports :
          \A c \in {transports[i].rtp_channel, transports[i].rtcp_channel} : -1 <= c /\ c <= 65535
    /\ reader \in {"run", "supported", "refused"}
    /\ integer \in Nat /\ seconds \in Nat
    /\ range_supported \in BOOLEAN
    /\ place \in U!Places
    /\ literal.groups + (IF literal.gap THEN 1 ELSE 0) <= 8 /\ literal.octets <= 4
    /\ \A c \in DOMAIN uri \ {"path"} : uri[c] # <<>> => uri[c][1] <= uri[c][2] /\ uri[c][2] < p

\* RTSP_setup, rtsp_method_setup.c:194-200: a header that keeps to the grammar is read
\* to its end and gives the offers that the client made, in its order, each with its own
\* numbers.  Two readings of a comma are alive at once in the generated machine; the one
\* that was wrong has changed nothing.
OffersKept ==
    (header = "Transport" /\ phase # "free") =>
        IF phase = "done" THEN parser = "end" /\ transports = meant ELSE parser = "run"

\* The actions of ragel_transport.c:2028-2058 write through transport: there is one
\* whenever the machine is inside an offer, also after an error has freed it.
TransportSet == (parser = "run" /\ cs # {T!Start}) => transport # <<>>

\* parse_range_header, rtsp_method_play.c:212-219: a normal play time range is
\* understood as it was written, and the times not given keep their defaults.
RangeUnderstood ==
    (header = "Range" /\ phase # "free") =>
        IF phase = "done" THEN reader = "supported" /\ range = meant ELSE reader = "run"

\* uri_parse, ragel_uri.c:40-49: a URI of the grammar is accepted and split into the parts
\* that the client wrote, although only an "@" tells user information from host and port;
\* every IP literal is accepted, and the path is made of its segments that are not empty.
UriSplit ==
    (header = "URI" /\ phase # "free") =>
        IF phase = "done" THEN place = "final" /\ uri = meant ELSE place # "error"
=============================================================================
