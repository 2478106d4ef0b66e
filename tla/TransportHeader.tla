--------------------------- MODULE TransportHeader ---------------------------
(***************************************************************************)
(* ragel_parse_transport_header: the Transport header of a SETUP request,    *)
(* read into the list of transports that the client offers.                  *)
(*                                                                           *)
(* The generated machine is the subset construction of the grammar of        *)
(* ragel_transport.rl: inside a parameter's value a comma belongs to the      *)
(* value and may also begin the next offer, and both readings go on side by   *)
(* side over one current transport.  Here the readings are threads, each      *)
(* with the part of the grammar it is in (ctx) and its place there (at), and  *)
(* cs is the set of the threads alive.                                        *)
(*                                                                           *)
(* The header comes as tokens: the words of the grammar, other words,        *)
(* numbers (a whole run of digits), the separators, other printable text,    *)
(* a byte that is not printable, and the final NUL.                          *)
(***************************************************************************)
EXTENDS Integers, Sequences, FiniteSets

Prefixes == {"/UDP", "/TCP", "/SCTP"}
Names == {"unicast", "multicast", "client_port", "interleaved", "streams",
          "word", "Rword", "number"}         \* Rword: another word that begins with R
Texts == Names \cup Prefixes \cup {"RTP/AVP", "-", "text"}
Kinds == Texts \cup {"semicolon", "comma", "=", "bad", "NUL"}

VARIABLES
    parser,         \* "run", "skip" (to the next comma) or "end"
    cs,             \* the threads of the machine
    number,         \* portval or chanval
    transport,      \* the current transport: <<>> for NULL, or <<transport>>
    transports      \* the list

At(ctx, place) == [ctx |-> ctx, at |-> place]
Start == At("none", "start")
Final == At("none", "final")

\* What is known of the parameters after each kind of protocol.
Keyword == [unicast |-> "client_port", multicast |-> "none", TCP |-> "interleaved",
            SCTP |-> "streams"]
\* The largest number of five digits, or of three; no keyword, no number.
Largest == [unicast |-> 99999, multicast |-> -1, TCP |-> 999, SCTP |-> 999]
Limit == [unicast |-> 65535, multicast |-> 0, TCP |-> 255, SCTP |-> 255]

Threads ==
    {Start, Final} \cup
    [ctx : {"none"}, at : Prefixes \cup {"RTP/AVP", "mode", "unicast", "multicast"}] \cup
    [ctx : DOMAIN Keyword, at : {"param", "keyword", "name", "number", "eq", "value",
                                 "first", "dash", "second"}]

TransportInit ==
    /\ parser = "run" /\ cs = {Start} /\ number = 0
    /\ transport = <<>> /\ transports = <<>>

-----------------------------------------------------------------------------
(* One thread: the threads that t becomes on tok; none if the token does not fit. *)

\* "RTP/AVP", its profile, and for UDP the mode.
ReadProtocol(t, tok) ==
    CASE t.at = "start" /\ tok.kind = "RTP/AVP" -> {At("none", "RTP/AVP")}
      [] t.at = "RTP/AVP" /\ tok.kind \in Prefixes -> {At("none", tok.kind)}
      [] t.at \in {"RTP/AVP", "/UDP"} /\ tok.kind = "semicolon" -> {At("none", "mode")}
      [] t.at = "/TCP" /\ tok.kind = "semicolon" -> {At("TCP", "param")}
      [] t.at = "/SCTP" /\ tok.kind = "semicolon" -> {At("SCTP", "param")}
      [] t.at = "mode" /\ tok.kind \in {"unicast", "multicast"} -> {At("none", tok.kind)}
      [] t.at \in {"unicast", "multicast"} /\ tok.kind = "semicolon" -> {At(t.at, "param")}
      [] OTHER -> {}

\* The name of a parameter.
ReadName(t, tok) ==
    CASE t.at = "param" /\ tok.kind \in Names ->
            {At(t.ctx, IF tok.kind = Keyword[t.ctx] THEN "keyword" ELSE "name")}
      [] t.at # "param" /\ tok.kind \in Names -> {At(t.ctx, "name")}
      [] t.at # "param" /\ tok.kind = "semicolon" -> {At(t.ctx, "param")}
      [] t.at # "param" /\ tok.kind = "comma" -> {Start}
      [] t.at # "param" /\ tok.kind = "NUL" -> {Final}
      [] t.at = "keyword" /\ tok.kind = "=" -> {At(t.ctx, "number")}
      [] t.at = "name" /\ tok.kind = "=" -> {At(t.ctx, "eq")}
      [] OTHER -> {}

\* Mutant: a comma inside a value never ends the offer.
ValueKeepsComma(t, tok) ==
    CASE tok.kind \in Texts \cup {"comma"} -> {At(t.ctx, "value")}
      [] tok.kind = "semicolon" /\ t.at \notin {"eq", "number"} -> {At(t.ctx, "param")}
      [] tok.kind = "NUL" /\ t.at \notin {"eq", "number"} -> {Final}
      [] OTHER -> {}

\* The value of a parameter.  It has a first character, which may be a comma; later
\* a comma may also end the offer.
ReadValue(t, tok) ==
    CASE tok.kind \in Texts -> {At(t.ctx, "value")}
      [] tok.kind = "comma" /\ t.at \in {"eq", "number"} -> {At(t.ctx, "value")}
      [] tok.kind = "comma" /\ t.at \notin {"eq", "number"} -> {At(t.ctx, "value"), Start}
      [] tok.kind = "semicolon" /\ t.at \notin {"eq", "number"} -> {At(t.ctx, "param")}
      [] tok.kind = "NUL" /\ t.at \notin {"eq", "number"} -> {Final}
      [] OTHER -> {}

\* A keyword's value: two numbers of a few digits with a dash between them, as long
\* as it looks like that.
FewDigits(t, tok) == tok.kind = "number" /\ tok.value <= Largest[t.ctx]

ReadNumbers(t, tok) ==
    CASE t.at \in {"number", "first"} /\ tok.kind = "-" -> {At(t.ctx, "dash")}
      [] t.at = "number" /\ FewDigits(t, tok) -> {At(t.ctx, "first")}
      [] t.at = "dash" /\ FewDigits(t, tok) -> {At(t.ctx, "second")}
      [] OTHER -> ReadValue(t, tok)

After(t, tok) ==
    CASE t.ctx = "none" -> ReadProtocol(t, tok)
      [] t.at \in {"param", "keyword", "name"} -> ReadName(t, tok)
      [] t.at \in {"eq", "value"} -> ReadValue(t, tok)
      [] OTHER -> ReadNumbers(t, tok)

Moved(tok) == UNION {After(t, tok) : t \in cs}

-----------------------------------------------------------------------------
(* The actions of the machine, for all its threads. *)

\* Action 17: any R where an offer may begin.
Begins(tok) == Start \in cs /\ tok.kind \in {"RTP/AVP", "Rword"}

NewTransport ==
    [protocol |-> "UDP", mode |-> "unicast", rtp_channel |-> -1, rtcp_channel |-> -1]

\* Actions 0, 1, 3 and 4.
NumberAfter(tok) ==
    IF \E u \in Moved(tok) : u.at \in {"first", "second"} THEN tok.value ELSE
    IF \E u \in Moved(tok) : u.at \in {"number", "dash"} THEN 0 ELSE number

\* Mutant: the number is not limited.
NotClamped(ctx) == number

\* Actions 2 and 5.
Clamped(ctx) == IF number > Limit[ctx] THEN Limit[ctx] ELSE number

Ends == {"NUL", "comma", "semicolon"}

\* Actions 6 to 16 on the current transport.
Assign(tr, tok) ==
    LET protocols == {p \in {"UDP", "TCP", "SCTP"} : tok.kind = "semicolon" /\ \E t \in cs :
                         \/ p = "UDP" /\ t.at \in {"RTP/AVP", "/UDP"}
                         \/ p = "TCP" /\ t.at = "/TCP"
                         \/ p = "SCTP" /\ t.at = "/SCTP"}
        modes == {m \in {"unicast", "multicast"} : tok.kind = "semicolon" /\ At("none", m) \in cs}
        first == {t \in cs : tok.kind = "-" /\ t.at \in {"number", "first"}}
        second == {t \in cs : tok.kind \in Ends /\ t.at \in {"dash", "second"}}
    IN  [protocol |-> IF protocols = {} THEN tr.protocol ELSE CHOOSE p \in protocols : TRUE,
         mode |-> IF modes = {} THEN tr.mode ELSE CHOOSE m \in modes : TRUE,
         rtp_channel |-> IF first = {} THEN tr.rtp_channel
                         ELSE Clamped((CHOOSE t \in first : TRUE).ctx),
         rtcp_channel |-> IF second = {} THEN tr.rtcp_channel
                          ELSE Clamped((CHOOSE t \in second : TRUE).ctx)]

\* The current transport joins the list when the header is at its end.
Finish(list, cur) == transports' = list \o cur /\ transport' = <<>> /\ parser' = "end"

\* Mutant: the machine goes on where it was.
FailGoesOn(tok, list) ==
    /\ transports' = list
    /\ transport' = <<>>
    /\ parser' = IF tok.kind = "NUL" THEN "end" ELSE "run"
    /\ UNCHANGED <<cs, number>>

\* Action 18: the current transport is dropped, and the rest up to the next comma.
Fail(tok, list) ==
    /\ transports' = list
    /\ transport' = <<>>
    /\ cs' = {Start}
    /\ parser' = IF tok.kind = "comma" THEN "run" ELSE IF tok.kind = "NUL" THEN "end" ELSE "skip"
    /\ UNCHANGED number

ReadTransport(tok) ==
    /\ parser = "run"
    /\ LET moved == Moved(tok)
           list == IF Begins(tok) THEN transports \o transport ELSE transports
           cur == IF Begins(tok) THEN <<NewTransport>>
                  ELSE [i \in DOMAIN transport |-> Assign(transport[i], tok)]
       IN  \/ /\ moved \notin {{}, {Final}}
              /\ cs' = moved /\ number' = NumberAfter(tok)
              /\ transports' = list /\ transport' = cur
              /\ UNCHANGED parser
           \/ /\ moved = {Final}
              /\ Finish(list, cur)
              /\ UNCHANGED <<cs, number>>
           \/ /\ moved = {} /\ cs = {Start} /\ ~Begins(tok)
              /\ Finish(transports, transport)
              /\ UNCHANGED <<cs, number>>
           \/ /\ moved = {} /\ (cs # {Start} \/ Begins(tok))
              /\ Fail(tok, list)

\* strchr of action 18.
SkipToComma(tok) ==
    /\ parser = "skip"
    /\ parser' = IF tok.kind = "comma" THEN "run" ELSE IF tok.kind = "NUL" THEN "end" ELSE "skip"
    /\ UNCHANGED <<cs, number, transport, transports>>

TransportNext(tok) == ReadTransport(tok) \/ SkipToComma(tok)
=============================================================================
