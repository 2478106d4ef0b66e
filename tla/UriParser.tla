------------------------------ MODULE UriParser ------------------------------
(***************************************************************************)
(* uri_parse: the URI of a request, split into its parts.                    *)
(*                                                                           *)
(* The URI comes as tokens: words, of which hex (up to four hexadecimal      *)
(* digits that begin with a letter) and v (v and hexadecimal digits) matter  *)
(* inside of an IP literal; numbers: octet (0 to 255 without leading zeros), *)
(* group (any other of up to four digits) and long; "-" (which stands for    *)
(* "+" too), other text, a percent escape, the separators, a byte that may   *)
(* not occur, and the final NUL.  A part is the interval of the tokens it    *)
(* consists of, from mark to p.                                              *)
(***************************************************************************)
EXTENDS Integers, Sequences

Digits == {"octet", "group", "long"}
Words == {"alpha", "hex", "v"}
PlainText == Words \cup Digits \cup {".", "-", "text", "pct"}
Kinds == PlainText \cup {":", "/", "?", "#", "@", "[", "]", "bad", "NUL"}

VARIABLES
    place,          \* the state of the machine; "error" and "final" end it
    literal,        \* within an IP literal: what has been read of it
    p, mark,        \* positions
    stack,          \* the segments of the path
    uri             \* the parts, <<>> while NULL

None == <<>>
Part == <<mark, p>>
Empty == <<p, p>>       \* the mark is set where the part ends

UriInit ==
    /\ place = "start" /\ p = 0 /\ mark = 0 /\ stack = <<>>
    /\ literal = [groups |-> 0, gap |-> FALSE, octets |-> 0, decimal |-> FALSE]
    /\ uri = [scheme |-> None, userinfo |-> None, host |-> None, port |-> None,
              path |-> None, query |-> None, fragment |-> None]

-----------------------------------------------------------------------------
(* Where the machine goes. *)

\* What ends the authority or the path.
Rest(k) ==
    CASE k = "/" -> "slash" [] k = "?" -> "query0" [] k = "#" -> "fragment0"
      [] k = "NUL" -> "final" [] OTHER -> "error"

Scheme(k) ==
    CASE place = "start" /\ k \in Words -> "scheme"
      [] place = "scheme" /\ k \in Words \cup Digits \cup {".", "-"} -> "scheme"
      [] place = "scheme" /\ k = ":" -> "colon"
      [] OTHER -> "error"

\* Behind the scheme: "//" and an authority, or text that is no part.
Hierarchy(k) ==
    CASE place = "colon" /\ k = "/" -> "root"
      [] place = "root" /\ k = "/" -> "authority"
      [] k \in PlainText \cup {":", "@"} -> "opaque"
      [] OTHER -> IF place = "colon" THEN "error" ELSE Rest(k)

\* The authority: it is not known yet whether the text is user information or a host,
\* nor whether digits after a colon are a port.
Authority(k) ==
    CASE k = "@" -> "host0"
      [] place = "authority" /\ k = "[" -> "["
      [] place \in {"authority", "name"} /\ k \in PlainText -> "name"
      [] place \in {"authority", "name"} /\ k = ":" -> "port_or_user"
      [] place \in {"port_or_user", "digits"} /\ k \in Digits -> "digits"
      [] place \in {"port_or_user", "digits"} /\ k \in (PlainText \ Digits) \cup {":"} -> "user"
      [] place = "user" /\ k \in PlainText \cup {":"} -> "user"
      [] OTHER -> IF place = "user" THEN "error" ELSE Rest(k)

\* Host and port behind user information, and a port behind a literal.
Host(k) ==
    CASE place \in {"host0", "host"} /\ k \in PlainText -> "host"
      [] place = "host0" /\ k = "[" -> "["
      [] place \in {"host0", "host", "]"} /\ k = ":" -> "port0"
      [] place \in {"port0", "port"} /\ k \in Digits -> "port"
      [] OTHER -> Rest(k)

PathQueryFragment(k) ==
    CASE place \in {"slash", "segment"} /\ k \in PlainText \cup {":", "@"} -> "segment"
      [] place \in {"query0", "query"} /\ k \in PlainText \cup {":", "@", "/", "?"} -> "query"
      [] place \in {"fragment0", "fragment"} /\ k \in PlainText \cup {":", "@", "/", "?"} -> "fragment"
      [] place \in {"fragment0", "fragment"} /\ k = "#" -> "error"
      [] OTHER -> Rest(k)

\* Mutant: the gap always stands for at least two groups.
RoomTooSmall(groups, gap) == IF gap THEN groups < 6 ELSE groups < 8

\* Room for one more group: there are eight, and "::" stands for at least one.
Room(groups, gap) == IF gap THEN groups < 7 ELSE groups < 8

Complete == literal.gap \/ literal.groups = 8

\* An IPv6 address: groups, one gap, and possibly an IPv4 address for the last two.
Literal(k) ==
    CASE place = "[" /\ k = "v" -> "v"
      [] place = "[" /\ k = ":" -> "[:"
      [] place = "[:" /\ k = ":" -> "::"
      [] place \in {"[", "g:", "::"} /\ k \in {"hex", "octet", "group"}
            /\ Room(literal.groups, literal.gap) -> "g"
      [] place = "g" /\ k = ":" /\ Room(literal.groups, literal.gap) -> "g:"
      [] place = "g:" /\ k = ":" /\ ~literal.gap -> "::"
      [] place = "g" /\ k = "." /\ literal.decimal
            /\ (literal.gap \/ literal.groups = 7)
            /\ Room(literal.groups, literal.gap) -> "."
      [] place = "." /\ k = "octet" -> "o"
      [] place = "o" /\ k = "." /\ literal.octets < 4 -> "."
      [] place = "o" /\ k = "]" /\ literal.octets = 4 -> "]"
      [] place \in {"g", "::"} /\ k = "]" /\ Complete -> "]"
      [] OTHER -> "error"

\* A literal of a future version.
Future(k) ==
    CASE place = "v" /\ k = "." -> "v."
      [] place \in {"v.", "vx"} /\ k \in (PlainText \ {"pct"}) \cup {":"} -> "vx"
      [] place = "vx" /\ k = "]" -> "]"
      [] OTHER -> "error"

InAddress == {"[", "[:", "g", "g:", "::", ".", "o"}

Places ==
    InAddress \cup {"v", "v.", "vx"} \cup
    {"start", "scheme", "colon", "root", "opaque", "authority", "name", "port_or_user", "digits",
     "user", "host0", "host", "]", "port0", "port", "slash", "segment", "query0", "query",
     "fragment0", "fragment", "final", "error"}

Target(k) ==
    CASE place \in {"start", "scheme"} -> Scheme(k)
      [] place \in {"colon", "root", "opaque"} -> Hierarchy(k)
      [] place \in {"authority", "name", "port_or_user", "digits", "user"} -> Authority(k)
      [] place \in {"host0", "host", "]", "port0", "port"} -> Host(k)
      [] place \in InAddress -> Literal(k)
      [] place \in {"v", "v.", "vx"} -> Future(k)
      [] OTHER -> PathQueryFragment(k)

-----------------------------------------------------------------------------
(* What it does there. *)

\* Action 0: a part begins.  The digits behind the first colon of the authority
\* are marked as a port, and not unmarked if they are user information.
Marks(k, target) ==
    \/ place \in {"start", "authority", "host0", "slash", "query0", "fragment0"}
    \/ place \in {"port_or_user", "port0"} /\ target \in {"digits", "port"}

LiteralAfter(k, target) ==
    [groups |-> literal.groups + IF target = "g" THEN 1 ELSE 0,
     gap |-> literal.gap \/ target = "::",
     octets |-> IF target = "o" THEN literal.octets + 1
                ELSE IF place = "g" /\ target = "." THEN 1 ELSE literal.octets,
     decimal |-> IF target = "g" THEN k = "octet" ELSE literal.decimal]

\* What the part that ends with this token is.
Ended(k, target) ==
    CASE place = "scheme" /\ k = ":" -> "scheme"
      [] place \in {"authority", "name", "port_or_user", "user", "digits"} /\ k = "@" -> "userinfo"
      [] place \in {"authority", "name", "host0", "host", "]"}
            /\ k \in {":", "/", "?", "#", "NUL"} -> "host"
      [] place \in {"port_or_user", "digits", "port0", "port"}
            /\ k \in {"/", "?", "#", "NUL"} -> "port"
      [] place = "segment" /\ k \in {"/", "?", "#", "NUL"} -> "segment"
      [] place \in {"query0", "query"} /\ k \in {"#", "NUL"} -> "query"
      [] place \in {"fragment0", "fragment"} /\ k = "NUL" -> "fragment"
      [] OTHER -> "nothing"

Pushed(k, target) ==
    IF Ended(k, target) = "segment" THEN Append(stack, Part) ELSE stack

\* A part whose first token also ends it is empty.
EmptyPart(k, target) ==
    place \in {"authority", "host0", "port_or_user", "port0", "query0", "fragment0"}
    /\ ~(place = "port_or_user" /\ k = "@")

ReadUri(k) ==
    /\ place \notin {"final", "error"}
    /\ LET target == Target(k)
           ended == Ended(k, target)
           part == IF EmptyPart(k, target) THEN Empty ELSE Part
       IN  /\ place' = target
           /\ p' = p + 1
           /\ mark' = IF Marks(k, target) THEN p ELSE mark
           /\ literal' = LiteralAfter(k, target)
           /\ stack' = Pushed(k, target)
           /\ uri' = [c \in DOMAIN uri |->
                        IF c = "path" /\ target = "final" THEN stack'
                        ELSE IF c = ended THEN part ELSE uri[c]]
=============================================================================
