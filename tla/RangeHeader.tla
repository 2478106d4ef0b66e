----------------------------- MODULE RangeHeader -----------------------------
(***************************************************************************)
(* ragel_parse_range_header: the Range header of a PLAY request.             *)
(*                                                                           *)
(* The header is a list of specifications "unit=value" between semicolons,   *)
(* of which "npt=" and "time=" are understood; what does not fit is text,    *)
(* in which "npt=" begins a specification again.  It comes as tokens: words  *)
(* (npt, now, time, other letters), numbers (a whole run of digits), a whole *)
(* UTC time, the separators ("." stands for the comma too), other printable  *)
(* text, a byte that is not printable, and the final NUL.  Times are         *)
(* tenths of a second.                                                       *)
(***************************************************************************)
EXTENDS Integers

Letters == {"npt", "now", "time", "letters"}
Kinds == Letters \cup {"number", "utc", "=", "-", ":", ".", "semicolon", "text", "bad", "NUL"}

VARIABLES
    reader,         \* "run", or the result: "supported", "refused"
    at,             \* the state of the machine
    side,           \* the time being read: "begin" or "end"
    integer,        \* hours, minutes or seconds just read; a fraction in tenths
    seconds,        \* the time so far
    range,          \* RTSP_Range
    range_supported

Second == 10
Unset == -1           \* the -0.1 of defaultrange

\* 1900 plus the last digit of the year: before the epoch.
LongAgo == -1000 * Second

defaultrange == [begin_time |-> 0, end_time |-> Unset, playback_time |-> Unset]

RangeInit ==
    /\ reader = "run" /\ at = "start" /\ side = "begin"
    /\ integer = 0 /\ seconds = 0
    /\ range = defaultrange
    /\ range_supported = FALSE

\* Action 6: the denominator is ten times larger for every digit; nine digits at most here.
Denominators == {10, 100, 1000, 10000, 100000, 1000000, 10000000, 100000000, 1000000000}
Denominator(n) == CHOOSE d \in Denominators : n < d /\ (d = 10 \/ 10 * n >= d)
Fraction(tok) == (tok.value * Second) \div Denominator(tok.value)

-----------------------------------------------------------------------------
(* Where the machine goes. *)

\* Text, of which a semicolon or npt is the only part that matters.
TextTarget(tok) ==
    CASE tok.kind = "NUL" -> "end" [] tok.kind = "semicolon" -> "semi" [] tok.kind = "npt" -> "npt"
      [] OTHER -> "text"

\* The first unit; its value has at least one character, which has no meaning.
FirstUnit(tok) ==
    CASE at = "start" /\ tok.kind = "npt" -> "first_npt"
      [] at = "start" /\ tok.kind \in Letters \ {"npt"} -> "unit"
      [] at \in {"unit", "first_npt"} /\ tok.kind \in Letters -> "unit"
      [] at = "unit" /\ tok.kind = "=" -> "value"
      [] at = "first_npt" /\ tok.kind = "=" -> "first_spec"
      [] at = "value" /\ tok.kind # "NUL" -> "text"
      [] OTHER -> "end"

\* The number of a time: hours or seconds, minutes and seconds below 60, fraction.
Time(tok) ==
    CASE at = "int" /\ tok.kind = ":" -> "m0"
      [] at = "m0" /\ tok.kind = "number" /\ tok.value < 60 -> "m"
      [] at = "m" /\ tok.kind = ":" -> "s0"
      [] at = "s0" /\ tok.kind = "number" /\ tok.value < 60 -> "s"
      [] at \in {"int", "s"} /\ tok.kind = "." -> "frac0"
      [] at = "frac0" /\ tok.kind = "number" -> "frac"
      [] at \in {"int", "s", "frac"} /\ side = "begin" /\ tok.kind = "-" -> "dash"
      [] OTHER -> TextTarget(tok)

\* The places where a specification, or its second time, begins.
Spec1(tok) ==
    CASE at \in {"spec", "first_spec"} /\ tok.kind = "-" -> "open"
      [] tok.kind = "number" -> "int"
      [] tok.kind = "now" -> "now"
      [] at = "first_spec" /\ tok.kind \in {"semicolon", "npt"} -> "text"
      [] OTHER -> TextTarget(tok)

Target(tok) ==
    IF tok.kind = "bad" THEN "end" ELSE
    CASE at \in {"start", "unit", "first_npt", "value"} -> FirstUnit(tok)
      [] at \in {"int", "m0", "m", "s0", "s", "frac0", "frac"} -> Time(tok)
      [] at \in {"spec", "first_spec", "open", "dash"} -> Spec1(tok)
      [] at = "npt" /\ tok.kind = "=" -> "spec"
      [] at = "semi" /\ tok.kind = "time" -> "time"
      [] at = "time" /\ tok.kind = "=" -> "date"
      [] at = "date" /\ tok.kind = "utc" -> "utc"
      [] OTHER -> TextTarget(tok)

-----------------------------------------------------------------------------
(* What it does there. *)

\* What ends the second time: the end, a semicolon, and any letter.
EndsRange(tok) == tok.kind \in Letters \cup {"semicolon", "NUL"}

\* Actions 2, 3, 4 and 7: the part just read is added.
Added(tok) ==
    CASE at = "int" /\ tok.kind = ":" -> integer * 3600 * Second
      [] at = "m" /\ tok.kind = ":" -> integer * 60 * Second
      [] at \in {"int", "s"} /\ tok.kind = "." -> integer * Second
      [] OTHER -> 0

\* The time at its end, and the ends of the two times.
Whole == seconds + IF at = "frac" THEN integer ELSE integer * Second
EndsBegin(tok) == at \in {"int", "s", "frac"} /\ side = "begin" /\ tok.kind = "-"
EndsEnd(tok) == at \in {"int", "s", "frac"} /\ side = "end" /\ EndsRange(tok)

\* Mutant: the time is not reset after the first.
SecondsKept(tok) == IF EndsEnd(tok) THEN 0 ELSE seconds + Added(tok)

SecondsAfter(tok) ==
    IF EndsBegin(tok) \/ EndsEnd(tok) THEN 0 ELSE seconds + Added(tok)

\* Action 8: now is not supported, in either place.
SaysNow(tok) ==
    at = "now" /\ IF side = "begin" THEN tok.kind = "-" ELSE EndsRange(tok)

\* Actions 9 to 11 and 19.
Store(tok) ==
    /\ range' = [begin_time |-> IF EndsBegin(tok) THEN Whole ELSE range.begin_time,
                 end_time |-> IF EndsEnd(tok) THEN Whole ELSE range.end_time,
                 playback_time |-> IF at = "utc" /\ tok.kind \in Letters \cup {"NUL"}
                                   THEN LongAgo ELSE range.playback_time]
    /\ range_supported' = (range_supported \/ EndsEnd(tok) \/ (at = "dash" /\ EndsRange(tok)))

ReadRange(tok) ==
    /\ reader = "run"
    /\ IF SaysNow(tok)
       THEN reader' = "refused" /\ UNCHANGED <<at, side, integer, seconds, range, range_supported>>
       ELSE /\ at' = Target(tok)
            /\ side' = IF at' \in {"spec", "first_spec"} THEN "begin" ELSE
                       IF at' \in {"open", "dash"} THEN "end" ELSE side
            /\ integer' = CASE at' \in {"int", "m", "s"} -> tok.value
                            [] at' = "frac" -> Fraction(tok)
                            [] OTHER -> integer
            /\ seconds' = SecondsAfter(tok)
            /\ Store(tok)
            /\ reader' = IF at' # "end" THEN "run"
                         ELSE IF range_supported' THEN "supported" ELSE "refused"
=============================================================================
