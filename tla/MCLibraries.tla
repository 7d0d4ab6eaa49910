---------------------------- MODULE MCLibraries ----------------------------
(* Instances of the value libraries: a program that uses one of them.       *)
EXTENDS RegexpMeaning, TimeLayout, GoTimers, MCText

VARIABLE sample               \* the arguments of a conversion or a calculation

Unused == [k |-> "unused"]

(***************************************************************************)
(* Regular expressions.                                                    *)
(***************************************************************************)
NoCall == [tree |-> Unused, pattern |-> <<>>, text |-> <<>>, count |-> 0]
RegexpOff ==
  /\ call = NoCall /\ phase = "off"
  /\ compiled = <<>> /\ cursor = 0 /\ current = <<>> /\ candidate = <<>> /\ matches = <<>>

MCLower(c) == IF c = "A" THEN "a" ELSE c
MCUpper(c) == IF c = "a" THEN "A" ELSE c

Char(c)   == Token([t |-> "literal", char |-> c])
AnyChar   == Token([t |-> "any"])
Anchor(a) == Token(At(a))
Among(negated, members) == Token(Class(negated, members))
Rep(low, high, lazy) == [t |-> "repeat", low |-> low, high |-> high, lazy |-> lazy]
SetFlags(on, off) == Token([t |-> "flags", on |-> on, off |-> off])
Empty == Grouped(Plain, SetFlags({"s"}, {}))
Capture(x) == Grouped(Open("capture", {}, {}), x)
Scoped(on, off, x) == Grouped(Open("flags", on, off), x)

Star == Rep(0, Unbounded, FALSE)
Quantifiers == {Star, Rep(1, Unbounded, FALSE), Rep(0, 1, TRUE), Rep(0, 2, FALSE), Rep(2, Unbounded, TRUE)}
Simple == {Char("a"), AnyChar, Empty, Repeated(Char("a"), Star), Repeated(Char("b"), Rep(0, 1, TRUE)),
           Anchor("end"), Among(TRUE, {"a"})}
Pairs == {Both(x, y) : x \in Simple, y \in Simple} \union {Either(x, y) : x \in Simple, y \in Simple}
Loops == {Repeated(Capture(p), q) : p \in Pairs, q \in Quantifiers}
Atoms == {Repeated(x, q) : x \in {Char("a"), AnyChar, Among(FALSE, {"a", "b"})}, q \in Quantifiers} \union Simple

(* (?i)a|B, a(?i)|a, (?m:^a$)., (?s:.)+., (?U)a*?b, ... *)
Flagged ==
  LET Tails == {Repeated(Char("a"), Star), Both(AnyChar, Anchor("end")), Capture(Either(Char("A"), Char("b"))),
                Both(Anchor("boundary"), Among(TRUE, {"a"})), Both(Anchor("beginning"), Char("a"))}
      Sets == {<<{"i"}, {}>>, <<{"m"}, {}>>, <<{"s"}, {"i"}>>, <<{"U", "i"}, {}>>}
  IN  UNION {{Both(SetFlags(f[1], f[2]), Capture(x)), Both(Scoped(f[1], f[2], x), x),
              Either(Both(Char("b"), SetFlags(f[1], f[2])), x),
              Capture(Either(Both(SetFlags(f[1], f[2]), x), Both(SetFlags({}, f[1]), x))),
              Both(Repeated(Scoped(f[1], f[2], x), Rep(1, Unbounded, FALSE)), SetFlags(f[2], f[1]))} :
             f \in Sets, x \in Tails}

Large == {Repeated(Grouped(Plain, Repeated(Char("a"), Rep(n, n, FALSE))), Rep(k, k, FALSE)) :
            n \in {2, 3, 5, 6}, k \in {1, 4, 5}}

Call(x, text, count) == [tree |-> x, pattern |-> Written(x), text |-> text, count |-> count]
MCSearches ==
  {Call(x, text, -1) : x \in Loops, text \in {<<"a", "b">>, <<"b", "a", "nl">>}}
    \union {Call(x, text, count) : x \in Atoms, text \in {<<>>, <<"a">>, <<"b", "a", "a", "b", "a">>}, count \in {-1, 2}}
    \union {Call(x, text, -1) : x \in Flagged, text \in {<<"A", "nl", "a">>, <<"a", "b", "A">>}}
    \union {Call(x, <<"a", "a", "a", "a">>, 1) : x \in Large}

(***************************************************************************)
(* Durations and times.                                                    *)
(***************************************************************************)
MCZeroSeconds   == -20000
MCCalendarStart == -100000000
MCFirstDatetime == -15000

Edges == {MinNanoseconds, MinNanoseconds + 1, MinNanoseconds + 5, MaxNanoseconds - 1, MaxNanoseconds}
Operands == {-12345, -1500, -105, -15, -10, -1, 0, 1, 2, 3, 9, 10, 11, 25, 105, 999, 1000, 1500, 3500, 9000, 16384} \union Edges
Durations == {x \in Range64 : x % 53 = 0} \union Operands

DurationTexts ==
  {Text(negative, <<Part(whole, digits, unit)>>) : negative \in BOOLEAN, whole \in {0, 1, 3, 32, 33, 328},
     digits \in {<<>>, <<5>>, <<0, 9>>}, unit \in {"ns", "us", "ms", "s", "h", "", "x"}}
    \union {Text(negative, <<Part(whole, <<5>>, "h"), Part(other, <<7, 6, 8>>, "s")>>) :
              negative \in BOOLEAN, whole \in 0..4, other \in {0, 5, 32}}
    \union {Text(FALSE, <<Part(whole, digits, unit)>>) : whole \in 0..1, unit \in {"s", "h"},
              digits \in {<<9, 9, 9, 9, 9>>, <<3, 2, 7, 6, 8>>, <<3, 2, 7, 6, 9>>}}

East ==
  [sort |-> "zone", name |-> "East",
   zones |-> <<Zone("LMT", 1, FALSE), Zone("STD", 4, FALSE), Zone("DST", 8, TRUE)>>,
   transitions |-> <<-9000, 0, 600, 1500>>, zoneOf |-> <<2, 3, 2, 3>>,
   ruleTransitions |-> <<2100, 2700>>, ruleZones |-> <<2, 3>>]
West ==
  [sort |-> "zone", name |-> "West",
   zones |-> <<Zone("EDT", -4, TRUE), Zone("EST", -8, FALSE), Zone("-0330", -6, TRUE)>>,
   transitions |-> <<-5000, 0, 600>>, zoneOf |-> <<1, 2, 3>>, ruleTransitions |-> <<>>, ruleZones |-> <<>>]
MCReadableNames == {"UTC", "LMT", "STD", "DST", "EDT", "EST", "FIX", "FAR", "DAY", "NEG", "SEC"}
Locations == {UTC, East, West, Fixed("FIX", 6), Fixed("FAR", 70000), Fixed("DAY", 20), Fixed("NEG", -2), Fixed("SEC", -7)}

Instants == {-31990, -9001, -9000, -5001, -4990, -1, 0, 3, 5, 8, 590, 598, 600, 603, 1499, 1500, 2090,
             2099, 2103, 2699, 2701, 14990, 14994, 14999, 20000, 32767}
Times == {Time(unix, nano, location, <<>>) : unix \in Instants, nano \in {0, 250, 999}, location \in Locations}
Readings == {Time(unix, nano, UTC, mono) : unix \in {-5, 0, 3, 30}, nano \in {0, 250}, mono \in {<<>>, <<0>>, <<32000>>}}

Complete ==                   \* layouts that keep the whole instant
  {RFC3339,
   <<Element("2006"), Element("Jan"), Element("_2"), Element("15"), Element("04"), Element("05"),
     FractionPart(TRUE, 3), Element("-070000"), Element("MST")>>}
Layouts == Complete \union
  {<<Element("Monday"), Element("02"), Element("Jan"), Element("06"), Element("15"), Element("04"), Element("05"), Element("MST")>>,
   <<Element("January"), Element("2"), Element("2006"), Element("3"), Element("4"), Element("5"),
     FractionPart(TRUE, 2), Element("PM"), Element("-07:00")>>,
   <<Element("_2006"), Element("__2"), Element("03"), Element("04"), Element("05"), Element("PM"), FractionPart(FALSE, 3)>>,
   <<Element("2006"), Element("002"), Element("15"), Element("04"), Element("05"), Element("Z07:00:00")>>}

Days == {146097 * era + day :
           era \in {-2, 0, 2},
           day \in UNION {d - 25..d + 25 : d \in {0, 365, 730, 1096, 10957, 11000, 11017, 11323, -25567, -25508, -719528}}}

Samples ==
  [k : {"duration"}, x : Durations]
    \union [k : {"durations"}, x : Operands, y : Operands]
    \union [k : {"text"}, text : DurationTexts]
    \union [k : {"day"}, day : Days]
    \union [k : {"time"}, t : Times]
    \union [k : {"times"}, t : Readings, other : Readings, x : {0, 1, 7, 250, 1000, 1500, -3, -999, 32767}]
    \union [k : {"count"}, count : {-32768, -1001, -1000, -999, -1, 0, 1, 15, 32767}, scale : {1, 10, 100}]
    \union [k : {"layout"}, t : Times, layout : Layouts]
    \union [k : {"zone"}, location : {East, West}, unix : {14600} \union {u \in Instants : u \in -10000..3000}]

(***************************************************************************)
(* Durations compute as Go's and as Python's integers do, in range or      *)
(* wrapped or refused, and are read back from what they are written as.    *)
(***************************************************************************)
DurationsExact ==
  CASE sample.k = "duration"  -> ReadBack(sample.x) /\ ConvertsBack(sample.x)
    [] sample.k = "durations" -> /\ ArithmeticWraps(sample.x, sample.y) /\ DivisionExact(sample.x, sample.y)
                                 /\ RoundsToNearest(sample.x, sample.y)
                                 /\ sample.y \in 0..12 => ShiftsExact(sample.x, sample.y)
    [] sample.k = "text"      -> ReadsClose(sample.text)
    [] OTHER -> TRUE

(***************************************************************************)
(* Times keep their instant through calendars, zones, layouts, wire forms  *)
(* and the Python class, or are refused where datetime, the wire form or   *)
(* the layout's zone names end, and their arithmetic and order agree.      *)
(***************************************************************************)
InstantsExact ==
  CASE sample.k = "day"    -> CalendarExact(sample.day)
    [] sample.k = "time"   -> /\ ComponentsFound(sample.t) /\ MarshalReads(sample.t)
                              /\ \A x \in {0, 9, 1000, 16000, -1, -999} : PythonReads(sample.t, x)
    [] sample.k = "times"  -> ArithmeticAgrees(sample.t, sample.other, sample.x)
    [] sample.k = "count"  -> CountsRead(sample.count, sample.scale)
    [] sample.k = "layout" -> LayoutReads(sample.t, sample.layout, sample.layout \in Complete)
    [] sample.k = "zone"   -> BoundsHold(sample.location, sample.unix)
    [] OTHER -> TRUE

(***************************************************************************)
(* The two packages of time compute what a reader of Go's documentation    *)
(* and of the calendar computes, for each sample drawn (goduration,        *)
(* gotime).                                                                *)
(***************************************************************************)
TimesExact == DurationsExact /\ InstantsExact

(***************************************************************************)
(* What an escaper writes is read as the value by the reader of its        *)
(* context, whatever the chain of escapers, what the template escaped      *)
(* itself and what was trusted; it neither ends the context nor runs into  *)
(* the text after it.                                                      *)
(***************************************************************************)
EscapersExact == HtmlReads(sample)

(***************************************************************************)
(* Every directive of a format writes the value that is its own, readable  *)
(* in its base or its quotes and at least as wide as asked, and values     *)
(* without a directive are reported.                                       *)
(***************************************************************************)
FormatsExact == FormatReads(sample)

(***************************************************************************)
(* One library at a time.                                                  *)
(***************************************************************************)
TimersOff ==
  /\ kind = "off" /\ active = FALSE /\ event = FALSE /\ period = 0
  /\ handles = [h \in Handles |-> Done] /\ latest = 1 /\ generation = 1 /\ result = "pending"
  /\ resets = 0 /\ calls = 0
  /\ outcome = [h \in Handles |-> "unused"] /\ firer = [h \in Handles |-> 0] /\ crossed = [h \in Handles |-> {}]

Init ==
  \/ RegexpInit /\ sample = Unused /\ TimersOff
  \/ RegexpOff /\ sample \in Samples \union HtmlSamples \union FormatSamples /\ TimersOff
  \/ RegexpOff /\ sample = Unused /\ TimersInit

Next ==
  \/ RegexpNext /\ UNCHANGED <<sample, timerVars>>
  \/ kind # "off" /\ TimersNext /\ UNCHANGED <<sample, regexpVars>>

Spec == Init /\ [][Next]_<<regexpVars, sample, timerVars>> /\ TimersFairness
=============================================================================
