----------------------------- MODULE GoFormat -----------------------------
(***************************************************************************)
(* gotpl/_compat/gofmt/_core.py in its Go mode: printf, its directives and *)
(* the texts of values.  Texts are code points, as in Numerals; a format   *)
(* is written with the names of its characters.  Complex numbers, the      *)
(* binary and hexadecimal forms of floats and the Python mode are left     *)
(* out; a float stands for the decimal number of its digits.               *)
(***************************************************************************)
EXTENDS Numerals, TLC, FiniteSets

CONSTANT Printable            \* the characters str.isprintable accepts

Ascii ==                      \* from the space on
  <<" ", "!", "quote", "#", "$", "%", "&", "'", "(", ")", "*", "+", ",", "-", ".", "/",
    "0", "1", "2", "3", "4", "5", "6", "7", "8", "9", ":", ";", "<", "=", ">", "?", "@",
    "A", "B", "C", "D", "E", "F", "G", "H", "I", "J", "K", "L", "M", "N", "O", "P", "Q", "R", "S", "T", "U", "V", "W", "X", "Y", "Z",
    "[", "backslash", "]", "^", "_", "grave",
    "a", "b", "c", "d", "e", "f", "g", "h", "i", "j", "k", "l", "m", "n", "o", "p", "q", "r", "s", "t", "u", "v", "w", "x", "y", "z">>
CodeOf == [name \in {Ascii[i] : i \in DOMAIN Ascii} |-> 31 + CHOOSE i \in DOMAIN Ascii : Ascii[i] = name]

(* One private character for each text of a type, a constant or a complaint. *)
Words ==
  [nil |-> <<57344>>, bool |-> <<57345>>, int |-> <<57346>>, float64 |-> <<57347>>, string |-> <<57348>>, bytes |-> <<57349>>,
   slice |-> <<57350>>, mapping |-> <<57351>>, noValue |-> <<57352>>, true |-> <<57353>>, false |-> <<57354>>, nan |-> <<57355>>,
   inf |-> <<57356>>, map |-> <<57357>>, nilName |-> <<57358>>, byteSlice |-> <<57359>>, badIndex |-> <<57360>>,
   badWidth |-> <<57361>>, badPrecision |-> <<57362>>, missing |-> <<57363>>, noVerb |-> <<57364>>, extra |-> <<57365>>]

T(names) == [i \in DOMAIN names |-> CodeOf[names[i]]]
NameOf(c) == Ascii[c - 31]
Quoted(open, text, close) == open \o text \o close

(***************************************************************************)
(* _parse_directive: flags, an index, the width, the precision, the verb.  *)
(* An index that is missing is 0, a number that is missing -1.             *)
(***************************************************************************)
DigitNames == {"0", "1", "2", "3", "4", "5", "6", "7", "8", "9"}
FlagNames == {"+", "-", "#", " ", "0"}
NameAt(format, i) == IF i <= Len(format) THEN format[i] ELSE "end"
Decimal(names) == ValueOf(T(names), 10)

Index(value, past, has, bad) == [value |-> value, past |-> past, has |-> has, bad |-> bad]
ParseIndex(format, i) ==
  LET closings == {k \in i + 1..Len(format) : format[k] = "]"}
      closing == CHOOSE k \in closings : \A j \in closings : k <= j
      contents == SubSeq(format, i + 1, closing - 1)
      valid == contents # <<>> /\ (\A k \in DOMAIN contents : contents[k] \in DigitNames) /\ Decimal(contents) >= 1 IN
    IF NameAt(format, i) # "[" THEN Index(0, i, FALSE, FALSE)
    ELSE IF closings = {} THEN Index(0, Len(format) + 1, FALSE, TRUE)
    ELSE IF valid THEN Index(Decimal(contents), closing + 1, TRUE, FALSE)
    ELSE Index(0, closing + 1, FALSE, TRUE)

NumberAt(format, i) ==
  LET past == PastWhile(format, i, DigitNames) IN
    [past |-> past, value |-> IF past = i THEN -1 ELSE Decimal(SubSeq(format, i, past - 1))]

ParsePrecision(format, i) ==
  LET index == ParseIndex(format, i + 1)
      number == NumberAt(format, index.past) IN
    IF NameAt(format, i) # "." THEN [value |-> -1, past |-> i, star |-> FALSE, index |-> 0, bad |-> FALSE]
    ELSE IF NameAt(format, index.past) = "*"
      THEN [value |-> -1, past |-> index.past + 1, star |-> TRUE, index |-> index.value, bad |-> index.bad]
    ELSE [value |-> IF number.value = -1 THEN 0 ELSE number.value, past |-> number.past, star |-> FALSE,
          index |-> 0, bad |-> index.bad]

DirectiveOf(format, flags, initial, width, star, precision, trailing) ==
  [noVerb |-> trailing.past > Len(format), past |-> trailing.past + 1,
   flags |-> flags, verb |-> NameAt(format, trailing.past),
   width |-> width.value, widthStar |-> star, widthIndex |-> IF star THEN initial.value ELSE 0,
   precision |-> precision.value, precisionStar |-> precision.star, precisionIndex |-> precision.index,
   valueIndex |-> IF trailing.has THEN trailing.value ELSE IF star THEN 0 ELSE initial.value,
   bad |-> initial.bad \/ precision.bad \/ trailing.bad]
AfterWidth(format, flags, initial, width) ==
  LET star == NameAt(format, width.past) = "*"
      Close(precision) ==
        DirectiveOf(format, flags, initial, width, star, precision, ParseIndex(format, precision.past)) IN
    Close(ParsePrecision(format, IF star THEN width.past + 1 ELSE width.past))
AfterIndex(format, flags, initial) == AfterWidth(format, flags, initial, NumberAt(format, initial.past))
ParseDirective(format, i) ==
  LET end == PastWhile(format, i, FlagNames) IN
    AfterIndex(format, {format[k] : k \in i..end - 1}, ParseIndex(format, end))

(***************************************************************************)
(* Padding.                                                                *)
(***************************************************************************)
Spaces(text, width) == Copied(32, width - Len(text))
Pad(text, d) ==
  IF Len(text) >= d.width THEN text
  ELSE IF "-" \in d.flags THEN text \o Spaces(text, d.width)
  ELSE IF "0" \in d.flags THEN Filled(text, d.width, 48)
  ELSE Spaces(text, d.width) \o text
(* A mutant: zeros before the sign.                                        *)
PadNumericBefore(prefix, digits, d, zeroWithPrecision) ==
  LET text == prefix \o digits IN
    IF Len(text) >= d.width THEN text
    ELSE IF "-" \in d.flags THEN text \o Spaces(text, d.width)
    ELSE IF "0" \in d.flags /\ (d.precision = -1 \/ zeroWithPrecision) THEN Filled(text, d.width, 48)
    ELSE Spaces(text, d.width) \o text

PadNumeric(prefix, digits, d, zeroWithPrecision) ==
  LET text == prefix \o digits IN
    IF Len(text) >= d.width THEN text
    ELSE IF "-" \in d.flags THEN text \o Spaces(text, d.width)
    ELSE IF "0" \in d.flags /\ (d.precision = -1 \/ zeroWithPrecision)
      THEN prefix \o Filled(digits, d.width - Len(prefix), 48)
    ELSE Spaces(text, d.width) \o text

(***************************************************************************)
(* Floats, as Python's format writes them to a precision.                  *)
(***************************************************************************)
ShortestFloat(f) ==
  LET whole == f.exponent + 1 IN
    SignOf(f.negative) \o (IF IsZeroFloat(f) THEN <<48>>
                           ELSE IF f.exponent < -4 \/ f.exponent >= 6 THEN Mantissa(f) \o ExponentPart(f.exponent, 2)
                           ELSE Positional(f))

(* Half to even at the given power of ten, as digits and their exponent.   *)
RoundedAt(f, power) ==
  LET kept == f.exponent - power + 1
      digits == IF kept <= 0 THEN <<0>> ELSE SubSeq(f.digits, 1, IF kept < Len(f.digits) THEN kept ELSE Len(f.digits))
      n == ValueOf(DigitTexts(digits), 10)
      next == IF kept < 0 \/ kept >= Len(f.digits) THEN 0 ELSE f.digits[kept + 1]
      half == kept >= 0 /\ kept + 1 = Len(f.digits) /\ next = 5
      up == IF half THEN n % 2 = 1 ELSE next >= 5
      text == Numeral(IF up THEN n + 1 ELSE n, 10)
      unit == IF kept <= 0 THEN power ELSE f.exponent - Len(digits) + 1 IN
    IF kept >= Len(f.digits) THEN f ELSE Normalized(f.negative, ReadDigits(text), unit + Len(text) - 1)

AfterPoint(text, places) ==
  LET points == {i \in DOMAIN text : text[i] = 46}
      present == IF points = {} THEN 0 ELSE Len(text) - CHOOSE i \in points : TRUE IN
    IF places = 0 THEN text
    ELSE text \o (IF points = {} THEN <<46>> ELSE <<>>) \o Copied(48, places - present)
FixedPoint(f, places) == AfterPoint(Positional(RoundedAt(f, -places)), places)
Scientific(f, places) ==
  LET r == RoundedAt(f, f.exponent - places) IN AfterPoint(Mantissa(r), places) \o ExponentPart(r.exponent, 2)
General(f, precision) ==
  LET significant == IF precision = 0 THEN 1 ELSE precision
      r == RoundedAt(f, f.exponent - significant + 1) IN
    IF r.exponent < -4 \/ r.exponent >= significant THEN Mantissa(r) \o ExponentPart(r.exponent, 2) ELSE Positional(r)
Cased(verb, text) == IF verb \in {"X", "E", "G"} THEN UpperCase(text) ELSE text
PythonFormat(f, precision, verb) ==
  SignOf(f.negative) \o Cased(verb, CASE verb \in {"f", "F"} -> FixedPoint(f, precision)
                                      [] verb \in {"e", "E"} -> Scientific(f, precision)
                                      [] verb \in {"g", "G"} -> General(f, precision))

(***************************************************************************)
(* Quoted texts.                                                           *)
(***************************************************************************)
ControlEscape(c) == CASE c = 7 -> 97 [] c = 8 -> 98 [] c = 12 -> 102 [] c = 10 -> 110
                      [] c = 13 -> 114 [] c = 9 -> 116 [] c = 11 -> 118 [] c = 92 -> 92
CodePointEscape(c) == IF c <= 65535 THEN <<92, 117>> \o Filled(Numeral(c, 16), 4, 48)
                      ELSE <<92, 85>> \o Filled(Numeral(c, 16), 8, 48)
(* A mutant: the digits that are there.                                    *)
QuoteCharacterShort(c, asciiOnly, quote) ==
  IF c \in 7..13 \union {92} THEN <<92, ControlEscape(c)>>
  ELSE IF c = quote THEN <<92, c>>
  ELSE IF (asciiOnly /\ c > 127) \/ (c \notin Printable /\ c > 127) THEN CodePointEscape(c)
  ELSE IF c \in Printable THEN <<c>>
  ELSE <<92, 120>> \o Numeral(c, 16)

QuoteCharacter(c, asciiOnly, quote) ==
  IF c \in 7..13 \union {92} THEN <<92, ControlEscape(c)>>
  ELSE IF c = quote THEN <<92, c>>
  ELSE IF asciiOnly /\ c > 127 THEN CodePointEscape(c)
  ELSE IF c \in Printable THEN <<c>>
  ELSE IF c <= 127 THEN <<92, 120>> \o Filled(Numeral(c, 16), 2, 48)
  ELSE CodePointEscape(c)
QuoteRune(c, asciiOnly) == Quoted(<<39>>, QuoteCharacter(c, asciiOnly, 39), <<39>>)
IsRawText(text) == \A i \in DOMAIN text : text[i] # 96 /\ (text[i] = 9 \/ text[i] \in Printable)
QuoteString(text, asciiOnly, raw) ==
  IF raw /\ IsRawText(text) THEN Quoted(<<96>>, text, <<96>>)
  ELSE Quoted(<<34>>, Translated(text, LAMBDA c : QuoteCharacter(c, asciiOnly, 34)), <<34>>)

(***************************************************************************)
(* The texts of values: %v, %#v and %T.  A value is a record whose field t *)
(* is its type; nil at the top is the runtime's _TEMPLATE_NONE.            *)
(***************************************************************************)
Hexadecimal(bytes) == Translated(bytes, LAMBDA b : Filled(Numeral(b, 16), 2, 48))
Separated(n, separator, TextOf(_)) ==
  Concatenated(n, LAMBDA i : (IF i = 1 THEN <<>> ELSE separator) \o TextOf(i))

(* Keys of one type in their order, keys of several by type and repr.      *)
KeyPrecedes(keys, x, y) ==
  LET types == {keys[i].t : i \in DOMAIN keys} IN
    IF types = {"int"} THEN x.n < y.n
    ELSE IF x.t # y.t THEN x.t = "int"
    ELSE Precedes(IF x.t = "int" THEN Integral(x.n) ELSE x.text, IF y.t = "int" THEN Integral(y.n) ELSE y.text)
KeyOrder(keys) == SortSeq([i \in DOMAIN keys |-> i], LAMBDA i, j : KeyPrecedes(keys, keys[i], keys[j]))

Nil == [t |-> "nil"]
TypeName(v) ==
  CASE v.t = "nil" -> Words.nil [] v.t = "bool" -> Words.bool [] v.t = "int" -> Words.int
    [] v.t \in {"float", "inf", "nan"} -> Words.float64 [] v.t = "text" -> Words.string
    [] v.t = "bytes" -> Words.bytes [] v.t = "list" -> Words.slice [] v.t = "map" -> Words.mapping
    [] v.t = "pointer" -> <<42>> \o v.target

RECURSIVE DefaultValue(_, _), SyntaxValue(_)
DefaultValue(v, nested) ==
  CASE v.t = "nil"   -> IF nested THEN Words.nil ELSE Words.noValue
    [] v.t = "bool"  -> IF v.b THEN Words.true ELSE Words.false
    [] v.t = "int"   -> Integral(v.n)
    [] v.t = "float" -> ShortestFloat(v.float)
    [] v.t = "nan"   -> Words.nan
    [] v.t = "inf"   -> <<IF v.negative THEN 45 ELSE 43>> \o Words.inf
    [] v.t = "text"  -> v.text
    [] v.t = "pointer" -> IF v.address = 0 THEN Words.nil ELSE <<48, 120>> \o Numeral(v.address, 16)
    [] v.t = "bytes" -> Quoted(<<91>>, Separated(Len(v.bytes), <<32>>, LAMBDA i : Integral(v.bytes[i])), <<93>>)
    [] v.t = "list"  -> Quoted(<<91>>, Separated(Len(v.items), <<32>>, LAMBDA i : DefaultValue(v.items[i], TRUE)), <<93>>)
    [] v.t = "map"   ->
         LET order == KeyOrder(v.keys) IN
           Quoted(Words.map, Separated(Len(order), <<32>>, LAMBDA i :
             DefaultValue(v.keys[order[i]], TRUE) \o <<58>> \o DefaultValue(v.items[order[i]], TRUE)), <<93>>)

(* json.dumps, without its restriction to ASCII.                           *)
DumpString(text) ==
  Quoted(<<34>>, Translated(text, LAMBDA c : IF c \in {34, 92} THEN <<92, c>>
                                             ELSE IF c \in {8, 9, 10, 12, 13} THEN <<92, ControlEscape(c)>>
                                             ELSE IF c < 32 THEN CodePointEscape(c) ELSE <<c>>), <<34>>)
SyntaxValue(v) ==
  CASE v.t = "text" -> DumpString(v.text)
    [] v.t = "pointer" -> Quoted(<<40, 42>>, v.target, <<41>>)
         \o Quoted(<<40>>, IF v.address = 0 THEN Words.nilName ELSE <<48, 120>> \o Numeral(v.address, 16), <<41>>)
    [] v.t = "bytes" -> Quoted(Words.byteSlice, Separated(Len(v.bytes), <<44, 32>>, LAMBDA i : <<48, 120>> \o Numeral(v.bytes[i], 16)), <<125>>)
    [] v.t = "list" -> Quoted(Words.slice \o <<123>>, Separated(Len(v.items), <<44, 32>>, LAMBDA i : SyntaxValue(v.items[i])), <<125>>)
    [] v.t = "map" ->
         LET order == KeyOrder(v.keys) IN
           Quoted(Words.mapping \o <<123>>, Separated(Len(order), <<44, 32>>, LAMBDA i :
             SyntaxValue(v.keys[order[i]]) \o <<58>> \o SyntaxValue(v.items[order[i]])), <<125>>)
    [] OTHER -> DefaultValue(v, TRUE)

(***************************************************************************)
(* One directive and its value.                                            *)
(***************************************************************************)
Complaint(verb, text) == <<37, 33, CodeOf[verb]>> \o Quoted(<<40>>, text, <<41>>)
BadVerb(verb, v) ==
  IF TypeName(v) = Words.nil /\ DefaultValue(v, FALSE) = Words.nil THEN Complaint(verb, Words.nil)
  ELSE Complaint(verb, TypeName(v) \o <<61>> \o DefaultValue(v, FALSE))

SignFlag(nonNegative, d) ==
  IF ~nonNegative THEN <<>> ELSE IF "+" \in d.flags THEN <<43>> ELSE IF " " \in d.flags THEN <<32>> ELSE <<>>
BaseOf(verb) == CASE verb = "d" -> 10 [] verb = "b" -> 2 [] verb \in {"o", "O"} -> 8 [] OTHER -> 16
BasePrefix(verb) == CASE verb = "b" -> <<48, 98>> [] verb = "o" -> <<48>> [] verb = "O" -> <<48, 111>>
                      [] verb = "x" -> <<48, 120>> [] verb = "X" -> <<48, 88>> [] OTHER -> <<>>

FormatInteger(n, d) ==
  LET digits == Cased(d.verb, Numeral(AbsoluteOf(n), BaseOf(d.verb)))
      prefix == SignOf(n < 0) \o SignFlag(n >= 0, d)
                  \o (IF "#" \in d.flags \/ d.verb = "O" THEN BasePrefix(d.verb) ELSE <<>>)
      places == IF d.precision <= 0 THEN 4 ELSE d.precision IN
    CASE d.verb = "c" -> Pad(<<n>>, d)
      [] d.verb = "U" -> Pad(<<85, 43>> \o SignOf(n < 0)
                               \o Filled(UpperCase(Numeral(AbsoluteOf(n), 16)), places - (IF n < 0 THEN 1 ELSE 0), 48), d)
      [] OTHER -> PadNumeric(prefix, Filled(digits, d.precision, 48), d, FALSE)

(* The sign of a float is part of its digits.                              *)
FloatDigits(f, d) ==
  IF d.verb \in {"g", "G"} /\ d.precision = -1 THEN Cased(d.verb, ShortestFloat(f))
  ELSE PythonFormat(f, IF d.precision = -1 THEN 6 ELSE d.precision, d.verb)
FormatFloat(v, d) ==
  IF v.t # "float" THEN Pad(DefaultValue(v, FALSE), d)
  ELSE PadNumeric(<<>>, SignFlag(~v.float.negative \/ IsZeroFloat(v.float), d) \o FloatDigits(v.float, d), d, TRUE)

Truncated(text, d) == IF d.precision = -1 \/ d.precision >= Len(text) THEN text ELSE SubSeq(text, 1, d.precision)
FormatText(text, d) ==
  IF d.verb = "q" THEN QuoteString(Truncated(text, d), "+" \in d.flags, "#" \in d.flags) ELSE Truncated(text, d)

FormatDirective(d, v) ==
  CASE v.t = "formatter" -> <<CodeOf[d.verb]>> \o Integral(d.width) \o Integral(d.precision)   \* its own __go_format__
    [] v.t # "formatter" /\ d.verb = "p" ->
         IF v.t = "pointer" THEN PadNumeric(IF "#" \in d.flags THEN <<>> ELSE <<48, 120>>, Numeral(v.address, 16), d, FALSE)
         ELSE BadVerb("p", v)
    [] v.t # "formatter" /\ d.verb = "T" -> Pad(TypeName(v), d)
    [] v.t # "formatter" /\ d.verb = "v" -> Pad(IF "#" \in d.flags /\ v.t # "nil" THEN SyntaxValue(v) ELSE DefaultValue(v, FALSE), d)
    [] v.t = "bool" /\ d.verb = "t" -> Pad(DefaultValue(v, FALSE), d)
    [] v.t = "int" /\ d.verb = "q" -> Pad(QuoteRune(v.n, "+" \in d.flags), d)
    [] v.t = "int" /\ d.verb \in {"d", "b", "o", "O", "x", "X", "c", "U"} -> FormatInteger(v.n, d)
    [] v.t = "text" /\ d.verb \in {"s", "q"} -> Pad(FormatText(v.text, d), d)
    [] v.t = "text" /\ d.verb \in {"x", "X"} -> Pad(Cased(d.verb, Hexadecimal(Truncated(Encoded(v.text), d))), d)
    [] v.t = "bytes" /\ d.verb \in {"s", "q"} -> Pad(FormatText(v.bytes, d), d)
    [] v.t = "bytes" /\ d.verb \in {"x", "X"} -> Pad(Cased(d.verb, Hexadecimal(Truncated(v.bytes, d))), d)
    [] v.t \in {"float", "inf", "nan"} /\ d.verb \in {"e", "E", "f", "F", "g", "G"} -> FormatFloat(v, d)
    [] v.t \in {"inf", "nan"} /\ d.verb \in {"b", "x", "X"} -> FormatFloat(v, d)
    [] OTHER -> BadVerb(d.verb, v)

(***************************************************************************)
(* sprintf.  next is the value taken next, used those that were taken; an  *)
(* explicit index anywhere keeps quiet about the values nobody used.       *)
(***************************************************************************)
(* A mutant: the value after an explicit index is the one after the last.  *)
TakenAside(s, index, values) ==
  LET at == IF index = 0 THEN s.next ELSE index IN
    [present |-> at <= Len(values), value |-> IF at <= Len(values) THEN values[at] ELSE Nil,
     state |-> [s EXCEPT !.next = IF index = 0 THEN at + 1 ELSE @,
                         !.used = IF at <= Len(values) THEN @ \union {at} ELSE @]]

Taken(s, index, values) ==
  LET at == IF index = 0 THEN s.next ELSE index IN
    [present |-> at <= Len(values), value |-> IF at <= Len(values) THEN values[at] ELSE Nil,
     state |-> [s EXCEPT !.next = at + 1, !.used = IF at <= Len(values) THEN @ \union {at} ELSE @]]
Wrote(s, text) == [s EXCEPT !.out = @ \o text]
BadIndex(s, d) == Wrote(s, Complaint(d.verb, Words.badIndex))

(* The width and the precision a star takes from the values.               *)
StarWidth(s, d, values) ==
  LET taken == Taken(s, d.widthIndex, values) IN
    IF ~d.widthStar THEN [state |-> s, d |-> d]
    ELSE IF taken.value.t # "int" THEN [state |-> Wrote(taken.state, Words.badWidth), d |-> d]
    ELSE [state |-> taken.state,
          d |-> [d EXCEPT !.width = AbsoluteOf(taken.value.n),
                          !.flags = IF taken.value.n < 0 THEN @ \union {"-"} ELSE @]]
StarPrecision(s, d, values) ==
  LET taken == Taken(s, d.precisionIndex, values) IN
    IF ~d.precisionStar THEN [state |-> s, d |-> d]
    ELSE IF taken.value.t # "int" THEN [state |-> Wrote(taken.state, Words.badPrecision), d |-> d]
    ELSE [state |-> taken.state, d |-> [d EXCEPT !.precision = IF taken.value.n < 0 THEN -1 ELSE taken.value.n]]

WriteValue(d, taken) ==
  Wrote(taken.state, IF taken.present THEN FormatDirective(d, taken.value) ELSE Complaint(d.verb, Words.missing))
AfterStars(star, d, values) ==
  IF (d.precisionStar /\ d.precisionIndex > Len(values)) \/ d.valueIndex > Len(values) THEN BadIndex(star.state, d)
  ELSE WriteValue(star.d, Taken(star.state, d.valueIndex, values))
Directive(s, d, values) ==
  LET AfterWidthStar(star) == StarPrecision(star.state, star.d, values) IN
    IF d.bad \/ d.widthIndex > Len(values) THEN BadIndex(s, d)
    ELSE AfterStars(AfterWidthStar(StarWidth(s, d, values)), d, values)

Explicit(d) == d.valueIndex # 0 \/ d.widthIndex # 0 \/ d.precisionIndex # 0 \/ d.bad
RECURSIVE SprintfFrom(_, _, _, _)
SprintfDirective(format, values, percent, d, before) ==
  IF d.noVerb THEN Wrote([before EXCEPT !.reordered = @ \/ NameAt(format, percent + 1) = "["], Words.noVerb)
  ELSE SprintfFrom(format, values, d.past, Directive([before EXCEPT !.reordered = @ \/ Explicit(d)], d, values))
SprintfFrom(format, values, i, s) ==
  LET percents == {k \in i..Len(format) : format[k] = "%"}
      percent == CHOOSE k \in percents : \A j \in percents : k <= j
      before == Wrote(s, T(SubSeq(format, i, percent - 1))) IN
    IF percents = {} THEN Wrote(s, T(SubSeq(format, i, Len(format))))
    ELSE IF NameAt(format, percent + 1) = "%" THEN SprintfFrom(format, values, percent + 2, Wrote(before, <<37>>))
    ELSE SprintfDirective(format, values, percent, ParseDirective(format, percent + 1), before)

UnusedValues(s, values) == SelectSeq([i \in DOMAIN values |-> i], LAMBDA i : i \notin s.used)
Extra(s, values) ==
  LET unused == UnusedValues(s, values) IN
    IF unused = <<>> \/ s.reordered THEN <<>>
    ELSE Quoted(Words.extra, Separated(Len(unused), <<44, 32>>, LAMBDA i :
                  TypeName(values[unused[i]]) \o <<61>> \o DefaultValue(values[unused[i]], FALSE)), <<41>>)
NothingWritten == [out |-> <<>>, next |-> 1, used |-> {}, reordered |-> FALSE]
Sprintf(format, values) ==
  LET Finished(end) == end.out \o Extra(end, values) IN Finished(SprintfFrom(format, values, 1, NothingWritten))
=============================================================================
