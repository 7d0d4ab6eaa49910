--------------------------- MODULE FormattedText ---------------------------
(***************************************************************************)
(* What printf promises of GoFormat: every value is written by the         *)
(* directive that takes it or complained about, and what is written can be *)
(* read.  The readers are those of Go's literals.                          *)
(***************************************************************************)
EXTENDS GoFormat

(***************************************************************************)
(* Formats as they are meant: a directive with a text before it.  A width  *)
(* or a precision is a number, -1 for none, or FromValue; index is 0 or the     *)
(* place of the value, and then nothing is a star.                         *)
(***************************************************************************)
FromValue == -2
Decimals(n) == LET text == Numeral(n, 10) IN [i \in DOMAIN text |-> NameOf(text[i])]
WrittenFormat(part) ==
  part.before \o <<"%">> \o part.flags
    \o (CASE part.width = -1 -> <<>> [] part.width = FromValue -> <<"*">> [] OTHER -> Decimals(part.width))
    \o (CASE part.precision = -1 -> <<>> [] part.precision = FromValue -> <<".", "*">> [] OTHER -> <<".">> \o Decimals(part.precision))
    \o (IF part.index = 0 THEN <<>> ELSE <<"[">> \o Decimals(part.index) \o <<"]">>)
    \o <<part.verb>>

Stars(part) == (IF part.width = FromValue THEN 1 ELSE 0) + (IF part.precision = FromValue THEN 1 ELSE 0)
IntegerAt(values, i) == i <= Len(values) /\ values[i].t = "int"
ValuePlace(part, next) == IF part.index = 0 THEN next + Stars(part) ELSE part.index

(* The directive with its stars filled in, and the complaints about them.  *)
Meant(part, values, next) ==
  LET precisionAt == next + (IF part.width = FromValue THEN 1 ELSE 0)
      n(i) == IF IntegerAt(values, i) THEN values[i].n ELSE -1 IN
    [verb |-> part.verb,
     width |-> IF part.width # FromValue THEN part.width
               ELSE IF IntegerAt(values, next) THEN AbsoluteOf(n(next)) ELSE -1,
     precision |-> IF part.precision # FromValue THEN part.precision ELSE IF n(precisionAt) < 0 THEN -1 ELSE n(precisionAt),
     flags |-> {part.flags[k] : k \in DOMAIN part.flags}
                 \union (IF part.width = FromValue /\ IntegerAt(values, next) /\ n(next) < 0 THEN {"-"} ELSE {}),
     complaints |-> (IF part.width = FromValue /\ ~IntegerAt(values, next) THEN Words.badWidth ELSE <<>>)
                      \o (IF part.precision = FromValue /\ ~IntegerAt(values, precisionAt) THEN Words.badPrecision ELSE <<>>)]

RECURSIVE Expected(_, _, _, _)
Expected(parts, values, next, used) ==
  IF parts = <<>> THEN
    LET rest == SelectSeq([i \in DOMAIN values |-> i], LAMBDA i : i \notin used) IN
      IF rest = <<>> THEN <<>>
      ELSE Quoted(Words.extra, Separated(Len(rest), <<44, 32>>, LAMBDA i :
                    TypeName(values[rest[i]]) \o <<61>> \o DefaultValue(values[rest[i]], FALSE)), <<41>>)
  ELSE LET part == Head(parts)
           at == ValuePlace(part, next)
           d == Meant(part, values, next)
           indexed == \E i \in DOMAIN parts : parts[i].index # 0 IN
    T(part.before)
      \o (IF part.index > Len(values) THEN Complaint(part.verb, Words.badIndex)
          ELSE d.complaints \o (IF at > Len(values) THEN Complaint(part.verb, Words.missing) ELSE FormatDirective(d, values[at])))
      \o Expected(Tail(parts), values, IF part.index > Len(values) THEN next ELSE at + 1,
                  used \union (IF indexed THEN DOMAIN values ELSE next..at))

(* Every directive takes the values that are its own, in their order, and  *)
(* the values no directive takes are reported unless an index was given.   *)
ValuesAccounted(parts, values) ==
  Sprintf(Concatenated(Len(parts), LAMBDA i : WrittenFormat(parts[i])), values) = Expected(parts, values, 1, {})

(***************************************************************************)
(* Reading back.                                                           *)
(***************************************************************************)
Unpadded(text) == SelectSeq(text, LAMBDA c : c # 32)
IsInteger(text, n, base, prefix) ==
  LET unsigned == IF text[1] \in {43, 45} THEN Tail(text) ELSE text
      digits == SubSeq(unsigned, Len(prefix) + 1, Len(unsigned)) IN
    /\ SubSeq(unsigned, 1, Len(prefix)) = prefix
    /\ \A i \in DOMAIN digits : IsHexDigit(digits[i])
    /\ n = (IF text[1] = 45 THEN -1 ELSE 1) * ValueOf(LowerCase(digits), base)
Prefixed(d) == IF "#" \in d.flags \/ d.verb = "O" THEN BasePrefix(d.verb) ELSE <<>>

(* Widths fill and never cut; the padding is taken off again by reading.   *)
Bare(d, v) == FormatDirective([d EXCEPT !.width = -1], v)
WidthKept(bare, text, d) == Len(text) = IF Len(bare) > d.width THEN Len(bare) ELSE d.width

IntegerReads(n, d) ==
  LET Holds(text, bare) == IsInteger(Unpadded(text), n, BaseOf(d.verb), Prefixed(d)) /\ WidthKept(bare, text, d)
      v == [t |-> "int", n |-> n] IN
    Holds(FormatDirective(d, v), Bare(d, v))

(* A float is read unless zeros were put before its sign; the README has   *)
(* that disagreement with Go.                                              *)
FloatReads(f, d) ==
  LET v == [t |-> "float", float |-> f]
      signed == f.negative \/ "+" \in d.flags \/ " " \in d.flags
      exact == d.precision = -1 /\ d.verb \in {"v", "g", "G"}
      Holds(text, bare) ==
        /\ WidthKept(bare, text, d)
        /\ exact /\ ~(signed /\ "0" \in d.flags) /\ ~(IsZeroFloat(f) /\ f.negative) => ReadFloat(LowerCase(Unpadded(text))) = f IN
    Holds(FormatDirective(d, v), Bare(d, v))

(* The character a quoted text has at a place, and where the next begins.  *)
Unescaped(c) == CASE c = 97 -> 7 [] c = 98 -> 8 [] c = 102 -> 12 [] c = 110 -> 10
                  [] c = 114 -> 13 [] c = 116 -> 9 [] c = 118 -> 11 [] OTHER -> c
HexDigits(c) == CASE c = 120 -> 2 [] c = 117 -> 4 [] c = 85 -> 8 [] OTHER -> 0
RECURSIVE Unquote(_, _)
Unquote(text, i) ==
  IF i > Len(text) THEN <<>>
  ELSE IF text[i] # 92 THEN <<text[i]>> \o Unquote(text, i + 1)
  ELSE LET n == HexDigits(text[i + 1]) IN
    IF n = 0 THEN <<Unescaped(text[i + 1])>> \o Unquote(text, i + 2)
    ELSE IF i + 1 + n > Len(text) \/ (\E k \in i + 2..i + 1 + n : ~IsHexDigit(text[k])) THEN <<>>
    ELSE <<ValueOf(SubSeq(text, i + 2, i + 1 + n), 16)>> \o Unquote(text, i + 2 + n)
Inside(text) == SubSeq(text, 2, Len(text) - 1)
Literal(text) == IF text[1] = 96 THEN Inside(text) ELSE Unquote(Inside(text), 1)
HexRead(text) == [i \in 1..Len(text) \div 2 |-> ValueOf(SubSeq(text, 2 * i - 1, 2 * i), 16)]

(* Quoted and hexadecimal texts read back, cut to the precision first; a   *)
(* text in ASCII has no other character, one with # is raw if it can be.   *)
IsRead(text, d, bare) ==
  LET given == Truncated(IF d.verb \in {"x", "X"} THEN Encoded(text) ELSE text, d) IN
    /\ d.verb = "q" => /\ Literal(bare) = given
                       /\ "+" \in d.flags /\ bare[1] # 96 => \A i \in DOMAIN bare : bare[i] \in 32..126
                       /\ bare[1] = 96 => "#" \in d.flags
    /\ d.verb \in {"x", "X"} => HexRead(LowerCase(bare)) = given
    /\ d.verb = "v" /\ "#" \in d.flags => Literal(bare) = text
    /\ d.verb = "s" => bare = given
TextReads(text, d) ==
  LET v == [t |-> "text", text |-> text]
      Holds(bare, padded) == WidthKept(bare, padded, d) /\ IsRead(text, d, bare) IN
    Holds(Bare(d, v), FormatDirective(d, v))
=============================================================================
