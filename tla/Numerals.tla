----------------------------- MODULE Numerals -----------------------------
(***************************************************************************)
(* What the escapers and the formatter take from Python: texts as          *)
(* sequences of code points, the digits of numbers, and floats as repr     *)
(* writes them.                                                            *)
(*                                                                         *)
(* A float is d.ddd x 10^exponent: its shortest digits, the first of them  *)
(* not 0 unless the number is, and the last not 0 either.                  *)
(***************************************************************************)
EXTENDS Integers, Sequences

(* The concatenation of n texts.                                           *)
Concatenated(n, TextOf(_)) ==
  LET upTo[i \in 0..n] == IF i = 0 THEN <<>> ELSE upTo[i - 1] \o TextOf(i) IN upTo[n]
Translated(text, Change(_)) == Concatenated(Len(text), LAMBDA i : Change(text[i]))
Copied(c, n) == [i \in 1..n |-> c]

IsDigit(c)    == c \in 48..57
IsLower(c)    == c \in 97..122
IsUpper(c)    == c \in 65..90
IsAlnum(c)    == IsDigit(c) \/ IsLower(c) \/ IsUpper(c)
IsHexDigit(c) == IsDigit(c) \/ c \in 97..102 \/ c \in 65..70
LowerCase(text) == [i \in DOMAIN text |-> IF IsUpper(text[i]) THEN text[i] + 32 ELSE text[i]]
UpperCase(text) == [i \in DOMAIN text |-> IF IsLower(text[i]) THEN text[i] - 32 ELSE text[i]]
Digit(n)      == IF n < 10 THEN 48 + n ELSE 87 + n
DigitValue(c) == IF IsDigit(c) THEN c - 48 ELSE IF IsLower(c) THEN c - 87 ELSE c - 55

(* The text of a number in base 2, 8, 10 or 16, and back.                  *)
RECURSIVE Numeral(_, _), ValueOf(_, _)
Numeral(n, base) ==
  IF n < base THEN <<Digit(n)>> ELSE Append(Numeral(n \div base, base), Digit(n % base))
ValueOf(text, base) ==
  IF text = <<>> THEN 0
  ELSE base * ValueOf(SubSeq(text, 1, Len(text) - 1), base) + DigitValue(text[Len(text)])

Filled(text, width, c) == IF Len(text) >= width THEN text ELSE Copied(c, width - Len(text)) \o text
SignOf(negative) == IF negative THEN <<45>> ELSE <<>>

(* From the first position on, the characters of a kind.                   *)
RECURSIVE PastWhile(_, _, _)
PastWhile(text, i, set) == IF i <= Len(text) /\ text[i] \in set THEN PastWhile(text, i + 1, set) ELSE i

BeginsAt(text, i, word) == i + Len(word) - 1 <= Len(text) /\ SubSeq(text, i, i + Len(word) - 1) = word
HasWord(text, word) == \E i \in DOMAIN text : BeginsAt(text, i, word)

(* The order of strings.                                                   *)
Precedes(s, t) ==
  LET common == {k \in 1..Len(s) : k <= Len(t) /\ s[k] # t[k]} IN
    IF common = {} THEN Len(s) < Len(t)
    ELSE LET k == CHOOSE k \in common : \A j \in common : k <= j IN s[k] < t[k]

(***************************************************************************)
(* Floats.                                                                 *)
(***************************************************************************)
Float(negative, digits, exponent) == [negative |-> negative, digits |-> digits, exponent |-> exponent]
IsZeroFloat(f) == f.digits = <<0>>
DigitTexts(digits) == [i \in DOMAIN digits |-> Digit(digits[i])]

(* All digits before and after the point: 0.0012, 1200, 1.2                *)
Positional(f) ==
  LET text == DigitTexts(f.digits)
      whole == f.exponent + 1 IN
    IF whole <= 0 THEN <<48, 46>> \o Copied(48, -whole) \o text
    ELSE IF whole >= Len(text) THEN text \o Copied(48, whole - Len(text))
    ELSE SubSeq(text, 1, whole) \o <<46>> \o SubSeq(text, whole + 1, Len(text))

Mantissa(f) ==
  LET text == DigitTexts(f.digits) IN
    IF Len(text) = 1 THEN text ELSE <<text[1], 46>> \o Tail(text)

AbsoluteOf(n) == IF n < 0 THEN -n ELSE n
Integral(n) == SignOf(n < 0) \o Numeral(AbsoluteOf(n), 10)     \* str(n)
ExponentPart(exponent, width) ==
  <<101, IF exponent < 0 THEN 45 ELSE 43>> \o Filled(Numeral(AbsoluteOf(exponent), 10), width, 48)

(* repr(abs(value)).lower()                                                *)
WrittenWithExponent(f) == f.exponent \notin -4..15
Repr(f) ==
  IF WrittenWithExponent(f) THEN Mantissa(f) \o ExponentPart(f.exponent, 2)
  ELSE Positional(f) \o (IF f.exponent + 1 >= Len(f.digits) THEN <<46, 48>> ELSE <<>>)

(* A float read from its digits and the power of ten of the first of them. *)
Normalized(negative, digits, exponent) ==
  LET others == {k \in DOMAIN digits : digits[k] # 0} IN
    IF others = {} THEN Float(negative, <<0>>, 0)
    ELSE LET first == CHOOSE k \in others : \A j \in others : k <= j
             last == CHOOSE k \in others : \A j \in others : j <= k IN
           Float(negative, SubSeq(digits, first, last), exponent - (first - 1))
ReadDigits(text) == [i \in DOMAIN text |-> DigitValue(text[i])]

(* A number in any of these forms; its sign may be missing.                *)
ReadFloat(text) ==
  LET from == PastWhile(text, 1, {43, 45})
      point == PastWhile(text, from, 48..57)
      decimals == IF BeginsAt(text, point, <<46>>) THEN point + 1 ELSE point
      end == PastWhile(text, decimals, 48..57)
      digits == SubSeq(text, from, point - 1) \o SubSeq(text, decimals, end - 1)
      power == IF end > Len(text) THEN 0
               ELSE LET n == ValueOf(SubSeq(text, end + 2, Len(text)), 10)
                    IN  IF text[end + 1] = 45 THEN -n ELSE n IN
    Normalized(text[1] = 45, ReadDigits(digits), point - from - 1 + power)

(***************************************************************************)
(* UTF-8.                                                                  *)
(***************************************************************************)
Utf8(c) ==
  IF c < 128 THEN <<c>>
  ELSE IF c < 2048 THEN <<192 + c \div 64, 128 + (c % 64)>>
  ELSE IF c < 65536 THEN <<224 + c \div 4096, 128 + ((c \div 64) % 64), 128 + (c % 64)>>
  ELSE <<240 + c \div 262144, 128 + ((c \div 4096) % 64), 128 + ((c \div 64) % 64), 128 + (c % 64)>>
Encoded(text) == Translated(text, Utf8)
=============================================================================
