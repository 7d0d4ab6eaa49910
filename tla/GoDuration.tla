----------------------------- MODULE GoDuration -----------------------------
(***************************************************************************)
(* packages/goduration: the durations templates compute with.              *)
(*                                                                         *)
(* goduration.go.Duration counts nanoseconds in Go's signed 64-bit range:  *)
(* sums, products and quotients wrap, rounding saturates, constructors     *)
(* refuse.  goduration.python.Duration counts in unbounded integers and    *)
(* rounds half to even.  An operation gives [value] or [error].            *)
(*                                                                         *)
(* The width, the ratio of a unit to the next and the digits of a fraction *)
(* are constants, so that every duration of a small type can be tried.     *)
(***************************************************************************)
EXTENDS Integers, Sequences, SequencesExt

CONSTANTS Width,              \* 64 in the program
          Digits,             \* 3: decimal digits between ns, us, ms and s
          Sixty,              \* 60: seconds of a minute, minutes of an hour
          MaxFraction         \* 19: the digits of a fraction that are read

ASSUME GoDurationAssumption ==
  /\ Width \in Nat \ {0} /\ Digits \in Nat \ {0} /\ Sixty \in Nat \ {0}
  /\ MaxFraction \in Nat \ {0}

Half           == 2 ^ (Width - 1)
MinNanoseconds == -Half
MaxNanoseconds == Half - 1
Range64        == MinNanoseconds..MaxNanoseconds

UnitNanoseconds ==
  LET second == 10 ^ (3 * Digits)
  IN  [ns |-> 1, us |-> 10 ^ Digits, ms |-> 10 ^ (2 * Digits), s |-> second,
       m |-> Sixty * second, h |-> Sixty * Sixty * second]
Units == DOMAIN UnitNanoseconds

Value(v)  == [value |-> v]
Raised(e) == [error |-> e]
IsValue(result) == "value" \in DOMAIN result

Magnitude(v) == IF v < 0 THEN -v ELSE v
Signed(negative, v) == IF negative THEN -v ELSE v

Checked(v) == IF v \in Range64 THEN Value(v) ELSE Raised("overflow")
Wrapped(v) == ((v - MinNanoseconds) % (2 * Half)) + MinNanoseconds

TruncatingQuotient(dividend, divisor) ==
  Signed((dividend < 0) /= (divisor < 0), Magnitude(dividend) \div Magnitude(divisor))

(* Decimal.to_integral_value(ROUND_HALF_EVEN) of a quotient, den > 0.      *)
RoundHalfEven(num, den) ==
  LET whole == num \div den
      twice == 2 * (num % den)
  IN  IF twice > den \/ (twice = den /\ whole % 2 = 1) THEN whole + 1 ELSE whole

(***************************************************************************)
(* Text.  A duration is written as a sign and parts: a whole number, the   *)
(* digits after its point and a unit.  "0" has no part.                    *)
(***************************************************************************)
Part(whole, digits, unit) == [whole |-> whole, digits |-> digits, unit |-> unit]
Text(negative, parts) == [negative |-> negative, parts |-> parts]

Number(digits) == FoldLeft(LAMBDA n, d : 10 * n + d, 0, digits)

(* n written with so many digits, without the zeros at the end.            *)
PaddedDigits(n, count) == [i \in 1..count |-> (n \div 10 ^ (count - i)) % 10]
Stripped(digits) ==
  LET last == {i \in DOMAIN digits : digits[i] # 0}
  IN  IF last = {} THEN <<>> ELSE SubSeq(digits, 1, CHOOSE i \in last : \A j \in last : j <= i)

DecimalUnit(v, unit, precision) ==
  Part(v \div UnitNanoseconds[unit],
       Stripped(PaddedDigits(v % UnitNanoseconds[unit], precision)), unit)

(* Both classes' __str__.                                                  *)
Str(d) ==
  LET v == Magnitude(d)
      seconds == v \div UnitNanoseconds.s
      minutes == seconds \div Sixty
      hours   == minutes \div Sixty
      second  == Part(seconds % Sixty, Stripped(PaddedDigits(v % UnitNanoseconds.s, 3 * Digits)), "s")
      prefix  == IF hours # 0 THEN <<Part(hours, <<>>, "h"), Part(minutes % Sixty, <<>>, "m")>>
                 ELSE IF minutes # 0 THEN <<Part(minutes, <<>>, "m")>> ELSE <<>>
  IN  IF d = 0 THEN Text(FALSE, <<Part(0, <<>>, "s")>>)
      ELSE Text(d < 0,
                IF v < UnitNanoseconds.us THEN <<Part(v, <<>>, "ns")>>
                ELSE IF v < UnitNanoseconds.ms THEN <<DecimalUnit(v, "us", Digits)>>
                ELSE IF v < UnitNanoseconds.s THEN <<DecimalUnit(v, "ms", 2 * Digits)>>
                ELSE Append(prefix, second))

(* _go_part_nanoseconds; the fraction is scaled exactly here.              *)
GoFraction(digits) ==
  LET read == SubSeq(digits, 1, IF Len(digits) < MaxFraction THEN Len(digits) ELSE MaxFraction)
  IN  IF Number(read) > Half THEN SubSeq(read, 1, MaxFraction - 1) ELSE read

GoPart(part) ==
  LET unit == UnitNanoseconds[part.unit]
      read == GoFraction(part.digits)
  IN  IF part.digits # <<>> /\ part.whole > Half \div unit THEN Raised("invalid duration")
      ELSE Value(part.whole * unit + (Number(read) * unit) \div 10 ^ Len(read))

(* Duration.parse: the parts are added and checked one after another.      *)
AddPart(total, part) ==
  IF ~IsValue(total) THEN total
  ELSE IF part.unit = "" THEN Raised("missing unit in duration")
  ELSE IF part.unit \notin Units THEN Raised("unknown unit in duration")
  ELSE LET read == GoPart(part)
       IN  IF ~IsValue(read) THEN read
           ELSE IF total.value + read.value > Half THEN Raised("invalid duration")
           ELSE Value(total.value + read.value)

GoParse(text) ==
  LET total == FoldLeft(AddPart, Value(0), text.parts)
  IN  IF ~IsValue(total) THEN total
      ELSE IF ~text.negative /\ total.value = Half THEN Raised("invalid duration")
      ELSE Checked(Signed(text.negative, total.value))

(* python.Duration.parse: the exact decimal sum, rounded once.             *)
Scale(text) ==
  FoldLeft(LAMBDA most, part : IF Len(part.digits) > most THEN Len(part.digits) ELSE most, 0, text.parts)

PythonParse(text) ==
  LET scale == 10 ^ Scale(text)
      Exact(part) == (part.whole * scale + Number(part.digits) * (scale \div 10 ^ Len(part.digits)))
                     * UnitNanoseconds[part.unit]
      total == FoldLeft(LAMBDA sum, part : sum + Exact(part), 0, text.parts)
  IN  IF \E i \in DOMAIN text.parts : text.parts[i].unit \notin Units THEN Raised("invalid duration")
      ELSE Value(RoundHalfEven(Signed(text.negative, total), scale))

(***************************************************************************)
(* goduration.go.Duration.  The divisors may be durations or integers.     *)
(***************************************************************************)
GoAdd(x, y) == Value(Wrapped(x + y))
GoSub(x, y) == Value(Wrapped(x - y))
GoMul(x, y) == Value(Wrapped(x * y))
GoNeg(x)    == Value(Wrapped(-x))
GoAbs(x)    == IF x = MinNanoseconds THEN Value(MaxNanoseconds) ELSE Value(Magnitude(x))

GoDiv(x, y) ==
  IF y = 0 THEN Raised("division by zero") ELSE Value(Wrapped(TruncatingQuotient(x, y)))
GoMod(x, y) ==
  IF y = 0 THEN Raised("modulo by zero") ELSE Checked(x - TruncatingQuotient(x, y) * y)

GoShiftLeft(x, n)  == IF n < 0 THEN Raised("negative shift count") ELSE Value(Wrapped(x * 2 ^ n))
GoShiftRight(x, n) == IF n < 0 THEN Raised("negative shift count") ELSE Value(x \div 2 ^ n)

Saturated(v) ==
  IF v < MinNanoseconds THEN MinNanoseconds ELSE IF v > MaxNanoseconds THEN MaxNanoseconds ELSE v

(* A mutant: rounding that wraps as the sums do.                           *)
GoRoundWrapped(x, quantum) ==
  LET remainder == x - TruncatingQuotient(x, quantum) * quantum
      magnitude == Magnitude(remainder)
      result == IF magnitude * 2 < quantum THEN x - remainder
                ELSE IF x >= 0 THEN x + quantum - magnitude ELSE x - quantum + magnitude
  IN  IF quantum <= 0 THEN Value(x) ELSE Value(Wrapped(result))

GoRound(x, quantum) ==
  LET remainder == x - TruncatingQuotient(x, quantum) * quantum
      magnitude == Magnitude(remainder)
      result == IF magnitude * 2 < quantum THEN x - remainder
                ELSE IF x >= 0 THEN x + quantum - magnitude ELSE x - quantum + magnitude
  IN  IF quantum <= 0 THEN Value(x) ELSE Value(Saturated(result))

Truncate(x, quantum) ==
  IF quantum <= 0 THEN Value(x) ELSE Value(TruncatingQuotient(x, quantum) * quantum)

(* from_seconds(1.5) and the like: a decimal number of units, num / den.   *)
GoFrom(num, den, unit) == Checked(TruncatingQuotient(num * UnitNanoseconds[unit], den))

(* The conversions to and from timedelta, which counts microseconds.       *)
ToTimedelta(x, allowLoss) ==
  IF Magnitude(x) % UnitNanoseconds.us # 0 /\ ~allowLoss THEN Raised("would lose precision")
  ELSE Value(TruncatingQuotient(x, UnitNanoseconds.us))
FromTimedelta(microseconds) == Checked(microseconds * UnitNanoseconds.us)

(***************************************************************************)
(* goduration.python.Duration.                                             *)
(***************************************************************************)
PythonAdd(x, y) == Value(x + y)
PythonSub(x, y) == Value(x - y)
PythonMul(x, num, den) == Value(RoundHalfEven(num * x, den))
PythonNeg(x)    == Value(-x)

Floor(x, y) == IF y > 0 THEN x \div y ELSE (-x) \div (-y)
PythonFloorDiv(x, y) == IF y = 0 THEN Raised("floor division by zero") ELSE Value(Floor(x, y))
PythonMod(x, y) == IF y = 0 THEN Raised("modulo by zero") ELSE Value(x - Floor(x, y) * y)
PythonDiv(x, y) ==
  IF y = 0 THEN Raised("division by zero")
  ELSE Value(RoundHalfEven(IF y < 0 THEN -x ELSE x, Magnitude(y)))

PythonRound(x, quantum) ==
  LET quotient  == Magnitude(x) \div quantum
      twice     == 2 * (Magnitude(x) % quantum)
      rounded   == IF twice > quantum \/ (twice = quantum /\ quotient % 2 = 1) THEN quotient + 1 ELSE quotient
  IN  IF quantum <= 0 THEN Value(x) ELSE Value(Signed(x < 0, rounded * quantum))

PythonFrom(num, den, unit) == Value(RoundHalfEven(num * UnitNanoseconds[unit], den))
PythonToTimedelta(x) == Value(RoundHalfEven(x, UnitNanoseconds.us))
ToGo(x)   == Checked(x)
FromGo(x) == Value(x)

(***************************************************************************)
(* What has to hold of them.                                               *)
(***************************************************************************)

(* Every duration, the least one included, is read back from its text, by  *)
(* both classes.                                                           *)
ReadBack(x) == GoParse(Str(x)) = Value(x) /\ PythonParse(Str(x)) = Value(x)

(* A text that is refused is one whose value the type cannot hold; what is *)
(* accepted differs from the exact sum by less than a nanosecond a part.   *)
ReadsClose(text) ==
  LET go == GoParse(text)
      exact == PythonParse(text)
      slack == Len(text.parts)
  IN  IsValue(exact) =>
        IF IsValue(go) THEN Magnitude(go.value - exact.value) <= slack
        ELSE \A v \in exact.value - slack..exact.value + slack : v \notin Range64 \/ Magnitude(v) + slack >= Half

(* Sums, differences, negations and products are those of the integers     *)
(* modulo 2^Width, in the range of the type.                               *)
Congruent(result, exact) ==
  /\ IsValue(result) /\ result.value \in Range64
  /\ (result.value - exact) % (2 * Half) = 0

ArithmeticWraps(x, y) ==
  /\ Congruent(GoAdd(x, y), x + y) /\ Congruent(GoSub(x, y), x - y)
  /\ Congruent(GoMul(x, y), x * y) /\ Congruent(GoNeg(x), -x)
  /\ GoAdd(GoSub(x, y).value, y) = Value(x)
  /\ GoAbs(x).value \in Range64 /\ GoAbs(x).value >= 0

(* The quotient and the remainder of a division make up the dividend, the  *)
(* remainder is smaller than the divisor and has the dividend's sign (Go)  *)
(* or the divisor's (Python).                                              *)
DivisionExact(x, y) ==
  y # 0 =>
    LET rest   == GoMod(x, y).value
        floor  == PythonMod(x, y).value
    IN  /\ Congruent(GoDiv(x, y), TruncatingQuotient(x - rest, y))
        /\ (x - rest) % Magnitude(y) = 0 /\ Magnitude(rest) < Magnitude(y) /\ rest * x >= 0
        /\ PythonFloorDiv(x, y).value * y + floor = x
        /\ Magnitude(floor) < Magnitude(y) /\ floor * y >= 0
        /\ 2 * Magnitude(PythonDiv(x, y).value * y - x) <= Magnitude(y)

(* Rounding gives a nearest multiple, and the bound of the range where     *)
(* that multiple lies outside; ties go away from zero (Go) or to an even   *)
(* multiple (Python).  Truncation never moves a duration away from zero.   *)
RoundsToNearest(x, q) ==
  q > 0 =>
    LET go     == GoRound(x, q).value
        python == PythonRound(x, q).value
        cut    == Truncate(x, q).value
        tie    == 2 * (Magnitude(x) % q) = q
    IN  /\ python % q = 0 /\ 2 * Magnitude(python - x) <= q
        /\ tie => (python \div q) % 2 = 0
        /\ IF go \in {MinNanoseconds, MaxNanoseconds} THEN 2 * Magnitude(go - x) <= q
           ELSE /\ go % q = 0 /\ 2 * Magnitude(go - x) <= q
                /\ tie => Magnitude(go) > Magnitude(x)
        /\ cut % q = 0 /\ Magnitude(cut) <= Magnitude(x) /\ Magnitude(x - cut) < q

(* Shifting left wraps and shifting right floors.                          *)
ShiftsExact(x, n) ==
  /\ Congruent(GoShiftLeft(x, n), x * 2 ^ n)
  /\ LET halved == GoShiftRight(x, n).value IN halved * 2 ^ n <= x /\ x < (halved + 1) * 2 ^ n

(* A duration crosses to the other class and to timedelta and back, or the *)
(* conversion says that it cannot.                                         *)
ConvertsBack(x) ==
  /\ x \in Range64 => ToGo(FromGo(x).value) = Value(x)
  /\ x \notin Range64 => ~IsValue(ToGo(x))
  /\ LET delta == ToTimedelta(x, FALSE)
     IN  IsValue(delta) => FromTimedelta(delta.value) = Checked(x)
  /\ 2 * Magnitude(PythonToTimedelta(x).value * UnitNanoseconds.us - x) <= UnitNanoseconds.us
=============================================================================
