----------------------------- MODULE TimeLayout -----------------------------
(***************************************************************************)
(* packages/gotime, _layout.py, _layout_parse.py and the parsing of go.py: *)
(* times written and read by example.                                      *)
(*                                                                         *)
(* A layout is a sequence of tokens, named as the code names them, and of  *)
(* [literal] and [fraction] parts.  A text is the sequence of what each    *)
(* part wrote: a name, a number with its digits and what is before them, a *)
(* clock offset, or the digits of a fraction.  Literals separate the parts *)
(* of a text, so that a part never reads into the next one.                *)
(***************************************************************************)
EXTENDS GoTime

CONSTANT ReadableNames        \* the zone names that the pattern of MST matches

ASSUME TimeLayoutAssumption == "UTC" \in ReadableNames

Element(name)        == [token |-> name]
Verbatim(text)      == [literal |-> text]
FractionPart(kept, count) == [fraction |-> kept, count |-> count]     \* kept: zeros, not nines
IsElement(part)    == "token" \in DOMAIN part
IsVerbatim(part)  == "literal" \in DOMAIN part
IsFraction(part) == "fraction" \in DOMAIN part

(* The digits of a number written in at least so many of them.             *)
DigitCount(n) == Least({k \in 1..9 : n < 10 ^ k})
Padded(n, width, before) ==
  [number |-> n, negative |-> FALSE, before |-> before,
   digits |-> IF DigitCount(n) > width THEN DigitCount(n) ELSE width]
SignedDecimal(n) == [Padded(Magnitude(n), 4, 0) EXCEPT !.negative = n < 0]
Spaced(n, width) == Padded(n, 1, IF DigitCount(n) < width THEN width - DigitCount(n) ELSE 0)

NumericOffsets == {"-07", "-0700", "-07:00", "-070000", "-07:00:00"}
UniversalOffsets == [Z07 |-> "-07", Z0700 |-> "-0700"] @@ ("Z07:00" :> "-07:00")
                      @@ [Z070000 |-> "-070000"] @@ ("Z07:00:00" :> "-07:00:00")
ClockOffset(form, offset) ==
  LET magnitude == Magnitude(offset)
      minutes   == (magnitude % SecondsOfHour) \div Sixty
  IN  [form |-> form, negative |-> offset < 0, hour |-> magnitude \div SecondsOfHour,
       minute |-> IF form = "-07" THEN 0 ELSE minutes,
       second |-> IF form \in {"-070000", "-07:00:00"} THEN magnitude % Sixty ELSE 0]

HourOfHalf(hour) == LET half == HoursOfDay \div 2 IN IF hour % half = 0 THEN half ELSE hour % half

(* _format_token.                                                          *)
FormatToken(c, token) ==
  CASE token = "January" -> [month |-> c.month, full |-> TRUE]
    [] token = "Jan"     -> [month |-> c.month, full |-> FALSE]
    [] token = "Monday"  -> [weekday |-> c.weekday, full |-> TRUE]
    [] token = "Mon"     -> [weekday |-> c.weekday, full |-> FALSE]
    [] token \in {"2006", "_2006"} -> SignedDecimal(c.year)
    [] token = "06"  -> Padded(Magnitude(c.year) % 100, 2, 0)
    [] token = "__2" -> Spaced(c.yearDay, 3)
    [] token = "002" -> Padded(c.yearDay, 3, 0)
    [] token = "01"  -> Padded(c.month, 2, 0)
    [] token = "1"   -> Padded(c.month, 1, 0)
    [] token = "02"  -> Padded(c.day, 2, 0)
    [] token = "_2"  -> Spaced(c.day, 2)
    [] token = "2"   -> Padded(c.day, 1, 0)
    [] token = "15"  -> Padded(c.hour, 2, 0)
    [] token = "03"  -> Padded(HourOfHalf(c.hour), 2, 0)
    [] token = "3"   -> Padded(HourOfHalf(c.hour), 1, 0)
    [] token = "04"  -> Padded(c.minute, 2, 0)
    [] token = "4"   -> Padded(c.minute, 1, 0)
    [] token = "05"  -> Padded(c.second, 2, 0)
    [] token = "5"   -> Padded(c.second, 1, 0)
    [] token = "PM"  -> [afternoon |-> c.hour >= HoursOfDay \div 2]
    [] token = "MST" -> [name |-> c.zone]
    [] token \in NumericOffsets -> ClockOffset(token, c.offset)
    [] OTHER -> IF c.offset = 0 THEN [universal |-> TRUE]
                ELSE ClockOffset(UniversalOffsets[token], c.offset)

(* format_civil.  A fraction of nines loses its zeros and, with no digit   *)
(* left, its point.                                                        *)
FormatPart(c, part) ==
  IF IsVerbatim(part) THEN part
  ELSE IF IsElement(part) THEN FormatToken(c, part.token)
  ELSE LET digits == SubSeq(PaddedDigits(c.nano, 3 * Digits), 1, part.count)
       IN  [fraction |-> IF part.fraction THEN digits ELSE Stripped(digits)]

FormatCivil(c, layout) == [i \in DOMAIN layout |-> FormatPart(c, layout[i])]

(***************************************************************************)
(* parse_layout.                                                           *)
(***************************************************************************)

(* _token_pattern: the numbers of digits a token reads.                    *)
DigitsRead(token) ==
  CASE token \in {"2006", "_2006"} -> {4}
    [] token \in {"06", "01", "02", "03", "04", "05"} -> {2}
    [] token = "002" -> {3}
    [] token = "__2" -> 1..3
    [] OTHER -> 1..2

Reads(part, piece) ==
  IF IsVerbatim(part) THEN piece = part
  ELSE IF IsFraction(part)
  THEN "fraction" \in DOMAIN piece /\ (part.fraction => Len(piece.fraction) = part.count)
  ELSE IF "number" \in DOMAIN piece
  THEN ~piece.negative /\ piece.digits \in DigitsRead(part.token)
         /\ piece.before <= (IF part.token \in {"_2", "__2"} THEN 2 ELSE 0)
  ELSE IF "form" \in DOMAIN piece
  THEN piece.hour < 100 /\ piece.form \in {part.token}
         \union (IF part.token \in DOMAIN UniversalOffsets THEN {UniversalOffsets[part.token]} ELSE {})
  ELSE "name" \in DOMAIN piece => piece.name \in ReadableNames

NoYearDay == 0
BlankFields ==
  [year |-> 0, month |-> 1, day |-> 1, hour |-> 0, minute |-> 0, second |-> 0, nano |-> 0,
   yearDay |-> NoYearDay, half |-> FALSE, meridiem |-> "", zone |-> "", offset |-> <<>>]

ClockSeconds(piece) ==
  Signed(piece.negative, (piece.hour * Sixty + piece.minute) * Sixty + piece.second)
FractionNanos(digits) == Number([i \in 1..3 * Digits |-> IF i \in DOMAIN digits THEN digits[i] ELSE 0])

(* _apply.                                                                 *)
Apply(fields, token, piece) ==
  CASE token \in {"2006", "_2006"} -> [fields EXCEPT !.year = piece.number]
    [] token = "06" -> [fields EXCEPT !.year = IF piece.number >= 69 THEN 1900 + piece.number ELSE 2000 + piece.number]
    [] token \in {"January", "Jan"}    -> [fields EXCEPT !.month = piece.month]
    [] token \in {"Monday", "Mon"}     -> fields
    [] token \in {"01", "1"}           -> [fields EXCEPT !.month = piece.number]
    [] token \in {"02", "_2", "2"}     -> [fields EXCEPT !.day = piece.number]
    [] token \in {"002", "__2"}        -> [fields EXCEPT !.yearDay = piece.number]
    [] token = "15"                    -> [fields EXCEPT !.hour = piece.number]
    [] token \in {"03", "3"}           -> [fields EXCEPT !.hour = piece.number, !.half = TRUE]
    [] token \in {"04", "4"}           -> [fields EXCEPT !.minute = piece.number]
    [] token \in {"05", "5"}           -> [fields EXCEPT !.second = piece.number]
    [] token = "PM"  -> [fields EXCEPT !.meridiem = IF piece.afternoon THEN "pm" ELSE "am"]
    [] token = "MST" -> [fields EXCEPT !.zone = piece.name]
    [] OTHER -> IF "universal" \in DOMAIN piece THEN [fields EXCEPT !.offset = <<0>>, !.zone = "UTC"]
                ELSE [fields EXCEPT !.offset = <<ClockSeconds(piece)>>, !.zone = ""]

ApplyPart(fields, part, piece) ==
  IF IsElement(part) THEN Apply(fields, part.token, piece)
  ELSE IF IsFraction(part) /\ piece.fraction # <<>> THEN [fields EXCEPT !.nano = FractionNanos(piece.fraction)]
  ELSE fields

(* _finish.                                                                *)
FullHour(fields) ==
  LET half == HoursOfDay \div 2
  IN  IF ~fields.half THEN fields.hour
      ELSE IF fields.meridiem = "pm" /\ fields.hour < half THEN fields.hour + half
      ELSE IF fields.meridiem = "am" /\ fields.hour = half THEN 0 ELSE fields.hour

Finish(fields) ==
  LET dated == fields.yearDay # NoYearDay
      date  == CivilFromDays(DaysFromCivil(fields.year, 1, 1) + fields.yearDay - 1)
      month == IF dated THEN date.month ELSE fields.month
      day   == IF dated THEN date.day ELSE fields.day
  IN  IF \/ fields.half /\ fields.hour \notin 1..HoursOfDay \div 2
         \/ fields.month \notin 1..12 \/ FullHour(fields) >= HoursOfDay
         \/ fields.minute >= Sixty \/ fields.second >= Sixty
      THEN Raised("out of range")
      ELSE IF dated /\ fields.yearDay > (IF IsLeap(fields.year) THEN 366 ELSE 365)
      THEN Raised("day-of-year out of range")
      ELSE IF dated /\ (fields.month \notin {1, date.month} \/ fields.day \notin {1, date.day})
      THEN Raised("day-of-year does not match")
      ELSE IF day \notin 1..DaysInMonth(fields.year, month) THEN Raised("day out of range")
      ELSE Value([fields EXCEPT !.hour = FullHour(fields), !.month = month, !.day = day])

ParseLayout(layout, text) ==
  LET step(fields, i) == ApplyPart(fields, layout[i], text[i])
      offsets == {text[i] : i \in {j \in DOMAIN text : "form" \in DOMAIN text[j]}}
  IN  IF Len(text) # Len(layout) \/ \E i \in DOMAIN layout : ~Reads(layout[i], text[i])
      THEN Raised("layout mismatch")
      ELSE IF \E o \in offsets : o.hour > HoursOfDay \/ o.minute > Sixty \/ o.second > Sixty
      THEN Raised("time zone offset out of range")
      ELSE Finish(FoldLeft(step, BlankFields, [i \in DOMAIN layout |-> i]))

(* _time_from_parsed_layout.  The end of _parse_rfc3339 is the case of an  *)
(* offset.                                                                 *)
TimeFromParsed(parsed, location) ==
  LET local == LocalSeconds(parsed)
      offset == IF parsed.offset # <<>> THEN Value(parsed.offset[1])
                ELSE IF parsed.zone # "UTC" /\ local \in DatetimeRange
                THEN AbbreviationOffset(location, parsed.zone, local)
                ELSE Value(0)
      Kept(read, there) == IF there = read THEN location ELSE Fixed(parsed.zone, read)
      Placed(read) ==
        LET There(there) == Value(Time(local - read, parsed.nano, Kept(read, there), <<>>))
        IN  IF parsed.zone = "UTC" THEN Value(Time(local - read, parsed.nano, UTC, <<>>))
            ELSE AndThen(Offset(location, local - read), There)
  IN  IF parsed.offset = <<>> /\ parsed.zone = "" THEN FromComponents(parsed, location)
      ELSE AndThen(offset, Placed)

ParseInLocation(layout, text, location) ==
  LET InLocation(parsed) == TimeFromParsed(parsed, location)
  IN  AndThen(ParseLayout(layout, text), InLocation)

(* marshal_text: RFC 3339, for the years and offsets that it can write.    *)
RFC3339 ==
  <<Element("2006"), Verbatim("-"), Element("01"), Verbatim("-"), Element("02"), Verbatim("T"), Element("15"), Verbatim(":"),
    Element("04"), Verbatim(":"), Element("05"), FractionPart(FALSE, 3 * Digits), Element("Z07:00")>>

MarshalText(t) ==
  LET InForm(c) ==
        IF c.year \notin 0..9999 THEN Raised("year outside of range")
        ELSE IF Magnitude(c.offset) >= SecondsOfDay THEN Raised("timezone hour outside of range")
        ELSE Value(FormatCivil(c, RFC3339))
  IN  AndThen(Civil(t), InForm)
UnmarshalText(text) == ParseInLocation(RFC3339, text, UTC)

(***************************************************************************)
(* What has to hold of times.                                              *)
(***************************************************************************)

(* The calendar: every day has one date and every date one day, the date   *)
(* after a date is the next day of its month, the first of the next month  *)
(* or of the next year, and the days of a year and its weeks are numbered  *)
(* without a gap (_civil_from_days, days_from_civil, Time.iso_week).       *)
NextDate(date) ==
  IF date.day < DaysInMonth(date.year, date.month) THEN [date EXCEPT !.day = date.day + 1]
  ELSE IF date.month < 12 THEN [date EXCEPT !.month = date.month + 1, !.day = 1]
  ELSE [year |-> date.year + 1, month |-> 1, day |-> 1]

Noon(days) == Time(days * SecondsOfDay + SecondsOfDay \div 2, 0, UTC, <<>>)

CalendarExact(days) ==
  LET Dated(date, next, weeks) ==
        /\ DaysFromCivil(date.year, date.month, date.day) = days
        /\ next = NextDate(date)
        /\ YearDay(next) = IF next.year = date.year THEN YearDay(date) + 1 ELSE 1
        /\ (date.month = 1 /\ date.day = 4) => weeks = [year |-> date.year, week |-> 1]
      Weekly(weeks, tomorrow, later) ==
        /\ later = IF later.year = weeks.year THEN [weeks EXCEPT !.week = weeks.week + 1]
                   ELSE [year |-> weeks.year + 1, week |-> 1]
        /\ (weeks = tomorrow) <=> (Civil(Noon(days)).value.weekday # 0)
  IN  \E weeks \in {IsoWeek(Noon(days)).value} :
        /\ Dated(CivilFromDays(days), CivilFromDays(days + 1), weeks)
        /\ Weekly(weeks, IsoWeek(Noon(days + 1)).value, IsoWeek(Noon(days + 7)).value)

(* Near an end of what datetime holds a zone may not be found.             *)
NearEnd(unix, distance) == \E end \in {FirstDatetime, LastDatetime} : Magnitude(unix - end) <= distance

(* A time is found again from its fields: at the same instant, or at the   *)
(* other one at which the clock shows them; fields that no instant shows   *)
(* give a time next to the gap (Time.from_components, add_date).  Only     *)
(* within two days of the ends of datetime it may be refused instead.      *)
ComponentsFound(t) ==
  LET Again(c, found) == LocalSeconds(c) = LocalSeconds(Civil(found).value) /\ found.nano = t.nano
      Rolls(c) == \A month \in 1..12 :
        FromComponents([c EXCEPT !.year = c.year - 1, !.month = month + 12], t.location)
          = FromComponents([c EXCEPT !.month = month], t.location)
      Holds(c, found, next) ==
        /\ IsValue(found) /\ IsValue(Civil(found.value)) => Again(c, found.value)
        /\ AddDate(t, 0, 0, 0) = found /\ Rolls(c)
        /\ IsValue(next) /\ IsValue(Civil(next.value)) => Civil(next.value).value.weekday = (c.weekday + 1) % 7
        /\ NearEnd(t.unix, 2 * SecondsOfDay) \/ (IsValue(found) /\ IsValue(next))
  IN  IF IsValue(Civil(t))
      THEN Holds(Civil(t).value, FromComponents(Civil(t).value, t.location), AddDate(t, 0, 0, 1))
      ELSE NearEnd(t.unix, SecondsOfDay)

(* Adding a duration and taking it away again, and the difference of two   *)
(* times and their order, agree; a difference that no duration can hold is *)
(* the nearest one (Time.add, subtract, compare).                          *)
ArithmeticAgrees(t, other, duration) ==
  LET moved == Add(t, duration)
  IN  /\ Difference(moved, t) = duration
      /\ t.mono = <<>> => Add(moved, -duration) = t
      /\ Compare(t, other) = -Compare(other, t)
      /\ (Subtract(t, other) > 0) <=> (Compare(t, other) = 1)
      /\ (Subtract(t, other) = 0) <=> (Compare(t, other) = 0)
      /\ (Subtract(t, other) \in Range64 \ {MinNanoseconds, MaxNanoseconds} /\ ~BothMonotonic(t, other))
           => Compare(Add(other, Subtract(t, other)), t) = 0
      /\ duration > 0 =>
           LET cut == Difference(t, TruncateTime(t, duration))
               near == Difference(t, RoundTime(t, duration))
           IN  /\ t.mono = <<>> => (0 <= cut /\ cut < duration)
               /\ t.mono = <<>> => (2 * Magnitude(near) <= duration /\ 2 * near # duration)
               /\ SinceZero(TruncateTime(t, duration)) % duration = 0
               /\ SinceZero(RoundTime(t, duration)) % duration = 0

(* Seconds, milliseconds and microseconds since 1970 count the same        *)
(* instant, before 1970 as well (from_unix_milliseconds, unix_milliseconds)*)
CountsRead(count, scale) ==
  LET t == FromUnixScaled(count, scale, UTC)
  IN  UnixScaled(t, scale) = count /\ Compare(FromUnix(t.unix, t.nano, UTC), t) = 0

(* The interval zone_bounds reports holds the instant, the zone is one     *)
(* throughout, and it is another one on either side (transition_bounds).   *)
(* It is refused only where the search for it may pass the ends of datetime*)
BoundsHold(location, unix) ==
  LET found  == TransitionBounds(location, unix)
      bounds == found.value
      zone   == ZoneInfo(location, unix)
      From(u) == \A v \in u..unix : ZoneInfo(location, v) = zone
      To(u)   == \A v \in unix..u - 1 : ZoneInfo(location, v) = zone
      Within ==
        /\ bounds[1] # <<>> => (bounds[1][1] <= unix /\ From(bounds[1][1]) /\ ZoneInfo(location, bounds[1][1] - 1) # zone)
        /\ bounds[2] # <<>> => (unix < bounds[2][1] /\ To(bounds[2][1]) /\ ZoneInfo(location, bounds[2][1]) # zone)
  IN  IF IsValue(found) THEN Within ELSE NearEnd(unix, BoundsHorizon + SecondsOfDay)

(* What a layout wrote it reads again, into a time that it writes the same *)
(* way; the same instant if the layout keeps the fraction and the offset   *)
(* to the second, or the offset has no seconds.  A layout that writes the  *)
(* name of the zone reads none but a name of the forms it knows, and near  *)
(* the ends of datetime a zone may not be found (Time.format, parse).      *)
LayoutReads(t, layout, complete) ==
  LET century == \E i \in DOMAIN layout : layout[i] = Element("06")
      named   == \E i \in DOMAIN layout : layout[i] = Element("MST")
      offsets == {0} \union {x \in -SecondsOfDay + 1..SecondsOfDay - 1 : Magnitude(x) >= Sixty}
      Written(c) == c.offset \in offsets /\ c.year \in (IF century THEN 1969..2068 ELSE 0..9999)
      SameText(read, text) == IsValue(Civil(read)) => FormatCivil(Civil(read).value, layout) = text
      ReadAs(c, text, read) ==
        /\ named /\ c.zone \notin ReadableNames => ~IsValue(read)
        /\ ~named \/ c.zone \in ReadableNames => IsValue(read) \/ NearEnd(t.unix, 2 * SecondsOfDay)
        /\ IsValue(read) => /\ SameText(read.value, text)
                            /\ complete /\ c.offset % Sixty = 0 => Compare(read.value, t) = 0
  IN  \A c \in IF IsValue(Civil(t)) THEN {Civil(t).value} ELSE {} : Written(c) =>
        \A text \in {FormatCivil(c, layout)} : ReadAs(c, text, ParseInLocation(layout, text, t.location))

(* Binary and text forms give the instant and the offset back, or refuse   *)
(* (marshal_binary, marshal_text).                                         *)
MarshalReads(t) ==
  LET IsSame(back) == Compare(back, t) = 0 /\ Offset(back.location, back.unix) = Offset(t.location, t.unix)
      IsClose(back) == IsValue(back) /\ Compare(back.value, t) = 0
      BinaryReads(data) == IsValue(data) => IsSame(UnmarshalBinary(data.value))
      TextReads(text) ==
        (IsValue(text) /\ Offset(t.location, t.unix).value % Sixty = 0) => IsClose(UnmarshalText(text.value))
  IN  BinaryReads(MarshalBinary(t)) /\ TextReads(MarshalText(t))

(* A time crosses to python.Time and back, at its instant and its offset,  *)
(* unless datetime cannot hold the instant, the offset or what the clock   *)
(* shows; a duration is added unless the clock would pass the ends of      *)
(* datetime, and subtracting gives it back, on what the clock shows        *)
(* (python.Time.from_go, to_go, add, subtract).                            *)
PythonReads(t, duration) ==
  LET offset == DatetimeOffset(t.location, t.unix)
      Held   == /\ t.unix \in DatetimeRange /\ t.unix + offset \in DatetimeRange
                /\ Magnitude(offset) < SecondsOfDay
      passed == (t.unix + offset) * NanosOfSecond + t.nano + duration
      Crosses(back) ==
        IsValue(back) /\ Compare(back.value, t) = 0 /\ Offset(back.value.location, t.unix) = Offset(t.location, t.unix)
      Adds(p, moved) ==
        /\ IsValue(moved) <=> passed \div NanosOfSecond \in DatetimeRange
        /\ IsValue(moved) => PythonSubtract(moved.value, p) = duration
      Holds(p) == /\ IsValue(p) <=> Held
                  /\ IsValue(p) => Crosses(PythonToGo(p.value)) /\ Adds(p.value, PythonTimeAdd(p.value, duration))
  IN  Holds(PythonFromGo(t))
=============================================================================
