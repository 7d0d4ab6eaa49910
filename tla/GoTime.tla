------------------------------- MODULE GoTime -------------------------------
(***************************************************************************)
(* packages/gotime: instants, calendar dates, time zones and layouts.      *)
(*                                                                         *)
(* A time is [unix, nano, location, mono]: seconds since 1970, nanoseconds *)
(* of the second, the location it is shown in, and <<>> or the reading of  *)
(* the monotonic clock.  Days and months are the program's; an hour, a     *)
(* minute and a second are as long as the constants of GoDuration say.     *)
(***************************************************************************)
EXTENDS GoDuration, FiniteSets

CONSTANTS HoursOfDay,         \* 24
          ZeroSeconds,        \* Unix seconds of the zero time, year 1
          CalendarStart,      \* _ABSOLUTE_TO_UNIX
          FirstDatetime, LastDatetime,        \* Unix seconds datetime can hold
          BoundsStep, BoundsHorizon           \* of _extension_transition_bounds

ASSUME GoTimeAssumption ==
  /\ HoursOfDay \in Nat \ {0} /\ HoursOfDay % 2 = 0
  /\ FirstDatetime < LastDatetime /\ CalendarStart < FirstDatetime
  /\ BoundsStep \in Nat \ {0} /\ BoundsHorizon >= BoundsStep

SecondsOfHour == Sixty * Sixty
SecondsOfDay  == HoursOfDay * SecondsOfHour
NanosOfSecond == UnitNanoseconds.s
NanosOfDay    == SecondsOfDay * NanosOfSecond

DatetimeRange == FirstDatetime..LastDatetime

(* What follows an operation, unless it raised.                            *)
AndThen(result, Follow(_)) == IF IsValue(result) THEN Follow(result.value) ELSE result

Least(set)    == CHOOSE x \in set : \A y \in set : x <= y
Greatest(set) == CHOOSE x \in set : \A y \in set : x >= y

(***************************************************************************)
(* _civil.py: the Gregorian calendar on days since 1970-01-01.             *)
(***************************************************************************)
IsLeap(year) == year % 4 = 0 /\ (year % 100 # 0 \/ year % 400 = 0)

(* The date of a day of a year that begins in March.                       *)
DateOfYear(year, dayOfYear) ==
  LET shiftedMonth == (5 * dayOfYear + 2) \div 153
      month        == shiftedMonth + (IF shiftedMonth < 10 THEN 3 ELSE -9)
  IN  [year  |-> year + (IF month <= 2 THEN 1 ELSE 0), month |-> month,
       day   |-> dayOfYear - (153 * shiftedMonth + 2) \div 5 + 1]

DateOfEra(era, dayOfEra) ==
  LET yearOfEra == (dayOfEra - dayOfEra \div 1460 + dayOfEra \div 36524 - dayOfEra \div 146096) \div 365
  IN  DateOfYear(yearOfEra + era * 400,
                 dayOfEra - (365 * yearOfEra + yearOfEra \div 4 - yearOfEra \div 100))

CivilFromDays(days) == DateOfEra((days + 719468) \div 146097, (days + 719468) % 146097)

DaysFromCivil(year, month, day) ==
  LET adjusted  == IF month <= 2 THEN year - 1 ELSE year
      yearOfEra == adjusted % 400
      shiftedMonth == month + (IF month > 2 THEN -3 ELSE 9)
      dayOfYear == (153 * shiftedMonth + 2) \div 5 + day - 1
  IN  (adjusted \div 400) * 146097
        + (yearOfEra * 365 + yearOfEra \div 4 - yearOfEra \div 100 + dayOfYear) - 719468

YearDay(date) ==
  <<0, 31, 59, 90, 120, 151, 181, 212, 243, 273, 304, 334>>[date.month] + date.day
    + (IF date.month > 2 /\ IsLeap(date.year) THEN 1 ELSE 0)

DaysInMonth(year, month) ==
  IF month = 2 THEN IF IsLeap(year) THEN 29 ELSE 28
  ELSE IF month \in {4, 6, 9, 11} THEN 30 ELSE 31

(***************************************************************************)
(* Locations: UTC, a fixed offset, or a zone of a TZif file with its       *)
(* explicit transitions, the index of the zone each one begins, the zones, *)
(* and the transitions its rule gives after the last explicit one.  A      *)
(* fixed offset that has been a datetime's comes back as a "tzinfo".       *)
(***************************************************************************)
UTC == [sort |-> "utc", name |-> "UTC"]
Fixed(name, offset) == [sort |-> "fixed", name |-> name, offset |-> offset]
Zone(name, offset, dst) == [name |-> name, offset |-> offset, dst |-> dst]

Passed(transitions, unix) == Cardinality({i \in DOMAIN transitions : transitions[i] <= unix})

(* What zoneinfo answers: its first standard zone before every transition. *)
ZoneInfo(location, unix) ==
  LET rule == Passed(location.ruleTransitions, unix)
      past == Passed(location.transitions, unix)
      standard == {i \in DOMAIN location.zones : ~location.zones[i].dst}
  IN  location.zones[IF rule > 0 THEN location.ruleZones[rule]
                     ELSE IF past > 0 THEN location.zoneOf[past]
                     ELSE IF standard = {} THEN 1 ELSE Least(standard)]

(* _first_zone_index: the zone Go takes before the first transition.       *)
FirstZoneIndex(location) ==
  LET standard == {i \in DOMAIN location.zones : ~location.zones[i].dst}
      first    == location.zoneOf[1]
      earlier  == {i \in standard : i < first}
  IN  IF \A i \in DOMAIN location.zoneOf : location.zoneOf[i] # 1 THEN 1
      ELSE IF location.zones[first].dst /\ earlier # {} THEN Greatest(earlier)
      ELSE IF standard # {} THEN Least(standard) ELSE 1

BeforeFirstTransition(location, unix) == \A i \in DOMAIN location.transitions : unix < location.transitions[i]

CalendarSeconds(unix) == IF unix < CalendarStart THEN unix + 2 * Half ELSE unix

(* _mapped_future_zone: the same moment of a year that datetime can hold.  *)
MappedFuture(unix) ==
  LET calendar == CalendarSeconds(unix)
      date     == CivilFromDays(calendar \div SecondsOfDay)
      year     == 2000 + ((date.year - 2000) % 400)
  IN  DaysFromCivil(year, date.month, date.day) * SecondsOfDay + (calendar % SecondsOfDay)

(* datetime.fromtimestamp(unix, UTC).astimezone(location): the zone of the *)
(* local time.  A datetime has no offset of a day or more, and its local   *)
(* time has to be one that it can hold.                                    *)
FromTzinfo(location) == IF location.sort = "fixed" THEN [location EXCEPT !.sort = "tzinfo"] ELSE location
DatetimeZone(location, unix) ==
  CASE location.sort = "utc"  -> Zone("UTC", 0, FALSE)
    [] location.sort = "zone" -> ZoneInfo(location, unix)
    [] OTHER                  -> Zone(location.name, location.offset, FALSE)
DatetimeOffset(location, unix) == DatetimeZone(location, unix).offset

Localized(location, unix) ==
  LET zone == DatetimeZone(location, unix)
  IN  IF Magnitude(zone.offset) >= SecondsOfDay THEN Raised("ValueError")
      ELSE IF unix + zone.offset \notin DatetimeRange THEN Raised("OverflowError")
      ELSE Value(zone)

(* Location._lookup, _zone_at.                                             *)
LookupZone(location, unix) ==
  IF location.sort \in {"utc", "fixed"} THEN Value(DatetimeZone(location, unix))
  ELSE IF location.sort = "zone" /\ BeforeFirstTransition(location, unix)
  THEN Value(location.zones[FirstZoneIndex(location)])
  ELSE IF unix \in DatetimeRange THEN Localized(location, unix)
  ELSE Value(DatetimeZone(location, IF location.sort = "zone" THEN MappedFuture(unix) ELSE unix))

Offset(location, unix) ==
  LET OfZone(zone) == Value(zone.offset) IN AndThen(LookupZone(location, unix), OfZone)

(* _extension_transition_bounds: steps away from an instant until the zone *)
(* differs, and then halves the interval between the last two steps.       *)
Differs(location, unix, other) == ZoneInfo(location, other) # ZoneInfo(location, unix)

Halving(location, unix, low, high, differs) ==
  LET InUpper(u) == Differs(location, unix, u) = differs
      bisect[k \in 0..BoundsStep] ==
        IF k = 0 THEN <<low, high>>
        ELSE LET ends   == bisect[k - 1]
                 middle == (ends[1] + ends[2]) \div 2
             IN  IF ends[1] + 1 >= ends[2] THEN ends
                 ELSE IF InUpper(middle) THEN <<ends[1], middle>> ELSE <<middle, ends[2]>>
  IN  bisect[BoundsStep][2]

ExtensionBounds(location, unix) ==
  LET Steps == 1..(BoundsHorizon \div BoundsStep) + 1
      Nearest(steps) == IF steps = {} THEN 0 ELSE Least(steps)
      Back(n) == IF n * BoundsStep < BoundsHorizon THEN unix - n * BoundsStep ELSE unix - BoundsHorizon
      Forth(n) == IF n * BoundsStep < BoundsHorizon THEN unix + n * BoundsStep ELSE unix + BoundsHorizon
      back  == Nearest({n \in Steps : Differs(location, unix, Back(n))})
      forth == Nearest({n \in Steps : Differs(location, unix, Forth(n))})
      visited == {unix} \union {Back(n) : n \in {m \in Steps : back = 0 \/ m <= back}}
                   \union {Forth(n) : n \in {m \in Steps : forth = 0 \/ m <= forth}}
  IN  IF \E u \in visited : u \notin DatetimeRange \/ ~IsValue(Localized(location, u)) THEN Raised("OverflowError")
      ELSE Value(<<IF back = 0 THEN <<location.transitions[Len(location.transitions)]>>
                   ELSE <<Halving(location, unix, Back(back), Back(back - 1), FALSE)>>,
                   IF forth = 0 THEN <<>>
                   ELSE <<Halving(location, unix, Forth(forth - 1), Forth(forth), TRUE)>>>>)

(* transition_bounds: <<>> where there is no transition on that side.      *)
TransitionBounds(location, unix) ==
  LET past == Passed(location.transitions, unix)
  IN  IF location.sort # "zone" \/ location.transitions = <<>> THEN Value(<<<<>>, <<>>>>)
      ELSE IF past = Len(location.transitions) THEN ExtensionBounds(location, unix)
      ELSE Value(<<IF past = 0 THEN <<>> ELSE <<location.transitions[past]>>, <<location.transitions[past + 1]>>>>)

(* abbreviation_offset: a zone of that name in force at the local time, or *)
(* else the first zone of that name.  Looking at one of them may raise.    *)
AbbreviationOffset(location, name, local) ==
  LET named == {i \in DOMAIN location.zones : location.zones[i].name = name}
      There(i) ==
        LET unix == local - location.zones[i].offset
        IN  IF unix \in DatetimeRange THEN Localized(location, unix) ELSE Raised("OverflowError")
      InForce(i) == LET there == There(i).value
                    IN  there.name = name /\ there.offset = location.zones[i].offset
      decisive == {i \in named : ~IsValue(There(i)) \/ InForce(i)}
      Chosen(i) == IF IsValue(There(i)) THEN Value(location.zones[i].offset) ELSE There(i)
  IN  IF location.sort # "zone"
      THEN IF location.name # name THEN Value(0)
           ELSE IF Magnitude(DatetimeOffset(location, local)) >= SecondsOfDay THEN Raised("ValueError")
           ELSE Value(DatetimeOffset(location, local))
      ELSE IF decisive # {} THEN Chosen(Least(decisive))
      ELSE IF named # {} THEN Value(location.zones[Least(named)].offset) ELSE Value(0)

(***************************************************************************)
(* go.Time: construction and civil fields.                                 *)
(***************************************************************************)
Time(unix, nano, location, mono) == [unix |-> unix, nano |-> nano, location |-> location, mono |-> mono]

FromUnix(seconds, nanoseconds, location) ==
  Time(Wrapped(seconds + nanoseconds \div NanosOfSecond), nanoseconds % NanosOfSecond, location, <<>>)

(* from_unix_milliseconds and from_unix_microseconds: scale to a second.   *)
FromUnixScaled(count, scale, location) ==
  LET seconds == TruncatingQuotient(count, scale)
  IN  FromUnix(seconds, (count - seconds * scale) * (NanosOfSecond \div scale), location)

UnixScaled(t, scale) == Wrapped(t.unix * scale + t.nano \div (NanosOfSecond \div scale))

CivilOf(t, zone, days, seconds) ==
  LET date == CivilFromDays(days)
  IN  [year |-> date.year, month |-> date.month, day |-> date.day,
       hour |-> seconds \div SecondsOfHour, minute |-> (seconds % SecondsOfHour) \div Sixty,
       second |-> seconds % Sixty, nano |-> t.nano,
       weekday |-> (days + 4) % 7, yearDay |-> YearDay(date),
       zone |-> zone.name, offset |-> zone.offset]

CivilIn(t, zone) ==
  LET calendar == CalendarSeconds(t.unix + zone.offset)
  IN  CivilOf(t, zone, calendar \div SecondsOfDay, calendar % SecondsOfDay)

Civil(t) ==
  LET InZone(zone) == Value(CivilIn(t, zone)) IN AndThen(LookupZone(t.location, t.unix), InZone)

LocalSeconds(c) ==
  DaysFromCivil(c.year, c.month, c.day) * SecondsOfDay + c.hour * SecondsOfHour + c.minute * Sixty + c.second

(* The local time of fields any of which may be out of its range.          *)
FieldsInRange(c) ==
  LET months   == c.month - 1
      dayNanos == ((c.hour * Sixty + c.minute) * Sixty + c.second) * NanosOfSecond + c.nano
      days     == DaysFromCivil(c.year + months \div 12, (months % 12) + 1, 1) + c.day - 1 + dayNanos \div NanosOfDay
  IN  [local |-> days * SecondsOfDay + (dayNanos % NanosOfDay) \div NanosOfSecond, nano |-> dayNanos % NanosOfSecond]

(* A mutant: the offset of the local time, without the second look-up.     *)
FromComponentsOnce(c, location) ==
  LET n == FieldsInRange(c)
      Placed(offset) == Value(Time(n.local - offset, n.nano, location, <<>>))
  IN  AndThen(Offset(location, n.local), Placed)

(* from_components: the offset that the local time would have as an        *)
(* instant leads to the instant at which the offset is looked up again.    *)
FromComponents(c, location) ==
  LET n == FieldsInRange(c)
      Placed(offset)    == Value(Time(n.local - offset, n.nano, location, <<>>))
      Corrected(offset) == AndThen(Offset(location, n.local - offset), Placed)
  IN  AndThen(Offset(location, n.local), Corrected)

AddDate(t, years, months, days) ==
  LET Moved(c) ==
        FromComponents([c EXCEPT !.year = c.year + years, !.month = c.month + months, !.day = c.day + days], t.location)
  IN  AndThen(Civil(t), Moved)

IsoWeek(t) ==
  LET Week(c) ==
        LET monday   == (c.weekday + 6) % 7
            thursday == CivilFromDays(DaysFromCivil(c.year, c.month, c.day) + 3 - monday)
        IN  Value([year |-> thursday.year, week |-> (YearDay(thursday) - 1) \div 7 + 1])
  IN  AndThen(Civil(t), Week)

(***************************************************************************)
(* go.Time: arithmetic and comparison.                                     *)
(***************************************************************************)
Add(t, duration) ==
  LET nano == t.nano + duration
      mono == IF t.mono = <<>> \/ t.mono[1] + duration \notin Range64 THEN <<>> ELSE <<t.mono[1] + duration>>
  IN  Time(t.unix + nano \div NanosOfSecond, nano % NanosOfSecond, t.location, mono)

BothMonotonic(t, other) == t.mono # <<>> /\ other.mono # <<>>

Difference(t, other) ==
  IF BothMonotonic(t, other) THEN t.mono[1] - other.mono[1]
  ELSE (t.unix - other.unix) * NanosOfSecond + t.nano - other.nano

Subtract(t, other) == Saturated(Difference(t, other))

Compare(t, other) ==
  LET Sign(x, y) == IF x > y THEN 1 ELSE IF x < y THEN -1 ELSE 0
  IN  IF BothMonotonic(t, other) THEN Sign(t.mono[1], other.mono[1])
      ELSE IF t.unix # other.unix THEN Sign(t.unix, other.unix) ELSE Sign(t.nano, other.nano)

SinceZero(t) == (t.unix - ZeroSeconds) * NanosOfSecond + t.nano
FromZero(total, t) ==
  Time(total \div NanosOfSecond + ZeroSeconds, total % NanosOfSecond, t.location, <<>>)

TruncateTime(t, duration) ==
  IF duration <= 0 THEN t ELSE FromZero((SinceZero(t) \div duration) * duration, t)

RoundTime(t, duration) ==
  IF duration <= 0 THEN t
  ELSE LET quotient == SinceZero(t) \div duration
           up == (SinceZero(t) % duration) * 2 >= duration
       IN  FromZero((IF up THEN quotient + 1 ELSE quotient) * duration, t)

(***************************************************************************)
(* Serialized times.                                                       *)
(***************************************************************************)
MarshalBinary(t) ==
  LET internal == t.unix - ZeroSeconds
      Packed(offset) ==
        LET minutes == IF t.location = UTC THEN -1 ELSE TruncatingQuotient(offset, Sixty)
            seconds == IF t.location = UTC THEN 0 ELSE offset - minutes * Sixty
        IN  IF t.location # UTC /\ (minutes \notin -32768..32767 \/ minutes = -1) THEN Raised("unexpected zone offset")
            ELSE IF internal \notin Range64 THEN Raised("time is out of range")
            ELSE Value([version |-> IF seconds # 0 THEN 2 ELSE 1, internal |-> internal, nano |-> t.nano,
                        minutes |-> minutes, seconds |-> seconds])
  IN  AndThen(Offset(t.location, t.unix), Packed)

UnmarshalBinary(data) ==
  LET offset == data.minutes * Sixty + (IF data.version = 2 THEN data.seconds ELSE 0)
  IN  Time(data.internal + ZeroSeconds, data.nano,
           IF data.minutes = -1 THEN UTC ELSE Fixed("", offset), <<>>)

(***************************************************************************)
(* python.Time: a datetime of whole microseconds, and the rest.  A datetime*)
(* is local: what its location's clock shows, and whether it shows it for  *)
(* the second time (fold).  Arithmetic on datetimes of one location is     *)
(* arithmetic on what the clock shows.                                     *)
(***************************************************************************)
NanosOfMicrosecond == UnitNanoseconds.us
MicrosOfSecond     == NanosOfSecond \div NanosOfMicrosecond

(* The instants at which a location's clock shows a local time.            *)
Shown(location, local) ==
  LET offsets == IF location.sort = "zone" THEN {location.zones[i].offset : i \in DOMAIN location.zones}
                 ELSE {DatetimeOffset(location, local)}
  IN  {local - offset : offset \in {o \in offsets : DatetimeOffset(location, local - o) = o}}

AtZone(unix, location) ==
  LET local == unix + DatetimeOffset(location, unix)
  IN  [local |-> local, fold |-> \E other \in Shown(location, local) : other < unix]

(* The instant of a datetime; a local time that is skipped is read with    *)
(* the offset in force before the gap, or after it if fold is set.         *)
InstantOf(datetime, location) ==
  LET shown == Shown(location, datetime.local)
      offsets == {DatetimeOffset(location, datetime.local + side * SecondsOfDay) : side \in {-1, 1}}
  IN  IF shown # {} THEN IF datetime.fold THEN Greatest(shown) ELSE Least(shown)
      ELSE datetime.local - (IF datetime.fold THEN Greatest(offsets) ELSE Least(offsets))

PythonTime(datetime, micro, rest, location) ==
  [datetime |-> datetime, micro |-> micro, rest |-> rest, location |-> location]

(* datetime.fromtimestamp is tried, the change to the time's location is   *)
(* not: both raise where datetime ends, the second for its own reasons too.*)
PythonFromGo(t) ==
  LET Shows(zone) == Value(PythonTime(AtZone(t.unix, t.location), t.nano \div NanosOfMicrosecond,
                                      t.nano % NanosOfMicrosecond, FromTzinfo(t.location)))
  IN  IF t.unix \notin DatetimeRange THEN Raised("OverflowError")
      ELSE AndThen(Localized(t.location, t.unix), Shows)

PythonToGo(p) ==
  LET unix == InstantOf(p.datetime, p.location)
  IN  IF unix \notin DatetimeRange THEN Raised("OverflowError")
      ELSE Value(FromUnix(unix, p.micro * NanosOfMicrosecond + p.rest, p.location))

PythonTimeAdd(p, duration) ==
  LET rest  == p.rest + duration
      micro == p.micro + rest \div NanosOfMicrosecond
      local == p.datetime.local + micro \div MicrosOfSecond
  IN  IF local \notin DatetimeRange THEN Raised("OverflowError")
      ELSE Value(PythonTime([local |-> local, fold |-> FALSE], micro % MicrosOfSecond, rest % NanosOfMicrosecond, p.location))

PythonSubtract(p, other) ==
  LET Seconds(x) == IF p.location = other.location THEN x.datetime.local ELSE InstantOf(x.datetime, x.location)
  IN  ((Seconds(p) - Seconds(other)) * MicrosOfSecond + p.micro - other.micro) * NanosOfMicrosecond
        + p.rest - other.rest
=============================================================================
