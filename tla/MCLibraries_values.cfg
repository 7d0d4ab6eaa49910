SPECIFICATION Spec
CONSTANTS
  Alphabet = {"a", "A", "b", "nl"}
  WordCharacters = {"a", "A", "b"}
  Lower <- MCLower
  Upper <- MCUpper
  Searches <- MCSearches
  MaxPatternLength = 20
  MaxRepeatCount = 5
  MaxProgramInstructions = 60
  MaxCaptures = 3
  Width = 16
  Digits = 1
  Sixty = 2
  MaxFraction = 5
  HoursOfDay = 4
  ZeroSeconds <- MCZeroSeconds
  CalendarStart <- MCCalendarStart
  FirstDatetime <- MCFirstDatetime
  LastDatetime = 15000
  ReadableNames <- MCReadableNames
  BoundsStep = 40
  BoundsHorizon = 1000
  SafeSchemes <- MCSafeSchemes
  ActiveStyles <- MCActiveStyles
  UnsafeAttributes <- MCUnsafeAttributes
  Printable <- MCPrintable
  MaxDelay = 2
  MaxResets = 2
INVARIANT RegexpCorrect TimesExact EscapersExact FormatsExact OneEventPerArm
PROPERTY ArmedFires
CHECK_DEADLOCK FALSE
