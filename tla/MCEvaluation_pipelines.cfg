SPECIFICATION Spec
CONSTANTS
  Templates <- MCTemplates
  ProgramOf <- MCProgramOf
  Worlds <- MCWorlds
INVARIANT MatchesUnlessMissing ChargedBeforeCalled OperandsInvoked MissingKeyStops ReadsAreGranted
CHECK_DEADLOCK FALSE
