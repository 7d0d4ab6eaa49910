SPECIFICATION Spec
CONSTANTS
  Templates <- MCTemplates
  ProgramOf <- MCProgramOf
  Worlds <- MCWorlds
INVARIANT SyncMatchesAsync
CHECK_DEADLOCK FALSE
