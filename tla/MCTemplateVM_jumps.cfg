SPECIFICATION Spec
CONSTANTS
  MaxLevels = 6
  Names <- TwoNames
  Prog <- JumpsProg
  Map <- JumpsMap
  RootName = "main"
  Vars <- VarNames
  RootVar = "$"
  Values = {inv, t}
  Truthy = {t}
  Invalid = inv
  Unset = unset
  NoLimit = none
  MaxItems = 2
  MaxOutput = none
  MaxIterations = 5
  MaxCalls = 2
  MaxTemplateDepth = none
  HardDepth = 1
  BaseDepth = 0
  ValueSizes = {0}
INVARIANT StackDiscipline NoInternalError
