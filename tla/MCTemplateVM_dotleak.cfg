SPECIFICATION Spec
CONSTANTS
  MaxLevels = 6
  Names <- TwoNames
  Prog <- DotLeakProg
  Map <- DotLeakMap
  RootName = "main"
  Vars <- VarNames
  RootVar = "$"
  Values = {inv, t}
  Truthy = {t}
  Invalid = inv
  Unset = unset
  NoLimit = none
  MaxItems = 2
  MaxOutput = none
  MaxIterations = none
  MaxCalls = 2
  MaxTemplateDepth = 2
  HardDepth = 4
  BaseDepth = 0
  ValueSizes = {0, 2}
INVARIANT DotRestored
