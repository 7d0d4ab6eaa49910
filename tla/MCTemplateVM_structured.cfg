SPECIFICATION FairSpec
CONSTANTS
  MaxLevels = 6
  Names <- TwoNames
  Prog <- StructuredProg
  Map <- StructuredMap
  RootName = "main"
  Vars <- VarNames
  RootVar = "$"
  Values = {inv, t}
  Truthy = {t}
  Invalid = inv
  Unset = unset
  NoLimit = none
  MaxItems = none
  MaxOutput = 3
  MaxIterations = 3
  MaxCalls = 2
  MaxTemplateDepth = 2
  HardDepth = 4
  BaseDepth = 0
  ValueSizes = {0, 2}
INVARIANT TypeOK WithinBudget LexicalScopes DotRestored
PROPERTY Terminates
