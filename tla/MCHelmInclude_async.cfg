SPECIFICATION HelmSpec
CONSTANTS
  Tasks = {a, b}
  Ids = {base, o1, o2, o3}
  Base = base
  Sources = {"p", "q"}
  NoLimit = none
  MaxTemplateDepth = 3
  MaxRenders = 4
  CacheLimit = 2
  Templates = {"x"}
  NotIncluded = tpl
  RecursionLimit = 1
INVARIANT IncludedExact
INVARIANT AssociationsBalanced DepthCoversNested CacheCoherent KeysAlive
CHECK_DEADLOCK FALSE
