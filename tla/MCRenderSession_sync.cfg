SPECIFICATION Spec
CONSTANTS
  Tasks = {s}
  Ids = {base, o1, o2, o3}
  Base = base
  Sources = {"p", "q"}
  NoLimit = none
  MaxTemplateDepth = 3
  MaxRenders = 5
  CacheLimit = 2
INVARIANT InOwnAssociation FrameDepthBounded
PROPERTY ImplementsNesting
CHECK_DEADLOCK FALSE
