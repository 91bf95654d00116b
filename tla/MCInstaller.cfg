CONSTANTS
  Installs = {p1, p2}
  Commands = {u1}
  Tags <- TwoTags
  NpmVersion = "v1"
  Listed <- OneListed
  None = None
SYMMETRY AnyHook
SPECIFICATION InstallSpec
CHECK_DEADLOCK FALSE
INVARIANTS
  OnlyWholeRuns
PROPERTIES
  CachedIsFinal
  FoundWhenTold
