CONSTANTS
  Entries = {e1, e2, e3}
  Genesis = Genesis
  None = None
  Plans <- ShortPlans
  Documents <- SomeReports
  JsonValues <- SomeValues
  JsonDepth = 3
  MaxLog = 4
  Stories <- SomeStories
  Shortenings <- SomeShortenings
SYMMETRY AnyEntry
SPECIFICATION LedgersSpec
CHECK_DEADLOCK FALSE
INVARIANTS
  Linear
  OneStory
  PageAgrees
  SpecialistsAgree
  CordonHolds
PROPERTY
  ImplementsHashChain
