CONSTANTS
  Requests = {r1, r2}
  PostComment = {}
  SetLabels = {}
  Genesis = Genesis
  None = None
  Year = 2
  MaxDisconnects = 0
SPECIFICATION Spec
CHECK_DEADLOCK FALSE
INVARIANT
  ChainsAreLinear
