CONSTANTS
  Scores <- Boundaries
  FindingCounts = {1, 2}
  None = None
  OVERSIZED_FN_LOC = 1
  Keys = {k1}
  Snippets = {}
  PullRequests = {}
SPECIFICATION EntrySpec
INVARIANT
  CriticalIsBlocked
