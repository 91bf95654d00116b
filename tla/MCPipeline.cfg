CONSTANTS
  Scores <- Boundaries
  FindingCounts <- Counts
  None = None
  OVERSIZED_FN_LOC = 1
  Keys = {k1, k2}
  Snippets <- Pasted
  PullRequests <- SomePRs
SPECIFICATION EntrySpec
SYMMETRY AnyKey
INVARIANTS
  EntryTypeOK
  ToldWhatIsSo
  RulesExact
  BlindIsNeverFine
  BlockedNotApproved
  WorseIsNotMilder
PROPERTY
  LastKeyCharged
