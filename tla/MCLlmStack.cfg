CONSTANTS
  Callers = {c1, c2, c3}
  Keyless = {c3}
  FailureThreshold = 2
  RecoveryTimeout = 2
  HalfOpenMaxProbes = 1
  CounterSize = 4
  MaxCancels = 1
  MaxRetries = 3
  InitialBackoff = 1
  MaxBackoff = 2
  Jitter = FALSE
  ShiftBits = 2
  Genesis = Genesis
  None = None
SPECIFICATION FairStackSpec
CHECK_DEADLOCK FALSE
INVARIANTS
  OutcomeExplained
  StormBounded
  ReceiptsForkInOverlap
PROPERTY
  CallEnds
