CONSTANTS
  Callers = {c1, c2, c3}
  FailureThreshold = 2
  RecoveryTimeout = 2
  HalfOpenMaxProbes = 1
  CounterSize = 5
  MaxCancels = 2
SPECIFICATION Spec
INVARIANT
  ProbesBounded
