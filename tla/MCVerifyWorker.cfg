CONSTANTS
  Requests = {r1, r2, r3}
  PostComment = {r1, r2}
  SetLabels = {r2}
  Genesis = Genesis
  None = None
  MaxDisconnects = 1
  Year = 2
SPECIFICATION Spec
CHECK_DEADLOCK FALSE
INVARIANTS
  ForksOverlapped
  AuditTrail
  ExportVerifies
  ReceiptsChain
PROPERTY
  ChainsWhenApart
