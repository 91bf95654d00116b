CONSTANTS
  r1 = r1
  r2 = r2
  r3 = r3
  r4 = r4
  k1 = k1
  p1 = p1
  p2 = p2
  a1 = a1
  a2 = a2
  Requests = {r1, r2, r3, r4}
  IdemKeys = {k1}
  PullRequests = {p1, p2}
  ApiKeys = {a1, a2}
  None = None
  IdemKey <- SameKey
  PrUrl <- TwoPullRequests
  Header <- KeylessThird
  ServerKey = None
  Ttl = 1
  MaxDisconnects = 0
SPECIFICATION Spec
CHECK_DEADLOCK FALSE
INVARIANT
  OwnKey
