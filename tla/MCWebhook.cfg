CONSTANTS
  Reviews = {t1, t2, t3}
  Deliveries <- SomeDeliveries
  Environments <- SomeEnvironments
  Names <- SomeNames
  MaxPushes = 2
  Signals <- ThreeVersions
  MaxFaults = 1
  None = None
SPECIFICATION FairSpec
CHECK_DEADLOCK FALSE
INVARIANTS
  ReviewsInvited
  MissedByChoice
  HeadIsReviewed
  LabelIsCurrent
PROPERTY
  LabelTried
