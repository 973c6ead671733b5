SPECIFICATION Spec
CONSTANTS
  b1 = b1
  b2 = b2
  l1 = l1
  v1 = v1
  v2 = v2
  None = None
  Request <- All
  Kind <- KindOfAll
  Company <- Visits
  Burst = 3
  Replenish = 2
  Idle = 1
  Absolute = 2
  MaxTtl = 3
  Ttl <- Lives
  Quality <- Qualities
  Prior <- Practised
  Horizon = 3
SYMMETRY Alike
INVARIANTS TypeOK OnlyTheInvited NoReviewLost RateIsFair
CHECK_DEADLOCK FALSE
