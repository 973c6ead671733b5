SPECIFICATION FairSpec
CONSTANTS
  s1 = s1
  a1 = a1
  a2 = a2
  f1 = f1
  f2 = f2
  v1 = v1
  v2 = v2
  m1 = m1
  e1 = e1
  None = None
  Session = {s1}
  Request <- All
  Kind <- KindOfAll
  Company <- Races
INVARIANTS ReviewsSurvive StatusIsReviewed TwoSetsOnlyFromOverlap ErasedStaysErased
PROPERTY EveryRequestEnds
CHECK_DEADLOCK FALSE
