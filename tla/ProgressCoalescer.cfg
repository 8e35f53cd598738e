SPECIFICATION Spec
CONSTANTS
  q1 = q1
  q2 = q2
  q3 = q3
  k1 = k1
  k2 = k2
  Request <- ThreeRequests
  Key <- TwoKeys
  Debounce = 1
  MaxDelay = 2
  MaxWaiters = 2
  MaxTime = 3
  MaxDrain = 2
  MaxFail = 1
SYMMETRY RequestSymmetry
INVARIANTS
  NothingDropped
  AnsweredByOwnOrLater
  DrainedMeansDelivered
  LimitsBalanced
PROPERTIES
  NeverBackwards
CHECK_DEADLOCK FALSE
