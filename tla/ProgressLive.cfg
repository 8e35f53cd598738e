SPECIFICATION FairSpec
CONSTANTS
  q1 = q1
  q2 = q2
  q3 = q3
  k1 = k1
  k2 = k2
  Request <- ThreeRequests
  Key <- OneKey
  Debounce = 1
  MaxDelay = 2
  MaxWaiters = 2
  MaxTime = 3
  MaxDrain = 1
  MaxFail = 0
PROPERTY
  WaitersAnswered
CHECK_DEADLOCK FALSE
