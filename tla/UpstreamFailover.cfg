SPECIFICATION FairSpec
CONSTANTS
  r1 = r1
  r2 = r2
  Request <- TwoRequests
  NumTargets = 3
  Cooldown = 1
  PreferredLifetime = 2
INVARIANTS
  PreferredIsHealthy
  FailureIsExhaustive
PROPERTIES
  PrimaryRestored
CHECK_DEADLOCK FALSE
