SPECIFICATION TelemetryFairSpec
CONSTANTS
  o1 = o1
  l1 = l1
  l2 = l2
  c1 = c1
  c2 = c2
  Observation <- Observations
  RequestLog <- Logs
  Caller <- Callers
  CommandOf <- ListAndClear
  Capacity = 2
  BatchSize = 2
  LogRetryCount = 1
  MaxFailedPrunes = 1
INVARIANTS
  LossIsCounted
  BarriersHold
  StoppedMeansDrained
PROPERTY
  EveryoneReturns
CHECK_DEADLOCK FALSE
