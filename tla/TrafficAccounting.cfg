SPECIFICATION FairSpec
CONSTANTS
  r1 = r1
  Request <- OneRequest
  Payload <- MCPayload
  MaxServed = 3
  MaxMinute = 1
  MaxFault = 2
INVARIANTS
  Conservation
  ViewsAgree
  BaselineIsRow
  LeavesNothingBehind
PROPERTIES
  ImplementsLedger
  EventuallyPersisted
CHECK_DEADLOCK FALSE
