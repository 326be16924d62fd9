CONSTANTS
  SequenceModulus = 6
  RecentAppendLimit = 2
  MaxOffset = 100
  Client = {1, 2}
  Layout <- MCLayout
  Sends <- MCSends
  MaxProducerId = 3
  MaxInFlight = 2
  MaxDelay = 1
  MaxPlain = 1
SPECIFICATION Spec
INVARIANTS LogInOrder RetryGetsOriginalOffset NextSendIsAccepted
PROPERTY ExactlyOnce
CHECK_DEADLOCK FALSE
