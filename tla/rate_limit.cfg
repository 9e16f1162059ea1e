SPECIFICATION Spec
CONSTANTS
  Keys <- Rates
  Limit <- LimitOf
  Step <- StepOf
  TTL = 5
  MaxDelay = 2
  None = None
INVARIANTS TypeOK IdleBucketsAreDropped
PROPERTIES ImplementsTokenBucket JanitorIsInvisible
