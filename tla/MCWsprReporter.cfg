CONSTANTS
    Capacity = 2
    RetryBase = 1
    MaxRetryDelay = 3
    MaxSequence = 4
    MaxAttempts = 3
SPECIFICATION Spec
CHECK_DEADLOCK FALSE
INVARIANTS
    BackoffHonoured
PROPERTIES
    DeliversInOrder
    EverySpotResolved
    StopReturns
