CONSTANTS
    DecodeTimeout = 2
    WarmupTimeout = 3
    MaxResults = 1
    MaxFailures = 2
    MaxFrames = 3
    MaxElapsed = 4
    MaxLines = 2
SPECIFICATION Spec
CHECK_DEADLOCK FALSE
INVARIANTS
    NothingLeft
    OwnResults
PROPERTIES
    DisabledAfterThree
    EveryFrameConcluded
