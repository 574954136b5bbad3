CONSTANTS
    Calls = {c1, c2, c3}
    Snrs = {1, 2}
    QueueCapacity = 3
    ImmediateCount = 2
    FlushSeconds = 3
    RetrySeconds = 2
    TemplateSeconds = 5
    Jitter = 1
    RecentSize = 3
SPECIFICATION Spec
SYMMETRY CallSymmetry
CHECK_DEADLOCK FALSE
INVARIANTS
    TemplatesTaught
PROPERTIES
    NoDuplicateSent
    UnsentStaysQueued
    StrongestSpotSent
    RetryPaced
