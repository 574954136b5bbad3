CONSTANTS
    Calls = {c1, c2, c3}
    Snrs = {1}
    QueueCapacity = 2
    ImmediateCount = 2
    FlushSeconds = 2
    RetrySeconds = 1
    TemplateSeconds = 2
    Jitter = 0
    RecentSize = 2
SPECIFICATION Spec
CHECK_DEADLOCK FALSE
PROPERTIES
    EveryQueuedSpotSent
