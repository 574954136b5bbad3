CONSTANTS
    PingInterval = 1
    DecodeDeadline = 6
    DeviceTimeout = 2
    WarmupTimeout = 4
    BootTimeout = 3
    QueryTimeout = 3
    UploadTimeout = 1
    WatchdogSec = 3
    TimeoutStartSec = 12
    TimeoutStopSec = 2
    RestartSec = 1
SPECIFICATION Spec
CHECK_DEADLOCK FALSE
INVARIANTS
    UsesHeld
    HungCaught
    ServiceSelfHeals
PROPERTIES
    KillJustified
