CONSTANTS
    SlotCount = 1
    BlockCapacity = 1
    CounterMax = 20
    MaxTransfer = 1
    MaxDeviceDrop = 0
    MaxProduced = 5
    Freqs = {f1}
    Factor = 1
    Target = 2
    MaxSpots = 1
    MaxFrames = 2
    noreport = FALSE
SPECIFICATION Spec
CHECK_DEADLOCK FALSE
INVARIANTS
    ReportedSpotsSynchronized
