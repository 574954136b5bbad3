CONSTANTS
    SlotCount = 2
    BlockCapacity = 1
    CounterMax = 20
    MaxTransfer = 2
    MaxDeviceDrop = 1
    MaxProduced = 5
    Freqs = {f1, f2}
    Factor = 2
    Target = 2
    MaxSpots = 1
    MaxFrames = 2
    noreport = FALSE
SPECIFICATION Spec
SYMMETRY FreqSymmetry
CHECK_DEADLOCK FALSE
INVARIANTS
    FrameHomogeneous
    SampleTimeContinuous
    DecoderAwake
    WholeUnlessLate
PROPERTIES
    NoRetuneInCapture
