SPECIFICATION Spec
CONSTANTS
    Symbols = {1}
    SizeOf <- Large
    RollBytes = 7
    IndexInterval = 2
    HeaderEvery = 2
    MaxFailures = 3
    InitCap = 2
    InitIdxCap = 1
    TicksPerSecond = 2
    Skew = 1
    Faults <- AllFaults
    BatchSize = 2
    MaxFrames = 4
    MaxTs = 2
    MaxRestarts = 1
INVARIANT TypeOK
INVARIANT HeaderSound
INVARIANT IndexSound
INVARIANT DegradedEarned
INVARIANT EveryFrameAccounted
CHECK_DEADLOCK FALSE
