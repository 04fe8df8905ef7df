SPECIFICATION Spec
CONSTANTS
    Symbols = {1}
    SizeOf <- Small
    RollBytes = 2
    IndexInterval = 2
    HeaderEvery = 2
    MaxFailures = 3
    InitCap = 1
    InitIdxCap = 1
    TicksPerSecond = 2
    Skew = 1
    Faults <- NoFaults
    BatchSize = 2
    MaxFrames = 4
    MaxTs = 2
    MaxRestarts = 0
INVARIANT RecordedStays
CHECK_DEADLOCK FALSE
