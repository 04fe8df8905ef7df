SPECIFICATION LiveSpec
CONSTANTS
    s1 = s1
    Sessions = {s1}
    Disks <- Directories
    Requests <- SomeRequests
    SeekTimes = {4}
    MaxConcurrent = 1
    MaxControls = 3
    MayVanish = TRUE
INVARIANT TypeOK
INVARIANT ReplayFaithful
PROPERTY StoppedIsSilent
PROPERTY StopReturns
PROPERTY PlaybackEnds
CHECK_DEADLOCK FALSE
