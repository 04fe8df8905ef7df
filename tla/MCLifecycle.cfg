SPECIFICATION LiveSpec
CONSTANTS
    r1 = r1
    MaxSignals = 3
    Requests = {r1}
    MaxWorkers = 2
INVARIANT TypeOK
INVARIANT CleanExit
PROPERTY ShutdownEnds
CHECK_DEADLOCK FALSE
