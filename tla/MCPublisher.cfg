SPECIFICATION LiveSpec
CONSTANTS
    c1 = c1
    c2 = c2
    Clients = {c1, c2}
    MaxConnections = 2
    MaxWriteFailures = 2
    HighWatermark = 2
    LowWatermark = 0
    MaxEvents = 4
INVARIANT TypeOK
PROPERTY StoppedOnlyDrains
PROPERTY DisconnectCompletes
PROPERTY StopReturns
PROPERTY PublishReturnsToTheLiving
CHECK_DEADLOCK FALSE
