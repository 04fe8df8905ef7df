SPECIFICATION Spec
CONSTANTS
    a = a
    b = b
    w1 = w1
    w2 = w2
    Symbols = {a, b}
    Workers = {w1, w2}
    WorkerFor <- Spread
    HighWatermark = 2
    LowWatermark = 0
    BatchSize = 2
    HasClient = TRUE
    Round = 2
    MaxSeq = 2
    MaxErrors = 1
    MaxFeedStarts = 2
INVARIANT TypeOK
INVARIANT StreamIntact
INVARIANT RecorderFollowsPublisher
PROPERTY ImplementsStream
CHECK_DEADLOCK FALSE
