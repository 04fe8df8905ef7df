SPECIFICATION ThreadSpec
CONSTANTS
    q1 = q1
    p1 = p1
    p2 = p2
    Controllers = {q1}
    Producers = {p1, p2}
    GuardOf <- Shared
    HighWatermark = 2
    LowWatermark = 0
    Batch = 1
    WordSize = 4
    MaxBacklog = 1
    MaxStarts = 2
INVARIANT TypeOK
INVARIANT CommittedFit
INVARIANT CountSettles
PROPERTY EnqueueBounded
PROPERTY StopJoins
PROPERTY ProducersProgress
CHECK_DEADLOCK FALSE
