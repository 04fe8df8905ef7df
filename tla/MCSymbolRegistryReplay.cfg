SPECIFICATION Spec
CONSTANTS
    a = a
    b = b
    c = c
    w1 = w1
    w2 = w2
    Symbols = {a, b}
    Workers = {w1, w2}
    Unknown = Unknown
    MaxRuns = 2
INVARIANT ReplayTopicRight
CHECK_DEADLOCK FALSE
