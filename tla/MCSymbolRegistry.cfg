SPECIFICATION Spec
CONSTANTS
    a = a
    b = b
    c = c
    w1 = w1
    w2 = w2
    Symbols = {a, b, c}
    Workers = {w1, w2}
    Unknown = Unknown
    MaxRuns = 2
SYMMETRY Perms
INVARIANT TypeOK
INVARIANT IdsAgree
INVARIANT LiveTopicRight
PROPERTY ImplementsIds
CHECK_DEADLOCK FALSE
