SPECIFICATION LiveSpec
CONSTANTS
    c1 = c1
    Clients = {c1}
    MaxPending = 2
    MaxTicks = 3
    CloseWakes = TRUE
INVARIANT TypeOK
INVARIANT FreshInOrder
INVARIANT StopClosesListed
PROPERTY QueuedIsTaken
PROPERTY BrokenIsUnlisted
PROPERTY StopReturns
CHECK_DEADLOCK FALSE
