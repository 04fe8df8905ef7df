SPECIFICATION LiveSpec
CONSTANTS
    c1 = c1
    Clients = {c1}
    MaxPending = 1
    MaxTicks = 1
    CloseWakes = FALSE
PROPERTY ShutdownCompletes
CHECK_DEADLOCK FALSE
