SPECIFICATION Spec
CONSTANTS
    Callers = {c1, c2}
    Keys = {k1}
    MaxSizes = {1}
    TTL = 1
    MaxTime = 0
    Operations = {"read"}
    LoadsFail = FALSE
    Cancellation = TRUE
    None = None
PROPERTY EveryCallEnds
CHECK_DEADLOCK FALSE
