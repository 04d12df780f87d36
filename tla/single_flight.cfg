SPECIFICATION Spec
CONSTANTS
    Callers = {c1, c2, c3}
    Keys = {k1, k2}
    MaxSizes = {0, 1}
    TTL = 1
    MaxTime = 1
    Operations = {"read", "get", "clear"}
    LoadsFail = TRUE
    Cancellation = TRUE
    None = None
INVARIANTS
    OneLoadAtATime
    NoLostWakeup
    LockIsHandedOn
PROPERTIES
    EveryCallEndsUnlessCancelled
CHECK_DEADLOCK FALSE
