SPECIFICATION Spec
CONSTANTS
    Tasks = {t1, t2}
    Answers = {1, 2, 3}
    Values = {v1, v2}
    max_entries = 3
    index_max_entries = 1
    ttl = 1
    MaxTime = 1
    Backends = {"memory", "redis"}
    None = None
INVARIANTS
    IndexIsWhole
PROPERTIES
    CounterIsNeverEvicted
    ImplementsLossyStore
SYMMETRY Symmetric
CHECK_DEADLOCK FALSE
