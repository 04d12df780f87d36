SPECIFICATION Spec
CONSTANTS
    Main = Main
    Callers = {c1, c2}
    None = None
    retry_attempts = 2
    Documents = {1, 2}
    Submissions <- Workloads
    MaxBatches = 2
    MAX_UPLOAD_PARTS = 2
    max_concurrent_batches = 2
INVARIANTS
    LimiterIsExact
    WorkspacesAreRemoved
    NothingIsUsedClosed
    ContainersAreOrderly
PROPERTIES
    ImplementsIndexUpdate
    EveryUploadEnds
CHECK_DEADLOCK FALSE
