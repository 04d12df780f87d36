SPECIFICATION Spec
CONSTANTS
    p1 = p1
    p2 = p2
    i2 = i2
    Processes = {p1, p2}
    Requests = {r1, r2}
    Ingests = {i1}
    Batches = {b1}
    Questions = {q1}
    Similar <- AllSimilar
    Sessions = {}
    RequestAt <- FirstServes
    IngestAt <- SecondIngestElsewhere
    semantic_enabled = TRUE
    ttl = 1
    MaxTime = 0
    BackendFails = TRUE
    UpsertsFail = FALSE
    Evictions = {"answers", "vectors"}
    Flushes = 1
    MaxConfidence = 1
    MinConfidence = 1
    None = None
PROPERTIES
    EveryRequestEndsUnlessItHangs
CHECK_DEADLOCK FALSE
