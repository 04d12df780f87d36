SPECIFICATION Spec
CONSTANTS
    p1 = p1
    p2 = p2
    i2 = i2
    Processes = {p1, p2}
    Requests = {r1, r2}
    Ingests = {i1, i2}
    Batches = {b1}
    Questions = {q1}
    Similar <- AllSimilar
    Sessions = {s1}
    RequestAt <- FirstServes
    IngestAt <- SecondIngestElsewhere
    semantic_enabled = FALSE
    ttl = 1
    MaxTime = 1
    BackendFails = TRUE
    UpsertsFail = TRUE
    Evictions = {"answers"}
    Flushes = 0
    MaxConfidence = 1
    MinConfidence = 1
    None = None
INVARIANTS
    ServedAnswersAreCurrent
    ServedAnswersWereAccepted
    
    LocksAreReleased
PROPERTIES
    IngestionsAreIndexUpdates
SYMMETRY Symmetric
CHECK_DEADLOCK FALSE
