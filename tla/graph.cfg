SPECIFICATION Spec
CONSTANTS
    MaxRevisions = 2
    MinConfidence = 1
    MaxConfidence = 2
    MemoryEnabled = TRUE
    ToolsEnabled = TRUE
    MaxCallsPerTurn = 1
    MaxPlannedCalls = 2
    MaxDocuments = 1
    Nothing = Nothing
INVARIANTS
    VerdictIsOnTheAnswer
    RequestedGroundsAreFresh
    RefusalsAreJudgedAsRefusals
    StepsAreBounded
PROPERTIES
    RevisionsAnswerAVerdict
    EndsUnlessRetrievalHangs
    ImplementsAgentRun
CHECK_DEADLOCK FALSE
