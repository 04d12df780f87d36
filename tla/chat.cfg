SPECIFICATION Spec
CONSTANTS
    MaxDrafts = 2
    MaxStages = 2
INVARIANTS
    OneResponse
    ResponsesAreComplete
    DeadlineEndsAtTheFirstByte
    ResultIsTheLastDraft
PROPERTIES
    EveryClientIsAnswered
CHECK_DEADLOCK FALSE
