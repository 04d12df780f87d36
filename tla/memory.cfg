SPECIFICATION Spec
CONSTANTS
    Sessions = {s1, s2}
    Runs = {r1, r2, r3, r4}
    short_term_turns = 4
    summary_after_turns = 4
    max_user_facts = 1
    max_sessions = 1
    MaxUnderWay = 2
    Failures = TRUE
    Resets = 1
    None = None
INVARIANTS
    CountersAgree
    NoTurnIsLost
    ResetForgets
PROPERTIES
    SummariesOnlyGrow
SYMMETRY Symmetric
CHECK_DEADLOCK FALSE
