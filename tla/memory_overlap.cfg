SPECIFICATION Spec
CONSTANTS
    Sessions = {s1}
    Runs = {r1, r2, r3}
    short_term_turns = 2
    summary_after_turns = 2
    max_user_facts = 1
    max_sessions = 1
    MaxUnderWay = 3
    Failures = FALSE
    Resets = 0
    None = None
PROPERTY SummariesNeverShrink
SYMMETRY Symmetric
CHECK_DEADLOCK FALSE
