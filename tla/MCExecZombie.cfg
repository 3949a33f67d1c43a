SPECIFICATION Spec
CONSTANTS
    e1 = e1
    e2 = e2
    e3 = e3
    s1 = s1
    NoOne = NoOne
    Executors = {e1, e2}
    Sweepers = {}
    Reliable = {}
    MaxAttempts = 2
    FailStop = FALSE
INVARIANTS
    CompletedIsBacked
PROPERTIES
    VerdictStands
CHECK_DEADLOCK FALSE
