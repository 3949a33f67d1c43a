SPECIFICATION Spec
CONSTANTS
    e1 = e1
    e2 = e2
    e3 = e3
    s1 = s1
    NoOne = NoOne
    Executors = {e1, e2, e3}
    Sweepers = {}
    Reliable = {}
    MaxAttempts = 2
    FailStop = TRUE
INVARIANTS
    ProviderNotReplayed
CHECK_DEADLOCK FALSE
