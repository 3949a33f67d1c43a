SPECIFICATION FairSpec
CONSTANTS
    e1 = e1
    e2 = e2
    e3 = e3
    s1 = s1
    NoOne = NoOne
    Executors = {e1, e2}
    Sweepers = {s1}
    Reliable = {e2, s1}
    MaxAttempts = 2
    FailStop = TRUE
INVARIANTS
    RecoveryInv
PROPERTIES
    IsOneProviderCall
    RunEnds
CHECK_DEADLOCK FALSE
