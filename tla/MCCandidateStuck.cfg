SPECIFICATION CmpFairSpec
CONSTANTS
    w1 = w1
    w2 = w2
    NRuns = 2
    Reviewed = {2}
    MaxRepairs = 1
    Lanes = {w1}
    Reliable = {w1}
    NoRun = 0
    Budgeted = {"task"}
    Limit = 20
    Estimate = 1
    Costs = {1}
    MaxCrashes = 0
PROPERTIES
    CandidatesConclude
CHECK_DEADLOCK FALSE
