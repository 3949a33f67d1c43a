SPECIFICATION CmpFairSpec
CONSTANTS
    w1 = w1
    w2 = w2
    NRuns = 2
    Reviewed = {2}
    MaxRepairs = 1
    Lanes = {w1, w2}
    Reliable = {w2}
    NoRun = 0
    Budgeted = {"task"}
    Limit = 3
    Estimate = 1
    Costs = {0, 2}
    MaxCrashes = 1
INVARIANTS
    FinalWasAccepted
    LateStageNeverCalls
    OvershootIsBounded
    OutcomeInv
PROPERTIES
    SelectionStands
    RunsConclude
CHECK_DEADLOCK FALSE
