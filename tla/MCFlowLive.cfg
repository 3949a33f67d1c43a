SPECIFICATION FairSpec
CONSTANTS
    a1 = a1
    a2 = a2
    Nodes <- JoinNodes
    Edges <- JoinEdges
    Kind <- GateKind
    Actors = {a1, a2}
    Reliable = {a2}
    MaxIteration = 0
    SyncTries = 4
    MayCancel = TRUE
INVARIANTS
    SchedulingInv
PROPERTIES
    OutcomesAreFinal
    RunSettles
CHECK_DEADLOCK FALSE
