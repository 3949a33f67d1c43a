SPECIFICATION Spec
CONSTANTS
    a1 = a1
    a2 = a2
    Nodes <- JoinNodes
    Edges <- JoinEdges
    Kind <- GateKind
    Actors = {a1, a2}
    Reliable = {}
    MaxIteration = 0
    SyncTries = 4
    MayCancel = TRUE
INVARIANTS
    VerdictMatchesNodes
SYMMETRY AnyActor
CHECK_DEADLOCK FALSE
