SPECIFICATION Spec
CONSTANTS
    a1 = a1
    a2 = a2
    Nodes <- JoinNodes
    Edges <- JoinEdges
    Kind <- JoinKind
    Actors = {a1, a2}
    Reliable = {}
    MaxIteration = 0
    SyncTries = 2
    MayCancel = TRUE
PROPERTIES
    IsDrainedRun
SYMMETRY AnyActor
CHECK_DEADLOCK FALSE
