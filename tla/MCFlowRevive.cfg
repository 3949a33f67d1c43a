SPECIFICATION Spec
CONSTANTS
    a1 = a1
    a2 = a2
    Nodes <- JoinNodes
    Edges <- JoinEdges
    Kind <- RefusedKind
    Actors = {a1}
    Reliable = {}
    MaxIteration = 1
    SyncTries = 2
    MayCancel = TRUE
INVARIANTS
    OpenWorkIsAwaited
    OnlySiblingsOfFailureStop
    ResumedRunCanComplete
PROPERTIES
    OnlyRetryReopens
    IsResumedRun
CHECK_DEADLOCK FALSE
