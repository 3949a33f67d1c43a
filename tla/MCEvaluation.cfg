SPECIFICATION FairSpec
CONSTANTS
    w1 = w1
    w2 = w2
    q1 = q1
    q2 = q2
    nobody = nobody
    NCandidates = 1
    Requests = {q1, q2}
    Asks <- AsksAgent
    Lanes = {w1, w2}
    Reliable = {w2}
    Nobody = nobody
    MaxEvals = 2
    MaxFaults = 1
    MaxEdits = 1
INVARIANTS
    VerdictInv
    EvidenceWasBound
    DuplicatesOnlyAfterFailure
PROPERTIES
    VerdictIsFinal
    IsJudgedOnce
    EvaluationsConclude
CHECK_DEADLOCK FALSE
