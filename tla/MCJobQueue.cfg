SPECIFICATION MCSpec
CONSTANTS
    j1 = j1
    j2 = j2
    w1 = w1
    w2 = w2
    p1 = p1
    p2 = p2
    NoOne = NoOne
    Jobs = {j1, j2}
    Lanes = {w1, w2}
    Processes = {p1, p2}
    Kind <- MCKind
    ProcessOf <- MCProcessOf
    Reliable = {p2}
    Lease = 1
    RunLease = 2
    Iterations = 1
    MaxClock = 3
    MaxToken = 3
    Writers = {u1, u2}
    Clients = {c1}
    MaxAttempts = 2
    MaxRecords = 2
    MaxDrops = 1
INVARIANTS
    LeaseInv
    OneLiveLease
    HolderIsNewestClaim
    RefusalsAreProgress
PROPERTIES
    IsFencedLease
    EveryJobFinishes
    IsReplayedLog
    EventsArrive
CHECK_DEADLOCK FALSE
