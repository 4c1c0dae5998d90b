SPECIFICATION FairSpec
CONSTANTS
    a = a
    b = b
    c = c
    Reqs = {a, b, c}
    Session <- OwnSession
    Decoded = {c}
    WorkersFail = TRUE
    HasDisk = TRUE
INVARIANTS EventFound OwnOutput
PROPERTIES ClearsQuiescent WaiterReturns ClearReturns
CHECK_DEADLOCK FALSE
