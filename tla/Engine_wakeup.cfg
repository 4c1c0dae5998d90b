SPECIFICATION FairSpec
CONSTANTS
    a = a
    b = b
    c = c
    Reqs = {a, b}
    Session <- OwnSession
    Decoded = {}
    WorkersFail = FALSE
    HasDisk = FALSE
PROPERTY GenerateReturns
