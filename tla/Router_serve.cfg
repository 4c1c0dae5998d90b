SPECIFICATION FairSpec
CONSTANTS
    n1 = n1
    n2 = n2
    a = a
    b = b
    Addresses <- TwoNodes
    Reqs = {a, b}
    Policy = "LoadBalance"
    MaxOutputLen = 2
    RpcFails = TRUE
INVARIANTS TakesTurns PeersKnown ReservationOwned OutputWithinMax
PROPERTY RequestEnds
CHECK_DEADLOCK FALSE
