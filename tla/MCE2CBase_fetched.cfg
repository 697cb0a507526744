CONSTANTS
    r1 = r1
    r2 = r2
    r3 = r3
    Replica = {r1, r2}
    Proposers = {r1}
    Hash = {b0, b1, b2}
    Genesis = b0
    FirstProposer = r1
    Rotation <- Ring2
    MaxLoss = 1
    MaxRetry = 0
    MaxImpeach = 0
SPECIFICATION NetSpec
INVARIANTS
    DeliveredWhenFetched
CHECK_DEADLOCK FALSE
