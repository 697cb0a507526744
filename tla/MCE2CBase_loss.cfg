CONSTANTS
    r1 = r1
    r2 = r2
    r3 = r3
    Replica = {r1, r2, r3}
    Proposers = {r1}
    Hash = {b0, b1, b2, b3}
    Genesis = b0
    FirstProposer = r1
    Rotation <- Ring3
    MaxLoss = 2
    MaxRetry = 1
    MaxImpeach = 0
SPECIFICATION NetSpec
INVARIANTS
    BTypeOK
    DeliveryAsserted
    WaitsForSomething
    RequestsServable
    NothingToFetch
    FiledAtRest
    ForwardedOnce
    NoGapAtRest
CHECK_DEADLOCK FALSE
SYMMETRY Fresh
