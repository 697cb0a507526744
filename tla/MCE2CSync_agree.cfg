CONSTANTS
    r1 = r1
    r2 = r2
    r3 = r3
    Replica = {r1, r2}
    Proposers = {r1, r2}
    Hash = {b0, b1, b2, b3}
    Genesis = b0
    FirstProposer = r1
    Rotation <- Ring2
    MaxLoss = 0
    MaxRetry = 0
    MaxImpeach = 8
    Delta = 1
    Delay = 1
    MaxTime = 9
    MaxCrash = 0
SPECIFICATION SCallSpec
INVARIANTS
    Agreement
SYMMETRY Fresh
CHECK_DEADLOCK FALSE
