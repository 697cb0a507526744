CONSTANTS
    r1 = r1
    r2 = r2
    r3 = r3
    Replica = {r1, r2, r3}
    Proposers = {r1, r2, r3}
    Hash = {b0, b1, b2}
    Genesis = b0
    FirstProposer = r1
    Rotation <- Ring3
    MaxLoss = 0
    MaxRetry = 0
    MaxImpeach = 1
    Delta = 2
    Delay = 1
    MaxTime = 9
    MaxCrash = 1
SPECIFICATION CalmSpec
INVARIANTS
    SafeToCommit
    DecidedInTime
    ImpeachedInTime
PROPERTIES
    ImpeachedForSilence
SYMMETRY FreshAndFollowers
CHECK_DEADLOCK FALSE
