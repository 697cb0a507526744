CONSTANTS
    r1 = r1
    r2 = r2
    r3 = r3
    Replica = {r1, r2}
    Proposers = {r1, r2}
    Hash = {0, 1, 2}
    Genesis = 0
    FirstProposer = r1
    Rotation <- Ring2
    BlkSize = 2
    MaxAsync = 2
    MaxIter = 4
    MaxImpeach = 1
SPECIFICATION MCSpec
INVARIANTS
    AckedIsExecuted
    ProposedOnceByEach
    NoneLost
PROPERTIES
    PoolUntilImpeached
    SubmittedIsDecided
CHECK_DEADLOCK FALSE
