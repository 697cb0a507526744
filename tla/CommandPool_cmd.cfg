CONSTANTS
    Replica = {r1, r2, r3}
    Proposer = r1
    BlkSize = 1
    MaxAsync = 1
    MaxIter = 1
    MaxRestart = 1
SPECIFICATION CFairSpec
INVARIANTS
    CTypeOK
    AckedIsExecuted
PROPERTIES
    AckedUnlessMissed
    AckedGetsExecuted
CHECK_DEADLOCK FALSE
