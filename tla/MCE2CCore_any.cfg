CONSTANTS
    Replica = {r1, r2}
    Proposers = {r1, r2}
    Hash = {b0, b1, b2, b3}
    Genesis = b0
SPECIFICATION FairSpec
INVARIANTS
    TypeOK
    HighestFiled
    FiledIsPendingOrDecided
    ExecutedOnce
PROPERTIES
    FiledIsDecided
CHECK_DEADLOCK FALSE
