CONSTANTS
    MaxPromise = 4
    MaxList = 2
    Handlers <- Forms
SPECIFICATION PSpec
INVARIANTS
    PTypeOK
    CalledOnce
    ConsistentAtRest
PROPERTIES
    SettlesOnce
    IterationStable
CHECK_DEADLOCK FALSE
