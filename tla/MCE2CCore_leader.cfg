CONSTANTS
    Replica = {r1, r2, r3}
    Proposers = {r1}
    Hash = {b0, b1, b2, b3}
    Genesis = b0
SPECIFICATION Spec
SYMMETRY Symmetry
INVARIANTS
    OneChain
    ParentsAreChain
    NeverAborts
PROPERTIES
    ImplementsLog
CHECK_DEADLOCK FALSE
