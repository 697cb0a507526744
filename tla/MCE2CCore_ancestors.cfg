CONSTANTS
    Replica = {r1, r2}
    Proposers = {r1}
    Hash = {b0, b1, b2}
    Genesis = b0
SPECIFICATION Spec
SYMMETRY Symmetry
INVARIANTS
    AncestorsCommitted
CHECK_DEADLOCK FALSE
