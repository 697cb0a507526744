CONSTANTS
    ReplicaID = {0, 1, 2, 3}
    Worker = {w1, w2}
    Address = {a1, a2, a3, a4}
    BurstSize = 2
    MaxCall = 2
    SizeMod = 65536
    Uint32Mod = 256
SPECIFICATION MCSpec
INVARIANTS
    TaskInOnePlace
    AsyncAsSync
    QuorumIsMajority
PROPERTIES
    VerificationAnswered
CHECK_DEADLOCK FALSE
