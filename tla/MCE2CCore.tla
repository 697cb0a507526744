----------------------------- MODULE MCE2CCore -----------------------------
(* Small instances of E2CCore, and of its refinement of ReplicatedLog.      *)
EXTENDS E2CCoreLog, TLC

\* Replicas that only follow are alike, and so are fresh hashes.
Symmetry == Permutations(Replica \ Proposers) \cup Permutations(Hash \ {Genesis})

=============================================================================
