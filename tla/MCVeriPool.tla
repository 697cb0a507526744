----------------------------- MODULE MCVeriPool -----------------------------
(***************************************************************************)
(* Small instances of VeriPool: four replicas, the fewest for which one    *)
(* may be faulty. The replicas are alike: it is enough to add their        *)
(* signatures in the order of their ids. One of them may be invalid.       *)
(***************************************************************************)
EXTENDS VeriPool

AddInOrder(rid, valid) ==
    /\ \A r \in ReplicaID : r < rid => r \in rids
    /\ valid \/ \A r \in rids : sigs[r]
    /\ AddPart(rid, valid)

MCNext ==
    \/ \E rid \in ReplicaID, valid \in BOOLEAN : AddInOrder(rid, valid)
    \/ \E i \in Calls : VerifyQuorum(i) \/ \E valid \in BOOLEAN : VerifyPart(i, 0, valid)
    \/ \E w \in Worker : WorkerStep(w) \/ WorkerStop(w)
    \/ \E S \in SUBSET Address : OutHandler(S)
    \/ Destroy

MCSpec == VInit /\ [][MCNext]_veriVars /\ VFairness

=============================================================================
