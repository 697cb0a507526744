------------------------------ MODULE MCE2CApp ------------------------------
(***************************************************************************)
(* Small instances of E2CApp. Fresh hashes are alike: a proposal takes the *)
(* lowest.                                                                 *)
(***************************************************************************)
EXTENDS E2CApp, TLC

CONSTANTS r1, r2, r3

Ring2 == (r1 :> r2) @@ (r2 :> r1)
Ring3 == (r1 :> r2) @@ (r2 :> r3) @@ (r3 :> r1)

FreshHash == {h \in Hash \ Known : \A g \in Hash \ Known : h <= g}

MCNext ==
    \E r \in Replica :
        \/ AImpeach(r)
        \/ AClientRequestCmd(r)
        \/ AClientRespCmd(r)
        \/ HandleAsFollower(r)
        \/ HandleAndBuffer(r)
        \/ \E h \in FreshHash : HandleAndPropose(r, h)
        \/ HandleAndAbort(r)
        \/ \E b \in Hash : ADeliver(r, b) \/ AReceive(r, b) \/ ACommit(r, b) \/ ADoDecide(r, b)

MCSpec == AInit /\ [][MCNext]_avars /\ AFairness

=============================================================================
