----------------------------- MODULE E2CCoreLog -----------------------------
(***************************************************************************)
(* E2CCore under one proposer: the log it implements, and the inductive    *)
(* invariants from which module E2CCoreProofs derives its properties.      *)
(***************************************************************************)
EXTENDS E2CCore

SingleProposer == \E L \in Replica : Proposers = {L}

Leader == CHOOSE r \in Replica : r \in Proposers

\* What the proposer has on file, from height 1 up to b_mark.
FiledLog == [i \in 1..Height(b_mark[Leader]) |-> ht_blk_map[Leader][i]]

Log == INSTANCE ReplicatedLog WITH Entry <- Hash \ {Genesis}, log <- FiledLog

\* With one proposer the replicas implement one log that each of them executes
\* at most once: the proposer's ht_blk_map is the log, do_decide executes.
ImplementsLog == Log!LogSpec

-----------------------------------------------------------------------------
(* What holds whoever proposes.                                             *)

\* b0 is the one block without parents, at height 0, decided from the start.
BlocksOK ==
    /\ Genesis \in Known
    /\ Height(Genesis) = 0
    /\ Parents(Genesis) = <<>>
    /\ \A b \in Known \ {Genesis} : Height(b) > 0
    /\ \A r \in Replica : Genesis \in decision[r]

\* ht_blk_map[r][ht] is a block of height ht, b0 at 0.
MapOK ==
    \A r \in Replica :
        /\ HasHeight(r, 0)
        /\ \A ht \in DOMAIN ht_blk_map[r] : Height(ht_blk_map[r][ht]) = ht

\* The inductive invariant for any set of proposers.
CoreInv ==
    /\ TypeOK
    /\ BlocksOK
    /\ MapOK
    /\ HighestFiled
    /\ FiledIsPendingOrDecided
    /\ ExecutedOnce

-----------------------------------------------------------------------------
(* What holds when one replica proposes.                                    *)

\* The proposer has filed every block there is, at its height.
LeaderFiledAll == \A b \in Known : AlreadyHandled(Leader, b)

\* and there is one at every height up to b_mark's.
LeaderContiguous == DOMAIN ht_blk_map[Leader] = 0..Height(b_mark[Leader])

\* The parents of a block are what the proposer has on file below it.
ParentsFiled ==
    \A b \in Known :
        Parents(b) = [i \in 1..Height(b) |-> ht_blk_map[Leader][Height(b) - i]]

\* The inductive invariant for one proposer, on top of CoreInv.
LeaderInv ==
    /\ LeaderFiledAll
    /\ LeaderContiguous
    /\ ParentsFiled
    /\ NeverAborts

=============================================================================
