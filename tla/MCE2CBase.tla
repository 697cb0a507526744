----------------------------- MODULE MCE2CBase -----------------------------
(***************************************************************************)
(* Small instances of E2CBase.                                             *)
(*                                                                         *)
(* The runs of the network layer with three replicas use NetSpec, a        *)
(* reduction of BSpec. A commit timer reads and writes nothing that        *)
(* another action but Impeach reads, and Impeach is bounded by zero there; *)
(* a step of a handler only touches the tables of its own replica and      *)
(* appends to its own channels. So for properties of what is stored,       *)
(* delivered, filed and sent it is enough to look at the behaviours where  *)
(* no timer fires and a handler is not interrupted.                        *)
(***************************************************************************)
EXTENDS E2CBase, TLC

CONSTANTS r1, r2, r3

\* Ids in the order of the names.
Ring2 == (r1 :> r2) @@ (r2 :> r1)
Ring3 == (r1 :> r2) @@ (r2 :> r3) @@ (r3 :> r1)

\* Fresh hashes are alike.
Fresh == Permutations(Hash \ {Genesis})

NoHandler == \A r \in Replica : Up(r) => stack[r] = <<>>

NetNext ==
    \E r \in Replica :
        \/ HandlerStep(r)
        \/ /\ NoHandler
           /\ \/ \E b \in Hash : BPropose(r, b) \/ FetchTimeout(r, b)
              \/ \E s \in Replica \ {r} : HandleMessage(s, r) \/ Lose(s, r)

NetSpec == BInit /\ [][NetNext]_bvars

=============================================================================
