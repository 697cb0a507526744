----------------------------- MODULE MCE2CSync -----------------------------
(***************************************************************************)
(* Small instances of E2CSync. Handlers are not interrupted: they take no  *)
(* time, and MCE2CBase says why it is enough. Only the first proposer      *)
(* stops, between two handlers, with something cut off: a replica that is  *)
(* not the proposer, or stops with nothing under way, keeps nothing from   *)
(* the others, and the cut tells where in a handler it was.                *)
(***************************************************************************)
EXTENDS E2CSync, TLC

CONSTANTS r1, r2, r3

Ring2 == (r1 :> r2) @@ (r2 :> r1)
Ring3 == (r1 :> r2) @@ (r2 :> r3) @@ (r3 :> r1)

Fresh == Permutations(Hash \ {Genesis})

\* The replicas but the first proposer are alike until somebody is impeached.
FreshAndFollowers == Fresh \cup Permutations(Replica \ {FirstProposer})

NoHandler == \A r \in Replica : Up(r) => stack[r] = <<>>

SCallNext ==
    \/ Tick
    \/ \E r \in Replica :
          \/ SHandlerStep(r)
          \/ /\ NoHandler
             /\ \/ SProposeNullParent(r)
                \/ SImpeach(r)
                \/ \E b \in Hash : SPropose(r, b) \/ SCommitTimerCb(r, b)
                \/ \E s \in Replica \ {r} : SHandleMessage(s, r)

SCallSpec == SInit /\ [][SCallNext]_svars

\* The first proposer may stop, and the first impeachment is the end.
CalmNext ==
    /\ impeachments = 0
    /\ \/ Tick
       \/ \E r \in Replica :
             \/ SHandlerStep(r)
             \/ /\ NoHandler
                /\ \/ SImpeach(r)
                   \/ \E b \in Hash : SPropose(r, b) \/ SCommitTimerCb(r, b)
                   \/ \E s \in Replica \ {r} : SHandleMessage(s, r)
       \/ \E kept \in [Replica \ {FirstProposer} -> 0..(2 * Cardinality(Hash))] :
             /\ NoHandler
             /\ \E q \in Replica \ {FirstProposer} : kept[q] < Len(chan[<<FirstProposer, q>>])
             /\ Crash(FirstProposer, kept)

CalmSpec == SInit /\ [][CalmNext]_svars

=============================================================================
