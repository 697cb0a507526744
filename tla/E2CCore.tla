------------------------------ MODULE E2CCore ------------------------------
(***************************************************************************)
(* The protocol state machine of libe2c "without network implementation"   *)
(* (class E2CCore): one object per replica, all of them in one module.     *)
(*                                                                         *)
(* A replica learns blocks in two steps. The user of the class first calls *)
(* on_deliver_blk (the block is fetched and its parents are delivered) and *)
(* then on_receive_proposal, which files the block in ht_blk_map, the map  *)
(* from heights to blocks, and arms a timer of 2\Delta that commits it.    *)
(* The proposer does both for its own block inside on_propose.             *)
(*                                                                         *)
(* Abstractions.                                                           *)
(*  - A block is named by its hash, a model value; hashes do not collide.  *)
(*    `blocks` maps the hash of every block proposed so far to what the    *)
(*    protocol reads of it. Commands, extra and signature are not read by  *)
(*    this class.                                                          *)
(*  - on_propose creates a block and broadcasts it in the same call, so    *)
(*    the blocks in `blocks` are exactly those a replica may be handed.    *)
(*  - The caller keeps the contract written at the declarations: a block   *)
(*    is passed to on_deliver_blk only when its parents are delivered and  *)
(*    to on_receive_proposal only when it is delivered itself. Nothing     *)
(*    else is assumed of the order of the calls; module E2CBase models the *)
(*    caller of this repository.                                           *)
(*  - A commit timer may fire at any time after it is armed: the commit    *)
(*    threads are not ordered with each other nor with the main thread.    *)
(*  - A call that throws or dereferences a null pointer ends the process:  *)
(*    alive[r] becomes FALSE.                                              *)
(***************************************************************************)
EXTENDS Integers, Sequences, Functions

CONSTANTS
    Replica,    \* the replicas of the configuration
    Proposers,  \* the replicas that act as the proposer
    Hash,       \* the hashes of blocks; bounds the number of proposals
    Genesis     \* the hash of b0

ASSUME ProposersAssumption == Proposers \subseteq Replica
ASSUME GenesisAssumption == Genesis \in Hash

VARIABLES
    blocks,        \* what has been proposed: hash -> proposer, height, parents
    alive,         \* alive[r]: the process of r has not aborted
    delivered,     \* delivered[r]: the blocks with blk->delivered
    tails,         \* tails[r]
    ht_blk_map,    \* ht_blk_map[r]: height -> block, defined where it has a key
    b_mark,        \* b_mark[r]
    commit_timer,  \* commit_timer[r]: the blocks whose timer is armed
    decision,      \* decision[r]: the blocks with blk->decision = 1
    executed       \* executed[r]: what r handed to do_consensus / do_decide

vars == <<blocks, alive, delivered, tails, ht_blk_map, b_mark, commit_timer,
          decision, executed>>

-----------------------------------------------------------------------------

\* m[k] = v for a map: inserts the key or overwrites its value.
Put(m, k, v) == [x \in DOMAIN m \cup {k} |-> IF x = k THEN v ELSE m[x]]

Height(b) == blocks[b].height
Parents(b) == blocks[b].parents
Known == DOMAIN blocks

HasHeight(r, ht) == ht \in DOMAIN ht_blk_map[r]

\* The guard of on_receive_proposal: this very block is on file already.
AlreadyHandled(r, b) == HasHeight(r, Height(b)) /\ ht_blk_map[r][Height(b)] = b

-----------------------------------------------------------------------------
\* get_parents extends the last executed block, b_comm, instead of b_mark.
GetParentsOfCommitted(r) == <<Genesis>>

\* get_parents lists the blocks upwards, b0 first.
GetParentsUpwards(r) ==
    [i \in 1..(Height(b_mark[r]) + 1) |->
        IF i = 1 THEN Genesis ELSE ht_blk_map[r][i - 1]]

\* get_parents starts one height above b_mark.
NoNullParentFromNext(r) ==
    \A ht \in 1..(Height(b_mark[r]) + 1) : HasHeight(r, ht)

-----------------------------------------------------------------------------

\* get_parents reads ht_blk_map at every height up to b_mark's; operator[] of
\* the map would insert a null block at a height without a key.
NoNullParent(r) == \A ht \in 1..Height(b_mark[r]) : HasHeight(r, ht)

\* From the highest known block down to b0.
GetParents(r) ==
    LET top == Height(b_mark[r]) IN
    [i \in 1..(top + 1) |-> IF i <= top THEN ht_blk_map[r][top + 1 - i]
                                        ELSE Genesis]

-----------------------------------------------------------------------------
(* Faulty variants of the actions, likewise.                                *)

\* update files an equivocating block over the first one.
UpdateOverwrite(r, b, ht) ==
    IF HasHeight(r, ht) /\ ht_blk_map[r][ht] = b
    THEN UNCHANGED <<ht_blk_map, b_mark, commit_timer>>
    ELSE /\ ht_blk_map' = [ht_blk_map EXCEPT ![r] = Put(@, ht, b)]
         /\ b_mark' = [b_mark EXCEPT ![r] = IF Height(@) < ht THEN b ELSE @]
         /\ commit_timer' = [commit_timer EXCEPT ![r] = @ \cup {b}]

\* update marks every new block, highest or not.
UpdateMarkLast(r, b, ht) ==
    IF HasHeight(r, ht)
    THEN UNCHANGED <<ht_blk_map, b_mark, commit_timer>>
    ELSE /\ ht_blk_map' = [ht_blk_map EXCEPT ![r] = Put(@, ht, b)]
         /\ b_mark' = [b_mark EXCEPT ![r] = b]
         /\ commit_timer' = [commit_timer EXCEPT ![r] = @ \cup {b}]

\* update arms the timer of a new highest block only.
UpdateTimeHighest(r, b, ht) ==
    IF HasHeight(r, ht)
    THEN UNCHANGED <<ht_blk_map, b_mark, commit_timer>>
    ELSE /\ ht_blk_map' = [ht_blk_map EXCEPT ![r] = Put(@, ht, b)]
         /\ b_mark' = [b_mark EXCEPT ![r] = IF Height(@) < ht THEN b ELSE @]
         /\ commit_timer' = [commit_timer EXCEPT ![r] =
                IF Height(b_mark[r]) < ht THEN @ \cup {b} ELSE @]

\* on_receive_proposal without sanity_check_delivered.
OnReceiveUndelivered(r, b) ==
    /\ alive[r]
    /\ b \in Known \ {Genesis}
    /\ ~ AlreadyHandled(r, b)
    /\ UpdateMarkLast(r, b, Height(b))
    /\ UNCHANGED <<blocks, alive, delivered, tails, decision, executed>>

\* commit_timer_cb neither tests the decision nor deletes the timer.
CommitAgain(r, b) ==
    /\ alive[r]
    /\ b \in commit_timer[r]
    /\ decision' = [decision EXCEPT ![r] = @ \cup {b}]
    /\ executed' = [executed EXCEPT ![r] = Append(@, b)]
    /\ UNCHANGED <<blocks, alive, delivered, tails, ht_blk_map, b_mark, commit_timer>>

-----------------------------------------------------------------------------

Block == [proposer : Replica \cup {"none"}, height : Nat, parents : Seq(Hash)]

GenesisBlock == [proposer |-> "none", height |-> 0, parents |-> <<>>]

\* The constructor, then on_init.
Init ==
    /\ blocks = [b \in {Genesis} |-> GenesisBlock]
    /\ alive = [r \in Replica |-> TRUE]
    /\ delivered = [r \in Replica |-> {Genesis}]
    /\ tails = [r \in Replica |-> {Genesis}]
    /\ ht_blk_map = [r \in Replica |-> [ht \in {0} |-> Genesis]]
    /\ b_mark = [r \in Replica |-> Genesis]
    /\ commit_timer = [r \in Replica |-> {}]
    /\ decision = [r \in Replica |-> {Genesis}]
    /\ executed = [r \in Replica |-> <<>>]

\* What on_deliver_blk does to a block that is not delivered yet.
Deliver(r, b, parents) ==
    /\ delivered' = [delivered EXCEPT ![r] = @ \cup {b}]
    /\ tails' = [tails EXCEPT ![r] = (@ \ Range(parents)) \cup {b}]

\* update: a second block at the same height is only logged ("the leader has
\* equivocated"), the same block again is ignored.
Update(r, b, ht) ==
    IF HasHeight(r, ht)
    THEN UNCHANGED <<ht_blk_map, b_mark, commit_timer>>
    ELSE /\ ht_blk_map' = [ht_blk_map EXCEPT ![r] = Put(@, ht, b)]
         /\ b_mark' = [b_mark EXCEPT ![r] = IF Height(@) < ht THEN b ELSE @]
         /\ commit_timer' = [commit_timer EXCEPT ![r] = @ \cup {b}]

\* on_propose(cmds, get_parents()), the only way this repository calls it.
OnPropose(r, h) ==
    /\ alive[r]
    /\ r \in Proposers
    /\ h \in Hash \ Known
    /\ NoNullParent(r)
    /\ LET ps == GetParents(r)
           ht == Height(ps[1]) + 1
       IN  /\ blocks' = Put(blocks, h, [proposer |-> r, height |-> ht, parents |-> ps])
           /\ Deliver(r, h, ps)
           /\ Update(r, h, ht)
    /\ UNCHANGED <<alive, decision, executed>>

\* The same call when the map has a gap below b_mark: the block constructor
\* reads the hash of a null parent.
OnProposeNullParent(r) ==
    /\ alive[r]
    /\ r \in Proposers
    /\ ~ NoNullParent(r)
    /\ alive' = [alive EXCEPT ![r] = FALSE]
    /\ UNCHANGED <<blocks, delivered, tails, ht_blk_map, b_mark, commit_timer,
                   decision, executed>>

\* on_deliver_blk. It returns false and does nothing for a delivered block.
OnDeliverBlk(r, b) ==
    /\ alive[r]
    /\ b \in Known \ delivered[r]
    /\ Range(Parents(b)) \subseteq delivered[r]
    /\ Deliver(r, b, Parents(b))
    /\ UNCHANGED <<blocks, alive, ht_blk_map, b_mark, commit_timer, decision, executed>>

\* on_receive_proposal. Forwarding a block that everybody may be handed anyway
\* changes nothing here.
OnReceiveProposal(r, b) ==
    /\ alive[r]
    /\ b \in delivered[r] \ {Genesis}
    /\ ~ AlreadyHandled(r, b)
    /\ Update(r, b, Height(b))
    /\ UNCHANGED <<blocks, alive, delivered, tails, decision, executed>>

\* commit_timer_cb(ht), run by the timer of b. The loop over the heights below
\* ht always looks up the map at ht itself: its second turn finds the block it
\* has just decided and returns.
CommitTimerCb(r, b) ==
    /\ alive[r]
    /\ b \in commit_timer[r]
    /\ LET blk == ht_blk_map[r][Height(b)] IN
       IF blk \in decision[r]
       THEN /\ commit_timer' = [commit_timer EXCEPT ![r] = @ \ {b}]
            /\ UNCHANGED <<decision, executed>>
       ELSE /\ commit_timer' = [commit_timer EXCEPT ![r] = @ \ {b, blk}]
            /\ decision' = [decision EXCEPT ![r] = @ \cup {blk}]
            /\ executed' = [executed EXCEPT ![r] = Append(@, blk)]
    /\ UNCHANGED <<blocks, alive, delivered, tails, ht_blk_map, b_mark>>

Next ==
    \E r \in Replica :
        \/ OnProposeNullParent(r)
        \/ \E b \in Hash : \/ OnPropose(r, b)
                           \/ OnDeliverBlk(r, b)
                           \/ OnReceiveProposal(r, b)
                           \/ CommitTimerCb(r, b)

Spec == Init /\ [][Next]_vars

\* An armed timer of a running process fires: the commit thread of the block
\* runs nothing but the event loop of that timer.
FairSpec == Spec /\ \A r \in Replica : \A h \in Hash : WF_vars(CommitTimerCb(r, h))

-----------------------------------------------------------------------------
(* Properties.                                                              *)

\* The types of the state, with the contract at the declarations of the class:
\* whatever is filed, marked, timed or decided has been delivered.
TypeOK ==
    /\ DOMAIN blocks \in SUBSET Hash
    /\ \A b \in Known : blocks[b] \in Block
    /\ alive \in [Replica -> BOOLEAN]
    /\ delivered \in [Replica -> SUBSET Known]
    /\ tails \in [Replica -> SUBSET Known]
    /\ DOMAIN ht_blk_map = Replica
    /\ \A r \in Replica : /\ DOMAIN ht_blk_map[r] \in SUBSET Nat
                          /\ ht_blk_map[r] \in [DOMAIN ht_blk_map[r] -> delivered[r]]
    /\ b_mark \in [Replica -> Known]
    /\ commit_timer \in [Replica -> SUBSET Known]
    /\ decision \in [Replica -> SUBSET Known]
    /\ \A r \in Replica : {b_mark[r]} \cup commit_timer[r] \cup decision[r]
                              \subseteq delivered[r]
    /\ executed \in [Replica -> Seq(Hash)]

\* Agreement for one proposer: whatever any two replicas decide, in whatever
\* order their timers fire, one of the two blocks is the other or its ancestor.
OneChain ==
    \A r, s \in Replica : \A b \in decision[r], c \in decision[s] :
        \/ b = c
        \/ b \in Range(Parents(c))
        \/ c \in Range(Parents(b))

\* get_parents returns a whole chain: the parents a block names are, in order,
\* its first parent and the parents that one names, down to b0.
ParentsAreChain ==
    \A b \in Known \ {Genesis} :
        LET p == Parents(b)[1] IN
        /\ Height(b) = Height(p) + 1
        /\ Parents(b) = <<p>> \o Parents(p)

\* A single proposer never finds a gap below b_mark: no replica aborts.
NeverAborts == \A r \in Replica : alive[r]

\* b_mark is on file at its height and nothing higher is.
HighestFiled ==
    \A r \in Replica :
        /\ AlreadyHandled(r, b_mark[r])
        /\ \A ht \in DOMAIN ht_blk_map[r] : ht <= Height(b_mark[r])

\* Every block on file is either decided or waiting for its own timer, never
\* both, and nothing else is: no timer looks up somebody else's block, an
\* equivocating block that lost its height is never decided.
FiledIsPendingOrDecided ==
    \A r \in Replica :
        /\ commit_timer[r] = Range(ht_blk_map[r]) \ decision[r]
        /\ decision[r] \subseteq Range(ht_blk_map[r])

\* A replica hands a block to do_decide exactly when it decides it, once.
ExecutedOnce ==
    \A r \in Replica :
        /\ Range(executed[r]) = decision[r] \ {Genesis}
        /\ \A i, j \in DOMAIN executed[r] : executed[r][i] = executed[r][j] => i = j

\* The first block filed at a height stays there, whatever arrives later.
FiledForever ==
    [][\A r \in Replica : \A ht \in DOMAIN ht_blk_map[r] :
          /\ ht \in DOMAIN ht_blk_map'[r]
          /\ ht_blk_map'[r][ht] = ht_blk_map[r][ht]]_vars

\* A block that is filed is decided in the end unless the process aborts, also
\* when it arrives below blocks that are decided already.
FiledIsDecided ==
    \A r \in Replica : \A h \in Hash :
        (h \in Range(ht_blk_map[r])) ~> (h \in decision[r] \/ ~ alive[r])

-----------------------------------------------------------------------------
(* What comments in the code say and the code does not do.                  *)

\* "Commit this block and all parents": a decided block has decided ancestors.
AncestorsCommitted ==
    \A r \in Replica : \A b \in decision[r] : Range(Parents(b)) \subseteq decision[r]

=============================================================================
