------------------------------- MODULE E2CApp -------------------------------
(***************************************************************************)
(* The replica program: E2CCore under the command queue of E2CBase, its    *)
(* pace maker and the application that serves clients.                     *)
(*                                                                         *)
(* A command comes from the client to every replica, waits in cmd_pending  *)
(* and is registered in decision_waiting. The replica that its own pace    *)
(* maker names proposes blocks of blk_size commands; the others keep the   *)
(* command for its answer only. When the commit timer of a block fires,    *)
(* do_decide executes its commands one by one, each of which arms the      *)
(* impeachment timer anew. That timer moves the pace maker of the replica  *)
(* it fires on, and nobody tells the others.                               *)
(*                                                                         *)
(* Up to the first impeachment the program behaves as module CommandPool   *)
(* describes it from the side of the commands: the blocks there are what   *)
(* the first proposer has on file here. Networking is left to E2CCore's    *)
(* nondeterminism: a block that was proposed may be delivered and received *)
(* by anybody at any time. The client is the one of CommandPool, run once. *)
(***************************************************************************)
EXTENDS E2CCore, FiniteSets

CONSTANTS
    FirstProposer,  \* the id given to the pace makers at the start
    Rotation,       \* Rotation[r]: the replica with the next id
    BlkSize,        \* blk_size
    MaxAsync,       \* max_async_num, the window of the client
    MaxIter,        \* max_iter_num
    MaxImpeach      \* bound: impeachments

ASSUME ReplicaAssumption == IsFiniteSet(Replica)
ASSUME FirstProposerAssumption == FirstProposer \in Proposers
ASSUME RotationAssumption == Rotation \in [Replica -> Replica]
ASSUME AppSizesAssumption == /\ {BlkSize, MaxAsync, MaxIter} \subseteq Nat \ {0}
                             /\ MaxImpeach \in Nat

VARIABLES
    proposer,          \* proposer[r]: the proposer in the pace maker of r
    impeachments,      \* counter of the bounded event
    cmds,              \* the commands of the blocks: hash -> sequence
    ran,               \* ran[r][h]: how many commands of block h r has executed
    cnt, confirmed, acked, reqs, cmd_pending, buffer, decision_waiting, resps
                       \* as in CommandPool

paceVars == <<proposer, impeachments>>
blockVars == <<cmds, ran>>
cmdVars == <<cnt, confirmed, acked, reqs, cmd_pending, buffer, decision_waiting, resps>>
avars == <<vars, paceVars, blockVars, cmdVars>>

\* The blocks that the first proposer has on file, from height 1 upwards (b0, which has no
\* commands, stands in for a height that another proposer's block made it skip).
FiledFirst ==
    [i \in 1..Height(b_mark[FirstProposer]) |->
        IF HasHeight(FirstProposer, i) THEN ht_blk_map[FirstProposer][i] ELSE Genesis]

\* Their commands, and how many of them a replica has executed.
FiledCmds == [i \in DOMAIN FiledFirst |-> cmds[FiledFirst[i]]]
FiledRan == [r \in Replica |-> [i \in DOMAIN FiledFirst |-> ran[r][FiledFirst[i]]]]

Pool == INSTANCE CommandPool
    WITH Proposer <- FirstProposer, MaxRestart <- 0, epoch <- 0,
         log <- FiledCmds, done <- FiledRan

\* The command at the head of cmd_pending[r], and the epoch of its client.
Pending(r) == Head(cmd_pending[r])[1]
PendingFrom(r) == Head(cmd_pending[r])[2]
Filled(r) == Append(buffer[r], Pending(r))

-----------------------------------------------------------------------------
(* Faulty variants of the actions below.                                    *)

\* The callback is called when the command is queued, not when it is decided.
BeginPendingAnswers(r) ==
    /\ alive[r]
    /\ cmd_pending[r] # <<>>
    /\ cmd_pending' = [cmd_pending EXCEPT ![r] = Tail(@)]
    /\ Pool!Answer(r, Pending(r), 0, PendingFrom(r))
    /\ UNCHANGED <<paceVars, decision_waiting, cnt, confirmed, acked, reqs>>

\* The commands of a block are copied and stay in the buffer.
TakeNone(r) == Filled(r)

\* do_decide leaves the callback in the map.
ADoDecideKeep(r, b) ==
    /\ alive[r]
    /\ b \in decision[r]
    /\ ran[r][b] < Len(cmds[b])
    /\ LET c == cmds[b][ran[r][b] + 1] IN
       IF c \in DOMAIN decision_waiting[r]
       THEN Pool!Answer(r, c, 1, decision_waiting[r][c])
       ELSE UNCHANGED resps
    /\ ran' = [ran EXCEPT ![r][b] = @ + 1]
    /\ UNCHANGED <<vars, paceVars, cmds, cnt, confirmed, acked, reqs, cmd_pending, buffer,
                   decision_waiting>>

\* The last command of a block is left out.
ADoDecideButLast(r, b) ==
    /\ alive[r]
    /\ b \in decision[r]
    /\ ran[r][b] < Len(cmds[b]) - 1
    /\ LET c == cmds[b][ran[r][b] + 1] IN
       IF c \in DOMAIN decision_waiting[r]
       THEN /\ Pool!Answer(r, c, 1, decision_waiting[r][c])
            /\ decision_waiting' = [decision_waiting EXCEPT ![r] = Pool!Drop(@, c)]
       ELSE UNCHANGED <<resps, decision_waiting>>
    /\ ran' = [ran EXCEPT ![r][b] = @ + 1]
    /\ UNCHANGED <<vars, paceVars, cmds, cnt, confirmed, acked, reqs, cmd_pending, buffer>>

-----------------------------------------------------------------------------

AInit ==
    /\ Init
    /\ proposer = [r \in Replica |-> FirstProposer]
    /\ impeachments = 0
    /\ cmds = [b \in Hash |-> <<>>]
    /\ ran = [r \in Replica |-> [b \in Hash |-> 0]]
    /\ Pool!CInit

\* The client, and the thread of the client network, as in CommandPool.
AClientRequestCmd(r) ==
    /\ alive[r]
    /\ UNCHANGED <<vars, paceVars, blockVars>>
    /\ Pool!ClientRequestCmd(r)

AClientRespCmd(r) ==
    /\ UNCHANGED <<vars, paceVars, blockVars>>
    /\ Pool!ClientRespCmd(r)

\* What stays in the buffer when a block is taken from it.
Rest(r) == SubSeq(Filled(r), BlkSize + 1, Len(Filled(r)))

\* A turn of the handler of cmd_pending begins: the callback is registered, or answered at
\* once when the command is waiting already.
BeginPending(r) ==
    /\ alive[r]
    /\ cmd_pending[r] # <<>>
    /\ cmd_pending' = [cmd_pending EXCEPT ![r] = Tail(@)]
    /\ IF Pending(r) \in DOMAIN decision_waiting[r]
       THEN Pool!Answer(r, Pending(r), 0, PendingFrom(r)) /\ UNCHANGED decision_waiting
       ELSE /\ decision_waiting' = [decision_waiting EXCEPT ![r] = Put(@, Pending(r), PendingFrom(r))]
            /\ UNCHANGED resps
    /\ UNCHANGED <<paceVars, cnt, confirmed, acked, reqs>>

\* This replica is not the proposer, as far as its pace maker knows.
HandleAsFollower(r) ==
    /\ proposer[r] # r
    /\ BeginPending(r)
    /\ UNCHANGED <<vars, blockVars, buffer>>

\* The block is not full yet.
HandleAndBuffer(r) ==
    /\ proposer[r] = r
    /\ BeginPending(r)
    /\ Len(Filled(r)) < BlkSize
    /\ buffer' = [buffer EXCEPT ![r] = Filled(r)]
    /\ UNCHANGED <<vars, blockVars>>

\* The block is full: beat resolves at once, with the same proposer.
HandleAndPropose(r, h) ==
    /\ proposer[r] = r
    /\ BeginPending(r)
    /\ Len(Filled(r)) >= BlkSize
    /\ OnPropose(r, h)
    /\ cmds' = [cmds EXCEPT ![h] = SubSeq(Filled(r), 1, BlkSize)]
    /\ buffer' = [buffer EXCEPT ![r] = Rest(r)]
    /\ UNCHANGED ran

\* get_parents meets a gap in ht_blk_map.
HandleAndAbort(r) ==
    /\ proposer[r] = r
    /\ BeginPending(r)
    /\ Len(Filled(r)) >= BlkSize
    /\ OnProposeNullParent(r)
    /\ buffer' = [buffer EXCEPT ![r] = Rest(r)]
    /\ UNCHANGED blockVars

\* A block comes from the network.
ADeliver(r, b) == OnDeliverBlk(r, b) /\ UNCHANGED <<paceVars, blockVars, cmdVars>>

AReceive(r, b) == OnReceiveProposal(r, b) /\ UNCHANGED <<paceVars, blockVars, cmdVars>>

\* The commit timer of b; do_decide follows, command by command.
ACommit(r, b) == CommitTimerCb(r, b) /\ UNCHANGED <<paceVars, blockVars, cmdVars>>

\* do_decide for the next command of block b.
ADoDecide(r, b) ==
    /\ alive[r]
    /\ b \in decision[r]
    /\ ran[r][b] < Len(cmds[b])
    /\ LET c == cmds[b][ran[r][b] + 1] IN
       IF c \in DOMAIN decision_waiting[r]
       THEN /\ Pool!Answer(r, c, 1, decision_waiting[r][c])
            /\ decision_waiting' = [decision_waiting EXCEPT ![r] = Pool!Drop(@, c)]
       ELSE UNCHANGED <<resps, decision_waiting>>
    /\ ran' = [ran EXCEPT ![r][b] = @ + 1]
    /\ UNCHANGED <<vars, paceVars, cmds, cnt, confirmed, acked, reqs, cmd_pending, buffer>>

\* reset_imp_timer has been called.
TimerArmed(r) == \E b \in Hash : ran[r][b] > 0

\* The impeachment timer fires and is added again.
AImpeach(r) ==
    /\ alive[r]
    /\ TimerArmed(r)
    /\ impeachments < MaxImpeach
    /\ impeachments' = impeachments + 1
    /\ proposer' = [proposer EXCEPT ![r] = Rotation[@]]
    /\ UNCHANGED <<vars, blockVars, cmdVars>>

HandlePending(r) ==
    \/ HandleAsFollower(r)
    \/ HandleAndBuffer(r)
    \/ \E h \in Hash : HandleAndPropose(r, h)
    \/ HandleAndAbort(r)

\* What a replica does by itself, in the threads of its process.
ReplicaStep(r) ==
    \/ AClientRequestCmd(r)
    \/ AClientRespCmd(r)
    \/ HandlePending(r)
    \/ \E b \in Hash : ADeliver(r, b) \/ AReceive(r, b) \/ ACommit(r, b) \/ ADoDecide(r, b)

ANext == \E r \in Replica : ReplicaStep(r) \/ AImpeach(r)

ASpec == AInit /\ [][ANext]_avars

\* A process that has something to do, in whichever thread, does something: nothing is asked
\* of the impeachment timer. A replica has finitely much to do for a command, so none of it
\* is put off for ever.
AFairness == \A r \in Replica : WF_avars(ReplicaStep(r))

AFairSpec == ASpec /\ AFairness

-----------------------------------------------------------------------------
(* What the step from this module to CommandPool rests on.                  *)

\* Only a block that was proposed has commands, only such a block is executed, and the pace
\* makers agree until the first impeachment.
AppInv ==
    /\ impeachments \in Nat
    /\ proposer \in [Replica -> Replica]
    /\ impeachments = 0 => \A r \in Replica : proposer[r] = FirstProposer
    /\ DOMAIN cmds = Hash
    /\ \A b \in Hash : b \notin Known \ {Genesis} => cmds[b] = <<>>
    /\ ran \in [Replica -> [Hash -> Nat]]
    /\ \A r \in Replica, b \in Hash : b \notin Known \ {Genesis} => ran[r][b] = 0

-----------------------------------------------------------------------------
(* Properties.                                                              *)

\* Until somebody is impeached the replicas serve the client as CommandPool says: through
\* the queue, the protocol and the commit threads, on every replica, its steps are taken
\* and no others.
PoolUntilImpeached ==
    Pool!CInit /\ [][impeachments = 0 => Pool!CNext]_(Pool!cvars)

\* The commands r has executed.
Executed(r) == {c \in Pool!Cmd : \E b \in Hash : \E k \in 1..ran[r][b] : cmds[b][k] = c}

\* What the client acknowledges more replicas than may be faulty have executed, whoever
\* proposes and whoever died.
AckedIsExecuted ==
    \A c \in acked : Cardinality({r \in Replica : c \in Executed(r)}) > Pool!nfaulty

\* A replica proposes a command once at most, though its pace maker may lose the office
\* with commands in the buffer and get it back.
ProposedOnceByEach ==
    \A r \in Replica : \A b, d \in Known \ {Genesis} :
        blocks[b].proposer = r /\ blocks[d].proposer = r =>
            /\ \A i \in DOMAIN cmds[b], k \in DOMAIN cmds[d] :
                  cmds[b][i] = cmds[d][k] => b = d /\ i = k
            /\ Range(cmds[b]) \cap Range(buffer[r]) = {}

\* Until somebody is impeached no command is lost or doubled between the client's request
\* and the blocks, and the proposer can answer every command it executes.
NoneLost == impeachments = 0 => Pool!ProposedOnce /\ Pool!ProposerAnswers

\* "Submit the command to be decided": unless somebody is impeached, time and again
\* whatever has been submitted has been executed, by every replica.
SubmittedIsDecided ==
    []<>(\/ impeachments > 0
         \/ \A c \in 0..(cnt - 1) : \A r \in Replica : c \in Executed(r))

=============================================================================
