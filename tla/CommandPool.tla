---------------------------- MODULE CommandPool ----------------------------
(***************************************************************************)
(* Commands on their way from a client to their decision and back: the     *)
(* client program, exec_command and the queue of pending commands of every *)
(* replica, the blocks the proposer fills with them and the callbacks that *)
(* do_decide runs.                                                         *)
(*                                                                         *)
(* What happens to a block once it is proposed is module ReplicatedLog:    *)
(* there is one log and every replica executes an entry of it once, at any *)
(* time and in any order (shown of E2CCore for one proposer). Here the     *)
(* commands of a block are executed one by one, on the commit thread of    *)
(* the block, so that the main thread interleaves with them.               *)
(*                                                                         *)
(* A command is named by its number n: the client has one cid and its hash *)
(* depends on cid and n alone. A client that is killed and started again   *)
(* counts from zero again; epoch tells the two processes apart, as their   *)
(* addresses do.                                                           *)
(***************************************************************************)
EXTENDS Integers, Sequences, FiniteSets, Functions

CONSTANTS
    Replica,
    Proposer,    \* the replica all pace makers name
    BlkSize,     \* blk_size
    MaxAsync,    \* max_async_num, the window of the client
    MaxIter,     \* max_iter_num: commands a client process sends
    MaxRestart   \* bound: restarts of the client

ASSUME ReplicaAssumption == IsFiniteSet(Replica)
ASSUME ProposerAssumption == Proposer \in Replica
ASSUME SizesAssumption == {BlkSize, MaxAsync, MaxIter} \subseteq Nat \ {0}
ASSUME RestartAssumption == MaxRestart \in Nat

VARIABLES
    epoch,             \* which process of the client is running
    cnt,               \* how many commands it has sent
    confirmed,         \* waiting of the client: command -> responses counted
    acked,             \* the commands it has acknowledged
    reqs,              \* reqs[r]: on the way to r, <<command, epoch>>
    cmd_pending,       \* cmd_pending[r]: the queue between the threads
    buffer,            \* buffer[r]: cmd_pending_buffer
    decision_waiting,  \* decision_waiting[r]: command -> epoch of the callback
    log,               \* the blocks proposed: sequences of commands
    done,              \* done[r][i]: commands of block i that r has executed
    resps              \* resps[r]: on the way to the client

clientVars == <<epoch, cnt, confirmed, acked>>
poolVars == <<cmd_pending, buffer, decision_waiting>>
cvars == <<clientVars, poolVars, reqs, log, done, resps>>

Cmd == 0..(MaxIter - 1)

\* The client sets nfaulty from the number of replicas.
nfaulty == (Cardinality(Replica) - 1) \div 2

Answer(r, c, decision, to) ==
    resps' = [resps EXCEPT ![r] = Append(@, [cmd |-> c, decision |-> decision, epoch |-> to])]

Drop(m, k) == [x \in DOMAIN m \ {k} |-> m[x]]

\* while (try_send()): the commands sent now, when `known` are waiting.
Burst(known, sent) ==
    sent..(sent + (IF MaxAsync - Cardinality(known) < MaxIter - sent
                   THEN MaxAsync - Cardinality(known) ELSE MaxIter - sent) - 1)

\* Sends a burst to all replicas; `still` is what stays of the waiting commands.
SendAll(still, sent, e) ==
    LET new == Burst(DOMAIN still, sent) IN
    /\ cnt' = sent + Cardinality(new)
    /\ confirmed' = [c \in DOMAIN still \cup new |-> IF c \in new THEN 0 ELSE still[c]]
    /\ reqs' = [r \in Replica |->
                   reqs[r] \o [i \in 1..Cardinality(new) |-> <<sent + i - 1, e>>]]

\* A block is proposed; nobody has executed any of it.
NewBlock(cmds) ==
    /\ log' = Append(log, cmds)
    /\ done' = [r \in Replica |-> Append(done[r], 0)]

-----------------------------------------------------------------------------
(* Faulty variants of the actions below.                                    *)

\* The client acknowledges with nfaulty responses.
ClientRespEarly(r) ==
    /\ resps[r] # <<>>
    /\ LET m == Head(resps[r]) IN
       IF m.epoch # epoch \/ m.cmd \notin DOMAIN confirmed
       THEN UNCHANGED <<cnt, confirmed, acked, reqs>>
       ELSE IF confirmed[m.cmd] + 1 < nfaulty
       THEN /\ confirmed' = [confirmed EXCEPT ![m.cmd] = @ + 1]
            /\ UNCHANGED <<cnt, acked, reqs>>
       ELSE /\ acked' = acked \cup {m.cmd}
            /\ SendAll(Drop(confirmed, m.cmd), cnt, epoch)
    /\ resps' = [resps EXCEPT ![r] = Tail(@)]
    /\ UNCHANGED <<epoch, poolVars, log, done>>

\* The client waits for one response too many.
ClientRespLate(r) ==
    /\ resps[r] # <<>>
    /\ LET m == Head(resps[r]) IN
       IF m.epoch # epoch \/ m.cmd \notin DOMAIN confirmed
       THEN UNCHANGED <<cnt, confirmed, acked, reqs>>
       ELSE IF confirmed[m.cmd] <= nfaulty
       THEN /\ confirmed' = [confirmed EXCEPT ![m.cmd] = @ + 1]
            /\ UNCHANGED <<cnt, acked, reqs>>
       ELSE /\ acked' = acked \cup {m.cmd}
            /\ SendAll(Drop(confirmed, m.cmd), cnt, epoch)
    /\ resps' = [resps EXCEPT ![r] = Tail(@)]
    /\ UNCHANGED <<epoch, poolVars, log, done>>

\* A block is proposed only when the buffer holds more than a block.
HandlePendingOverfull(r) ==
    /\ cmd_pending[r] # <<>>
    /\ LET c == Head(cmd_pending[r])[1]
           from == Head(cmd_pending[r])[2]
           filled == Append(buffer[r], c)
       IN  /\ IF c \in DOMAIN decision_waiting[r]
              THEN Answer(r, c, 0, from) /\ UNCHANGED decision_waiting
              ELSE /\ decision_waiting' = [decision_waiting EXCEPT ![r] =
                          [x \in DOMAIN @ \cup {c} |-> IF x = c THEN from ELSE @[x]]]
                   /\ UNCHANGED resps
           /\ IF r # Proposer THEN UNCHANGED <<buffer, log, done>>
              ELSE IF Len(filled) <= BlkSize
              THEN buffer' = [buffer EXCEPT ![r] = filled] /\ UNCHANGED <<log, done>>
              ELSE /\ NewBlock(SubSeq(filled, 1, BlkSize))
                   /\ buffer' = [buffer EXCEPT ![r] = SubSeq(filled, BlkSize + 1, Len(filled))]
    /\ cmd_pending' = [cmd_pending EXCEPT ![r] = Tail(@)]
    /\ UNCHANGED <<clientVars, reqs>>

\* The last command of a block is left out.
DoDecideButLast(r, i) ==
    /\ i \in DOMAIN log
    /\ done[r][i] < Len(log[i]) - 1
    /\ LET c == log[i][done[r][i] + 1] IN
       IF c \in DOMAIN decision_waiting[r]
       THEN /\ Answer(r, c, 1, decision_waiting[r][c])
            /\ decision_waiting' = [decision_waiting EXCEPT ![r] = Drop(@, c)]
       ELSE UNCHANGED <<resps, decision_waiting>>
    /\ done' = [done EXCEPT ![r][i] = @ + 1]
    /\ UNCHANGED <<clientVars, cmd_pending, buffer, reqs, log>>

-----------------------------------------------------------------------------

CInit ==
    /\ epoch = 0
    /\ cnt = Cardinality(Burst({}, 0))
    /\ confirmed = [c \in Burst({}, 0) |-> 0]
    /\ acked = {}
    /\ reqs = [r \in Replica |-> [i \in 1..Cardinality(Burst({}, 0)) |-> <<i - 1, 0>>]]
    /\ cmd_pending = [r \in Replica |-> <<>>]
    /\ buffer = [r \in Replica |-> <<>>]
    /\ decision_waiting = [r \in Replica |-> [c \in {} |-> 0]]
    /\ log = <<>>
    /\ done = [r \in Replica |-> <<>>]
    /\ resps = [r \in Replica |-> <<>>]

\* client_request_cmd_handler, on the thread of the client network.
ClientRequestCmd(r) ==
    /\ reqs[r] # <<>>
    /\ reqs' = [reqs EXCEPT ![r] = Tail(@)]
    /\ cmd_pending' = [cmd_pending EXCEPT ![r] = Append(@, Head(reqs[r]))]
    /\ UNCHANGED <<clientVars, buffer, decision_waiting, log, done, resps>>

\* One turn of the handler of cmd_pending, on the main thread. A command that is
\* waiting for its decision already is answered at once with decision 0, and
\* goes into the buffer of the proposer all the same.
HandlePending(r) ==
    /\ cmd_pending[r] # <<>>
    /\ LET c == Head(cmd_pending[r])[1]
           from == Head(cmd_pending[r])[2]
           filled == Append(buffer[r], c)
       IN  /\ IF c \in DOMAIN decision_waiting[r]
              THEN Answer(r, c, 0, from) /\ UNCHANGED decision_waiting
              ELSE /\ decision_waiting' = [decision_waiting EXCEPT ![r] =
                          [x \in DOMAIN @ \cup {c} |-> IF x = c THEN from ELSE @[x]]]
                   /\ UNCHANGED resps
           /\ IF r # Proposer THEN UNCHANGED <<buffer, log, done>>
              ELSE IF Len(filled) < BlkSize
              THEN buffer' = [buffer EXCEPT ![r] = filled] /\ UNCHANGED <<log, done>>
              ELSE /\ NewBlock(SubSeq(filled, 1, BlkSize))
                   /\ buffer' = [buffer EXCEPT ![r] = SubSeq(filled, BlkSize + 1, Len(filled))]
    /\ cmd_pending' = [cmd_pending EXCEPT ![r] = Tail(@)]
    /\ UNCHANGED <<clientVars, reqs>>

\* do_decide for the next command of a block, on the commit thread of the block.
DoDecide(r, i) ==
    /\ i \in DOMAIN log
    /\ done[r][i] < Len(log[i])
    /\ LET c == log[i][done[r][i] + 1] IN
       IF c \in DOMAIN decision_waiting[r]
       THEN /\ Answer(r, c, 1, decision_waiting[r][c])
            /\ decision_waiting' = [decision_waiting EXCEPT ![r] = Drop(@, c)]
       ELSE UNCHANGED <<resps, decision_waiting>>
    /\ done' = [done EXCEPT ![r][i] = @ + 1]
    /\ UNCHANGED <<clientVars, cmd_pending, buffer, reqs, log>>

\* client_resp_cmd_handler. Answers to an earlier process have nowhere to go; the
\* decision of an answer is not looked at.
ClientRespCmd(r) ==
    /\ resps[r] # <<>>
    /\ LET m == Head(resps[r]) IN
       IF m.epoch # epoch \/ m.cmd \notin DOMAIN confirmed
       THEN UNCHANGED <<cnt, confirmed, acked, reqs>>
       ELSE IF confirmed[m.cmd] < nfaulty
       THEN /\ confirmed' = [confirmed EXCEPT ![m.cmd] = @ + 1]
            /\ UNCHANGED <<cnt, acked, reqs>>
       ELSE /\ acked' = acked \cup {m.cmd}
            /\ SendAll(Drop(confirmed, m.cmd), cnt, epoch)
    /\ resps' = [resps EXCEPT ![r] = Tail(@)]
    /\ UNCHANGED <<epoch, poolVars, log, done>>

\* The client is killed and run again.
ClientRestart ==
    /\ epoch < MaxRestart
    /\ epoch' = epoch + 1
    /\ acked' = {}
    /\ SendAll([c \in {} |-> 0], 0, epoch + 1)
    /\ UNCHANGED <<poolVars, log, done, resps>>

CNext ==
    \/ ClientRestart
    \/ \E r \in Replica :
          \/ ClientRequestCmd(r)
          \/ HandlePending(r)
          \/ ClientRespCmd(r)
          \/ \E i \in DOMAIN done[r] : DoDecide(r, i)

CSpec == CInit /\ [][CNext]_cvars

\* The threads of all processes run, timers fire, connections deliver.
CFairSpec ==
    /\ CSpec
    /\ \A r \in Replica :
          /\ WF_cvars(ClientRequestCmd(r))
          /\ WF_cvars(HandlePending(r))
          /\ WF_cvars(ClientRespCmd(r))
          /\ \A i \in 1..((MaxRestart + 1) * MaxIter) : WF_cvars(DoDecide(r, i))

-----------------------------------------------------------------------------
(* Properties.                                                              *)

CTypeOK ==
    /\ epoch \in 0..MaxRestart
    /\ cnt \in 0..MaxIter
    /\ DOMAIN confirmed \cup acked \subseteq Cmd
    /\ Cardinality(DOMAIN confirmed) <= MaxAsync
    /\ \A c \in DOMAIN confirmed : confirmed[c] \in 0..nfaulty
    /\ \A r \in Replica :
          /\ {reqs[r], cmd_pending[r]} \subseteq Seq(Cmd \X (0..epoch))
          /\ buffer[r] \in Seq(Cmd) /\ Len(buffer[r]) < BlkSize
          /\ decision_waiting[r] \in [DOMAIN decision_waiting[r] -> 0..epoch]
          /\ DOMAIN decision_waiting[r] \subseteq Cmd
          /\ resps[r] \in Seq([cmd : Cmd, decision : 0..1, epoch : 0..epoch])
    /\ log \in Seq(Seq(Cmd))

\* The commands r has executed.
Executed(r) ==
    {c \in Cmd : \E i \in DOMAIN log : \E k \in 1..done[r][i] : log[i][k] = c}

\* "wait for f + 1 ack": what the client acknowledges has been executed by more
\* replicas than may be faulty.
AckedIsExecuted ==
    epoch = 0 => \A c \in acked : Cardinality({r \in Replica : c \in Executed(r)}) > nfaulty

\* All the places of the proposer a command can be in after it was received.
Slots ==
    {<<"log", i, k>> : i \in DOMAIN log, k \in 1..BlkSize} \cup
    {<<"buffer", 0, k>> : k \in DOMAIN buffer[Proposer]}

CmdAt(s) == IF s[1] = "log" THEN log[s[2]][s[3]] ELSE buffer[Proposer][s[3]]

\* A command is proposed once, in the order of the requests, and none is lost
\* between the queue, the buffer and the blocks.
ProposedOnce ==
    epoch = 0 =>
        /\ \A s, t \in Slots : CmdAt(s) = CmdAt(t) => s = t
        /\ {CmdAt(s) : s \in Slots} =
              {c \in 0..(cnt - 1) :
                  \A i \in DOMAIN reqs[Proposer] : reqs[Proposer][i][1] # c} \
              {cmd_pending[Proposer][i][1] : i \in DOMAIN cmd_pending[Proposer]}

\* The proposer registers the callback before it proposes: it never decides a
\* command that still waits for an answer there.
ProposerAnswers ==
    \A c \in DOMAIN decision_waiting[Proposer] :
        \/ c \in Range(buffer[Proposer])
        \/ \E i \in DOMAIN log : \E k \in (done[Proposer][i] + 1)..BlkSize : log[i][k] = c

\* A replica that decides a command before it gets it from the client keeps the
\* callback for ever.
Missed(r, c) == c \in Executed(r) /\ c \in DOMAIN decision_waiting[r]

\* A command that is sent is acknowledged in the end, unless so many replicas
\* missed it that f + 1 answers cannot come.
AckedUnlessMissed ==
    \A c \in Cmd :
        (c \in DOMAIN confirmed) ~>
            \/ c \in acked
            \/ Cardinality({r \in Replica : Missed(r, c)})
                  >= Cardinality(Replica) - nfaulty

\* What is left of an acknowledgement when the client may be restarted: f + 1
\* answers, even if they say no more than that the command was waiting already,
\* come of replicas that were sent the command, and so was the proposer.
AckedGetsExecuted ==
    \A c \in Cmd :
        (c \in acked) ~> (Cardinality({r \in Replica : c \in Executed(r)}) > nfaulty)

=============================================================================
