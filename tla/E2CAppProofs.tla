---------------------------- MODULE E2CAppProofs ----------------------------
(***************************************************************************)
(* The replica program uses E2CCore as its declarations ask, whoever the   *)
(* pace makers name; until the first impeachment it serves the client as   *)
(* CommandPool describes; and whoever proposes later, no command is        *)
(* acknowledged that is not executed nor proposed twice by one replica.    *)
(***************************************************************************)
EXTENDS E2CApp, E2CCoreProofs, FiniteSetTheorems

\* Every step of the program is one call of E2CCore or none.
LEMMA AStepIsCoreStep == [ANext]_avars => [Next]_vars
<1> SUFFICES ASSUME [ANext]_avars PROVE [Next]_vars
    OBVIOUS
<1>1. CASE UNCHANGED avars
    BY <1>1 DEF avars
<1>2. ASSUME NEW r \in Replica, AImpeach(r) \/ AClientRequestCmd(r) \/ AClientRespCmd(r)
      PROVE  [Next]_vars
    BY <1>2 DEF AImpeach, AClientRequestCmd, AClientRespCmd
<1>3. ASSUME NEW r \in Replica, HandlePending(r) PROVE [Next]_vars
    BY <1>3 DEF HandlePending, HandleAsFollower, HandleAndBuffer, HandleAndPropose,
                HandleAndAbort, Next
<1>4. ASSUME NEW r \in Replica, NEW b \in Hash,
             ADeliver(r, b) \/ AReceive(r, b) \/ ACommit(r, b) \/ ADoDecide(r, b)
      PROVE  [Next]_vars
    BY <1>4 DEF ADeliver, AReceive, ACommit, ADoDecide, Next
<1> QED BY <1>1, <1>2, <1>3, <1>4 DEF ANext, ReplicaStep

\* Under the command queue, the pace makers and the application the protocol is used as
\* its declarations ask (e2c.cpp:378-411).
THEOREM AppUsesCore == ASpec => Spec
<1>1. AInit => Init
    BY DEF AInit
<1> QED BY <1>1, AStepIsCoreStep, PTL DEF ASpec, Spec

\* Whoever is impeached, a replica hands a block to do_decide once (consensus.cpp:207-230).
THEOREM AppExecutesOnce == ASpec => []ExecutedOnce
BY AppUsesCore, ExecutesOnce, PTL

LEMMA InitAppInv == AInit => AppInv
<1> SUFFICES ASSUME AInit PROVE AppInv
    OBVIOUS
<1>1. impeachments \in Nat /\ proposer \in [Replica -> Replica]
    BY FirstProposerAssumption, ProposersAssumption DEF AInit
<1>2. impeachments = 0 => \A r \in Replica : proposer[r] = FirstProposer
    BY DEF AInit
<1>3. DOMAIN cmds = Hash /\ \A b \in Hash : cmds[b] = <<>>
    BY DEF AInit
<1>4. ran \in [Replica -> [Hash -> Nat]] /\ \A r \in Replica, b \in Hash : ran[r][b] = 0
    BY DEF AInit
<1> QED BY <1>1, <1>2, <1>3, <1>4 DEF AppInv

LEMMA AppInvStep == CoreInv /\ AppInv /\ [ANext]_avars => AppInv'
<1> SUFFICES ASSUME CoreInv, AppInv, [ANext]_avars PROVE AppInv'
    OBVIOUS
<1>1. CASE UNCHANGED <<blocks, paceVars, blockVars>>
    <2>1. /\ blocks' = blocks /\ proposer' = proposer /\ impeachments' = impeachments
          /\ cmds' = cmds /\ ran' = ran
        BY <1>1 DEF paceVars, blockVars
    <2> QED BY <2>1 DEF AppInv, Known
<1>2. ASSUME NEW r \in Replica, AImpeach(r) PROVE AppInv'
    <2>1. /\ blocks' = blocks /\ cmds' = cmds /\ ran' = ran
          /\ impeachments' = impeachments + 1
          /\ proposer' = [proposer EXCEPT ![r] = Rotation[@]]
        BY <1>2 DEF AImpeach, vars, blockVars
    <2>2. impeachments' \in Nat \ {0}
        BY <2>1 DEF AppInv
    <2>3. proposer \in [Replica -> Replica] /\ Rotation[proposer[r]] \in Replica
        BY RotationAssumption DEF AppInv
    <2>4. proposer' \in [Replica -> Replica]
        BY <2>1, <2>3
    <2>5. impeachments' # 0 /\ Known' = Known
        BY <2>1, <2>2 DEF Known
    <2> QED BY <2>1, <2>2, <2>4, <2>5 DEF AppInv
<1>3. ASSUME NEW r \in Replica, NEW h \in Hash, HandleAndPropose(r, h) PROVE AppInv'
    <2>1. /\ h \notin Known
          /\ Known' = Known \cup {h}
          /\ cmds' = [cmds EXCEPT ![h] = SubSeq(Filled(r), 1, BlkSize)]
          /\ UNCHANGED <<paceVars, ran>>
        BY <1>3 DEF HandleAndPropose, OnPropose, Put, Known, BeginPending
    <2>2. \A b \in Hash : b \notin Known' \ {Genesis} =>
              b \notin Known \ {Genesis} /\ cmds'[b] = cmds[b]
        BY <2>1, GenesisAssumption DEF AppInv, CoreInv, BlocksOK
    <2>3. DOMAIN cmds' = Hash
        BY <2>1 DEF AppInv
    <2>4. proposer' = proposer /\ impeachments' = impeachments /\ ran' = ran
        BY <2>1 DEF paceVars
    <2> QED BY <2>2, <2>3, <2>4 DEF AppInv
<1>4. ASSUME NEW r \in Replica, NEW b \in Hash, ADoDecide(r, b) PROVE AppInv'
    <2>1. /\ ran[r][b] \in Nat /\ ran[r][b] < Len(cmds[b])
          /\ ran' = [ran EXCEPT ![r][b] = @ + 1]
          /\ UNCHANGED <<blocks, paceVars, cmds>>
        BY <1>4 DEF ADoDecide, vars, AppInv
    <2>2. b \in Known \ {Genesis}
        BY <2>1 DEF AppInv
    <2> QED BY <2>1, <2>2 DEF AppInv, paceVars, Known
<1>5. CASE UNCHANGED avars
    BY <1>1, <1>5 DEF avars, vars
<1>6. ASSUME NEW r \in Replica,
             \/ AClientRequestCmd(r) \/ AClientRespCmd(r)
             \/ HandleAsFollower(r) \/ HandleAndBuffer(r) \/ HandleAndAbort(r)
             \/ \E b \in Hash : ADeliver(r, b) \/ AReceive(r, b) \/ ACommit(r, b)
      PROVE  AppInv'
    <2>1. UNCHANGED <<blocks, paceVars, blockVars>>
        BY <1>6 DEF AClientRequestCmd, AClientRespCmd, HandleAsFollower, HandleAndBuffer,
                    HandleAndAbort, BeginPending, OnProposeNullParent, ADeliver, OnDeliverBlk,
                    AReceive, OnReceiveProposal, ACommit, CommitTimerCb, vars
    <2> QED BY <1>1, <2>1
<1> QED BY <1>2, <1>3, <1>4, <1>5, <1>6 DEF ANext, ReplicaStep, HandlePending

-----------------------------------------------------------------------------
(* Until the first impeachment one replica proposes, whichever may do so    *)
(* later: the protocol is then E2CCore with this proposer alone.            *)

One == INSTANCE E2CCoreProofs WITH Proposers <- {FirstProposer}

LEMMA OneProposer ==
    /\ FirstProposer \in Replica /\ {FirstProposer} \subseteq Replica /\ Genesis \in Hash
    /\ One!SingleProposer /\ One!Leader = FirstProposer
<1>1. FirstProposer \in Replica /\ {FirstProposer} \subseteq Replica
    BY FirstProposerAssumption, ProposersAssumption
<1>2. \E r \in Replica : {FirstProposer} = {r}
    BY <1>1
<1>3. (CHOOSE r \in Replica : {FirstProposer} = {r}) = FirstProposer
    BY <1>1
<1> QED BY <1>1, <1>2, <1>3, GenesisAssumption DEF One!SingleProposer, One!Leader

LEMMA OneProposes ==
    ASSUME NEW h, OnPropose(FirstProposer, h)
    PROVE  One!OnPropose(FirstProposer, h)
BY DEF OnPropose, One!OnPropose, NoNullParent, One!NoNullParent, GetParents, One!GetParents,
       Deliver, One!Deliver, Update, One!Update, HasHeight, One!HasHeight, Height, One!Height,
       Put, One!Put, Known, One!Known, Range, One!Range

LEMMA OneStep ==
    ASSUME AppInv, [ANext]_avars, impeachments' = 0
    PROVE  [One!Next]_(One!vars)
<1>1. \A r \in Replica : ~ AImpeach(r)
    BY DEF AppInv, AImpeach
<1>2. impeachments = 0
    BY <1>1 DEF ANext, ReplicaStep, AClientRequestCmd, AClientRespCmd, HandlePending, HandleAsFollower,
                HandleAndBuffer, HandleAndPropose, HandleAndAbort, BeginPending, ADeliver, AReceive,
                ACommit, ADoDecide, avars, paceVars
<1>3. \A r \in Replica : proposer[r] = FirstProposer
    BY <1>2 DEF AppInv
<1>4. CASE UNCHANGED vars
    BY <1>4 DEF vars, One!vars
<1>5. ASSUME NEW r \in Replica, AClientRequestCmd(r) \/ AClientRespCmd(r) \/ HandleAsFollower(r)
                                \/ HandleAndBuffer(r) \/ \E b \in Hash : ADoDecide(r, b)
      PROVE  UNCHANGED vars
    BY <1>5 DEF AClientRequestCmd, AClientRespCmd, HandleAsFollower, HandleAndBuffer, ADoDecide
<1>6. ASSUME NEW r \in Replica, NEW h \in Hash, HandleAndPropose(r, h) PROVE One!Next
    <2>1. OnPropose(r, h) /\ r = FirstProposer
        BY <1>3, <1>6 DEF HandleAndPropose
    <2> QED BY <2>1, OneProposes DEF One!Next
<1>7. ASSUME NEW r \in Replica, HandleAndAbort(r) PROVE One!Next
    <2>1. OnProposeNullParent(r) /\ r = FirstProposer
        BY <1>3, <1>7 DEF HandleAndAbort
    <2>2. One!OnProposeNullParent(r)
        BY <2>1 DEF OnProposeNullParent, One!OnProposeNullParent, NoNullParent, One!NoNullParent,
                    HasHeight, One!HasHeight, Height, One!Height
    <2> QED BY <2>2 DEF One!Next
<1>8. ASSUME NEW r \in Replica, NEW b \in Hash, OnDeliverBlk(r, b) PROVE One!OnDeliverBlk(r, b)
    BY <1>8 DEF OnDeliverBlk, One!OnDeliverBlk, Deliver, One!Deliver, Parents, One!Parents, Known, One!Known,
                Range, One!Range
<1>9. ASSUME NEW r \in Replica, NEW b \in Hash, OnReceiveProposal(r, b) PROVE One!OnReceiveProposal(r, b)
    BY <1>9 DEF OnReceiveProposal, One!OnReceiveProposal, AlreadyHandled, One!AlreadyHandled,
                Update, One!Update, HasHeight, One!HasHeight, Height, One!Height, Put, One!Put
<1>10. ASSUME NEW r \in Replica, NEW b \in Hash, CommitTimerCb(r, b) PROVE One!CommitTimerCb(r, b)
    BY <1>10 DEF CommitTimerCb, One!CommitTimerCb, Height, One!Height
<1>11. ASSUME NEW r \in Replica, NEW b \in Hash, ADeliver(r, b) \/ AReceive(r, b) \/ ACommit(r, b)
       PROVE  One!Next
    BY <1>8, <1>9, <1>10, <1>11 DEF ADeliver, AReceive, ACommit, One!Next
<1>12. CASE UNCHANGED avars
    BY <1>4, <1>12 DEF avars
<1> QED BY <1>1, <1>4, <1>5, <1>6, <1>7, <1>11, <1>12 DEF ANext, ReplicaStep, HandlePending

LEMMA InitOne == AInit => One!CoreInv /\ One!LeaderInv
<1> SUFFICES ASSUME AInit PROVE One!CoreInv /\ One!LeaderInv
    OBVIOUS
<1>1. One!Init
    BY DEF AInit, Init, One!Init, GenesisBlock, One!GenesisBlock
<1>2. One!CoreInv
    BY <1>1, OneProposer, One!InitCoreInv
<1>3. One!LeaderInv
    BY <1>1, OneProposer, One!InitLeaderInv
<1> QED BY <1>2, <1>3

\* What holds of the protocol then.
OneInv == impeachments = 0 => One!CoreInv /\ One!LeaderInv

LEMMA OneInvStep == AppInv /\ OneInv /\ [ANext]_avars => OneInv'
<1> SUFFICES ASSUME AppInv, OneInv, [ANext]_avars, impeachments' = 0
             PROVE  One!CoreInv' /\ One!LeaderInv'
    BY DEF OneInv
<1>1. [One!Next]_(One!vars)
    BY OneStep
<1>2. impeachments = 0
    BY DEF ANext, ReplicaStep, AClientRequestCmd, AClientRespCmd, HandlePending, HandleAsFollower,
           HandleAndBuffer, HandleAndPropose, HandleAndAbort, BeginPending, ADeliver, AReceive,
           ACommit, ADoDecide, AImpeach, AppInv, avars, paceVars
<1>3. One!CoreInv /\ One!LeaderInv
    BY <1>2 DEF OneInv
<1>4. One!CoreInv'
    BY <1>1, <1>3, OneProposer, One!CoreInvStep
<1>5. One!LeaderInv'
    BY <1>1, <1>3, OneProposer, One!LeaderInvStep
<1> QED BY <1>4, <1>5

LEMMA AppInvariant == ASpec => [](CoreInv /\ AppInv /\ OneInv)
<1>1. ASpec => []CoreInv
    BY AppUsesCore, CoreInvariant, PTL
<1>2. AInit => OneInv
    BY InitOne DEF OneInv
<1> QED BY <1>1, <1>2, InitAppInv, AppInvStep, OneInvStep, PTL DEF ASpec

-----------------------------------------------------------------------------
(* The step to CommandPool.                                                 *)

\* What is read through a sequence with one more element, when the old elements keep their
\* values.
LEMMA AppendRead ==
    ASSUME NEW S, NEW f \in Seq(S), NEW h \in S, NEW c, NEW d,
           \A i \in DOMAIN f : d[f[i]] = c[f[i]]
    PROVE  [i \in DOMAIN Append(f, h) |-> d[Append(f, h)[i]]] =
              Append([i \in DOMAIN f |-> c[f[i]]], d[h])
<1> DEFINE n == Len(f)
           T == {c[f[i]] : i \in 1..n} \cup {d[h]}
           g == [i \in 1..n |-> c[f[i]]]
           a == Append(g, d[h])
<1>1. /\ n \in Nat /\ DOMAIN f = 1..n /\ DOMAIN Append(f, h) = 1..(n + 1)
      /\ \A i \in 1..(n + 1) : Append(f, h)[i] = IF i = n + 1 THEN h ELSE f[i]
    OBVIOUS
<1>2. g \in [1..n -> T] /\ d[h] \in T
    OBVIOUS
<1> HIDE DEF T
<1>3. g \in Seq(T) /\ Len(g) = n
    BY <1>1, <1>2
<1>4. \A i \in 1..n : g[i] = c[f[i]]
    OBVIOUS
<1> HIDE DEF g, n
<1>5. /\ a \in Seq(T) /\ Len(a) = n + 1
      /\ \A i \in 1..(n + 1) : a[i] = IF i = n + 1 THEN d[h] ELSE g[i]
    BY <1>1, <1>2, <1>3
<1> HIDE DEF a
<1>6. \A i \in 1..(n + 1) : a[i] = d[Append(f, h)[i]]
    BY <1>1, <1>4, <1>5
<1>7. a = [i \in 1..(n + 1) |-> a[i]]
    BY <1>5
<1>8. a = [i \in 1..(n + 1) |-> d[Append(f, h)[i]]]
    BY <1>6, <1>7
<1> QED BY <1>1, <1>8 DEF a, g, n

\* The log of CommandPool is what the proposer has filed; it has no gap.
LEMMA FirstFilesLog ==
    ASSUME One!CoreInv, One!LeaderInv
    PROVE  /\ FirstProposer = One!Leader /\ One!Leader \in Replica
           /\ FiledFirst = One!FiledLog
           /\ FiledFirst \in Seq(Hash)
           /\ Range(FiledFirst) = Known \ {Genesis}
           /\ Height(b_mark[One!Leader]) \in Nat
<1>1. FirstProposer = One!Leader /\ One!Leader \in Replica
    BY OneProposer
<1>2. /\ One!Height(b_mark[One!Leader]) \in Nat
      /\ One!FiledLog \in Seq(Hash)
      /\ Len(One!FiledLog) = One!Height(b_mark[One!Leader])
      /\ One!Range(One!FiledLog) = One!Known \ {Genesis}
    BY OneProposer, One!FiledLogFacts
<1>3. \A i \in 1..Height(b_mark[One!Leader]) : HasHeight(One!Leader, i)
    BY <1>2 DEF One!LeaderInv, One!LeaderContiguous, HasHeight, Height, One!Height
<1>4. FiledFirst = One!FiledLog
    BY <1>1, <1>3 DEF FiledFirst, One!FiledLog, Height, One!Height
<1>5. /\ One!Known = Known /\ Height(b_mark[One!Leader]) = One!Height(b_mark[One!Leader])
      /\ Range(FiledFirst) = One!Range(FiledFirst)
    BY DEF Known, One!Known, Height, One!Height, Range, One!Range
<1> QED BY <1>1, <1>2, <1>4, <1>5

\* Steps that neither file at the proposer nor execute.
LEMMA FileUntouched ==
    ASSUME UNCHANGED <<blocks, cmds, ran>>,
           ht_blk_map'[FirstProposer] = ht_blk_map[FirstProposer],
           b_mark'[FirstProposer] = b_mark[FirstProposer]
    PROVE  UNCHANGED <<FiledCmds, FiledRan>>
<1>1. FiledFirst' = FiledFirst
    BY DEF FiledFirst, HasHeight, Height
<1> QED BY <1>1 DEF FiledCmds, FiledRan

\* A new block is one more entry, of which nothing is executed.
LEMMA ProposeFiles ==
    ASSUME One!CoreInv, One!LeaderInv, AppInv, One!CoreInv', One!LeaderInv',
           NEW r \in Replica, NEW h \in Hash, NEW new, One!OnPropose(r, h),
           cmds' = [cmds EXCEPT ![h] = new], UNCHANGED ran
    PROVE  /\ FiledCmds' = Append(FiledCmds, new)
           /\ FiledRan' = [s \in Replica |-> Append(FiledRan[s], 0)]
<1> DEFINE f == FiledFirst
<1>1. f \in Seq(Hash) /\ Range(f) = Known \ {Genesis} /\ h \notin Known
    BY FirstFilesLog DEF One!OnPropose, Known, One!Known
<1>2. FiledFirst' = Append(f, h)
    <2>1. /\ One!Height(b_mark[One!Leader])' \in Nat
          /\ DOMAIN ht_blk_map'[One!Leader] = 0..One!Height(b_mark[One!Leader])'
        <3>1. b_mark'[One!Leader] \in DOMAIN blocks' /\ \A b \in DOMAIN blocks' : blocks'[b].height \in Nat
            BY OneProposer DEF One!CoreInv, One!TypeOK, One!Block, One!Known
        <3> QED BY <3>1 DEF One!LeaderInv, One!LeaderContiguous, One!Height
    <2>2. \A i \in 1..Height(b_mark[One!Leader])' : HasHeight(One!Leader, i)'
        BY <2>1 DEF HasHeight, Height, One!Height
    <2>3. FiledFirst' = One!FiledLog'
        BY <2>2, OneProposer DEF FiledFirst, One!FiledLog, Height, One!Height
    <2>4. One!FiledLog' = Append(One!FiledLog, h)
        BY OneProposer, One!ProposeAppends
    <2> QED BY <2>3, <2>4, FirstFilesLog
<1>3. \A i \in DOMAIN f : f[i] \in Known \ {Genesis} /\ f[i] \in Hash /\ f[i] # h
    <2>1. \A i \in DOMAIN f : f[i] \in Range(f) /\ f[i] \in Hash
        BY <1>1 DEF Range
    <2> QED BY <1>1, <2>1
<1>4. FiledCmds' = Append(FiledCmds, new)
    <2>1. cmds'[h] = new /\ \A i \in DOMAIN f : cmds'[f[i]] = cmds[f[i]]
        BY <1>3 DEF AppInv
    <2>2. FiledCmds' = [i \in DOMAIN Append(f, h) |-> cmds'[Append(f, h)[i]]]
        BY <1>2 DEF FiledCmds
    <2>3. FiledCmds = [i \in DOMAIN f |-> cmds[f[i]]]
        BY DEF FiledCmds
    <2> HIDE DEF f
    <2> QED BY <1>1, <2>1, <2>2, <2>3, AppendRead
<1>5. ASSUME NEW s \in Replica
      PROVE  FiledRan'[s] = Append(FiledRan[s], 0)
    <2>1. ran[s][h] = 0
        BY <1>1 DEF AppInv
    <2>2. FiledRan'[s] = [i \in DOMAIN Append(f, h) |-> ran[s][Append(f, h)[i]]]
        BY <1>2 DEF FiledRan
    <2>3. FiledRan[s] = [i \in DOMAIN f |-> ran[s][f[i]]]
        BY DEF FiledRan
    <2> HIDE DEF f
    <2>4. [i \in DOMAIN Append(f, h) |-> ran[s][Append(f, h)[i]]] =
              Append([i \in DOMAIN f |-> ran[s][f[i]]], ran[s][h])
        BY <1>1, AppendRead
    <2> QED BY <2>1, <2>2, <2>3, <2>4
<1>6. FiledRan' = [s \in Replica |-> FiledRan'[s]]
    BY DEF FiledRan
<1> QED BY <1>4, <1>5, <1>6

\* The commit thread of a block executes the commands of one entry of the log.
LEMMA DecideExecutes ==
    ASSUME One!CoreInv, One!LeaderInv, AppInv,
           NEW r \in Replica, NEW b \in Hash, ADoDecide(r, b)
    PROVE  \E i \in DOMAIN FiledRan[r] : Pool!DoDecide(r, i)
<1> DEFINE i == Height(b)
           f == FiledFirst
<1>1. /\ ran[r][b] \in Nat /\ ran[r][b] < Len(cmds[b])
      /\ ran' = [ran EXCEPT ![r][b] = @ + 1]
      /\ UNCHANGED <<vars, cmds, cnt, confirmed, acked, reqs, cmd_pending, buffer>>
    BY DEF ADoDecide, AppInv
<1>2. b \in Known \ {Genesis}
    BY <1>1 DEF AppInv
<1>3. /\ One!Leader = FirstProposer /\ One!Leader \in Replica
      /\ DOMAIN f = 1..Height(b_mark[One!Leader]) /\ f = One!FiledLog
      /\ Height(b_mark[One!Leader]) \in Nat
    BY FirstFilesLog DEF FiledFirst
<1>4. i \in DOMAIN f /\ f[i] = b
    <2>1. /\ i \in DOMAIN ht_blk_map[One!Leader] /\ ht_blk_map[One!Leader][i] = b
          /\ i \in Nat \ {0} /\ i <= Height(b_mark[One!Leader])
        <3>1. /\ One!Height(b) \in DOMAIN ht_blk_map[One!Leader] /\ ht_blk_map[One!Leader][One!Height(b)] = b
            BY <1>2 DEF One!LeaderInv, One!LeaderFiledAll, One!AlreadyHandled, One!HasHeight, Known, One!Known
        <3>2. One!Height(b) \in Nat \ {0}
            BY <1>2 DEF One!CoreInv, One!TypeOK, One!Block, One!BlocksOK, One!Height, Known, One!Known
        <3>3. One!Height(b) <= One!Height(b_mark[One!Leader])
            BY <1>3, <3>1 DEF One!CoreInv, One!HighestFiled
        <3> QED BY <3>1, <3>2, <3>3 DEF Height, One!Height
    <2> QED BY <1>3, <2>1 DEF One!FiledLog, Height, One!Height
<1>5. \A j \in DOMAIN f : f[j] = b => j = i
    <2>1. \A j \in DOMAIN f : f[j] = ht_blk_map[One!Leader][j]
                              /\ j \in DOMAIN ht_blk_map[One!Leader]
        BY <1>3 DEF One!FiledLog, One!LeaderInv, One!LeaderContiguous, Height, One!Height
    <2> QED BY <1>3, <2>1 DEF One!CoreInv, One!MapOK, Height, One!Height
<1>6. FiledFirst' = f /\ FiledCmds' = FiledCmds
    <2>1. FiledFirst' = f
        BY <1>1 DEF FiledFirst, vars, HasHeight, Height
    <2> QED BY <1>1, <2>1 DEF FiledCmds
<1> HIDE DEF f
<1>7. FiledCmds[i] = cmds[b] /\ i \in DOMAIN FiledCmds
    BY <1>4 DEF FiledCmds, f
<1>8. /\ \A s \in Replica : FiledRan[s] = [j \in DOMAIN f |-> ran[s][f[j]]]
      /\ \A s \in Replica : FiledRan'[s] = [j \in DOMAIN f |-> ran'[s][f[j]]]
      /\ DOMAIN FiledRan = Replica
      /\ FiledRan' = [s \in Replica |-> FiledRan'[s]]
    BY <1>6 DEF FiledRan, f
<1>9. FiledRan[r][i] = ran[r][b] /\ i \in DOMAIN FiledRan[r]
    BY <1>4, <1>8
<1>10. FiledRan' = [FiledRan EXCEPT ![r][i] = @ + 1]
    <2>1. ASSUME NEW s \in Replica, s # r PROVE FiledRan'[s] = FiledRan[s]
        <3>1. ran'[s] = ran[s]
            BY <1>1, <2>1 DEF AppInv
        <3> QED BY <1>8, <3>1
    <2>2. \A j \in DOMAIN f : ran'[r][f[j]] = IF j = i THEN ran[r][f[j]] + 1 ELSE ran[r][f[j]]
        <3>1. \A j \in DOMAIN f : f[j] \in Hash
            BY FirstFilesLog DEF f
        <3> QED BY <1>1, <1>4, <1>5, <3>1 DEF AppInv
    <2>3. FiledRan'[r] = [FiledRan[r] EXCEPT ![i] = @ + 1]
        BY <1>8, <1>9, <2>2
    <2>4. FiledRan' = [FiledRan EXCEPT ![r] = FiledRan'[r]]
        BY <1>8, <2>1
    <2> QED BY <2>3, <2>4
<1> HIDE DEF i
<1>11. Pool!DoDecide(r, i)
    <2>1. LET c == FiledCmds[i][FiledRan[r][i] + 1] IN
          IF c \in DOMAIN decision_waiting[r]
          THEN /\ Pool!Answer(r, c, 1, decision_waiting[r][c])
               /\ decision_waiting' = [decision_waiting EXCEPT ![r] = Pool!Drop(@, c)]
          ELSE UNCHANGED <<resps, decision_waiting>>
        BY <1>7, <1>9 DEF ADoDecide
    <2>2. i \in DOMAIN FiledCmds /\ FiledRan[r][i] < Len(FiledCmds[i])
        BY <1>1, <1>7, <1>9
    <2> QED BY <1>1, <1>6, <1>10, <2>1, <2>2 DEF Pool!DoDecide, Pool!clientVars
<1> QED BY <1>9, <1>11

\* A turn of the queue that proposes nothing.
LEMMA QueueWithoutBlock ==
    ASSUME NEW r \in Replica, BeginPending(r),
           proposer[r] = FirstProposer,
           IF r = FirstProposer
           THEN Len(Filled(r)) < BlkSize /\ buffer' = [buffer EXCEPT ![r] = Filled(r)]
           ELSE UNCHANGED buffer,
           UNCHANGED <<FiledCmds, FiledRan>>
    PROVE  Pool!HandlePending(r)
BY DEF BeginPending, Pool!HandlePending, Pool!clientVars, Pending, PendingFrom, Filled, Put

\* A step of the program before the first impeachment, seen from the commands.
LEMMA AppPoolStep ==
    ASSUME AppInv, OneInv, [ANext]_avars, impeachments = 0
    PROVE  Pool!CNext \/ UNCHANGED Pool!cvars
<1>1. /\ One!CoreInv /\ One!LeaderInv
      /\ One!Leader = FirstProposer /\ FirstProposer \in Replica
      /\ \A r \in Replica : proposer[r] = FirstProposer
    BY OneProposer DEF AppInv, OneInv
<1>2. CASE UNCHANGED avars
    BY <1>2, FileUntouched DEF avars, vars, blockVars, cmdVars, Pool!cvars, Pool!clientVars, Pool!poolVars
<1>3. ASSUME NEW r \in Replica, AClientRequestCmd(r) \/ AClientRespCmd(r)
      PROVE  Pool!CNext
    BY <1>3 DEF AClientRequestCmd, AClientRespCmd, Pool!CNext
<1>4. ASSUME NEW r \in Replica, HandleAsFollower(r) \/ HandleAndBuffer(r)
      PROVE  Pool!HandlePending(r)
    <2>1. UNCHANGED <<FiledCmds, FiledRan>>
        BY <1>4, FileUntouched DEF HandleAsFollower, HandleAndBuffer, vars, blockVars
    <2> QED BY <1>1, <1>4, <2>1, QueueWithoutBlock DEF HandleAsFollower, HandleAndBuffer
<1>5. ASSUME NEW r \in Replica, NEW h \in Hash, HandleAndPropose(r, h)
      PROVE  Pool!HandlePending(r)
    <2>1. /\ r = FirstProposer /\ BeginPending(r) /\ Len(Filled(r)) >= BlkSize
          /\ buffer' = [buffer EXCEPT ![r] = SubSeq(Filled(r), BlkSize + 1, Len(Filled(r)))]
        BY <1>1, <1>5 DEF HandleAndPropose, Rest
    <2>2. /\ OnPropose(r, h) /\ UNCHANGED ran
          /\ cmds' = [cmds EXCEPT ![h] = SubSeq(Filled(r), 1, BlkSize)]
        BY <1>5 DEF HandleAndPropose
    <2>3. One!OnPropose(r, h)
        BY <2>1, <2>2, OneProposes
    <2>4. One!CoreInv' /\ One!LeaderInv'
        <3>1. One!Next
            BY <2>3 DEF One!Next
        <3> QED BY <1>1, <3>1, OneProposer, One!CoreInvStep, One!LeaderInvStep
    <2>5. PICK new : new = SubSeq(Filled(r), 1, BlkSize)
        OBVIOUS
    <2>6. /\ FiledCmds' = Append(FiledCmds, new)
          /\ FiledRan' = [s \in Replica |-> Append(FiledRan[s], 0)]
        BY <1>1, <2>2, <2>3, <2>4, <2>5, ProposeFiles
    <2> QED BY <2>1, <2>5, <2>6, AppSizesAssumption
            DEF BeginPending, Pool!HandlePending, Pool!NewBlock, Pool!clientVars,
                Pending, PendingFrom, Filled, Put
<1>6. ASSUME NEW r \in Replica, HandleAndAbort(r) PROVE FALSE
    <2>1. r = FirstProposer /\ ~ NoNullParent(r)
        BY <1>1, <1>6 DEF HandleAndAbort, OnProposeNullParent
    <2>2. /\ DOMAIN ht_blk_map[r] = 0..Height(b_mark[r]) /\ Height(b_mark[r]) \in Nat
        BY <1>1, <2>1, FirstFilesLog DEF One!LeaderInv, One!LeaderContiguous, Height, One!Height
    <2> QED BY <2>1, <2>2 DEF NoNullParent, HasHeight
<1>7. ASSUME NEW r \in Replica,
             AImpeach(r) \/ \E b \in Hash : ADeliver(r, b) \/ AReceive(r, b) \/ ACommit(r, b)
      PROVE  UNCHANGED Pool!cvars
    <2>1. UNCHANGED <<blocks, blockVars, cmdVars>>
        BY <1>7 DEF ADeliver, OnDeliverBlk, AReceive, OnReceiveProposal, ACommit, CommitTimerCb, AImpeach, vars
    <2>2. /\ ht_blk_map'[FirstProposer] = ht_blk_map[FirstProposer]
          /\ b_mark'[FirstProposer] = b_mark[FirstProposer]
        <3>1. ASSUME NEW b \in Hash, AReceive(r, b)
              PROVE  /\ ht_blk_map'[FirstProposer] = ht_blk_map[FirstProposer]
                     /\ b_mark'[FirstProposer] = b_mark[FirstProposer]
            <4>1. /\ One!TypeOK /\ b \in delivered[r] /\ ~ AlreadyHandled(r, b) /\ Update(r, b, Height(b))
                BY <1>1, <3>1 DEF AReceive, OnReceiveProposal, One!CoreInv
            <4>2. b \in One!Known
                BY <4>1 DEF One!TypeOK
            <4>3. One!AlreadyHandled(FirstProposer, b)
                BY <1>1, <4>2 DEF One!LeaderInv, One!LeaderFiledAll
            <4>4. r # FirstProposer
                BY <4>1, <4>3 DEF AlreadyHandled, One!AlreadyHandled, HasHeight, One!HasHeight, Height, One!Height
            <4>5. \/ ht_blk_map' = ht_blk_map /\ b_mark' = b_mark
                  \/ \E x, y : /\ ht_blk_map' = [ht_blk_map EXCEPT ![r] = x]
                              /\ b_mark' = [b_mark EXCEPT ![r] = y]
                BY <4>1 DEF Update
            <4>6. DOMAIN ht_blk_map = Replica /\ DOMAIN b_mark = Replica
                BY <4>1 DEF One!TypeOK
            <4>7. CASE ht_blk_map' = ht_blk_map /\ b_mark' = b_mark
                BY <4>7
            <4>8. ASSUME NEW x, NEW y, ht_blk_map' = [ht_blk_map EXCEPT ![r] = x],
                         b_mark' = [b_mark EXCEPT ![r] = y]
                  PROVE  /\ ht_blk_map'[FirstProposer] = ht_blk_map[FirstProposer]
                         /\ b_mark'[FirstProposer] = b_mark[FirstProposer]
                BY <1>1, <4>4, <4>6, <4>8
            <4> QED BY <4>5, <4>7, <4>8
        <3> QED BY <1>7, <3>1 DEF ADeliver, OnDeliverBlk, ACommit, CommitTimerCb, AImpeach, vars
    <2>3. UNCHANGED <<FiledCmds, FiledRan>>
        BY <2>1, <2>2, FileUntouched DEF blockVars
    <2> QED BY <2>1, <2>3 DEF cmdVars, Pool!cvars, Pool!clientVars, Pool!poolVars
<1>8. ASSUME NEW r \in Replica, NEW b \in Hash, ADoDecide(r, b) PROVE Pool!CNext
    BY <1>1, <1>8, DecideExecutes DEF Pool!CNext
<1> QED BY <1>2, <1>3, <1>4, <1>5, <1>6, <1>7, <1>8 DEF ANext, ReplicaStep, HandlePending, Pool!CNext

\* Until somebody is impeached the replica program serves its client as CommandPool says: the
\* queue, the buffer and the blocks of the proposer, and do_decide on every replica
\* (e2c.cpp:338-411). Whoever may be proposer later.
THEOREM AppServesPool == ASpec => PoolUntilImpeached
<1>1. AInit => Pool!CInit
    BY DEF AInit
<1>2. AppInv /\ OneInv /\ [ANext]_avars => [impeachments = 0 => Pool!CNext]_(Pool!cvars)
    BY AppPoolStep
<1> QED BY <1>1, <1>2, AppInvariant, PTL DEF ASpec, PoolUntilImpeached

-----------------------------------------------------------------------------
(* Where a command can be, whoever proposes: the invariant behind           *)
(* AckedIsExecuted and ProposedOnceByEach.                                  *)

PoolP == INSTANCE CommandPoolProofs
    WITH Proposer <- FirstProposer, MaxRestart <- 0, epoch <- 0,
         log <- FiledCmds, done <- FiledRan

\* The client and the queues: as in CommandPool, for the commands executed here.
ServedInv ==
    /\ PoolP!ClientOK /\ PoolP!QueuesOK
    /\ PoolP!Served([r \in Replica |-> Executed(r)])

OwnBlocks(r) == {b \in Known \ {Genesis} : blocks[b].proposer = r}

\* What r took from its queue is in its buffer or in one of its blocks, once.
OwnOnce(r) ==
    /\ IsInjective(buffer[r]) /\ Range(buffer[r]) \subseteq PoolP!Left(r)
    /\ \A b \in OwnBlocks(r) : /\ IsInjective(cmds[b])
                               /\ Range(cmds[b]) \subseteq PoolP!Left(r) \ Range(buffer[r])
    /\ \A b, d \in OwnBlocks(r) : b # d => Range(cmds[b]) \cap Range(cmds[d]) = {}

FillInv ==
    /\ DOMAIN buffer = Replica
    /\ \A r \in Replica : /\ buffer[r] \in Seq(PoolP!Cmd) /\ Len(buffer[r]) < BlkSize
                          /\ OwnOnce(r)
    /\ \A b \in Hash : cmds[b] \in Seq(PoolP!Cmd)

\* The assumptions of CommandPool, and what is the same under both names.
LEMMA PoolAssumed ==
    /\ PoolP!IsFiniteSet(Replica) /\ FirstProposer \in Replica
    /\ {BlkSize, MaxAsync, MaxIter} \subseteq Nat \ {0} /\ 0 \in Nat
<1>1. PoolP!IsFiniteSet(Replica)
    BY ReplicaAssumption DEF IsFiniteSet, PoolP!IsFiniteSet
<1> QED BY <1>1, OneProposer, AppSizesAssumption

LEMMA SameCardinality ==
    ASSUME NEW S PROVE Pool!Cardinality(S) = Cardinality(S) /\ PoolP!Cardinality(S) = Cardinality(S)
BY DEF Pool!Cardinality, PoolP!Cardinality, Cardinality

LEMMA SameRequest ==
    ASSUME NEW r, Pool!ClientRequestCmd(r) PROVE PoolP!ClientRequestCmd(r)
BY DEF Pool!ClientRequestCmd, PoolP!ClientRequestCmd, Pool!clientVars, PoolP!clientVars

LEMMA SameSendAll ==
    ASSUME NEW still, NEW sent, NEW e PROVE Pool!SendAll(still, sent, e) = PoolP!SendAll(still, sent, e)
<1>1. \A S : Pool!Cardinality(S) = PoolP!Cardinality(S)
    BY SameCardinality
<1>2. \A known : Pool!Burst(known, sent) = PoolP!Burst(known, sent)
    BY <1>1 DEF Pool!Burst, PoolP!Burst
<1>3. PICK new : new = Pool!Burst(DOMAIN still, sent)
    OBVIOUS
<1>4. PICK n : n = Pool!Cardinality(new)
    OBVIOUS
<1>5. new = PoolP!Burst(DOMAIN still, sent) /\ n = PoolP!Cardinality(new)
    BY <1>1, <1>2, <1>3, <1>4
<1> QED BY <1>3, <1>4, <1>5, Zenon DEF Pool!SendAll, PoolP!SendAll

LEMMA SameResponse ==
    ASSUME NEW r, Pool!ClientRespCmd(r) PROVE PoolP!ClientRespCmd(r)
<1>1. Pool!nfaulty = PoolP!nfaulty
    BY SameCardinality DEF Pool!nfaulty, PoolP!nfaulty
<1>2. PICK m, still : m = Head(resps[r]) /\ still = Pool!Drop(confirmed, m.cmd)
    OBVIOUS
<1>3. still = PoolP!Drop(confirmed, m.cmd)
    BY <1>2 DEF Pool!Drop, PoolP!Drop
<1>4. Pool!SendAll(still, cnt, 0) = PoolP!SendAll(still, cnt, 0)
    BY SameSendAll
<1> QED BY <1>1, <1>2, <1>3, <1>4 DEF Pool!ClientRespCmd, PoolP!ClientRespCmd, Pool!poolVars, PoolP!poolVars

LEMMA SameRegister ==
    ASSUME NEW r, BeginPending(r) PROVE PoolP!Registers(r)
BY DEF BeginPending, PoolP!Registers, PoolP!clientVars, Pending, PendingFrom, Put, PoolP!Waits,
       Pool!Answer, PoolP!Answer

LEMMA SameCallback ==
    ASSUME NEW r, NEW b, ADoDecide(r, b) PROVE PoolP!CallsBack(r, cmds[b][ran[r][b] + 1])
BY DEF ADoDecide, PoolP!CallsBack, PoolP!clientVars, PoolP!Waits, Pool!Answer, PoolP!Answer,
       Pool!Drop, PoolP!Drop

\* What a step does to the commands and the blocks.
LEMMA AppStepKinds ==
    ASSUME [ANext]_avars
    PROVE  \/ UNCHANGED <<cmdVars, blockVars, blocks>>
           \/ \E r \in Replica : /\ Pool!ClientRequestCmd(r) \/ Pool!ClientRespCmd(r)
                                 /\ UNCHANGED <<buffer, blockVars, blocks>>
           \/ \E r \in Replica : HandlePending(r)
           \/ \E r \in Replica : \E b \in Hash : ADoDecide(r, b)
<1>1. CASE UNCHANGED avars
    BY <1>1 DEF avars, vars
<1>2. ASSUME NEW r \in Replica, AClientRequestCmd(r) \/ AClientRespCmd(r)
      PROVE  /\ Pool!ClientRequestCmd(r) \/ Pool!ClientRespCmd(r)
             /\ UNCHANGED <<buffer, blockVars, blocks>>
    BY <1>2 DEF AClientRequestCmd, AClientRespCmd, Pool!ClientRequestCmd, Pool!ClientRespCmd,
                Pool!poolVars, vars
<1>3. ASSUME NEW r \in Replica,
             AImpeach(r) \/ \E b \in Hash : ADeliver(r, b) \/ AReceive(r, b) \/ ACommit(r, b)
      PROVE  UNCHANGED <<cmdVars, blockVars, blocks>>
    BY <1>3 DEF AImpeach, ADeliver, AReceive, ACommit, OnDeliverBlk, OnReceiveProposal, CommitTimerCb, vars
<1> QED BY <1>1, <1>2, <1>3 DEF ANext, ReplicaStep

LEMMA ExecutedGrows ==
    ASSUME CoreInv, AppInv, [ANext]_avars, NEW q \in Replica
    PROVE  Executed(q) \subseteq Executed(q)'
<1>1. SUFFICES ASSUME NEW c, c \in Pool!Cmd, NEW b \in Hash, NEW k \in 1..ran[q][b], cmds[b][k] = c
               PROVE  k \in 1..ran'[q][b] /\ cmds'[b][k] = c
    BY DEF Executed, Pool!Cmd
<1>2. ran[q][b] \in Nat
    BY DEF AppInv
<1>3. CASE ran' = ran /\ cmds' = cmds
    BY <1>1, <1>3
<1>4. ASSUME NEW r \in Replica, NEW h \in Hash, HandleAndPropose(r, h)
      PROVE  k \in 1..ran'[q][b] /\ cmds'[b][k] = c
    <2>1. h \notin Known /\ ran' = ran /\ cmds' = [cmds EXCEPT ![h] = SubSeq(Filled(r), 1, BlkSize)]
        BY <1>4 DEF HandleAndPropose, OnPropose
    <2>2. ran[q][h] = 0
        BY <2>1 DEF AppInv
    <2>3. b # h
        BY <1>1, <1>2, <2>2
    <2> QED BY <1>1, <2>1, <2>3
<1>5. ASSUME NEW r \in Replica, NEW d \in Hash, ADoDecide(r, d)
      PROVE  k \in 1..ran'[q][b] /\ cmds'[b][k] = c
    <2>1. cmds' = cmds /\ ran' = [ran EXCEPT ![r][d] = @ + 1] /\ ran \in [Replica -> [Hash -> Nat]]
        BY <1>5 DEF ADoDecide, AppInv
    <2>2. ran'[q][b] \in {ran[q][b], ran[q][b] + 1}
        BY <2>1
    <2> QED BY <1>1, <1>2, <2>1, <2>2
<1>6. ASSUME NEW r \in Replica, HandlePending(r) PROVE k \in 1..ran'[q][b] /\ cmds'[b][k] = c
    BY <1>3, <1>4, <1>6 DEF HandlePending, HandleAsFollower, HandleAndBuffer, HandleAndAbort, blockVars
<1> QED BY <1>3, <1>5, <1>6, AppStepKinds DEF blockVars

LEMMA BeginsTurn ==
    ASSUME NEW r, HandlePending(r) PROVE BeginPending(r)
BY DEF HandlePending, HandleAsFollower, HandleAndBuffer, HandleAndPropose, HandleAndAbort

\* do_decide executes the command whose callback it calls.
LEMMA DecidesNext ==
    ASSUME AppInv, FillInv, NEW r \in Replica, NEW b \in Hash, ADoDecide(r, b)
    PROVE  cmds[b][ran[r][b] + 1] \in Executed(r)'
<1>1. /\ cmds' = cmds /\ ran' = [ran EXCEPT ![r][b] = @ + 1] /\ ran \in [Replica -> [Hash -> Nat]]
      /\ ran[r][b] < Len(cmds[b])
    BY DEF ADoDecide, AppInv
<1>2. PICK k : k = ran[r][b] + 1
    OBVIOUS
<1>3. ran'[r][b] = k /\ k \in 1..k /\ k \in 1..Len(cmds[b])
    BY <1>1, <1>2 DEF FillInv
<1>4. cmds[b] \in Seq(PoolP!Cmd) /\ Pool!Cmd = PoolP!Cmd
    BY DEF FillInv, Pool!Cmd, PoolP!Cmd
<1>5. cmds[b][k] \in Pool!Cmd
    BY <1>3, <1>4
<1> QED BY <1>1, <1>2, <1>3, <1>5 DEF Executed

LEMMA ServedStep ==
    ASSUME CoreInv, AppInv, FillInv, ServedInv, [ANext]_avars
    PROVE  ServedInv'
<1>1. PICK E, E2 : E = [r \in Replica |-> Executed(r)] /\ E2 = [r \in Replica |-> Executed(r)']
    OBVIOUS
<1>2. \A q \in Replica : E[q] \subseteq E2[q]
    BY <1>1, ExecutedGrows
<1>3. PoolP!ClientOK /\ PoolP!QueuesOK /\ PoolP!Served(E)
    BY <1>1 DEF ServedInv
<1> SUFFICES PoolP!ClientOK' /\ PoolP!QueuesOK' /\ PoolP!Served(E2)'
    BY <1>1 DEF ServedInv
<1>4. CASE UNCHANGED <<cmdVars, blockVars, blocks>>
    <2>1. E2 = E
        BY <1>1, <1>4 DEF blockVars, Executed, Pool!Cmd
    <2>2. UNCHANGED <<cnt, confirmed, acked, reqs, cmd_pending, decision_waiting, resps>>
        BY <1>4 DEF cmdVars
    <2>3. PoolP!ClientOK'
        BY <1>3, <2>2 DEF PoolP!ClientOK, PoolP!Sent
    <2>4. \A r : PoolP!Waits(r)' = PoolP!Waits(r)
        BY <2>2 DEF PoolP!Waits
    <2>5. PoolP!Request' = PoolP!Request /\ PoolP!Response' = PoolP!Response
        BY DEF PoolP!Request, PoolP!Response
    <2>6. PoolP!QueuesOK'
        BY <1>3, <2>2, <2>4, <2>5 DEF PoolP!QueuesOK
    <2>7. /\ PoolP!Sent' = PoolP!Sent
          /\ \A r : PoolP!Requested(r)' = PoolP!Requested(r) /\ PoolP!Queued(r)' = PoolP!Queued(r)
          /\ \A r : PoolP!Answered(r)' = PoolP!Answered(r)
        BY <2>2 DEF PoolP!Sent, PoolP!Requested, PoolP!Queued, PoolP!Answered
    <2>8. /\ \A r : PoolP!OnePlace(r)' <=> PoolP!OnePlace(r)
          /\ \A r, c : PoolP!Read(r, c)' <=> PoolP!Read(r, c)
        BY <2>2, <2>4, <2>7 DEF PoolP!OnePlace, PoolP!Read
    <2>9. \A c : PoolP!ReadOf(c)' = PoolP!ReadOf(c)
        BY <2>8 DEF PoolP!ReadOf
    <2>10. PoolP!Served(E2)'
        BY <1>3, <2>1, <2>2, <2>7, <2>8, <2>9 DEF PoolP!Served
    <2> QED BY <2>3, <2>6, <2>10
<1>5. ASSUME NEW r \in Replica, Pool!ClientRequestCmd(r)
      PROVE  PoolP!ClientOK' /\ PoolP!QueuesOK' /\ PoolP!Served(E2)'
    <2>1. PoolP!ClientRequestCmd(r)
        BY <1>5, SameRequest
    <2>2. PoolP!ClientOK' /\ PoolP!QueuesOK'
        BY <1>3, <2>1, PoolAssumed, PoolP!RequestKeeps
    <2>3. PoolP!Served(E2)'
        BY <1>2, <1>3, <2>1, PoolAssumed, PoolP!RequestServes
    <2> QED BY <2>2, <2>3
<1>6. ASSUME NEW r \in Replica, Pool!ClientRespCmd(r)
      PROVE  PoolP!ClientOK' /\ PoolP!QueuesOK' /\ PoolP!Served(E2)'
    <2>1. PoolP!ClientRespCmd(r)
        BY <1>6, SameResponse
    <2>2. PoolP!ClientOK' /\ PoolP!QueuesOK'
        BY <1>3, <2>1, PoolAssumed, PoolP!ReadKeeps
    <2>3. PoolP!Served(E2)'
        BY <1>2, <1>3, <2>1, PoolAssumed, PoolP!ReadServes
    <2> QED BY <2>2, <2>3
<1>7. ASSUME NEW r \in Replica, HandlePending(r)
      PROVE  PoolP!ClientOK' /\ PoolP!QueuesOK' /\ PoolP!Served(E2)'
    <2>1. PoolP!Registers(r)
        BY <1>7, BeginsTurn, SameRegister
    <2>2. PoolP!ClientOK' /\ PoolP!QueuesOK'
        BY <1>3, <2>1, PoolAssumed, PoolP!RegisterKeeps
    <2>3. PoolP!Served(E2)'
        BY <1>2, <1>3, <2>1, PoolAssumed, PoolP!RegisterServes
    <2> QED BY <2>2, <2>3
<1>8. ASSUME NEW r \in Replica, NEW b \in Hash, ADoDecide(r, b)
      PROVE  PoolP!ClientOK' /\ PoolP!QueuesOK' /\ PoolP!Served(E2)'
    <2>1. PICK c : c = cmds[b][ran[r][b] + 1]
        OBVIOUS
    <2>2. PoolP!CallsBack(r, c) /\ c \in E2[r]
        BY <1>1, <1>8, <2>1, SameCallback, DecidesNext
    <2>3. PoolP!ClientOK' /\ PoolP!QueuesOK'
        BY <1>3, <2>2, PoolAssumed, PoolP!CallbackKeeps
    <2>4. PoolP!Served(E2)'
        BY <1>2, <1>3, <2>2, PoolAssumed, PoolP!CallbackServes
    <2> QED BY <2>3, <2>4
<1> QED BY <1>4, <1>5, <1>6, <1>7, <1>8, AppStepKinds

LEMMA SameSequences ==
    \A f : PoolP!Range(f) = Range(f) /\ (PoolP!IsInjective(f) <=> IsInjective(f))
BY DEF PoolP!Range, Range, PoolP!IsInjective, IsInjective

\* What r has taken stays taken when it takes nothing.
LEMMA OwnRests ==
    ASSUME NEW q, OwnOnce(q), buffer'[q] = buffer[q], PoolP!Left(q) \subseteq PoolP!Left(q)',
           OwnBlocks(q)' = OwnBlocks(q), \A b \in OwnBlocks(q) : cmds'[b] = cmds[b]
    PROVE  OwnOnce(q)'
<1>1. /\ IsInjective(buffer'[q]) /\ Range(buffer'[q]) \subseteq PoolP!Left(q)'
    BY DEF OwnOnce
<1>2. \A b \in OwnBlocks(q)' : /\ IsInjective(cmds'[b])
                               /\ Range(cmds'[b]) \subseteq PoolP!Left(q)' \ Range(buffer'[q])
    BY DEF OwnOnce
<1>3. \A b, d \in OwnBlocks(q)' : b # d => Range(cmds'[b]) \cap Range(cmds'[d]) = {}
    BY DEF OwnOnce
<1> QED BY <1>1, <1>2, <1>3 DEF OwnOnce

\* A command goes from the queue into the buffer.
LEMMA FilledFacts ==
    ASSUME FillInv, ServedInv, NEW r \in Replica, BeginPending(r), NEW f, f = Filled(r)
    PROVE  /\ f \in Seq(PoolP!Cmd) /\ Len(f) \in 1..BlkSize /\ IsInjective(f)
           /\ PoolP!Left(r) \subseteq PoolP!Left(r)' /\ Range(f) \subseteq PoolP!Left(r)'
           /\ \A b \in OwnBlocks(r) : Range(cmds[b]) \cap Range(f) = {}
           /\ \A q \in Replica : q # r => PoolP!Left(q)' = PoolP!Left(q)
<1>1. PICK c, s, n : c = Pending(r) /\ s = buffer[r] /\ n = Len(s)
    OBVIOUS
<1>2. PoolP!Registers(r) /\ cmd_pending[r] # <<>> /\ c = Head(cmd_pending[r])[1]
    BY <1>1, SameRegister DEF BeginPending, Pending
<1>3. PoolP!QueuesOK /\ PoolP!OnePlace(r)
    BY DEF ServedInv, PoolP!Served
<1>4. c \in PoolP!Cmd
    <2>1. PICK u : u = cmd_pending[r]
        OBVIOUS
    <2>2. u \in Seq(PoolP!Cmd \X (0..0)) /\ u # <<>>
        BY <1>2, <1>3, <2>1 DEF PoolP!QueuesOK, PoolP!Request
    <2>3. Head(u) \in PoolP!Cmd \X (0..0)
        BY <2>2
    <2> QED BY <1>2, <2>1, <2>3
<1>5. /\ c \notin PoolP!Left(r) /\ PoolP!Left(r)' = PoolP!Left(r) \cup {c}
      /\ \A q \in Replica : q # r => PoolP!Left(q)' = PoolP!Left(q)
    BY <1>2, <1>3, PoolAssumed, PoolP!RegisterLeaves
<1>6. s \in Seq(PoolP!Cmd) /\ n \in Nat /\ n < BlkSize /\ BlkSize \in Nat /\ OwnOnce(r)
    BY <1>1, AppSizesAssumption DEF FillInv
<1>7. f = Append(s, c) /\ f \in Seq(PoolP!Cmd) /\ Len(f) = n + 1 /\ Len(f) \in 1..BlkSize
    BY <1>1, <1>4, <1>6 DEF Filled
<1>8. DOMAIN s = 1..n /\ DOMAIN f = 1..(n + 1) /\ f[n + 1] = c /\ \A i \in 1..n : f[i] = s[i]
    BY <1>1, <1>4, <1>6, <1>7
<1>9. /\ PoolP!Range(f) = PoolP!Range(s) \cup {f[n + 1]}
      /\ PoolP!IsInjective(s) /\ f[n + 1] \notin PoolP!Range(s) => PoolP!IsInjective(f)
    BY <1>6, <1>8, PoolAssumed, PoolP!AddLast
<1>10. IsInjective(s) /\ Range(s) \subseteq PoolP!Left(r)
    BY <1>1, <1>6 DEF OwnOnce
<1>11. Range(f) = Range(s) \cup {c} /\ IsInjective(f)
    BY <1>5, <1>8, <1>9, <1>10, SameSequences
<1>12. \A b \in OwnBlocks(r) : Range(cmds[b]) \subseteq PoolP!Left(r) \ Range(s)
    BY <1>1, <1>6 DEF OwnOnce
<1> QED BY <1>5, <1>7, <1>10, <1>11, <1>12

LEMMA FillStep ==
    ASSUME CoreInv, AppInv, FillInv, ServedInv, [ANext]_avars
    PROVE  FillInv'
<1>0. PoolP!Cmd' = PoolP!Cmd /\ DOMAIN cmds = Hash /\ BlkSize \in Nat \ {0}
    BY AppSizesAssumption DEF PoolP!Cmd, AppInv
<1>1. ASSUME UNCHANGED <<buffer, cmds, blocks>>,
             \A q \in Replica : PoolP!Left(q) \subseteq PoolP!Left(q)'
      PROVE  FillInv'
    <2>1. \A q \in Replica : OwnBlocks(q)' = OwnBlocks(q)
        BY <1>1 DEF OwnBlocks, Known
    <2>2. \A q \in Replica : OwnOnce(q)'
        BY <1>1, <2>1, OwnRests DEF FillInv
    <2> QED BY <1>0, <1>1, <2>2 DEF FillInv
<1>2. CASE UNCHANGED <<cmdVars, blockVars, blocks>>
    <2>1. \A q \in Replica : PoolP!Left(q)' = PoolP!Left(q)
        BY <1>2 DEF cmdVars, PoolP!Left, PoolP!Sent, PoolP!Requested, PoolP!Queued
    <2> QED BY <1>1, <1>2, <2>1 DEF cmdVars, blockVars
<1>3. ASSUME NEW r \in Replica, Pool!ClientRequestCmd(r), UNCHANGED <<buffer, blockVars, blocks>>
      PROVE  FillInv'
    <2>1. PoolP!QueuesOK /\ PoolP!OnePlace(r) /\ PoolP!ClientRequestCmd(r)
        BY <1>3, SameRequest DEF ServedInv, PoolP!Served
    <2>2. \A q \in Replica : PoolP!Left(q)' = PoolP!Left(q)
        BY <2>1, PoolAssumed, PoolP!RequestLeaves
    <2> QED BY <1>1, <1>3, <2>2 DEF blockVars
<1>4. ASSUME NEW r \in Replica, Pool!ClientRespCmd(r), UNCHANGED <<buffer, blockVars, blocks>>
      PROVE  FillInv'
    <2>1. /\ PoolP!ClientOK /\ PoolP!QueuesOK /\ \A q \in Replica : PoolP!OnePlace(q)
          /\ PoolP!ClientRespCmd(r)
        BY <1>4, SameResponse DEF ServedInv, PoolP!Served
    <2>2. \A q \in Replica : PoolP!Left(q)' = PoolP!Left(q)
        BY <2>1, PoolAssumed, PoolP!ReadLeaves
    <2> QED BY <1>1, <1>4, <2>2 DEF blockVars
<1>5. ASSUME NEW r \in Replica, NEW b \in Hash, ADoDecide(r, b) PROVE FillInv'
    <2>1. PoolP!CallsBack(r, cmds[b][ran[r][b] + 1])
        BY <1>5, SameCallback
    <2>2. \A q \in Replica : PoolP!Left(q)' = PoolP!Left(q)
        BY <2>1, PoolAssumed, PoolP!CallbackLeaves
    <2> QED BY <1>1, <1>5, <2>2 DEF ADoDecide, vars
<1>6. ASSUME NEW r \in Replica, HandlePending(r) PROVE FillInv'
    <2>1. PICK f : f = Filled(r)
        OBVIOUS
    <2>2. BeginPending(r) /\ DOMAIN buffer = Replica /\ OwnOnce(r)
        BY <1>6, BeginsTurn DEF FillInv
    <2>3. /\ f \in Seq(PoolP!Cmd) /\ Len(f) \in 1..BlkSize /\ IsInjective(f)
          /\ PoolP!Left(r) \subseteq PoolP!Left(r)' /\ Range(f) \subseteq PoolP!Left(r)'
          /\ \A b \in OwnBlocks(r) : Range(cmds[b]) \cap Range(f) = {}
          /\ \A q \in Replica : q # r => PoolP!Left(q)' = PoolP!Left(q)
        BY <2>1, <2>2, FilledFacts
    <2>4. CASE HandleAsFollower(r)
        <3>1. UNCHANGED <<buffer, cmds, blocks>>
            BY <2>4 DEF HandleAsFollower, vars, blockVars
        <3> QED BY <1>1, <2>3, <3>1
    <2>5. ASSUME NEW t, t = f \/ t = <<>>, Len(t) < BlkSize,
                 buffer' = [buffer EXCEPT ![r] = t], UNCHANGED <<cmds, blocks>>
          PROVE  FillInv'
        <3>1. \A q \in Replica : OwnBlocks(q)' = OwnBlocks(q)
            BY <2>5 DEF OwnBlocks, Known
        <3>2. t \in Seq(PoolP!Cmd) /\ IsInjective(t) /\ Range(t) \subseteq Range(f)
            <4>1. <<>> \in Seq(PoolP!Cmd) /\ IsInjective(<<>>) /\ Range(<<>>) = {}
                BY DEF IsInjective, Range
            <4> QED BY <2>3, <2>5, <4>1
        <3>3. OwnOnce(r)'
            BY <2>2, <2>3, <2>5, <3>1, <3>2 DEF OwnOnce
        <3>4. \A q \in Replica : q # r => OwnOnce(q)'
            BY <2>2, <2>3, <2>5, <3>1, OwnRests DEF FillInv
        <3>5. \A q \in Replica : buffer'[q] \in Seq(PoolP!Cmd) /\ Len(buffer'[q]) < BlkSize
            BY <2>2, <2>5, <3>2 DEF FillInv
        <3>6. DOMAIN buffer' = Replica
            BY <2>2, <2>5
        <3> QED BY <1>0, <2>5, <3>3, <3>4, <3>5, <3>6 DEF FillInv
    <2>6. CASE HandleAndBuffer(r)
        BY <2>1, <2>5, <2>6 DEF HandleAndBuffer, vars, blockVars
    <2>7. ASSUME Len(f) >= BlkSize
          PROVE  SubSeq(f, 1, BlkSize) = f /\ SubSeq(f, BlkSize + 1, Len(f)) = <<>>
        <3>1. Len(f) = BlkSize
            BY <1>0, <2>3, <2>7
        <3> QED BY <1>0, <2>3, <3>1
    <2>8. CASE HandleAndAbort(r)
        <3>1. buffer' = [buffer EXCEPT ![r] = <<>>] /\ UNCHANGED <<cmds, blocks>>
            BY <2>1, <2>7, <2>8 DEF HandleAndAbort, OnProposeNullParent, Rest, blockVars
        <3>2. PICK t : t = <<>>
            OBVIOUS
        <3>3. Len(t) < BlkSize
            BY <1>0, <3>2
        <3>4. buffer' = [buffer EXCEPT ![r] = t]
            BY <3>1, <3>2
        <3> QED BY <2>5, <3>1, <3>2, <3>3, <3>4
    <2>9. ASSUME NEW h \in Hash, HandleAndPropose(r, h) PROVE FillInv'
        <3>1. /\ h \notin Known /\ buffer' = [buffer EXCEPT ![r] = <<>>]
              /\ cmds' = [cmds EXCEPT ![h] = f]
            BY <2>1, <2>7, <2>9 DEF HandleAndPropose, OnPropose, Rest
        <3>2. Known' = Known \cup {h} /\ blocks'[h].proposer = r /\ \A b \in Known : blocks'[b] = blocks[b]
            BY <2>9 DEF HandleAndPropose, OnPropose, Known, Put
        <3>3. h # Genesis
            BY <3>1 DEF CoreInv, BlocksOK
        <3>4. OwnBlocks(r)' = OwnBlocks(r) \cup {h} /\ h \notin OwnBlocks(r)
            BY <3>1, <3>2, <3>3 DEF OwnBlocks
        <3>5. \A q \in Replica : q # r => OwnBlocks(q)' = OwnBlocks(q) /\ h \notin OwnBlocks(q)
            BY <3>1, <3>2, <3>3 DEF OwnBlocks
        <3>6. cmds'[h] = f /\ \A b \in Hash : b # h => cmds'[b] = cmds[b]
            BY <1>0, <3>1
        <3>7. \A b \in OwnBlocks(r) : b \in Hash /\ b # h
            BY <3>4 DEF OwnBlocks, CoreInv, TypeOK, Known
        <3>8. OwnOnce(r)'
            <4>1. buffer'[r] = <<>> /\ Range(<<>>) = {} /\ IsInjective(<<>>)
                BY <2>2, <3>1 DEF Range, IsInjective
            <4>2. \A b \in OwnBlocks(r) : IsInjective(cmds'[b]) /\ Range(cmds'[b]) \subseteq PoolP!Left(r)'
                BY <2>2, <2>3, <3>6, <3>7 DEF OwnOnce
            <4>3. IsInjective(cmds'[h]) /\ Range(cmds'[h]) \subseteq PoolP!Left(r)'
                BY <2>3, <3>6
            <4>4. \A b, d \in OwnBlocks(r) : b # d => Range(cmds'[b]) \cap Range(cmds'[d]) = {}
                BY <2>2, <3>6, <3>7 DEF OwnOnce
            <4>5. \A b \in OwnBlocks(r) : Range(cmds'[b]) \cap Range(cmds'[h]) = {}
                BY <2>3, <3>6, <3>7
            <4>6. \A b \in OwnBlocks(r)' : /\ IsInjective(cmds'[b])
                                           /\ Range(cmds'[b]) \subseteq PoolP!Left(r)' \ Range(buffer'[r])
                BY <3>4, <4>1, <4>2, <4>3
            <4>7. \A b, d \in OwnBlocks(r)' : b # d => Range(cmds'[b]) \cap Range(cmds'[d]) = {}
                BY <3>4, <4>4, <4>5
            <4> QED BY <4>1, <4>6, <4>7 DEF OwnOnce
        <3>9. ASSUME NEW q \in Replica, q # r PROVE OwnOnce(q)'
            <4>1. \A b \in OwnBlocks(q) : b \in Hash /\ b # h
                BY <3>5, <3>9 DEF OwnBlocks, CoreInv, TypeOK, Known
            <4>2. OwnOnce(q) /\ buffer'[q] = buffer[q]
                BY <2>2, <3>1, <3>9 DEF FillInv
            <4> QED BY <2>3, <3>5, <3>6, <3>9, <4>1, <4>2, OwnRests
        <3>10. \A q \in Replica : buffer'[q] \in Seq(PoolP!Cmd) /\ Len(buffer'[q]) < BlkSize
            BY <1>0, <2>2, <3>1 DEF FillInv
        <3>11. DOMAIN buffer' = Replica /\ \A b \in Hash : cmds'[b] \in Seq(PoolP!Cmd)
            BY <2>2, <2>3, <3>1, <3>6 DEF FillInv
        <3> QED BY <1>0, <3>8, <3>9, <3>10, <3>11 DEF FillInv
    <2> QED BY <1>6, <2>4, <2>6, <2>8, <2>9 DEF HandlePending
<1> QED BY <1>2, <1>3, <1>4, <1>5, <1>6, AppStepKinds

-----------------------------------------------------------------------------
(* Until the first impeachment all of CommandPool's invariant holds.         *)

PlaceInv == impeachments = 0 => PoolP!PoolInv

LEMMA SamePool ==
    /\ Pool!CInit => PoolP!CInit
    /\ Pool!CNext \/ UNCHANGED Pool!cvars => [PoolP!CNext]_(PoolP!cvars)
<1>1. Pool!CInit => PoolP!CInit
    <2>1. Pool!Burst({}, 0) = PoolP!Burst({}, 0)
        BY SameCardinality DEF Pool!Burst, PoolP!Burst
    <2>2. PICK new : new = Pool!Burst({}, 0)
        OBVIOUS
    <2>3. PICK n : n = Pool!Cardinality(new)
        OBVIOUS
    <2>4. new = PoolP!Burst({}, 0) /\ n = PoolP!Cardinality(new)
        BY <2>1, <2>2, <2>3, SameCardinality
    <2> QED BY <2>2, <2>3, <2>4 DEF Pool!CInit, PoolP!CInit
<1>2. UNCHANGED Pool!cvars => UNCHANGED PoolP!cvars
    BY DEF Pool!cvars, PoolP!cvars, Pool!clientVars, PoolP!clientVars, Pool!poolVars, PoolP!poolVars
<1>3. ~ Pool!ClientRestart
    BY DEF Pool!ClientRestart
<1>4. ASSUME NEW r \in Replica, Pool!HandlePending(r) PROVE PoolP!HandlePending(r)
    BY <1>4 DEF Pool!HandlePending, PoolP!HandlePending, Pool!Answer, PoolP!Answer,
                Pool!NewBlock, PoolP!NewBlock, Pool!clientVars, PoolP!clientVars
<1>5. ASSUME NEW r \in Replica, NEW i, Pool!DoDecide(r, i) PROVE PoolP!DoDecide(r, i)
    BY <1>5 DEF Pool!DoDecide, PoolP!DoDecide, Pool!Answer, PoolP!Answer, Pool!Drop, PoolP!Drop,
                Pool!clientVars, PoolP!clientVars
<1>6. Pool!CNext => PoolP!CNext
    BY <1>3, <1>4, <1>5, SameRequest, SameResponse DEF Pool!CNext, PoolP!CNext
<1> QED BY <1>1, <1>2, <1>6

LEMMA InitCommands == AInit => FillInv /\ ServedInv /\ PlaceInv
<1> SUFFICES ASSUME AInit PROVE FillInv /\ ServedInv /\ PlaceInv
    OBVIOUS
<1>1. PoolP!CInit
    BY SamePool DEF AInit
<1>2. PoolP!PoolInv
    BY <1>1, PoolAssumed, PoolP!InitPoolInv
<1>3. \A r \in Replica : PoolP!Executed(r) = {} /\ Executed(r) = {}
    <2>1. DOMAIN FiledCmds = {}
        BY <1>1 DEF PoolP!CInit
    <2>2. \A r \in Replica : \A b \in Hash : ran[r][b] = 0
        BY DEF AInit
    <2>3. \A k : k \notin 1..0
        OBVIOUS
    <2> QED BY <2>1, <2>2, <2>3 DEF PoolP!Executed, Executed
<1>4. [r \in Replica |-> PoolP!Executed(r)] = [r \in Replica |-> Executed(r)]
    BY <1>3
<1>5. ServedInv
    BY <1>2, <1>4 DEF ServedInv, PoolP!PoolInv
<1>6. FillInv
    <2>1. DOMAIN buffer = Replica /\ \A r \in Replica : buffer[r] = <<>>
        BY <1>1 DEF PoolP!CInit
    <2>2. \A b \in Hash : cmds[b] = <<>>
        BY DEF AInit
    <2>3. \A r \in Replica : OwnBlocks(r) = {}
        BY DEF OwnBlocks, AInit, Init, Known
    <2>4. <<>> \in Seq(PoolP!Cmd) /\ Len(<<>>) < BlkSize /\ IsInjective(<<>>) /\ Range(<<>>) = {}
        BY AppSizesAssumption DEF IsInjective, Range
    <2>5. \A r \in Replica : OwnOnce(r)
        BY <2>1, <2>3, <2>4 DEF OwnOnce
    <2> QED BY <2>1, <2>2, <2>4, <2>5 DEF FillInv
<1> QED BY <1>2, <1>5, <1>6 DEF PlaceInv

LEMMA PlaceStep ==
    ASSUME AppInv, OneInv, PlaceInv, [ANext]_avars
    PROVE  PlaceInv'
<1> SUFFICES ASSUME impeachments' = 0 PROVE PoolP!PoolInv'
    BY DEF PlaceInv
<1>1. impeachments = 0
    BY DEF ANext, ReplicaStep, AClientRequestCmd, AClientRespCmd, HandlePending, HandleAsFollower,
           HandleAndBuffer, HandleAndPropose, HandleAndAbort, BeginPending, ADeliver, AReceive,
           ACommit, ADoDecide, AImpeach, AppInv, avars, paceVars
<1>2. Pool!CNext \/ UNCHANGED Pool!cvars
    BY <1>1, AppPoolStep
<1>3. [PoolP!CNext]_(PoolP!cvars)
    BY <1>2, SamePool
<1>4. PoolP!PoolInv
    BY <1>1 DEF PlaceInv
<1> QED BY <1>3, <1>4, PoolAssumed, PoolP!PoolInvStep

LEMMA CommandsInvariant == ASpec => [](FillInv /\ ServedInv /\ PlaceInv)
<1>1. CoreInv /\ AppInv /\ OneInv /\ FillInv /\ ServedInv /\ PlaceInv /\ [ANext]_avars
        => (FillInv /\ ServedInv /\ PlaceInv)'
    BY FillStep, ServedStep, PlaceStep
<1> QED BY <1>1, InitCommands, AppInvariant, PTL DEF ASpec

\* Whoever is impeached and whichever process aborts, what the client acknowledges more
\* replicas than may be faulty have executed (client.cpp:87-101, e2c.cpp:338-347).
THEOREM AppAcksExecuted == ASpec => []AckedIsExecuted
<1>1. ServedInv => AckedIsExecuted
    <2> SUFFICES ASSUME ServedInv, NEW c \in acked
                 PROVE  Cardinality({r \in Replica : c \in Executed(r)}) > Pool!nfaulty
        BY DEF AckedIsExecuted
    <2>1. PICK E : E = [r \in Replica |-> Executed(r)]
        OBVIOUS
    <2>2. PoolP!Served(E) /\ c \in PoolP!Sent
        BY <2>1 DEF ServedInv, PoolP!ClientOK
    <2>3. PICK S, T : S = PoolP!ReadOf(c) /\ T = {r \in Replica : c \in Executed(r)}
        OBVIOUS
    <2>4. Pool!nfaulty = PoolP!nfaulty /\ PoolP!nfaulty \in Nat
        <3>1. PoolP!nfaulty \in Nat
            BY PoolAssumed, PoolP!NfaultyIsNat
        <3> QED BY <3>1, SameCardinality DEF Pool!nfaulty, PoolP!nfaulty
    <2>5. Cardinality(S) > Pool!nfaulty
        BY <2>2, <2>3, <2>4, SameCardinality DEF PoolP!Served
    <2>6. S \subseteq T /\ T \subseteq Replica
        BY <2>1, <2>2, <2>3 DEF PoolP!ReadOf, PoolP!Served
    <2>7. IsFiniteSet(T) /\ IsFiniteSet(S) /\ Cardinality(S) <= Cardinality(T)
        BY <2>6, ReplicaAssumption, FS_Subset
    <2>8. Cardinality(S) \in Nat /\ Cardinality(T) \in Nat
        BY <2>7, FS_CardinalityType
    <2> QED BY <2>3, <2>4, <2>5, <2>7, <2>8
<1> QED BY <1>1, CommandsInvariant, PTL

\* A replica proposes a command once at most and never while it is in its buffer, though its
\* pace maker may lose the office and get it back (e2c.cpp:378-411, liveness.h:72-74).
THEOREM AppProposesOnce == ASpec => []ProposedOnceByEach
<1>1. FillInv => ProposedOnceByEach
    <2> SUFFICES ASSUME FillInv, NEW r \in Replica, NEW b \in OwnBlocks(r), NEW d \in OwnBlocks(r)
                 PROVE  /\ \A i \in DOMAIN cmds[b], k \in DOMAIN cmds[d] :
                              cmds[b][i] = cmds[d][k] => b = d /\ i = k
                        /\ Range(cmds[b]) \cap Range(buffer[r]) = {}
        BY DEF ProposedOnceByEach, OwnBlocks
    <2>1. OwnOnce(r)
        BY DEF FillInv
    <2>2. ASSUME NEW i \in DOMAIN cmds[b], NEW k \in DOMAIN cmds[d], cmds[b][i] = cmds[d][k]
          PROVE  b = d /\ i = k
        <3>1. cmds[b][i] \in Range(cmds[b]) /\ cmds[b][i] \in Range(cmds[d])
            BY <2>2 DEF Range
        <3>2. b = d
            BY <2>1, <3>1 DEF OwnOnce
        <3>3. IsInjective(cmds[b])
            BY <2>1 DEF OwnOnce
        <3> QED BY <2>2, <3>2, <3>3 DEF IsInjective
    <2>3. Range(cmds[b]) \cap Range(buffer[r]) = {}
        BY <2>1 DEF OwnOnce
    <2> QED BY <2>2, <2>3
<1> QED BY <1>1, CommandsInvariant, PTL

\* Until somebody is impeached no command is lost or doubled on its way into a block, and the
\* proposer can answer what it executes (e2c.cpp:338-411).
THEOREM AppLosesNone == ASpec => []NoneLost
<1>1. PlaceInv => NoneLost
    <2> SUFFICES ASSUME PoolP!PoolInv PROVE Pool!ProposedOnce /\ Pool!ProposerAnswers
        BY DEF PlaceInv, NoneLost
    <2>1. PoolP!ProposedOnce
        BY PoolAssumed, PoolP!PoolInvProposesOnce
    <2>2. Pool!Slots = PoolP!Slots /\ \A s : Pool!CmdAt(s) = PoolP!CmdAt(s)
        BY DEF Pool!Slots, PoolP!Slots, Pool!CmdAt, PoolP!CmdAt
    <2>3. Pool!ProposedOnce
        BY <2>1, <2>2 DEF Pool!ProposedOnce, PoolP!ProposedOnce
    <2>4. PoolP!ProposerAnswers
        BY DEF PoolP!PoolInv
    <2>5. Pool!ProposerAnswers
        BY <2>4 DEF Pool!ProposerAnswers, PoolP!ProposerAnswers, Pool!Range, PoolP!Range
    <2> QED BY <2>3, <2>5
<1> QED BY <1>1, CommandsInvariant, PTL

=============================================================================
