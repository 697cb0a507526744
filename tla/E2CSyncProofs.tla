--------------------------- MODULE E2CSyncProofs ---------------------------
(***************************************************************************)
(* The timed model restricts when the steps of the network layer happen    *)
(* and adds none but time and crashes, so all that is proved of E2CCore    *)
(* holds of it, and the invariants of the network layer do. What is proved *)
(* of time is an invariant of its own on top of them.                      *)
(***************************************************************************)
EXTENDS E2CSync, E2CProposalProofs

-----------------------------------------------------------------------------
(* The inductive invariant.                                                 *)

\* The blocks that r has filed, b0 aside, carry the time of their filing.
FilingsStamped(r) ==
    /\ DOMAIN filed_at[r] = FiledBy(r) \ {Genesis}
    /\ \A b \in DOMAIN filed_at[r] : filed_at[r][b] \in 0..now

\* A proposal that arrives by time t has had its Delay since its block was filed.
InTime(m, t, filed) ==
    m.type = "propose" => m.blk \in DOMAIN filed /\ t <= filed[m.blk] + Delay

MessagesStamped(p) ==
    /\ due[p] \in Seq(Nat)
    /\ Len(due[p]) = Len(chan[p])
    /\ \A i \in DOMAIN chan[p] : InTime(chan[p][i], due[p][i], filed_at[p[1]])

\* Nobody has a block before the proposer.
AfterProposer(r) ==
    \A b \in DOMAIN filed_at[r] :
        /\ b \in DOMAIN filed_at[FirstProposer]
        /\ filed_at[FirstProposer][b] <= filed_at[r][b]

\* What r has filed, q files at most Delay later: it has or there is still time.
ReachesInTime(r, q) ==
    Up(r) /\ Up(q) =>
        \A b \in DOMAIN filed_at[r] :
            \/ b \in DOMAIN filed_at[q] /\ filed_at[q][b] <= filed_at[r][b] + Delay
            \/ b \notin DOMAIN filed_at[q] /\ now <= filed_at[r][b] + Delay

\* No commit timer is late.
TimersInTime(r) == Up(r) => \A b \in commit_timer[r] : now <= CommitDue(r, b)

\* A decision comes 2 delta after the filing, and gives the proposer 2 delta more.
DecidedAfter(r) ==
    \A b \in decision[r] \ {Genesis} :
        /\ CommitDue(r, b) <= now
        /\ filed_at[r][b] + 4 * Delta <= impeach_due[r]

\* The impeachment timer is not late; what it gives the proposer it gives for a block.
ImpeachmentInTime(r) ==
    /\ impeach_due[r] \in Int
    /\ Up(r) /\ decision[r] # {Genesis} =>
          /\ now <= impeach_due[r]
          /\ \E b \in DOMAIN filed_at[r] : impeach_due[r] <= filed_at[r][b] + 4 * Delta

\* The inductive invariant, on top of that of the network layer. Until somebody is
\* impeached one replica proposes; nothing is lost.
Timely ==
    /\ now \in Nat
    /\ DOMAIN due = Link
    /\ DOMAIN filed_at = Replica
    /\ DOMAIN impeach_due = Replica
    /\ \A r \in Replica : /\ FilingsStamped(r)
                          /\ AfterProposer(r)
                          /\ TimersInTime(r)
                          /\ DecidedAfter(r)
                          /\ ImpeachmentInTime(r)
    /\ \A r, q \in Replica : ReachesInTime(r, q)
    /\ \A p \in Link : MessagesStamped(p)

-----------------------------------------------------------------------------
(* The timed model uses the network layer.                                  *)

\* A step in time is a step of the network layer or leaves the protocol alone.
LEMMA SStepIsBStep == [SNext]_svars => [BNext]_bvars \/ UNCHANGED vars
<1> SUFFICES ASSUME [SNext]_svars PROVE [BNext]_bvars \/ UNCHANGED vars
    OBVIOUS
<1>1. CASE UNCHANGED svars
    BY <1>1 DEF svars
<1>2. CASE Tick
    BY <1>2 DEF Tick
<1>3. ASSUME NEW r \in Replica,
             SHandlerStep(r) \/ SProposeNullParent(r) \/ SImpeach(r)
      PROVE  BNext
    BY <1>3 DEF SHandlerStep, SProposeNullParent, SImpeach, BNext
<1>4. ASSUME NEW r \in Replica, NEW b \in Hash, SPropose(r, b) \/ SCommitTimerCb(r, b)
      PROVE  BNext
    BY <1>4 DEF SPropose, SCommitTimerCb, BNext
<1>5. ASSUME NEW r \in Replica, NEW s \in Replica \ {r}, SHandleMessage(s, r)
      PROVE  BNext
    BY <1>5 DEF SHandleMessage, BNext
<1>6. ASSUME NEW r \in Replica, NEW kept, Crash(r, kept) PROVE UNCHANGED vars
    BY <1>6 DEF Crash
<1> QED BY <1>1, <1>2, <1>3, <1>4, <1>5, <1>6 DEF SNext

\* In time, with replicas that stop anywhere in a broadcast, the replicas still use
\* E2CCore as its declarations ask (consensus.h:70-90).
THEOREM TimedUsesCore == SSpec => Spec
<1>1. SInit => Init
    BY DEF SInit, BInit
<1>2. CoreInv /\ [SNext]_svars => [Next]_vars /\ CoreInv'
    <2>1. CoreInv => TypeOK
        BY DEF CoreInv
    <2>2. CoreInv /\ [SNext]_svars => [Next]_vars
        BY <2>1, SStepIsBStep, BStepIsCoreStep
    <2> QED BY <2>2, CoreInvStep
<1>3. Init => CoreInv
    BY InitCoreInv
<1> QED BY <1>1, <1>2, <1>3, PTL DEF SSpec, Spec

\* A decision is made once though timers, crashes and impeachments race
\* (consensus.cpp:206-230).
THEOREM TimedExecutesOnce == SSpec => []ExecutedOnce
BY TimedUsesCore, ExecutesOnce, PTL

-----------------------------------------------------------------------------
(* The invariants of the network layer, with crashes and without losses.    *)

\* A replica stops: nothing changes but its connections, which lose their ends.
CutOff(r) ==
    /\ UNCHANGED <<vars, proposer, storage, signed, fetching, waiting, need, stack, counters>>
    /\ aborted' = [aborted EXCEPT ![r] = TRUE]
    /\ DOMAIN chan' = Link
    /\ \A p \in Link : p[1] # r => chan'[p] = chan[p]
    /\ \A p \in Link : /\ chan'[p] \in Seq(Message)
                        /\ Len(chan'[p]) <= Len(chan[p])
                        /\ \A i \in DOMAIN chan'[p] :
                              i \in DOMAIN chan[p] /\ chan'[p][i] = chan[p][i]

\* The beginning of a sequence.
LEMMA CutFacts ==
    ASSUME NEW S, NEW s \in Seq(S), NEW n \in Nat, n <= Len(s), NEW t, t = SubSeq(s, 1, n)
    PROVE  /\ t \in Seq(S) /\ Len(t) = n
           /\ \A i \in DOMAIN t : i \in DOMAIN s /\ t[i] = s[i]
<1>1. /\ SubSeq(s, 1, n) \in Seq(S)
      /\ Len(SubSeq(s, 1, n)) = n
      /\ \A i \in 1..n : SubSeq(s, 1, n)[i] = s[i]
    OBVIOUS
<1>2. DOMAIN t = 1..n /\ DOMAIN s = 1..Len(s)
    BY <1>1
<1>3. 1..n \subseteq 1..Len(s)
    OBVIOUS
<1> QED BY <1>1, <1>2, <1>3

\* What the number of messages that a connection still delivers can be.
LEMMA KeptIs ==
    ASSUME NEW r \in Replica, NEW kept, Crash(r, kept), NEW p \in Link, p[1] = r,
           kept \in [Replica \ {r} -> 0..(2 * Cardinality(Hash))]
    PROVE  kept[p[2]] \in Nat /\ kept[p[2]] <= Len(chan[p])
<1>1. p[2] \in Replica \ {r} /\ p = <<r, p[2]>>
    BY DEF Link
<1>2. kept[p[2]] \in 0..(2 * Cardinality(Hash))
    BY <1>1
<1>3. kept[p[2]] <= Len(chan[<<r, p[2]>>])
    BY <1>1 DEF Crash
<1> QED BY <1>1, <1>2, <1>3

\* A crash cuts off.
LEMMA CrashCuts ==
    ASSUME NetInv, NEW r \in Replica, NEW kept, Crash(r, kept),
           kept \in [Replica \ {r} -> 0..(2 * Cardinality(Hash))]
    PROVE  CutOff(r)
<1>1. ASSUME NEW p \in Link
      PROVE  /\ chan'[p] \in Seq(Message)
             /\ Len(chan'[p]) <= Len(chan[p])
             /\ \A i \in DOMAIN chan'[p] : i \in DOMAIN chan[p] /\ chan'[p][i] = chan[p][i]
    <2>1. PICK s, t : s = chan[p] /\ t = chan'[p]
        OBVIOUS
    <2>2. s \in Seq(Message)
        BY <2>1 DEF NetInv, ChannelsOK
    <2>3. CASE p[1] = r
        <3>1. PICK n : n = kept[p[2]]
            OBVIOUS
        <3>2. n \in Nat /\ n <= Len(s)
            BY <2>1, <2>3, <3>1, KeptIs
        <3>3. t = SubSeq(s, 1, n)
            BY <2>1, <2>3, <3>1 DEF Crash
        <3>4. t \in Seq(Message) /\ Len(t) = n /\ \A i \in DOMAIN t : i \in DOMAIN s /\ t[i] = s[i]
            BY <2>2, <3>2, <3>3, CutFacts
        <3> QED BY <2>1, <3>2, <3>4
    <2>4. CASE p[1] # r
        <3>1. t = s
            BY <2>1, <2>4 DEF Crash
        <3>2. Len(s) \in Nat
            BY <2>2
        <3> QED BY <2>1, <2>2, <3>1, <3>2
    <2> QED BY <2>3, <2>4
<1>2. DOMAIN chan' = Link /\ \A p \in Link : p[1] # r => chan'[p] = chan[p]
    BY DEF Crash
<1>3. /\ UNCHANGED <<vars, proposer, storage, signed, fetching, waiting, need, stack, counters>>
      /\ aborted' = [aborted EXCEPT ![r] = TRUE]
    BY DEF Crash
<1> QED BY <1>1, <1>2, <1>3 DEF CutOff

\* A crash takes nothing away.
LEMMA CutGrows ==
    ASSUME NetInv, NEW r \in Replica, CutOff(r)
    PROVE  Grows /\ Stays /\ StaysDead
<1>1. UNCHANGED vars
    BY DEF CutOff
<1>2. CoreInv /\ DeliveredClosed /\ [Next]_vars
    BY <1>1 DEF NetInv
<1>3. StaysDead
    BY DEF CutOff, StaysDead, NetInv, TablesOK
<1> QED BY <1>2, <1>3, CoreGrows, StaysFiled

\* NetInv survives a crash,
LEMMA CutNet ==
    ASSUME NetInv, NEW r \in Replica, CutOff(r)
    PROVE  NetInv'
<1>1. Grows
    BY CutGrows
<1>2. /\ UNCHANGED <<storage, signed, fetching, waiting, need, stack, delivered, proposer>>
      /\ UNCHANGED <<losses, retries, impeachments>>
      /\ aborted' = [aborted EXCEPT ![r] = TRUE]
      /\ DOMAIN chan' = Link
    BY DEF CutOff, vars, counters
<1>3. TablesOK'
    BY <1>2 DEF NetInv, TablesOK
<1>4. ASSUME NEW p \in Link, NEW t, t = chan'[p], NEW i \in DOMAIN t PROVE MessageOK(p, t[i])'
    <2>1. PICK m : m = t[i]
        OBVIOUS
    <2>2. i \in DOMAIN chan[p] /\ chan[p][i] = m
        BY <1>4, <2>1 DEF CutOff
    <2>3. MessageOK(p, m)
        BY <2>2 DEF NetInv, ChannelsOK
    <2>4. MessageOK(p, m)'
        BY <1>1, <2>3, MessageGrows
    <2> QED BY <2>1, <2>4
<1>5. ChannelsOK'
    <2> SUFFICES ASSUME NEW p \in Link, NEW t, t = chan'[p]
                 PROVE  t \in Seq(Message) /\ \A i \in DOMAIN t : MessageOK(p, t[i])'
        BY DEF ChannelsOK
    <2> QED BY <1>4 DEF CutOff
<1> QED BY <1>1, <1>2, <1>3, <1>5, TablesUntouched

\* ProposalInv does,
LEMMA CutProposal ==
    ASSUME NetInv, ProposalInv, NEW r \in Replica, CutOff(r)
    PROVE  ProposalInv'
<1>1. /\ blocks' = blocks /\ ht_blk_map' = ht_blk_map /\ proposer' = proposer
      /\ signed' = signed /\ stack' = stack /\ waiting' = waiting /\ impeachments' = impeachments
    BY DEF CutOff, vars, counters
<1>2. \A p \in Link : \A i \in DOMAIN chan'[p] : i \in DOMAIN chan[p] /\ chan'[p][i] = chan[p][i]
    BY DEF CutOff
<1>3. SentIsFiled'
    <2> SUFFICES ASSUME NEW p \in Link, NEW t, t = chan'[p] PROVE SentFiled(p[1], t)'
        BY DEF SentIsFiled, SentFiled
    <2>1. ASSUME NEW b, AlreadyHandled(p[1], b) PROVE AlreadyHandled(p[1], b)'
        BY <1>1, <2>1 DEF AlreadyHandled, HasHeight, Height
    <2>2. ASSUME NEW i \in DOMAIN t, t[i].type = "propose" PROVE AlreadyHandled(p[1], t[i].blk)
        BY <1>2, <2>2 DEF ProposalInv, SentIsFiled
    <2> QED BY <2>1, <2>2 DEF SentFiled
<1>4. ForwardedOnce'
    BY <1>2 DEF ProposalInv, ForwardedOnce
<1>5. \A b \in Known' \ {Genesis} : blocks'[b].proposer = FirstProposer
    BY <1>1 DEF ProposalInv, Known
<1>6. ASSUME impeachments' = 0
      PROVE  /\ proposer' = [q \in Replica |-> FirstProposer]
             /\ \A q \in Replica : SignedIsFiled(q)'
    <2>1. /\ proposer = [q \in Replica |-> FirstProposer]
          /\ \A q \in Replica : SignedIsFiled(q)
        BY <1>1, <1>6 DEF ProposalInv
    <2> QED BY <1>1, <2>1 DEF SignedIsFiled, AlreadyHandled, HasHeight, Height, Pending
<1> QED BY <1>3, <1>4, <1>5, <1>6 DEF ProposalInv

\* and so does CalmInv: whoever has stopped owes nothing any more.
LEMMA CutCalm ==
    ASSUME NetInv, CalmInv, NEW r \in Replica, CutOff(r)
    PROVE  CalmInv'
<1> SUFFICES ASSUME losses' = 0, impeachments' = 0
             PROVE  /\ \A q \in Replica : CalmReplica(q)'
                    /\ \A p \in Link : CalmChannel(p)'
    BY DEF CalmInv
<1>1. Grows /\ Stays /\ StaysDead
    BY CutGrows
<1>2. /\ UNCHANGED <<storage, fetching, need, waiting, stack, ht_blk_map, blocks>>
      /\ losses = 0 /\ impeachments = 0
      /\ aborted' = [aborted EXCEPT ![r] = TRUE]
    BY DEF CutOff, vars, counters
<1>3. \A q \in Replica : CalmReplica(q)'
    BY <1>1, <1>2, OtherCalm DEF CalmInv
<1>4. ASSUME NEW p \in Link, p[1] # r PROVE CalmChannel(p)'
    <2>1. p[1] \in Replica /\ p[2] \in Replica /\ chan'[p] = chan[p]
        BY <1>4 DEF Link, CutOff
    <2>2. FilesOnly(p[1], {})
        BY <1>1, <1>2, <2>1, SameFiles
    <2> QED BY <1>1, <1>2, <2>1, <2>2, CalmRests DEF CalmInv
<1>5. ASSUME NEW p \in Link, p[1] = r PROVE CalmChannel(p)'
    <2>1. aborted'[p[1]]
        BY <1>2, <1>5 DEF NetInv, TablesOK
    <2>2. PICK s, t : s = chan[p] /\ t = chan'[p]
        OBVIOUS
    <2>3. /\ s \in Seq(Message) /\ t \in Seq(Message)
          /\ \A i \in DOMAIN t : i \in DOMAIN s /\ t[i] = s[i]
        BY <2>2 DEF NetInv, ChannelsOK, CutOff
    <2>4. ASSUME NEW i \in DOMAIN t
          PROVE  /\ t[i].type = "propose"
                 /\ \A b \in Range(Parents(t[i].blk))' : b \in storage'[p[2]] \/ Sent(p, b, i)'
        <3>1. s[i].type = "propose" /\ \A b \in Range(Parents(s[i].blk)) :
                                          b \in storage[p[2]] \/ Sent(p, b, i)
            BY <1>2, <2>2, <2>3 DEF CalmInv, CalmChannel
        <3>2. Parents(t[i].blk)' = Parents(s[i].blk)
            BY <1>2, <2>3 DEF Parents
        <3>3. 1..(i - 1) \subseteq DOMAIN t
            BY <2>3
        <3>4. ASSUME NEW b, Sent(p, b, i) PROVE Sent(p, b, i)'
            BY <2>2, <2>3, <3>3, <3>4 DEF Sent
        <3> QED BY <1>2, <2>3, <3>1, <3>2, <3>4
    <2> QED BY <2>1, <2>2, <2>4 DEF CalmChannel
<1> QED BY <1>3, <1>4, <1>5

\* No step of the timed model loses a message,
LEMMA NoLoss ==
    ASSUME [SNext]_svars
    PROVE  losses' = losses /\ (\/ [BNext]_bvars
                                \/ \E r \in Replica :
                                      \E kept \in [Replica \ {r} -> 0..(2 * Cardinality(Hash))] :
                                          Crash(r, kept))
<1>1. CASE UNCHANGED svars
    BY <1>1 DEF svars, bvars, baseVars, counters
<1>2. CASE Tick
    BY <1>2 DEF Tick, bvars, baseVars, counters
<1>3. ASSUME NEW r \in Replica, SHandlerStep(r) PROVE BNext /\ losses' = losses
    BY <1>3 DEF SHandlerStep, BNext, HandlerStep, AsyncDeliverBlk, Verify, All, AllThen,
                BOnDeliverBlk, AwaitDelivery, BOnReceiveProposal, counters
<1>4. ASSUME NEW r \in Replica, SProposeNullParent(r) \/ SImpeach(r) PROVE BNext /\ losses' = losses
    BY <1>4 DEF SProposeNullParent, BProposeNullParent, SImpeach, Impeach, BNext, baseVars, counters
<1>5. ASSUME NEW r \in Replica, NEW b \in Hash, SPropose(r, b) \/ SCommitTimerCb(r, b)
      PROVE  BNext /\ losses' = losses
    BY <1>5 DEF SPropose, BPropose, SCommitTimerCb, BCommitTimerCb, BNext, baseVars, counters
<1>6. ASSUME NEW r \in Replica, NEW s \in Replica \ {r}, SHandleMessage(s, r)
      PROVE  BNext /\ losses' = losses
    BY <1>6 DEF SHandleMessage, HandleMessage, ProposeHandler, ReqBlkHandler, RespBlkHandler, BNext,
                counters
<1>7. ASSUME NEW r \in Replica, NEW kept, Crash(r, kept) PROVE losses' = losses
    BY <1>7 DEF Crash, counters
<1> QED BY <1>1, <1>2, <1>3, <1>4, <1>5, <1>6, <1>7 DEF SNext

\* What the timed model keeps of the network layer.
Below == NetInv /\ FirstInv /\ ProposalInv /\ CalmInv /\ losses = 0

LEMMA BelowStep ==
    ASSUME Below, [SNext]_svars, impeachments' = 0
    PROVE  Below'
<1>1. CASE [BNext]_bvars
    <2>1. NetInv' /\ FirstInv' /\ ProposalInv' /\ CalmInv'
        BY <1>1, CalmInvStep DEF Below, Early
    <2> QED BY <2>1, NoLoss DEF Below
<1>2. ASSUME NEW r \in Replica, NEW kept \in [Replica \ {r} -> 0..(2 * Cardinality(Hash))],
             Crash(r, kept)
      PROVE  Below'
    <2>1. NetInv /\ FirstInv /\ ProposalInv /\ CalmInv
        BY DEF Below
    <2>2. CutOff(r)
        BY <1>2, <2>1, CrashCuts
    <2>3. FirstInv'
        <3>1. UNCHANGED <<blocks, alive, ht_blk_map, b_mark>>
            BY <2>2 DEF CutOff, vars
        <3>2. FirstFiledAll' /\ FirstContiguous'
            BY <2>1, <3>1 DEF FirstInv, FirstFiledAll, FirstContiguous, AlreadyHandled, HasHeight,
                              Height, Known
        <3>3. FirstParents' /\ NeverAborts'
            BY <2>1, <3>1 DEF FirstInv, FirstParents, NeverAborts, Height, Parents, Known
        <3> QED BY <3>2, <3>3 DEF FirstInv
    <2> QED BY <2>1, <2>2, <2>3, CutNet, CutProposal, CutCalm, NoLoss DEF Below
<1> QED BY <1>1, <1>2, NoLoss

-----------------------------------------------------------------------------
(* The stamps of the blocks.                                                *)

\* A block is on file when its own height has it.
FiledAtHeight == \A r \in Replica : \A b : b \in FiledBy(r) <=> AlreadyHandled(r, b)

LEMMA FiledIs == CoreInv => FiledAtHeight
<1> SUFFICES ASSUME CoreInv, NEW r \in Replica, NEW b
             PROVE  b \in FiledBy(r) <=> AlreadyHandled(r, b)
    BY DEF FiledAtHeight
<1>1. PICK m : m = ht_blk_map[r]
    OBVIOUS
<1>2. \A ht \in DOMAIN m : Height(m[ht]) = ht
    BY <1>1 DEF CoreInv, MapOK
<1>3. b \in FiledBy(r) <=> \E ht \in DOMAIN m : m[ht] = b
    BY <1>1 DEF FiledBy, Range
<1>4. AlreadyHandled(r, b) <=> Height(b) \in DOMAIN m /\ m[Height(b)] = b
    BY <1>1 DEF AlreadyHandled, HasHeight
<1>5. ASSUME NEW ht \in DOMAIN m, m[ht] = b PROVE AlreadyHandled(r, b)
    BY <1>2, <1>4, <1>5
<1>6. ASSUME AlreadyHandled(r, b) PROVE \E ht \in DOMAIN m : m[ht] = b
    BY <1>4, <1>6
<1> QED BY <1>3, <1>5, <1>6

\* b0 is.
LEMMA GenesisFiled == CoreInv => \A r \in Replica : AlreadyHandled(r, Genesis)
<1> SUFFICES ASSUME CoreInv, NEW r \in Replica PROVE AlreadyHandled(r, Genesis)
    OBVIOUS
<1>1. ht_blk_map[r][0] \in Known /\ Height(ht_blk_map[r][0]) = 0 /\ 0 \in DOMAIN ht_blk_map[r]
    BY DEF CoreInv, TypeOK, MapOK, HasHeight
<1>2. ht_blk_map[r][0] = Genesis
    BY <1>1 DEF CoreInv, BlocksOK
<1> QED BY <1>1, <1>2 DEF AlreadyHandled, HasHeight, CoreInv, BlocksOK

\* Only what has a timer is decided, and nothing is taken back.
DecisionsGrow ==
    \A r \in Replica : /\ decision[r] \subseteq decision'[r]
                       /\ decision'[r] \subseteq decision[r] \cup commit_timer[r]

LEMMA StepDecides ==
    ASSUME CoreInv, [Next]_vars
    PROVE  DecisionsGrow
<1>1. CASE decision' = decision
    BY <1>1 DEF DecisionsGrow
<1>2. ASSUME NEW r \in Replica, NEW b \in Hash, CommitTimerCb(r, b) PROVE DecisionsGrow
    <2>1. b \in commit_timer[r]
        BY <1>2 DEF CommitTimerCb
    <2>2. ht_blk_map[r][Height(b)] = b
        BY <2>1, TimerFindsItsBlock
    <2>3. decision' = decision \/ decision' = [decision EXCEPT ![r] = @ \cup {b}]
        BY <1>2, <2>2 DEF CommitTimerCb
    <2>4. DOMAIN decision = Replica
        BY DEF CoreInv, TypeOK
    <2>5. ASSUME NEW q \in Replica
          PROVE  decision'[q] = decision[q] \/ (q = r /\ decision'[q] = decision[q] \cup {b})
        BY <2>3, <2>4
    <2> QED BY <2>1, <2>5 DEF DecisionsGrow
<1>3. ASSUME NEW r \in Replica,
             \/ OnProposeNullParent(r)
             \/ \E b \in Hash : OnPropose(r, b) \/ OnDeliverBlk(r, b) \/ OnReceiveProposal(r, b)
      PROVE  decision' = decision
    BY <1>3 DEF OnProposeNullParent, OnPropose, OnDeliverBlk, OnReceiveProposal
<1> QED BY <1>1, <1>2, <1>3 DEF Next, vars

\* The stamps of a step: those that are there stay, a new one says now.
StampsKept ==
    /\ DOMAIN filed_at' = Replica
    /\ \A r \in Replica :
          /\ DOMAIN filed_at'[r] = FiledBy(r)' \ {Genesis}
          /\ \A b \in DOMAIN filed_at[r] :
                b \in DOMAIN filed_at'[r] /\ filed_at'[r][b] = filed_at[r][b]
          /\ \A b \in DOMAIN filed_at'[r] : b \in DOMAIN filed_at[r] \/ filed_at'[r][b] = now

\* The sets of a replica before and after a step: what has a stamp, a timer, a decision,
\* a height.
LEMMA NewFilings ==
    ASSUME NEW g, NEW S, NEW C, NEW D, NEW N, NEW C1, NEW D1, NEW N1,
           S = N \ {g}, C = N \ D, D \subseteq N, C1 = N1 \ D1, D1 \subseteq N1, N \subseteq N1,
           D \subseteq D1, D1 \subseteq D \cup C, g \in D
    PROVE  /\ S \cup (C1 \ C) = N1 \ {g}
           /\ \A b \in S : b \notin C1 \ C
OBVIOUS

\* What is filed stays filed.
LEMMA FiledGrows ==
    ASSUME Stays, NEW r \in Replica
    PROVE  FiledBy(r) \subseteq FiledBy(r)'
<1>1. PICK m, n : m = ht_blk_map[r] /\ n = ht_blk_map'[r]
    OBVIOUS
<1>2. \A ht \in DOMAIN m : ht \in DOMAIN n /\ n[ht] = m[ht]
    BY <1>1 DEF Stays
<1> QED BY <1>1, <1>2 DEF FiledBy, Range

\* A step that stamps what it files keeps the stamps.
LEMMA StampFiledKeeps ==
    ASSUME CoreInv, CoreInv', Stays, DecisionsGrow, StampFiled,
           \A r \in Replica : DOMAIN filed_at[r] = FiledBy(r) \ {Genesis}
    PROVE  StampsKept
<1> SUFFICES ASSUME NEW r \in Replica
             PROVE  /\ DOMAIN filed_at'[r] = FiledBy(r)' \ {Genesis}
                    /\ \A b \in DOMAIN filed_at[r] :
                          b \in DOMAIN filed_at'[r] /\ filed_at'[r][b] = filed_at[r][b]
                    /\ \A b \in DOMAIN filed_at'[r] :
                          b \in DOMAIN filed_at[r] \/ filed_at'[r][b] = now
    BY DEF StampsKept, StampFiled
<1>1. PICK S, C, D, N, C1, D1, N1 :
          /\ S = DOMAIN filed_at[r]
          /\ C = commit_timer[r] /\ D = decision[r] /\ N = FiledBy(r)
          /\ C1 = commit_timer'[r] /\ D1 = decision'[r] /\ N1 = FiledBy(r)'
    OBVIOUS
<1>2. C = N \ D /\ D \subseteq N /\ Genesis \in D
    BY <1>1 DEF CoreInv, FiledIsPendingOrDecided, FiledBy, BlocksOK
<1>3. C1 = N1 \ D1 /\ D1 \subseteq N1
    BY <1>1 DEF CoreInv, FiledIsPendingOrDecided, FiledBy
<1>4. D \subseteq D1 /\ D1 \subseteq D \cup C
    BY <1>1 DEF DecisionsGrow
<1>5. N \subseteq N1
    BY <1>1, FiledGrows
<1>6. S = N \ {Genesis}
    BY <1>1
<1>7. S \cup (C1 \ C) = N1 \ {Genesis} /\ \A b \in S : b \notin C1 \ C
    BY <1>2, <1>3, <1>4, <1>5, <1>6, NewFilings
<1>8. filed_at'[r] = [b \in S \cup (C1 \ C) |-> IF b \in C1 \ C THEN now ELSE filed_at[r][b]]
    BY <1>1 DEF StampFiled
<1> QED BY <1>1, <1>7, <1>8

\* A step that files nothing does.
LEMMA NothingFiled ==
    ASSUME UNCHANGED <<filed_at, ht_blk_map>>, DOMAIN filed_at = Replica,
           \A r \in Replica : DOMAIN filed_at[r] = FiledBy(r) \ {Genesis}
    PROVE  StampsKept
BY DEF StampsKept, FiledBy

\* Nobody starts again.
NobodyWakes == \A r \in Replica : Up(r)' => Up(r)

\* What a step of the timed model does to the state below it.
LEMMA StepUnder ==
    ASSUME Below, [SNext]_svars, impeachments' = 0
    PROVE  /\ Below' /\ CoreInv /\ CoreInv' /\ [Next]_vars
           /\ Grows /\ Stays /\ DecisionsGrow /\ NobodyWakes
<1>1. Below'
    BY BelowStep
<1>2. CoreInv /\ CoreInv' /\ FirstInv
    BY <1>1 DEF Below, NetInv
<1>3. [Next]_vars
    <2>1. TypeOK
        BY <1>2 DEF CoreInv
    <2> QED BY <2>1, SStepIsBStep, BStepIsCoreStep
<1>4. Grows /\ Stays /\ DecisionsGrow
    <2>1. DeliveredClosed
        BY DEF Below, NetInv
    <2> QED BY <1>2, <1>3, <2>1, CoreGrows, StaysFiled, StepDecides
<1>5. StaysDead
    <2>1. NetInv
        BY DEF Below
    <2> QED BY <2>1, NoLoss, NobodyComesBack, CrashCuts, CutGrows
<1>6. NobodyWakes
    BY <1>2, <1>5 DEF NobodyWakes, StaysDead, Up, FirstInv, NeverAborts
<1> QED BY <1>1, <1>2, <1>3, <1>4, <1>6

\* The bounds of time are numbers.
LEMMA TimesAre == Delta \in Nat \ {0} /\ Delay \in Nat /\ 2 * Delta \in Nat /\ 4 * Delta \in Nat
BY TimesAssumption

\* Stamps stay in the past,
LEMMA FilingsLater ==
    ASSUME StampsKept, now \in Nat, now' \in Nat, now <= now', NEW r \in Replica, FilingsStamped(r)
    PROVE  FilingsStamped(r)'
<1> SUFFICES ASSUME NEW b, b \in DOMAIN filed_at'[r] PROVE filed_at'[r][b] \in 0..now'
    BY DEF FilingsStamped, StampsKept
<1>1. CASE b \in DOMAIN filed_at[r]
    BY <1>1 DEF StampsKept, FilingsStamped
<1>2. CASE filed_at'[r][b] = now
    BY <1>2
<1> QED BY <1>1, <1>2 DEF StampsKept

\* and the proposer's come first: it has filed whatever there is.
LEMMA ProposerFirst ==
    ASSUME CoreInv', FirstInv', StampsKept, now \in Nat,
           \A q \in Replica : FilingsStamped(q), NEW r \in Replica, AfterProposer(r)
    PROVE  AfterProposer(r)'
<1>1. FirstProposer \in Replica
    BY FirstIsReplica
<1> SUFFICES ASSUME NEW b, b \in DOMAIN filed_at'[r]
             PROVE  /\ b \in DOMAIN filed_at'[FirstProposer]
                    /\ filed_at'[FirstProposer][b] <= filed_at'[r][b]
    BY DEF AfterProposer
<1>2. b \in FiledBy(r)' \ {Genesis}
    BY DEF StampsKept
<1>3. b \in Known'
    <2>1. PICK ht : ht \in DOMAIN ht_blk_map'[r] /\ ht_blk_map'[r][ht] = b
        BY <1>2 DEF FiledBy, Range
    <2>2. ht_blk_map'[r] \in [DOMAIN ht_blk_map'[r] -> delivered'[r]] /\ delivered'[r] \subseteq Known'
        BY DEF CoreInv, TypeOK
    <2> QED BY <2>1, <2>2
<1>4. b \in FiledBy(FirstProposer)'
    <2>1. AlreadyHandled(FirstProposer, b)'
        BY <1>1, <1>3 DEF FirstInv, FirstFiledAll
    <2>2. FiledAtHeight'
        BY FiledIs, PTL
    <2> QED BY <1>1, <2>1, <2>2 DEF FiledAtHeight
<1>5. b \in DOMAIN filed_at'[FirstProposer]
    BY <1>1, <1>2, <1>4 DEF StampsKept
<1>6. CASE b \in DOMAIN filed_at[r]
    BY <1>1, <1>5, <1>6 DEF AfterProposer, StampsKept
<1>7. CASE filed_at'[r][b] = now
    <2>1. CASE b \in DOMAIN filed_at[FirstProposer]
        <3>1. filed_at'[FirstProposer][b] \in 0..now
            BY <1>1, <2>1 DEF StampsKept, FilingsStamped
        <3> QED BY <1>5, <1>7, <3>1
    <2>2. CASE filed_at'[FirstProposer][b] = now
        BY <1>5, <1>7, <2>2
    <2> QED BY <1>1, <1>5, <2>1, <2>2 DEF StampsKept
<1> QED BY <1>6, <1>7 DEF StampsKept

\* At one time: what is filed now has its delay before it, what is filed at last was in time.
LEMMA ReachesStill ==
    ASSUME StampsKept, NobodyWakes, now \in Nat, now' = now,
           \A p \in Replica : FilingsStamped(p),
           NEW r \in Replica, NEW q \in Replica, ReachesInTime(r, q)
    PROVE  ReachesInTime(r, q)'
<1> SUFFICES ASSUME Up(r)', Up(q)', NEW b, b \in DOMAIN filed_at'[r]
             PROVE  \/ /\ b \in DOMAIN filed_at'[q]
                       /\ filed_at'[q][b] <= filed_at'[r][b] + Delay
                    \/ /\ b \notin DOMAIN filed_at'[q]
                       /\ now <= filed_at'[r][b] + Delay
    BY DEF ReachesInTime
<1>0. Delay \in Nat
    BY TimesAre
<1>1. \/ b \in DOMAIN filed_at[r] /\ filed_at'[r][b] = filed_at[r][b]
      \/ filed_at'[r][b] = now
    BY DEF StampsKept
<1>2. \/ b \in DOMAIN filed_at[q] /\ b \in DOMAIN filed_at'[q] /\ filed_at'[q][b] = filed_at[q][b]
      \/ b \notin DOMAIN filed_at[q] /\ b \in DOMAIN filed_at'[q] /\ filed_at'[q][b] = now
      \/ b \notin DOMAIN filed_at[q] /\ b \notin DOMAIN filed_at'[q]
    BY DEF StampsKept
<1>3. b \in DOMAIN filed_at[r] =>
         /\ filed_at[r][b] \in Nat
         /\ \/ b \in DOMAIN filed_at[q] /\ filed_at[q][b] <= filed_at[r][b] + Delay
            \/ b \notin DOMAIN filed_at[q] /\ now <= filed_at[r][b] + Delay
    BY DEF ReachesInTime, NobodyWakes, FilingsStamped
<1>4. b \in DOMAIN filed_at[q] => filed_at[q][b] \in 0..now
    BY DEF FilingsStamped
<1>5. CASE b \in DOMAIN filed_at[r] /\ filed_at'[r][b] = filed_at[r][b]
    BY <1>2, <1>3, <1>5
<1>6. CASE filed_at'[r][b] = now
    BY <1>0, <1>2, <1>4, <1>6
<1> QED BY <1>1, <1>5, <1>6

\* The timers are those that were set and those that are set now.
LEMMA TimersStill ==
    ASSUME CoreInv, CoreInv', StampsKept, NobodyWakes, DecisionsGrow, now \in Nat, now' = now,
           NEW r \in Replica, FilingsStamped(r), TimersInTime(r)
    PROVE  TimersInTime(r)'
<1> SUFFICES ASSUME Up(r)', NEW b, b \in commit_timer'[r] PROVE now <= filed_at'[r][b] + 2 * Delta
    BY DEF TimersInTime, CommitDue
<1>1. b \in DOMAIN filed_at'[r] /\ b \notin decision'[r]
    <2>1. commit_timer'[r] = FiledBy(r)' \ decision'[r] /\ Genesis \in decision'[r]
        BY DEF CoreInv, FiledIsPendingOrDecided, FiledBy, BlocksOK
    <2> QED BY <2>1 DEF StampsKept
<1>2. CASE b \in DOMAIN filed_at[r]
    <2>1. commit_timer[r] = FiledBy(r) \ decision[r]
        BY DEF CoreInv, FiledIsPendingOrDecided, FiledBy
    <2>2. b \in commit_timer[r]
        BY <1>1, <1>2, <2>1 DEF FilingsStamped, DecisionsGrow
    <2>3. now <= filed_at[r][b] + 2 * Delta
        BY <2>2 DEF TimersInTime, CommitDue, NobodyWakes
    <2> QED BY <1>2, <2>3 DEF StampsKept
<1>3. CASE filed_at'[r][b] = now
    BY <1>3, TimesAre
<1> QED BY <1>1, <1>2, <1>3 DEF StampsKept

\* Without a decision of its own a replica's decisions and its impeachment timer stay right.
LEMMA DecidedStill ==
    ASSUME CoreInv, StampsKept, now \in Nat, now' \in Nat, now <= now', NEW r \in Replica,
           FilingsStamped(r), DecidedAfter(r),
           decision'[r] = decision[r], impeach_due'[r] = impeach_due[r]
    PROVE  DecidedAfter(r)'
<1> SUFFICES ASSUME NEW b, b \in decision[r] \ {Genesis}
             PROVE  /\ filed_at'[r][b] + 2 * Delta <= now'
                    /\ filed_at'[r][b] + 4 * Delta <= impeach_due[r]
    BY DEF DecidedAfter, CommitDue
<1>1. b \in DOMAIN filed_at[r]
    BY DEF CoreInv, FiledIsPendingOrDecided, FilingsStamped, FiledBy
<1>2. filed_at'[r][b] = filed_at[r][b] /\ filed_at[r][b] \in Nat
    BY <1>1 DEF StampsKept, FilingsStamped
<1>3. /\ filed_at[r][b] + 2 * Delta <= now
      /\ filed_at[r][b] + 4 * Delta <= impeach_due[r]
    BY DEF DecidedAfter, CommitDue
<1> QED BY <1>2, <1>3, TimesAre

LEMMA ImpeachmentStill ==
    ASSUME StampsKept, NobodyWakes, NEW r \in Replica, ImpeachmentInTime(r),
           decision'[r] = decision[r], impeach_due'[r] = impeach_due[r],
           Up(r) /\ now <= impeach_due[r] => now' <= impeach_due[r]
    PROVE  ImpeachmentInTime(r)'
<1>1. impeach_due[r] \in Int
    BY DEF ImpeachmentInTime
<1> SUFFICES ASSUME Up(r)', decision[r] # {Genesis}
             PROVE  /\ now' <= impeach_due[r]
                    /\ \E b \in DOMAIN filed_at'[r] : impeach_due[r] <= filed_at'[r][b] + 4 * Delta
    BY <1>1 DEF ImpeachmentInTime
<1>2. Up(r)
    BY DEF NobodyWakes
<1>3. PICK b \in DOMAIN filed_at[r] : impeach_due[r] <= filed_at[r][b] + 4 * Delta
    BY <1>2 DEF ImpeachmentInTime
<1>4. now <= impeach_due[r]
    BY <1>2 DEF ImpeachmentInTime
<1> QED BY <1>2, <1>3, <1>4 DEF StampsKept

\* Stamps that are kept leave a message in time.
LEMMA InTimeStill ==
    ASSUME StampsKept, NEW r \in Replica, NEW m, NEW t, InTime(m, t, filed_at[r])
    PROVE  InTime(m, t, filed_at'[r])
BY DEF InTime, StampsKept

\* The messages of a connection: a new one is a block that its sender files now.
LEMMA MessagesStill ==
    ASSUME NetInv, NetInv', ChannelsGrow, StampMessages, StampsKept, now \in Nat,
           \A r \in Replica : FilingsStamped(r), NEW p \in Link, MessagesStamped(p)
    PROVE  MessagesStamped(p)'
<1>1. PICK s, t, d, e, f, g :
          /\ s = chan[p] /\ t = chan'[p] /\ d = due[p] /\ e = due'[p]
          /\ f = filed_at[p[1]] /\ g = filed_at'[p[1]]
    OBVIOUS
<1>2. /\ s \in Seq(Message) /\ d \in Seq(Nat) /\ Len(d) = Len(s)
      /\ p[1] \in Replica
    BY <1>1 DEF NetInv, ChannelsOK, MessagesStamped, Link
<1>3. e = IF Len(t) > Len(s) THEN Append(d, now + Delay)
          ELSE IF Len(t) < Len(s) THEN Tail(d)
          ELSE d
    BY <1>1 DEF StampMessages
<1>4. now + Delay \in Nat
    BY TimesAre
<1>5. ASSUME NEW i \in DOMAIN s PROVE InTime(s[i], d[i], g)
    <2>1. InTime(s[i], d[i], f)
        BY <1>1 DEF MessagesStamped
    <2> QED BY <1>1, <1>2, <2>1, InTimeStill
<1> SUFFICES e \in Seq(Nat) /\ Len(e) = Len(t) /\ \A i \in DOMAIN t : InTime(t[i], e[i], g)
    BY <1>1 DEF MessagesStamped
<1>6. CASE t = s
    <2>1. Len(s) \in Nat
        BY <1>2
    <2>2. e = d
        BY <1>3, <1>6, <2>1
    <2> QED BY <1>2, <1>5, <1>6, <2>2
<1>7. CASE s # <<>> /\ t = Tail(s)
    <2>1. Len(s) = Len(t) + 1 /\ Len(t) \in Nat /\ \A i \in DOMAIN t : i + 1 \in DOMAIN s /\ t[i] = s[i + 1]
        BY <1>2, <1>7, HeadTailProperties
    <2>2. e = Tail(d)
        BY <1>3, <2>1
    <2>3. d # <<>>
        BY <1>2, <2>1
    <2>4. /\ e \in Seq(Nat) /\ Len(d) = Len(e) + 1
          /\ \A i \in DOMAIN e : e[i] = d[i + 1]
        BY <1>2, <2>2, <2>3, HeadTailProperties
    <2>5. Len(e) = Len(t) /\ DOMAIN e = DOMAIN t
        <3>1. Len(e) = Len(t)
            BY <1>2, <2>1, <2>4
        <3>2. DOMAIN e = 1..Len(e) /\ DOMAIN t = 1..Len(t)
            BY <1>2, <1>7, <2>4, HeadTailProperties
        <3> QED BY <3>1, <3>2
    <2> QED BY <1>5, <2>1, <2>4, <2>5
<1>8. ASSUME NEW m, t = Append(s, m),
             m.type = "propose" => ~ AlreadyHandled(p[1], m.blk) /\ AlreadyHandled(p[1], m.blk)'
      PROVE  e \in Seq(Nat) /\ Len(e) = Len(t) /\ \A i \in DOMAIN t : InTime(t[i], e[i], g)
    <2>1. /\ Len(t) = Len(s) + 1 /\ Len(s) \in Nat
          /\ \A i \in DOMAIN t : (i \in DOMAIN s /\ t[i] = s[i]) \/ (i = Len(t) /\ t[i] = m)
        BY <1>2, <1>8
    <2>2. PICK x : x = now + Delay
        OBVIOUS
    <2>3. e = Append(d, x) /\ x \in Nat
        BY <1>3, <1>4, <2>1, <2>2
    <2>4. /\ e \in Seq(Nat) /\ Len(e) = Len(d) + 1 /\ e[Len(e)] = x
          /\ \A i \in DOMAIN d : e[i] = d[i]
        BY <1>2, <2>3
    <2>5. Len(e) = Len(t) /\ DOMAIN d = DOMAIN s
        BY <1>2, <2>1, <2>4
    <2>6. InTime(m, x, g)
        <3> SUFFICES ASSUME NEW b, b = m.blk, m.type = "propose"
                     PROVE  b \in DOMAIN g /\ x <= g[b] + Delay
            BY DEF InTime
        <3>1. ~ AlreadyHandled(p[1], b) /\ AlreadyHandled(p[1], b)'
            BY <1>8
        <3>2. FiledAtHeight /\ FiledAtHeight'
            <4>1. CoreInv /\ CoreInv'
                BY DEF NetInv
            <4> QED BY <4>1, FiledIs, PTL
        <3>3. b \notin FiledBy(p[1]) /\ b \in FiledBy(p[1])'
            BY <1>2, <3>1, <3>2 DEF FiledAtHeight
        <3>4. b # Genesis
            BY <1>2, <3>1, GenesisFiled DEF NetInv
        <3>5. b \notin DOMAIN f
            BY <1>1, <1>2, <3>3 DEF FilingsStamped
        <3>6. b \in DOMAIN g /\ g[b] = now
            BY <1>1, <1>2, <3>3, <3>4, <3>5 DEF StampsKept
        <3> QED BY <2>2, <3>6, <1>4, TimesAre
    <2> QED BY <1>5, <2>1, <2>4, <2>5, <2>6
<1>9. \/ t = s
      \/ s # <<>> /\ t = Tail(s)
      \/ \E m : /\ t = Append(s, m)
                /\ m.type = "propose" => ~ AlreadyHandled(p[1], m.blk) /\ AlreadyHandled(p[1], m.blk)'
    BY <1>1 DEF ChannelsGrow
<1> QED BY <1>6, <1>7, <1>8, <1>9

\* Time does not pass over what r has filed and q has not: it would be late.
LEMMA ReachesLaterStill ==
    ASSUME NetInv, Calm, Timely, NothingOverdue, NEW r \in Replica, NEW q \in Replica, Up(r), Up(q),
           NEW b \in DOMAIN filed_at[r], b \notin DOMAIN filed_at[q]
    PROVE  now < filed_at[r][b] + Delay
<1>1. PICK p, s, d, f : p = <<r, q>> /\ s = chan[p] /\ d = due[p] /\ f = filed_at[r]
    OBVIOUS
<1>2. p \in Link /\ p[1] = r /\ p[2] = q /\ r # q
    BY <1>1 DEF Link
<1>3. FiledAtHeight
    BY FiledIs DEF NetInv
<1>4. b \in FiledBy(r) \ {Genesis}
    BY DEF Timely, FilingsStamped
<1>5. AlreadyHandled(r, b) /\ b # Genesis /\ b \in Known
    <2>1. AlreadyHandled(r, b)
        BY <1>3, <1>4 DEF FiledAtHeight
    <2>2. b \in Known
        BY <2>1 DEF AlreadyHandled, HasHeight, NetInv, CoreInv, TypeOK
    <2> QED BY <1>4, <2>1, <2>2
<1>6. b \notin FiledBy(q)
    BY <1>4 DEF Timely, FilingsStamped
<1>7. b \notin storage[q]
    <2>1. ~ AlreadyHandled(q, b)
        BY <1>3, <1>6 DEF FiledAtHeight
    <2>2. stack[q] = <<>>
        BY DEF NothingOverdue
    <2> QED BY <2>1, <2>2 DEF Calm, CalmReplica
<1>8. Reaches(p, b, Len(s) + 1)
    <2>1. CalmChannel(p) /\ ~ aborted[p[1]]
        BY <1>2 DEF Calm, CalmChannels, Up
    <2>2. \A c \in Known \ {Genesis} : AlreadyHandled(p[1], c) => Reaches(p, c, Len(s) + 1)
        BY <1>1, <2>1, CalmChannelSays
    <2> QED BY <1>2, <1>5, <2>2
<1>9. s \in Seq(Message) /\ MessagesStamped(p)
    BY <1>1, <1>2 DEF NetInv, ChannelsOK, Timely
<1>10. PICK i \in 1..Len(s) : s[i].type = "propose" /\ s[i].blk = b
    <2>1. (Len(s) + 1) - 1 = Len(s)
        BY <1>9
    <2> QED BY <1>1, <1>2, <1>7, <1>8, <2>1 DEF Reaches, Sent
<1>11. i \in DOMAIN s /\ i \in DOMAIN d /\ d \in Seq(Nat)
    BY <1>1, <1>9, <1>10 DEF MessagesStamped
<1>12. d[i] <= f[b] + Delay
    <2>1. InTime(s[i], d[i], f)
        BY <1>1, <1>2, <1>9, <1>11 DEF MessagesStamped
    <2> QED BY <1>10, <2>1 DEF InTime
<1>13. d[i] > now
    BY <1>1, <1>2, <1>11 DEF NothingOverdue
<1>14. d[i] \in Nat /\ now \in Nat /\ f[b] \in Nat
    BY <1>1, <1>11 DEF Timely, FilingsStamped
<1> QED BY <1>1, <1>12, <1>13, <1>14, TimesAre

-----------------------------------------------------------------------------
(* The steps.                                                               *)

\* A replica decides nothing, its impeachment timer runs on.
Rests(r) == decision'[r] = decision[r] /\ impeach_due'[r] = impeach_due[r]

\* A commit timer is due, the impeachment timer is set anew.
Decides(r, b) ==
    /\ Up(r) /\ b \in commit_timer[r] /\ CommitDue(r, b) <= now
    /\ decision'[r] = decision[r] \cup {b}
    /\ impeach_due'[r] = now + 2 * Delta

\* A step of the network layer with its stamps.
StampedMove ==
    /\ BNext /\ StampMessages /\ StampFiled
    /\ now' = now
    /\ DOMAIN impeach_due' = Replica
    /\ \A r \in Replica : Rests(r) \/ \E b : Decides(r, b)

\* Nobody decides in a step that stamps nothing else than messages and blocks.
LEMMA StampQuietly ==
    ASSUME BNext, Stamp({}), decision' = decision
    PROVE  StampedMove
BY DEF Stamp, StampedMove, Rests

\* The impeachment timer is set by the replica that decides.
LEMMA StampDecision ==
    ASSUME NetInv, NEW r \in Replica, NEW b \in Hash, SCommitTimerCb(r, b)
    PROVE  StampedMove
<1>1. /\ b \in commit_timer[r] /\ CommitDue(r, b) <= now /\ BCommitTimerCb(r, b)
      /\ Stamp(IF executed'[r] # executed[r] THEN {r} ELSE {})
    BY DEF SCommitTimerCb
<1>2. CommitTimerCb(r, b) /\ Up(r) /\ CoreInv
    BY <1>1 DEF BCommitTimerCb, CommitTimerCb, Up, NetInv
<1>3. ht_blk_map[r][Height(b)] = b /\ b \notin decision[r]
    BY <1>1, <1>2, TimerFindsItsBlock
<1>4. /\ decision' = [decision EXCEPT ![r] = @ \cup {b}]
      /\ executed' = [executed EXCEPT ![r] = Append(@, b)]
    BY <1>2, <1>3 DEF CommitTimerCb
<1>5. /\ DOMAIN decision = Replica /\ DOMAIN executed = Replica /\ executed[r] \in Seq(Hash)
    BY <1>2 DEF CoreInv, TypeOK
<1>6. executed'[r] # executed[r]
    <2>1. PICK s : s = executed[r]
        OBVIOUS
    <2>2. s \in Seq(Hash) /\ executed'[r] = Append(s, b)
        BY <1>4, <1>5, <2>1
    <2>3. Len(Append(s, b)) = Len(s) + 1 /\ Len(s) \in Nat
        BY <2>2
    <2>4. Append(s, b) # s
        BY <2>3
    <2> QED BY <2>1, <2>2, <2>4
<1>7. /\ StampMessages /\ StampFiled /\ now' = now
      /\ impeach_due' = [q \in Replica |-> IF q \in {r} THEN now + 2 * Delta ELSE impeach_due[q]]
    BY <1>1, <1>6 DEF Stamp
<1>8. BNext
    BY <1>1 DEF BNext
<1>9. Decides(r, b)
    BY <1>1, <1>2, <1>4, <1>5, <1>7 DEF Decides
<1>10. \A q \in Replica \ {r} : Rests(q)
    BY <1>4, <1>7 DEF Rests
<1> QED BY <1>7, <1>8, <1>9, <1>10 DEF StampedMove

\* The steps until somebody is impeached.
LEMMA TimedSteps ==
    ASSUME NetInv, [SNext]_svars, impeachments' = impeachments
    PROVE  \/ UNCHANGED svars
           \/ Tick
           \/ \E r \in Replica :
                 \E kept \in [Replica \ {r} -> 0..(2 * Cardinality(Hash))] : Crash(r, kept)
           \/ StampedMove
<1>1. ASSUME NEW r \in Replica, SHandlerStep(r) PROVE StampedMove
    <2>1. BNext /\ Stamp({})
        BY <1>1 DEF SHandlerStep, BNext
    <2>2. decision' = decision
        BY <1>1 DEF SHandlerStep, HandlerStep, AsyncDeliverBlk, Verify, All, AllThen, BOnDeliverBlk,
                    AwaitDelivery, BOnReceiveProposal, OnDeliverBlk, OnReceiveProposal, vars
    <2> QED BY <2>1, <2>2, StampQuietly
<1>2. ASSUME NEW r \in Replica, SProposeNullParent(r) PROVE StampedMove
    <2>1. BNext /\ Stamp({})
        BY <1>2 DEF SProposeNullParent, BNext
    <2>2. decision' = decision
        BY <1>2 DEF SProposeNullParent, BProposeNullParent, OnProposeNullParent
    <2> QED BY <2>1, <2>2, StampQuietly
<1>3. ASSUME NEW r \in Replica, NEW h \in Hash, SPropose(r, h) PROVE StampedMove
    <2>1. BNext /\ Stamp({})
        BY <1>3 DEF SPropose, BNext
    <2>2. decision' = decision
        BY <1>3 DEF SPropose, BPropose, OnPropose
    <2> QED BY <2>1, <2>2, StampQuietly
<1>4. ASSUME NEW r \in Replica, NEW s \in Replica \ {r}, SHandleMessage(s, r) PROVE StampedMove
    <2>1. BNext /\ Stamp({})
        BY <1>4 DEF SHandleMessage, BNext
    <2>2. decision' = decision
        BY <1>4 DEF SHandleMessage, HandleMessage, ProposeHandler, ReqBlkHandler, RespBlkHandler, vars
    <2> QED BY <2>1, <2>2, StampQuietly
<1>5. ASSUME NEW r \in Replica, SImpeach(r) PROVE FALSE
    <2>1. impeachments' = impeachments + 1 /\ impeachments \in Nat
        BY <1>5 DEF SImpeach, Impeach, NetInv, TablesOK
    <2> QED BY <2>1
<1> QED BY <1>1, <1>2, <1>3, <1>4, <1>5, StampDecision DEF SNext

\* A decision in time is followed by an impeachment timer in time.
LEMMA DecidedNow ==
    ASSUME CoreInv, StampsKept, now' = now, Timely, NEW r \in Replica, NEW b, Decides(r, b)
    PROVE  DecidedAfter(r)' /\ ImpeachmentInTime(r)'
<1>1. /\ Up(r) /\ b \in commit_timer[r] /\ filed_at[r][b] + 2 * Delta <= now
      /\ decision'[r] = decision[r] \cup {b} /\ impeach_due'[r] = now + 2 * Delta
    BY DEF Decides, CommitDue
<1>2. /\ now \in Nat /\ now <= filed_at[r][b] + 2 * Delta
      /\ DecidedAfter(r) /\ FilingsStamped(r)
    BY <1>1 DEF Timely, TimersInTime, CommitDue
<1>3. \A c \in (decision[r] \cup {b}) \ {Genesis} :
         c \in DOMAIN filed_at[r] /\ filed_at[r][c] \in Nat /\ filed_at'[r][c] = filed_at[r][c]
    <2>1. decision[r] \cup {b} \subseteq FiledBy(r)
        BY <1>1 DEF CoreInv, FiledIsPendingOrDecided, FiledBy
    <2> QED BY <1>2, <2>1 DEF FilingsStamped, StampsKept
<1>4. b # Genesis
    BY <1>1 DEF CoreInv, FiledIsPendingOrDecided, BlocksOK
<1>5. ASSUME NEW c \in decision'[r] \ {Genesis}
      PROVE  /\ filed_at'[r][c] + 2 * Delta <= now'
             /\ filed_at'[r][c] + 4 * Delta <= impeach_due'[r]
    <2>1. /\ filed_at[r][c] \in Nat /\ filed_at'[r][c] = filed_at[r][c]
          /\ filed_at[r][c] + 2 * Delta <= now
        BY <1>1, <1>2, <1>3 DEF DecidedAfter, CommitDue
    <2> QED BY <1>1, <1>2, <2>1, TimesAre
<1>6. DecidedAfter(r)'
    BY <1>5 DEF DecidedAfter, CommitDue
<1>7. /\ b \in DOMAIN filed_at'[r] /\ filed_at'[r][b] = filed_at[r][b] /\ filed_at[r][b] \in Nat
    BY <1>3, <1>4 DEF StampsKept
<1>8. /\ impeach_due'[r] \in Int /\ now' <= impeach_due'[r]
      /\ impeach_due'[r] <= filed_at'[r][b] + 4 * Delta
    BY <1>1, <1>2, <1>7, TimesAre
<1> QED BY <1>6, <1>7, <1>8 DEF ImpeachmentInTime

\* Whoever decides a block has given it the time to reach everybody.
LEMMA SafeStill ==
    ASSUME CoreInv, Stays, NobodyWakes, Timely, Delay < 2 * Delta, NEW r \in Replica,
           NEW q \in Replica, Up(q)', decision[r] \subseteq FiledBy(q),
           Rests(r) \/ \E b : Decides(r, b)
    PROVE  decision'[r] \subseteq FiledBy(q)'
<1>1. FiledBy(q) \subseteq FiledBy(q)'
    BY FiledGrows
<1>2. CASE Rests(r)
    BY <1>1, <1>2 DEF Rests
<1>3. ASSUME NEW b, Decides(r, b) PROVE decision'[r] \subseteq FiledBy(q)'
    <2>1. /\ Up(r) /\ Up(q) /\ b \in commit_timer[r] /\ filed_at[r][b] + 2 * Delta <= now
          /\ decision'[r] = decision[r] \cup {b}
        BY <1>3 DEF Decides, CommitDue, NobodyWakes
    <2>2. b \in DOMAIN filed_at[r]
        BY <2>1 DEF CoreInv, FiledIsPendingOrDecided, BlocksOK, Timely, FilingsStamped, FiledBy
    <2>3. filed_at[r][b] \in Nat /\ now \in Nat
        BY <2>2 DEF Timely, FilingsStamped
    <2>4. b \in DOMAIN filed_at[q]
        <3>1. ~ now <= filed_at[r][b] + Delay
            BY <2>1, <2>3, TimesAre
        <3> QED BY <2>1, <2>2, <3>1 DEF Timely, ReachesInTime
    <2>5. b \in FiledBy(q)
        BY <2>4 DEF Timely, FilingsStamped
    <2> QED BY <1>1, <2>1, <2>5
<1> QED BY <1>2, <1>3

-----------------------------------------------------------------------------
(* The invariant.                                                           *)

\* At the beginning b0 is on file everywhere and nothing has a stamp.
LEMMA InitTimely == SInit => Timely /\ SafeToCommit
<1> SUFFICES ASSUME SInit PROVE Timely /\ SafeToCommit
    OBVIOUS
<1>1. ASSUME NEW r \in Replica
      PROVE  /\ FiledBy(r) = {Genesis} /\ decision[r] = {Genesis} /\ commit_timer[r] = {}
             /\ filed_at[r] = Empty /\ impeach_due[r] = -1
    BY DEF SInit, BInit, Init, FiledBy, Range
<1>2. DOMAIN Empty = {}
    BY DEF Empty
<1>3. ASSUME NEW p \in Link PROVE due[p] = <<>> /\ chan[p] = <<>>
    BY DEF SInit, BInit
<1>4. now = 0 /\ DOMAIN due = Link /\ DOMAIN filed_at = Replica /\ DOMAIN impeach_due = Replica
    BY DEF SInit
<1>5. ASSUME NEW r \in Replica
      PROVE  /\ FilingsStamped(r) /\ AfterProposer(r) /\ TimersInTime(r)
             /\ DecidedAfter(r) /\ ImpeachmentInTime(r)
    BY <1>1, <1>2 DEF FilingsStamped, AfterProposer, TimersInTime, DecidedAfter, ImpeachmentInTime
<1>6. \A r, q \in Replica : ReachesInTime(r, q)
    BY <1>1, <1>2 DEF ReachesInTime
<1>7. \A p \in Link : MessagesStamped(p)
    <2>1. <<>> \in Seq(Nat) /\ DOMAIN <<>> = {}
        OBVIOUS
    <2> QED BY <1>3, <2>1 DEF MessagesStamped
<1>8. SafeToCommit
    BY <1>1 DEF SafeToCommit
<1> QED BY <1>4, <1>5, <1>6, <1>7, <1>8 DEF Timely

\* Time passes: nothing is overdue.
LEMMA TickTimely ==
    ASSUME NetInv, Calm, CoreInv, NobodyWakes, Timely, Tick
    PROVE  Timely' /\ \A r \in Replica : Rests(r)
<1>1. /\ now \in Nat /\ now' = now + 1 /\ NothingOverdue
      /\ UNCHANGED <<due, filed_at, impeach_due, chan, decision, ht_blk_map, commit_timer, alive, aborted>>
    BY DEF Tick, bvars, baseVars, vars, Timely
<1>2. now' \in Nat /\ now <= now'
    BY <1>1
<1>3. /\ DOMAIN due' = Link /\ DOMAIN filed_at' = Replica /\ DOMAIN impeach_due' = Replica
    BY <1>1 DEF Timely
<1>4. StampsKept
    BY <1>1, NothingFiled DEF Timely, FilingsStamped
<1>5. \A r \in Replica : Rests(r)
    BY <1>1 DEF Rests
<1>6. \A p \in Link : MessagesStamped(p)'
    BY <1>1 DEF Timely, MessagesStamped
<1>7. ASSUME NEW r \in Replica
      PROVE  /\ FilingsStamped(r)' /\ AfterProposer(r)' /\ TimersInTime(r)'
             /\ DecidedAfter(r)' /\ ImpeachmentInTime(r)'
    <2>1. /\ FilingsStamped(r) /\ AfterProposer(r) /\ TimersInTime(r)
          /\ DecidedAfter(r) /\ ImpeachmentInTime(r) /\ Rests(r)
        BY <1>5 DEF Timely
    <2>2. FilingsStamped(r)'
        BY <1>1, <1>2, <1>4, <2>1, FilingsLater
    <2>3. AfterProposer(r)'
        BY <1>1, <2>1 DEF AfterProposer
    <2>4. TimersInTime(r)'
        <3> SUFFICES ASSUME Up(r), NEW b \in commit_timer[r]
                     PROVE  now' <= filed_at[r][b] + 2 * Delta
            BY <1>1 DEF TimersInTime, CommitDue, Up
        <3>1. filed_at[r][b] + 2 * Delta > now
            BY <1>1 DEF NothingOverdue, CommitDue
        <3>2. b \in DOMAIN filed_at[r]
            BY <2>1 DEF CoreInv, FiledIsPendingOrDecided, FilingsStamped, FiledBy, BlocksOK
        <3>3. filed_at[r][b] \in Nat
            BY <2>1, <3>2 DEF FilingsStamped
        <3> QED BY <1>1, <3>1, <3>3, TimesAre
    <2>5. DecidedAfter(r)'
        BY <1>1, <1>2, <1>4, <2>1, DecidedStill DEF Rests
    <2>6. Up(r) /\ now <= impeach_due[r] => now' <= impeach_due[r]
        <3> SUFFICES ASSUME Up(r), now <= impeach_due[r] PROVE now' <= impeach_due[r]
            OBVIOUS
        <3>1. impeach_due[r] \notin 0..now
            BY <1>1 DEF NothingOverdue
        <3>2. impeach_due[r] \in Int
            BY <2>1 DEF ImpeachmentInTime
        <3> QED BY <1>1, <3>1, <3>2
    <2>7. ImpeachmentInTime(r)'
        BY <1>4, <2>1, <2>6, ImpeachmentStill DEF Rests
    <2> QED BY <2>2, <2>3, <2>4, <2>5, <2>7
<1>8. ASSUME NEW r \in Replica, NEW q \in Replica PROVE ReachesInTime(r, q)'
    <2> SUFFICES ASSUME Up(r), Up(q), NEW b \in DOMAIN filed_at[r]
                 PROVE  \/ /\ b \in DOMAIN filed_at[q]
                           /\ filed_at[q][b] <= filed_at[r][b] + Delay
                        \/ /\ b \notin DOMAIN filed_at[q]
                           /\ now' <= filed_at[r][b] + Delay
        BY <1>1 DEF ReachesInTime, Up
    <2>1. CASE b \in DOMAIN filed_at[q]
        BY <2>1 DEF Timely, ReachesInTime
    <2>2. CASE b \notin DOMAIN filed_at[q]
        <3>1. now < filed_at[r][b] + Delay
            BY <1>1, <2>2, ReachesLaterStill
        <3>2. filed_at[r][b] \in Nat
            BY DEF Timely, FilingsStamped
        <3> QED BY <1>1, <2>2, <3>1, <3>2, TimesAre
    <2> QED BY <2>1, <2>2
<1> QED BY <1>2, <1>3, <1>5, <1>6, <1>7, <1>8 DEF Timely

\* A replica stops: its last messages are cut off, with their stamps.
LEMMA CrashTimely ==
    ASSUME NetInv, CoreInv, CoreInv', NobodyWakes, DecisionsGrow, Timely, NEW r \in Replica,
           NEW kept \in [Replica \ {r} -> 0..(2 * Cardinality(Hash))], Crash(r, kept)
    PROVE  Timely' /\ \A q \in Replica : Rests(q)
<1>1. /\ now \in Nat /\ now' = now
      /\ UNCHANGED <<filed_at, impeach_due, decision, ht_blk_map>>
      /\ DOMAIN due' = Link
    BY DEF Crash, vars, Timely
<1>2. now <= now'
    BY <1>1
<1>3. /\ DOMAIN filed_at' = Replica /\ DOMAIN impeach_due' = Replica
    BY <1>1 DEF Timely
<1>4. StampsKept
    BY <1>1, NothingFiled DEF Timely, FilingsStamped
<1>5. \A q \in Replica : Rests(q)
    BY <1>1 DEF Rests
<1>6. ASSUME NEW q \in Replica
      PROVE  /\ FilingsStamped(q)' /\ AfterProposer(q)' /\ TimersInTime(q)'
             /\ DecidedAfter(q)' /\ ImpeachmentInTime(q)'
    <2>1. /\ FilingsStamped(q) /\ AfterProposer(q) /\ TimersInTime(q)
          /\ DecidedAfter(q) /\ ImpeachmentInTime(q)
          /\ decision'[q] = decision[q] /\ impeach_due'[q] = impeach_due[q]
        BY <1>5 DEF Timely, Rests
    <2>2. FilingsStamped(q)'
        BY <1>1, <1>2, <1>4, <2>1, FilingsLater
    <2>3. AfterProposer(q)'
        BY <1>1, <2>1 DEF AfterProposer
    <2>4. TimersInTime(q)'
        BY <1>1, <1>4, <2>1, TimersStill
    <2>5. DecidedAfter(q)'
        BY <1>1, <1>2, <1>4, <2>1, DecidedStill
    <2>6. ImpeachmentInTime(q)'
        BY <1>1, <1>4, <2>1, ImpeachmentStill
    <2> QED BY <2>2, <2>3, <2>4, <2>5, <2>6
<1>7. ASSUME NEW q \in Replica, NEW p \in Replica PROVE ReachesInTime(q, p)'
    BY <1>1, <1>4, ReachesStill DEF Timely
<1>8. ASSUME NEW p \in Link PROVE MessagesStamped(p)'
    <2>1. PICK s, t, d, e, f :
              s = chan[p] /\ t = chan'[p] /\ d = due[p] /\ e = due'[p] /\ f = filed_at[p[1]]
        OBVIOUS
    <2>2. /\ s \in Seq(Message) /\ d \in Seq(Nat) /\ Len(d) = Len(s)
          /\ \A i \in DOMAIN s : InTime(s[i], d[i], f)
        BY <2>1 DEF NetInv, ChannelsOK, Timely, MessagesStamped
    <2> SUFFICES e \in Seq(Nat) /\ Len(e) = Len(t) /\ \A i \in DOMAIN t : InTime(t[i], e[i], f)
        BY <1>1, <2>1 DEF MessagesStamped
    <2>3. CASE p[1] = r
        <3>1. PICK n : n = kept[p[2]]
            OBVIOUS
        <3>2. n \in Nat /\ n <= Len(s)
            BY <2>1, <2>3, <3>1, KeptIs
        <3>3. t = SubSeq(s, 1, n) /\ e = SubSeq(d, 1, n)
            BY <2>1, <2>3, <3>1 DEF Crash
        <3>4. t \in Seq(Message) /\ Len(t) = n /\ \A i \in DOMAIN t : i \in DOMAIN s /\ t[i] = s[i]
            BY <2>2, <3>2, <3>3, CutFacts
        <3>5. e \in Seq(Nat) /\ Len(e) = n /\ \A i \in DOMAIN e : i \in DOMAIN d /\ e[i] = d[i]
            BY <2>2, <3>2, <3>3, CutFacts
        <3>6. DOMAIN e = DOMAIN t
            BY <3>4, <3>5
        <3> QED BY <2>2, <3>4, <3>5, <3>6
    <2>4. CASE p[1] # r
        BY <2>1, <2>2, <2>4 DEF Crash
    <2> QED BY <2>3, <2>4
<1> QED BY <1>1, <1>3, <1>5, <1>6, <1>7, <1>8 DEF Timely

\* A step of the network layer happens at one time.
LEMMA MoveTimely ==
    ASSUME Below, Below', CoreInv, CoreInv', Grows, Stays, DecisionsGrow, NobodyWakes, Timely,
           StampedMove, impeachments' = 0
    PROVE  Timely'
<1>1. /\ now \in Nat /\ now' = now /\ StampMessages /\ StampFiled /\ BNext
      /\ DOMAIN due' = Link /\ DOMAIN impeach_due' = Replica
    BY DEF StampedMove, StampMessages, Timely
<1>2. now <= now'
    BY <1>1
<1>3. /\ NetInv /\ NetInv' /\ FirstInv /\ FirstInv' /\ ProposalInv
      /\ \A q \in Replica : FilingsStamped(q)
    BY DEF Below, Timely
<1>4. StampsKept
    BY <1>1, StampFiledKeeps DEF Timely, FilingsStamped
<1>5. ChannelsGrow
    BY <1>1, <1>3, StepGrowsChannels DEF Early
<1>6. ASSUME NEW q \in Replica
      PROVE  /\ FilingsStamped(q)' /\ AfterProposer(q)' /\ TimersInTime(q)'
             /\ DecidedAfter(q)' /\ ImpeachmentInTime(q)'
    <2>1. /\ FilingsStamped(q) /\ AfterProposer(q) /\ TimersInTime(q)
          /\ DecidedAfter(q) /\ ImpeachmentInTime(q)
        BY DEF Timely
    <2>2. FilingsStamped(q)'
        BY <1>1, <1>2, <1>4, <2>1, FilingsLater
    <2>3. AfterProposer(q)'
        BY <1>1, <1>3, <1>4, <2>1, ProposerFirst
    <2>4. TimersInTime(q)'
        BY <1>1, <1>4, <2>1, TimersStill
    <2>5. ASSUME Rests(q) PROVE DecidedAfter(q)' /\ ImpeachmentInTime(q)'
        <3>1. decision'[q] = decision[q] /\ impeach_due'[q] = impeach_due[q]
            BY <2>5 DEF Rests
        <3>2. DecidedAfter(q)'
            BY <1>1, <1>2, <1>4, <2>1, <3>1, DecidedStill
        <3>3. ImpeachmentInTime(q)'
            BY <1>1, <1>4, <2>1, <3>1, ImpeachmentStill
        <3> QED BY <3>2, <3>3
    <2>6. ASSUME NEW b, Decides(q, b) PROVE DecidedAfter(q)' /\ ImpeachmentInTime(q)'
        BY <1>1, <1>4, <2>6, DecidedNow
    <2> QED BY <2>2, <2>3, <2>4, <2>5, <2>6 DEF StampedMove
<1>7. ASSUME NEW q \in Replica, NEW p \in Replica PROVE ReachesInTime(q, p)'
    BY <1>1, <1>4, ReachesStill DEF Timely
<1>8. ASSUME NEW p \in Link PROVE MessagesStamped(p)'
    BY <1>1, <1>3, <1>4, <1>5, MessagesStill DEF Timely
<1> QED BY <1>1, <1>4, <1>6, <1>7, <1>8 DEF Timely, StampsKept

\* The counter of impeachments never goes back.
LEMMA ImpeachmentsStep ==
    ASSUME NetInv, [SNext]_svars, impeachments' = 0
    PROVE  impeachments = 0
<1>1. CASE [BNext]_bvars
    <2>1. Grows
        <3>1. CoreInv /\ DeliveredClosed
            BY DEF NetInv
        <3>2. [Next]_vars
            BY <1>1, <3>1, BStepIsCoreStep DEF CoreInv
        <3> QED BY <3>1, <3>2, CoreGrows
    <2> QED BY <1>1, <2>1, CountersStep
<1>2. ASSUME NEW r \in Replica, NEW kept, Crash(r, kept) PROVE impeachments = 0
    BY <1>2 DEF Crash, counters
<1> QED BY <1>1, <1>2, NoLoss

\* The steps of the timed model until somebody is impeached.
LEMMA TimelyStep ==
    ASSUME Below, Timely, [SNext]_svars, impeachments' = 0
    PROVE  /\ Timely'
           /\ \A r \in Replica : Rests(r) \/ \E b : Decides(r, b)
<1>1. impeachments = 0
    BY ImpeachmentsStep DEF Below
<1>2. /\ Below' /\ CoreInv /\ CoreInv' /\ Grows /\ Stays /\ DecisionsGrow /\ NobodyWakes
    BY StepUnder
<1>3. NetInv /\ Calm
    BY <1>1 DEF Below, CalmInv, Calm, CalmChannels
<1>4. CASE UNCHANGED svars
    <2>1. \A r \in Replica : Rests(r)
        BY <1>4 DEF svars, timeVars, bvars, baseVars, vars, Rests
    <2>2. UNCHANGED <<now, due, filed_at, impeach_due, chan, decision, ht_blk_map, commit_timer, alive, aborted>>
        BY <1>4 DEF svars, timeVars, bvars, baseVars, vars
    <2>3. Timely'
        BY <2>2 DEF Timely, FilingsStamped, AfterProposer, TimersInTime, DecidedAfter, CommitDue,
              ImpeachmentInTime, ReachesInTime, MessagesStamped, FiledBy, Up
    <2> QED BY <2>1, <2>3
<1>5. CASE Tick
    BY <1>2, <1>3, <1>5, TickTimely
<1>6. ASSUME NEW r \in Replica, NEW kept \in [Replica \ {r} -> 0..(2 * Cardinality(Hash))],
             Crash(r, kept)
      PROVE  Timely' /\ \A q \in Replica : Rests(q)
    BY <1>2, <1>3, <1>6, CrashTimely
<1>7. CASE StampedMove
    <2>1. Timely'
        BY <1>2, <1>7, MoveTimely
    <2> QED BY <1>7, <2>1 DEF StampedMove
<1> QED BY <1>1, <1>3, <1>4, <1>5, <1>6, <1>7, TimedSteps

\* The step that counts an impeachment.
LEMMA ImpeachingStep ==
    ASSUME NetInv, [SNext]_svars, impeachments' # impeachments
    PROVE  \E r \in Replica : SImpeach(r)
<1>1. ASSUME NEW r \in Replica, SHandlerStep(r) PROVE impeachments' = impeachments
    BY <1>1 DEF SHandlerStep, HandlerStep, AsyncDeliverBlk, Verify, All, AllThen, BOnDeliverBlk,
                AwaitDelivery, BOnReceiveProposal, counters
<1>2. ASSUME NEW r \in Replica, NEW s \in Replica \ {r}, SHandleMessage(s, r)
      PROVE  impeachments' = impeachments
    BY <1>2 DEF SHandleMessage, HandleMessage, ProposeHandler, ReqBlkHandler, RespBlkHandler, counters
<1>3. ASSUME NEW r \in Replica,
             SProposeNullParent(r) \/ \E b \in Hash : SPropose(r, b) \/ SCommitTimerCb(r, b)
      PROVE  impeachments' = impeachments
    BY <1>3 DEF SProposeNullParent, SPropose, SCommitTimerCb, BProposeNullParent, BPropose,
                BCommitTimerCb, baseVars, counters
<1>4. ASSUME NEW r \in Replica, NEW kept, Crash(r, kept) PROVE impeachments' = impeachments
    BY <1>4 DEF Crash, counters
<1>5. Tick \/ UNCHANGED svars => impeachments' = impeachments
    BY DEF Tick, svars, bvars, baseVars, counters
<1> QED BY <1>1, <1>2, <1>3, <1>4, <1>5 DEF SNext

\* The network layer keeps its invariant.
LEMMA NetStays == NetInv /\ [SNext]_svars => NetInv'
BY NoLoss, NetInvStep, CrashCuts, CutNet

\* The invariant of the timed model, with the layers below. Whatever Delay is.
TimeInv == NetInv /\ (impeachments = 0 => Below /\ Timely)

LEMMA TimeInvariant == SSpec => []TimeInv
<1>1. SInit => TimeInv
    <2> SUFFICES ASSUME SInit PROVE TimeInv
        OBVIOUS
    <2>1. BInit /\ losses = 0
        BY DEF SInit, BInit
    <2>2. NetInv /\ FirstInv /\ ProposalInv /\ CalmInv
        BY <2>1, InitNetInv, InitProposal, InitCalm
    <2> QED BY <2>1, <2>2, InitTimely DEF Below, TimeInv
<1>2. TimeInv /\ [SNext]_svars => TimeInv'
    <2> SUFFICES ASSUME TimeInv, [SNext]_svars PROVE TimeInv'
        OBVIOUS
    <2>1. NetInv'
        BY NetStays DEF TimeInv
    <2>2. ASSUME impeachments' = 0 PROVE Below' /\ Timely'
        <3>1. Below /\ Timely
            BY <2>2, ImpeachmentsStep DEF TimeInv
        <3> QED BY <2>2, <3>1, BelowStep, TimelyStep
    <2> QED BY <2>1, <2>2 DEF TimeInv
<1> QED BY <1>1, <1>2, PTL DEF SSpec

\* "2\delta has passed. It is safe to commit now" (consensus.cpp:206): if a message takes less
\* than the commit timer, every replica that runs has on file what anybody decides, though
\* the proposer or whoever forwarded the block may have stopped in its broadcast.
THEOREM CommitsSafely == Delay < 2 * Delta => (SSpec => []SafeToCommit)
<1> SUFFICES ASSUME Delay < 2 * Delta PROVE SSpec => []SafeToCommit
    OBVIOUS
<1>1. SInit => SafeToCommit
    BY InitTimely
<1>2. TimeInv /\ SafeToCommit /\ [SNext]_svars => SafeToCommit'
    <2> SUFFICES ASSUME TimeInv, SafeToCommit, [SNext]_svars, impeachments' = 0,
                        NEW r \in Replica, NEW q \in Replica, Up(q)'
                 PROVE  decision'[r] \subseteq FiledBy(q)'
        BY DEF SafeToCommit
    <2>1. impeachments = 0
        BY ImpeachmentsStep DEF TimeInv
    <2>2. Below /\ Timely
        BY <2>1 DEF TimeInv
    <2>3. CoreInv /\ Stays /\ NobodyWakes
        BY <2>2, StepUnder
    <2>4. Timely' /\ (Rests(r) \/ \E b : Decides(r, b))
        BY <2>2, TimelyStep
    <2>5. decision[r] \subseteq FiledBy(q)
        <3>1. Up(q)
            BY <2>3 DEF NobodyWakes
        <3> QED BY <2>1, <3>1 DEF SafeToCommit
    <2> QED BY <2>2, <2>3, <2>4, <2>5, SafeStill
<1> QED BY <1>1, <1>2, TimeInvariant, PTL DEF SSpec

\* What is decided in time: nobody is later than the one it comes to last.
LEMMA DecidedByThen ==
    ASSUME CoreInv, Timely, NEW r \in Replica, NEW q \in Replica, Up(r), Up(q),
           NEW b \in DOMAIN filed_at[r], now > filed_at[r][b] + Delay + 2 * Delta
    PROVE  b \in decision[q]
<1>1. filed_at[r][b] \in Nat /\ now \in Nat
    BY DEF Timely, FilingsStamped
<1>2. b \in DOMAIN filed_at[q] /\ filed_at[q][b] <= filed_at[r][b] + Delay
    <2>1. ~ now <= filed_at[r][b] + Delay
        BY <1>1, TimesAre
    <2> QED BY <2>1 DEF Timely, ReachesInTime
<1>3. filed_at[q][b] \in Nat
    BY <1>2 DEF Timely, FilingsStamped
<1>4. b \notin commit_timer[q]
    <2>1. ~ now <= filed_at[q][b] + 2 * Delta
        BY <1>1, <1>2, <1>3, TimesAre
    <2> QED BY <2>1 DEF Timely, TimersInTime, CommitDue
<1> QED BY <1>2, <1>4 DEF CoreInv, FiledIsPendingOrDecided, FiledBy, Timely, FilingsStamped

\* What a running replica has filed all of them decide, a message and a commit timer later
\* (consensus.cpp:194-203, 206-230).
THEOREM DecidesInTime == SSpec => []DecidedInTime
<1>1. TimeInv => DecidedInTime
    BY DecidedByThen DEF Below, TimeInv, DecidedInTime, NetInv
<1> QED BY <1>1, TimeInvariant, PTL

\* A replica that has filed a block impeaches a silent proposer within four delta of it: the
\* commit timer of the block, then the impeachment timer that its decision starts
\* (liveness.h:36-41, application.cpp:94-104).
THEOREM ImpeachesInTime == SSpec => []ImpeachedInTime
<1>1. TimeInv => ImpeachedInTime
    <2> SUFFICES ASSUME CoreInv, Timely, NEW r \in Replica, Up(r), NEW c \in DOMAIN filed_at[r]
                 PROVE  \E b \in DOMAIN filed_at[r] : now <= filed_at[r][b] + 4 * Delta
        BY DEF Below, TimeInv, ImpeachedInTime, NetInv
    <2>1. now \in Nat /\ \A b \in DOMAIN filed_at[r] : filed_at[r][b] \in Nat
        BY DEF Timely, FilingsStamped
    <2>2. CASE decision[r] # {Genesis}
        <3>1. /\ now <= impeach_due[r] /\ impeach_due[r] \in Int
              /\ \E b \in DOMAIN filed_at[r] : impeach_due[r] <= filed_at[r][b] + 4 * Delta
            BY <2>2 DEF Timely, ImpeachmentInTime
        <3> QED BY <2>1, <3>1, TimesAre
    <2>3. CASE decision[r] = {Genesis}
        <3>1. c \in commit_timer[r]
            BY <2>3 DEF CoreInv, FiledIsPendingOrDecided, FiledBy, Timely, FilingsStamped
        <3>2. now <= filed_at[r][c] + 2 * Delta
            BY <3>1 DEF Timely, TimersInTime, CommitDue
        <3> QED BY <2>1, <3>2, TimesAre
    <2> QED BY <2>2, <2>3
<1> QED BY <1>1, TimeInvariant, PTL

\* The first impeachment of a proposer that runs comes after a time in which it proposed
\* nothing that could have been decided: a decision would have put it off
\* (application.cpp:94-104, liveness.h:36-41).
THEOREM ImpeachesForSilence == SSpec => ImpeachedForSilence
<1>1. ASSUME TimeInv, [SNext]_svars, impeachments = 0, impeachments' = 1, Up(FirstProposer),
             NEW b \in DOMAIN filed_at[FirstProposer],
             now - 4 * Delta < filed_at[FirstProposer][b],
             filed_at[FirstProposer][b] + Delay + 2 * Delta < now
      PROVE  FALSE
    <2>1. Timely /\ CoreInv /\ NetInv /\ FirstProposer \in Replica
        BY <1>1, FirstProposerAssumption, ProposersAssumption DEF Below, TimeInv, NetInv
    <2>2. PICK r \in Replica : SImpeach(r)
        BY <1>1, <2>1, ImpeachingStep
    <2>3. /\ Up(r) /\ impeach_due[r] \in 0..now
        BY <2>2 DEF SImpeach, Impeach, Idle
    <2>4. b \in DOMAIN filed_at[FirstProposer] /\ filed_at[FirstProposer][b] \in Nat /\ now \in Nat
        BY <1>1, <2>1 DEF Timely, FilingsStamped
    <2>5. b \in decision[r]
        BY <1>1, <2>1, <2>3, DecidedByThen
    <2>6. b \in DOMAIN filed_at[r] /\ b # Genesis
        BY <1>1, <2>1, <2>4, <2>5 DEF Timely, FilingsStamped, CoreInv, FiledIsPendingOrDecided, FiledBy
    <2>7. filed_at[r][b] + 4 * Delta <= impeach_due[r]
        BY <2>1, <2>5, <2>6 DEF Timely, DecidedAfter
    <2>8. filed_at[FirstProposer][b] <= filed_at[r][b] /\ filed_at[r][b] \in Nat
        BY <2>1, <2>6 DEF Timely, AfterProposer, FilingsStamped
    <2> QED BY <1>1, <2>3, <2>4, <2>7, <2>8, TimesAre
<1>2. TimeInv /\ [SNext]_svars
      => [impeachments = 0 /\ impeachments' = 1 /\ Up(FirstProposer) =>
            \A b \in DOMAIN filed_at[FirstProposer] :
              ~ (/\ now - 4 * Delta < filed_at[FirstProposer][b]
                 /\ filed_at[FirstProposer][b] + Delay + 2 * Delta < now)]_svars
    BY <1>1
<1> QED BY <1>2, TimeInvariant, PTL DEF SSpec, ImpeachedForSilence

=============================================================================
