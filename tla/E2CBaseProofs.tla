--------------------------- MODULE E2CBaseProofs ---------------------------
(***************************************************************************)
(* The network layer uses E2CCore as its declarations ask, so what is      *)
(* proved of E2CCore holds of replicas that lose messages, fetch, die in a *)
(* handler and rotate their proposer. And NetInv is an inductive invariant *)
(* of it: with it, whatever is lost, fetched, asked again or proposed by   *)
(* whomever, a delivery is made once and in order, no wake-up is lost, and *)
(* whoever is asked for a block has it.                                    *)
(***************************************************************************)
EXTENDS E2CBase, E2CCoreProofs, FiniteSetTheorems, SequenceTheorems

-----------------------------------------------------------------------------
(* What holds whatever is lost, fetched, proposed or impeached.             *)

\* Whoever has delivered a block has delivered its ancestors.
DeliveredClosed ==
    \A r \in Replica : \A b \in delivered[r] : Range(Parents(b)) \subseteq delivered[r]

\* The peer of a call has the block of the call.
CallOK(r, c) ==
    /\ c \in Call
    /\ c.peer # r
    /\ c.blk \in delivered[c.peer]
    /\ c.op \in {"await_delivery", "on_receive_proposal"} => c.blk # Genesis

\* A block is sent by those and asked of those who have delivered it.
MessageOK(p, m) ==
    /\ m \in Message
    /\ m.blk \in delivered[IF m.type = "req" THEN p[2] ELSE p[1]]
    /\ m.type = "propose" => m.blk # Genesis

ChannelsOK == \A p \in Link : /\ chan[p] \in Seq(Message)
                              /\ \A i \in DOMAIN chan[p] : MessageOK(p, chan[p][i])

\* b is delivered or waits for its delivery when call i of the handler begins.
Promised(r, i, b) ==
    \/ b \in delivered[r] \cup DOMAIN waiting[r]
    \/ \E j \in 1..(i - 1) : stack[r][j].op = "async_deliver" /\ stack[r][j].blk = b

\* What is past its fetch is stored, what is about to be delivered has its parents,
\* and no promise is waited for that nobody has made.
Ready(r, i, c) ==
    /\ c.op \in {"verify", "all", "on_deliver"} => c.blk \in storage[r]
    /\ c.op = "on_deliver" => Undelivered(r, c.blk) = {}
    /\ c.op = "on_receive_proposal" => c.blk \in delivered[r]
    /\ c.op = "await_delivery" => Promised(r, i, c.blk)
    /\ c.op = "all" => \A p \in Range(Parents(c.blk)) : Promised(r, i, p)

StackOK(r) ==
    /\ stack[r] \in Seq(Call)
    /\ \A i \in DOMAIN stack[r] : CallOK(r, stack[r][i]) /\ Ready(r, i, stack[r][i])

\* Callbacks: those of promise::all, of blocks it is a parent of, and the proposal.
WaitingOK(r) ==
    \A b \in DOMAIN waiting[r] :
        /\ b \in Known
        /\ waiting[r][b] \in Seq(Call)
        /\ \A i \in DOMAIN waiting[r][b] :
              /\ CallOK(r, waiting[r][b][i])
              /\ \/ waiting[r][b][i].op = "all_then"
                 \/ waiting[r][b][i].op = "on_receive_proposal" /\ waiting[r][b][i].blk = b

FetchingOK(r) ==
    \A b \in DOMAIN fetching[r] :
        /\ \A p \in fetching[r][b].peers : p \in Replica \ {r} /\ b \in delivered[p]
        /\ \E p \in Replica : /\ p # r /\ b \in delivered[p]
                              /\ fetching[r][b].then = Invoke("verify", b, p)

\* What is signed, delivered or past its fetch is stored.
StoredOK(r) ==
    /\ storage[r] \subseteq Known
    /\ signed[r] \cup delivered[r] \cup DOMAIN need[r] \subseteq storage[r]

\* Where, and how often, a sequence of calls does op for b.
CallsAt(s, op, b) == {i \in DOMAIN s : s[i].op = op /\ s[i].blk = b}
CallCount(s, op, b) == Cardinality(CallsAt(s, op, b))

One(holds) == IF holds THEN 1 ELSE 0

\* The calls and entries that will see the delivery of b through.
InFlight(s, b) ==
    CallCount(s, "verify", b) + CallCount(s, "all", b) + CallCount(s, "on_deliver", b)

Tokens(r, b) ==
    InFlight(stack[r], b) + One(b \in DOMAIN fetching[r]) + One(b \in DOMAIN need[r])

\* Exactly one of them for a block that waits for its delivery, else none.
OneToken(r) ==
    /\ DOMAIN waiting[r] \cap delivered[r] = {}
    /\ \A b \in Hash : Tokens(r, b) = One(b \in DOMAIN waiting[r])

\* promise::all counts the parents that are not delivered and those that are, but
\* have not told yet; each parent will tell once.
CountsParents(r) ==
    \A b \in Hash :
        /\ b \in DOMAIN need[r] =>
              /\ Undelivered(r, b) \subseteq DOMAIN waiting[r]
              /\ need[r][b] \in Nat \ {0}
              /\ need[r][b] = Cardinality(Undelivered(r, b)) + CallCount(stack[r], "all_then", b)
        /\ b \notin DOMAIN need[r] => CallCount(stack[r], "all_then", b) = 0
        /\ \A p \in DOMAIN waiting[r] :
              CallCount(waiting[r][p], "all_then", b)
                  = One(b \in DOMAIN need[r] /\ p \in Undelivered(r, b))

\* The tables have an entry for everybody.
TablesOK ==
    /\ DOMAIN storage = Replica /\ DOMAIN signed = Replica
    /\ DOMAIN fetching = Replica /\ DOMAIN waiting = Replica
    /\ DOMAIN need = Replica /\ DOMAIN stack = Replica /\ DOMAIN chan = Link
    /\ proposer \in [Replica -> Replica]
    /\ aborted \in [Replica -> BOOLEAN]
    /\ {losses, retries, impeachments} \subseteq Nat
    /\ \A r \in Replica : need[r] = [b \in DOMAIN need[r] |-> need[r][b]]

ReplicaOK(r) ==
    /\ StackOK(r)
    /\ WaitingOK(r)
    /\ FetchingOK(r)
    /\ StoredOK(r)
    /\ OneToken(r)
    /\ CountsParents(r)

\* The inductive invariant of the network layer.
NetInv ==
    /\ CoreInv
    /\ DeliveredClosed
    /\ TablesOK
    /\ ChannelsOK
    /\ \A r \in Replica : ReplicaOK(r)

-----------------------------------------------------------------------------
(* The network layer uses E2CCore.                                          *)

\* Every step of the network layer is one call of E2CCore or none; the block of
\* the call is one that has been proposed.
LEMMA BStepIsCoreStep == TypeOK /\ [BNext]_bvars => [Next]_vars
<1> SUFFICES ASSUME TypeOK, [BNext]_bvars PROVE [Next]_vars
    OBVIOUS
<1>1. CASE UNCHANGED bvars
    BY <1>1 DEF bvars
<1>2. ASSUME NEW r \in Replica, HandlerStep(r) PROVE [Next]_vars
    <2>1. Known \subseteq Hash
        BY DEF TypeOK, Known
    <2>2. CASE BOnDeliverBlk(r)
        <3>1. PICK b : OnDeliverBlk(r, b)
            BY <2>2 DEF BOnDeliverBlk
        <3>2. b \in Hash
            BY <2>1, <3>1 DEF OnDeliverBlk
        <3> QED BY <3>1, <3>2 DEF Next
    <2>3. CASE BOnReceiveProposal(r)
        <3>1. UNCHANGED vars \/ OnReceiveProposal(r, Top(r).blk)
            BY <2>3 DEF BOnReceiveProposal
        <3>2. ASSUME OnReceiveProposal(r, Top(r).blk) PROVE [Next]_vars
            <4>1. Top(r).blk \in Known
                BY <3>2 DEF OnReceiveProposal, TypeOK
            <4> QED BY <2>1, <3>2, <4>1 DEF Next
        <3> QED BY <3>1, <3>2
    <2>4. CASE AsyncDeliverBlk(r) \/ Verify(r) \/ All(r) \/ AllThen(r) \/ AwaitDelivery(r)
        BY <2>4 DEF AsyncDeliverBlk, Verify, All, AllThen, AwaitDelivery
    <2> QED BY <1>2, <2>2, <2>3, <2>4 DEF HandlerStep
<1>3. ASSUME NEW r \in Replica, BProposeNullParent(r) PROVE [Next]_vars
    BY <1>3 DEF BProposeNullParent, Next
<1>4. ASSUME NEW r \in Replica, NEW b \in Hash, BPropose(r, b) PROVE [Next]_vars
    BY <1>4 DEF BPropose, Next
<1>5. ASSUME NEW r \in Replica, NEW b \in Hash, BCommitTimerCb(r, b) PROVE [Next]_vars
    BY <1>5 DEF BCommitTimerCb, Next
<1>6. ASSUME NEW r \in Replica, NEW b \in Hash, FetchTimeout(r, b) PROVE [Next]_vars
    BY <1>6 DEF FetchTimeout
<1>7. ASSUME NEW r \in Replica, Impeach(r) PROVE [Next]_vars
    BY <1>7 DEF Impeach
<1>8. ASSUME NEW r \in Replica, NEW s \in Replica \ {r}, HandleMessage(s, r) \/ Lose(s, r)
      PROVE  [Next]_vars
    BY <1>8 DEF HandleMessage, ProposeHandler, ReqBlkHandler, RespBlkHandler, Lose
<1> QED BY <1>1, <1>2, <1>3, <1>4, <1>5, <1>6, <1>7, <1>8 DEF BNext

\* The network layer implements E2CCore: it makes the calls in an order and under
\* the conditions that the declarations of the class ask for (consensus.h:70-90).
THEOREM NetworkUsesCore == BSpec => Spec
<1>1. BInit => Init
    BY DEF BInit
<1>2. CoreInv /\ [BNext]_bvars => [Next]_vars /\ CoreInv'
    <2>1. CoreInv => TypeOK
        BY DEF CoreInv
    <2> QED BY <2>1, BStepIsCoreStep, CoreInvStep
<1>3. Init => CoreInv
    BY InitCoreInv
<1> QED BY <1>1, <1>2, <1>3, PTL DEF BSpec, Spec

\* A replica of the network layer hands every block to do_decide once, whatever
\* is lost, fetched, forwarded twice or proposed by whomever (consensus.cpp:207-230).
THEOREM NetworkExecutesOnce == BSpec => []ExecutedOnce
BY NetworkUsesCore, ExecutesOnce, PTL

-----------------------------------------------------------------------------
(* Counting the calls of a sequence.                                        *)

\* Calls are counted by a natural number, zero when there is none.
LEMMA CountFacts ==
    ASSUME NEW s \in Seq(Call), NEW op, NEW b
    PROVE  /\ IsFiniteSet(CallsAt(s, op, b))
           /\ CallCount(s, op, b) \in Nat
           /\ CallCount(s, op, b) = 0 <=> CallsAt(s, op, b) = {}
<1>1. CallsAt(s, op, b) \in SUBSET (1..Len(s)) /\ Len(s) \in Nat
    BY DEF CallsAt
<1>2. IsFiniteSet(1..Len(s))
    BY <1>1, FS_Interval
<1>3. IsFiniteSet(CallsAt(s, op, b))
    BY <1>1, <1>2, FS_Subset
<1> QED BY <1>3, FS_CardinalityType, FS_EmptySet DEF CallCount

\* An empty sequence of calls has none.
LEMMA CountEmpty ==
    ASSUME NEW op, NEW b
    PROVE  CallCount(<<>>, op, b) = 0
<1>1. CallsAt(<<>>, op, b) = {}
    BY DEF CallsAt
<1> QED BY <1>1, FS_EmptySet DEF CallCount

\* A single call counts for its own operation and block.
LEMMA CountSingle ==
    ASSUME NEW c \in Call, NEW op, NEW b
    PROVE  CallCount(<<c>>, op, b) = One(c.op = op /\ c.blk = b)
<1>1. CallsAt(<<c>>, op, b) = IF c.op = op /\ c.blk = b THEN {1} ELSE {}
    BY DEF CallsAt
<1> QED BY <1>1, FS_EmptySet, FS_Singleton DEF CallCount, One

\* The calls of two sequences one after the other.
LEMMA CountConcat ==
    ASSUME NEW s \in Seq(Call), NEW t \in Seq(Call), NEW op, NEW b
    PROVE  CallCount(s \o t, op, b) = CallCount(s, op, b) + CallCount(t, op, b)
<1> DEFINE n == Len(s)
           A == CallsAt(s, op, b)
           B == CallsAt(t, op, b)
           C == {i \in DOMAIN (s \o t) \ (1..n) : (s \o t)[i].op = op /\ (s \o t)[i].blk = b}
           f == [i \in B |-> i + n]
<1>1. /\ n \in Nat /\ Len(t) \in Nat
      /\ DOMAIN s = 1..n /\ DOMAIN t = 1..Len(t) /\ DOMAIN (s \o t) = 1..(n + Len(t))
      /\ \A i \in 1..n : (s \o t)[i] = s[i]
      /\ \A i \in 1..Len(t) : (s \o t)[i + n] = t[i]
    BY ConcatProperties
<1>2. CallsAt(s \o t, op, b) = A \cup C /\ A \cap C = {}
    BY <1>1 DEF CallsAt
<1>3. f \in Bijection(B, C)
    <2>1. f \in [B -> C]
        BY <1>1 DEF CallsAt
    <2>2. \A i, j \in B : f[i] = f[j] => i = j
        BY <1>1 DEF CallsAt
    <2>3. \A k \in C : \E i \in B : f[i] = k
        <3> SUFFICES ASSUME NEW k \in C PROVE k - n \in B /\ (k - n) + n = k
            OBVIOUS
        <3>1. k - n \in 1..Len(t) /\ (k - n) + n = k
            BY <1>1
        <3> QED BY <1>1, <3>1 DEF CallsAt
    <2> HIDE DEF f, C, B
    <2> QED BY <2>1, <2>2, <2>3 DEF Bijection, Injection, Surjection, IsInjective
<1>4. IsFiniteSet(A) /\ IsFiniteSet(B)
    BY CountFacts
<1>5. IsFiniteSet(C) /\ Cardinality(C) = Cardinality(B)
    BY <1>3, <1>4, FS_Bijection DEF ExistsBijection
<1>6. Cardinality(A \cup C) = Cardinality(A) + Cardinality(C) - Cardinality(A \cap C)
    BY <1>4, <1>5, FS_Union
<1>7. Cardinality(A \cap C) = 0
    BY <1>2, FS_EmptySet
<1>8. Cardinality(A) \in Nat /\ Cardinality(C) \in Nat
    BY <1>4, <1>5, FS_CardinalityType
<1>9. /\ CallCount(s \o t, op, b) = Cardinality(A \cup C)
      /\ CallCount(s, op, b) = Cardinality(A)
      /\ CallCount(t, op, b) = Cardinality(C)
    BY <1>2, <1>5 DEF CallCount
<1> HIDE DEF A, C
<1> QED BY <1>6, <1>7, <1>8, <1>9

\* What is left of a handler when a call has returned after making these calls.
LEMMA CountThen ==
    ASSUME NEW s \in Seq(Call), s # <<>>, NEW calls \in Seq(Call), NEW op, NEW b
    PROVE  CallCount(calls \o Tail(s), op, b)
               = CallCount(calls, op, b) + CallCount(s, op, b)
                     - One(Head(s).op = op /\ Head(s).blk = b)
<1> DEFINE first == <<Head(s)>>
           rest == Tail(s)
<1>1. /\ Head(s) \in Call /\ rest \in Seq(Call) /\ first \in Seq(Call)
      /\ s = first \o rest
    OBVIOUS
<1>2. CallCount(first, op, b) = One(Head(s).op = op /\ Head(s).blk = b)
    BY <1>1, CountSingle
<1> HIDE DEF first, rest
<1>3. CallCount(first \o rest, op, b) = CallCount(first, op, b) + CallCount(rest, op, b)
    BY <1>1, CountConcat
<1>4. CallCount(calls \o rest, op, b) = CallCount(calls, op, b) + CallCount(rest, op, b)
    BY <1>1, CountConcat
<1>5. /\ CallCount(first, op, b) \in Nat /\ CallCount(rest, op, b) \in Nat
      /\ CallCount(calls, op, b) \in Nat
    BY <1>1, CountFacts
<1>6. CallCount(s, op, b) = CallCount(first, op, b) + CallCount(rest, op, b)
    BY <1>1, <1>3
<1> QED BY <1>2, <1>4, <1>5, <1>6 DEF rest

\* What no step of the network layer takes away.
Grows ==
    /\ CoreInv' /\ DeliveredClosed'
    /\ Known \subseteq Known'
    /\ \A b \in Known : blocks'[b] = blocks[b]
    /\ \A r \in Replica : delivered[r] \subseteq delivered'[r]

\* A step of E2CCore takes nothing away and keeps deliveries closed.
LEMMA CoreGrows == CoreInv /\ DeliveredClosed /\ [Next]_vars => Grows
<1> SUFFICES ASSUME CoreInv, DeliveredClosed, [Next]_vars PROVE Grows
    OBVIOUS
<1>0. TypeOK /\ CoreInv'
    BY CoreInvStep DEF CoreInv
<1>1. CASE UNCHANGED <<blocks, delivered>>
    BY <1>0, <1>1 DEF Grows, DeliveredClosed, Known, Parents
<1>2. ASSUME NEW r \in Replica, NEW b \in Hash, OnPropose(r, b) PROVE Grows
    <2> DEFINE ps == GetParents(r)
               rec == [proposer |-> r, height |-> Height(ps[1]) + 1, parents |-> ps]
    <2>1. /\ blocks' = Put(blocks, b, rec) /\ b \notin Known /\ NoNullParent(r)
          /\ delivered' = [delivered EXCEPT ![r] = @ \cup {b}]
        BY <1>2 DEF OnPropose, Deliver
    <2>2. /\ Known' = Known \cup {b} /\ blocks'[b].parents = ps
          /\ \A c \in Known : blocks'[c] = blocks[c]
        BY <2>1 DEF Put, Known
    <2>3. Range(ps) \subseteq delivered[r]
        <3> DEFINE top == Height(b_mark[r])
        <3>1. top \in Nat
            BY <2>1, GetParentsFacts
        <3>2. ps = [i \in 1..(top + 1) |-> IF i <= top THEN ht_blk_map[r][top + 1 - i]
                                                       ELSE Genesis]
            BY DEF GetParents
        <3>3. \A ht \in 1..top : ht_blk_map[r][ht] \in delivered[r]
            BY <1>0, <2>1 DEF NoNullParent, HasHeight, TypeOK
        <3>4. Genesis \in delivered[r]
            BY <1>0 DEF CoreInv, BlocksOK, TypeOK
        <3> HIDE DEF top, ps
        <3>5. \A i \in 1..(top + 1) : ps[i] \in delivered[r]
            <4> SUFFICES ASSUME NEW i \in 1..(top + 1) PROVE ps[i] \in delivered[r]
                OBVIOUS
            <4>1. i <= top => top + 1 - i \in 1..top
                BY <3>1
            <4> QED BY <3>1, <3>2, <3>3, <3>4, <4>1
        <3> QED BY <3>2, <3>5 DEF Range
    <2> HIDE DEF ps
    <2>4. \A q \in Replica : delivered[q] \subseteq delivered'[q]
        BY <1>0, <2>1 DEF TypeOK
    <2>5. DeliveredClosed'
        <3> SUFFICES ASSUME NEW q \in Replica, NEW c \in delivered'[q]
                     PROVE  Range(blocks'[c].parents) \subseteq delivered'[q]
            BY DEF DeliveredClosed, Parents
        <3>1. CASE c \in delivered[q]
            <4>1. c \in Known
                BY <1>0, <3>1 DEF TypeOK
            <4> QED BY <2>2, <2>4, <3>1, <4>1 DEF DeliveredClosed, Parents
        <3>2. CASE c \notin delivered[q]
            <4>1. q = r /\ c = b
                BY <1>0, <2>1, <3>2 DEF TypeOK
            <4> QED BY <2>2, <2>3, <2>4, <4>1
        <3> QED BY <3>1, <3>2
    <2> QED BY <1>0, <2>2, <2>4, <2>5 DEF Grows
<1>3. ASSUME NEW r \in Replica, NEW b \in Hash, OnDeliverBlk(r, b) PROVE Grows
    <2>1. /\ Range(Parents(b)) \subseteq delivered[r]
          /\ delivered' = [delivered EXCEPT ![r] = @ \cup {b}]
          /\ blocks' = blocks
        BY <1>3 DEF OnDeliverBlk, Deliver
    <2>2. \A q \in Replica : delivered[q] \subseteq delivered'[q]
        BY <1>0, <2>1 DEF TypeOK
    <2>3. DeliveredClosed'
        BY <1>0, <2>1, <2>2 DEF DeliveredClosed, Parents, TypeOK
    <2> QED BY <1>0, <2>1, <2>2, <2>3 DEF Grows, Known
<1>4. ASSUME NEW r \in Replica,
             \/ OnProposeNullParent(r)
             \/ \E b \in Hash : OnReceiveProposal(r, b) \/ CommitTimerCb(r, b)
      PROVE  UNCHANGED <<blocks, delivered>>
    BY <1>4 DEF OnProposeNullParent, OnReceiveProposal, CommitTimerCb
<1> QED BY <1>1, <1>2, <1>3, <1>4 DEF Next, vars

\* A call stays right as long as nothing is taken away,
LEMMA CallGrows ==
    ASSUME Grows, NEW r \in Replica, NEW c, CallOK(r, c)
    PROVE  CallOK(r, c)'
BY DEF Grows, CallOK, Call

\* and so does a message.
LEMMA MessageGrows ==
    ASSUME Grows, NEW p \in Link, NEW m, MessageOK(p, m)
    PROVE  MessageOK(p, m)'
BY DEF Grows, MessageOK, Link

\* The set of the parents of a block is finite, and known.
LEMMA ParentsFacts ==
    ASSUME CoreInv, NEW b \in Known
    PROVE  /\ Parents(b) \in Seq(Hash)
           /\ IsFiniteSet(Range(Parents(b)))
           /\ \A r : IsFiniteSet(Undelivered(r, b))
<1>1. Parents(b) \in Seq(Hash)
    BY DEF CoreInv, TypeOK, Block, Parents
<1>2. Len(Parents(b)) \in Nat /\ DOMAIN Parents(b) = 1..Len(Parents(b))
    BY <1>1
<1>3. Parents(b) \in Surjection(1..Len(Parents(b)), Range(Parents(b)))
    <2> DEFINE f == Parents(b)
               n == Len(f)
    <2>1. f \in [1..n -> Hash] /\ DOMAIN f = 1..n
        BY <1>1
    <2> HIDE DEF f, n
    <2>2. f \in Surjection(1..n, Range(f))
        BY <2>1 DEF Surjection, Range
    <2> QED BY <2>2 DEF f, n
<1>4. IsFiniteSet(1..Len(Parents(b)))
    BY <1>2, FS_Interval
<1>5. IsFiniteSet(Range(Parents(b)))
    BY <1>3, <1>4, FS_Surjection
<1>6. \A r : Undelivered(r, b) \in SUBSET Range(Parents(b))
    BY DEF Undelivered
<1> QED BY <1>1, <1>5, <1>6, FS_Subset

\* What an action does not touch stays in order while others go on.
LEMMA OtherReplica ==
    ASSUME NetInv, Grows, NEW q \in Replica,
           storage'[q] = storage[q], signed'[q] = signed[q], fetching'[q] = fetching[q],
           waiting'[q] = waiting[q], need'[q] = need[q], stack'[q] = stack[q],
           delivered'[q] = delivered[q]
    PROVE  ReplicaOK(q)'
<1>1. ReplicaOK(q) /\ TypeOK
    BY DEF NetInv, CoreInv
<1>2. \A b \in Known : b \in Hash /\ Parents(b)' = Parents(b) /\ Undelivered(q, b)' = Undelivered(q, b)
    BY <1>1 DEF Grows, Parents, Undelivered, TypeOK, Known
<1>3. \A i \in DOMAIN stack[q] : stack[q][i].blk \in Known
    BY <1>1 DEF ReplicaOK, StackOK, CallOK, Call, TypeOK
<1>4. StackOK(q)'
    <2>1. \A i, b : Promised(q, i, b)' <=> Promised(q, i, b)
        BY DEF Promised
    <2>2. ASSUME NEW i \in DOMAIN stack[q] PROVE Ready(q, i, stack[q][i])'
        BY <1>1, <1>2, <1>3, <2>1, <2>2 DEF Ready, ReplicaOK, StackOK
    <2>3. ASSUME NEW i \in DOMAIN stack[q] PROVE CallOK(q, stack[q][i])'
        <3>1. CallOK(q, stack[q][i])
            BY <1>1, <2>3 DEF ReplicaOK, StackOK
        <3> QED BY <3>1 DEF Grows, CallOK, Call
    <2> QED BY <1>1, <2>2, <2>3 DEF StackOK, ReplicaOK
<1>5. WaitingOK(q)'
    <2>1. ASSUME NEW b \in DOMAIN waiting[q], NEW i \in DOMAIN waiting[q][b]
          PROVE  CallOK(q, waiting[q][b][i])'
        <3>1. CallOK(q, waiting[q][b][i])
            BY <1>1, <2>1 DEF ReplicaOK, WaitingOK
        <3> QED BY <3>1 DEF Grows, CallOK, Call
    <2>2. DOMAIN waiting[q] \subseteq Known'
        BY <1>1 DEF ReplicaOK, WaitingOK, Grows
    <2> QED BY <1>1, <2>1, <2>2 DEF ReplicaOK, WaitingOK
<1>6. FetchingOK(q)'
    BY <1>1 DEF ReplicaOK, FetchingOK, Grows, Invoke
<1>7. StoredOK(q)'
    BY <1>1 DEF ReplicaOK, StoredOK, Grows
<1>8. OneToken(q)'
    BY <1>1 DEF ReplicaOK, OneToken, Tokens
<1>9. CountsParents(q)'
    <2>1. \A b \in DOMAIN need[q] : b \in Known
        BY <1>1 DEF ReplicaOK, StoredOK
    <2> QED BY <1>1, <1>2, <2>1 DEF ReplicaOK, CountsParents, One
<1> QED BY <1>4, <1>5, <1>6, <1>7, <1>8, <1>9 DEF ReplicaOK

-----------------------------------------------------------------------------
(* The stack of a handler.                                                  *)

\* The block of a call is known and its peer is somebody else.
LEMMA CallKnown ==
    ASSUME TypeOK, NEW r \in Replica, NEW c, CallOK(r, c)
    PROVE  /\ c.blk \in Known /\ c.blk \in Hash
           /\ c.peer \in Replica \ {r} /\ c.blk \in delivered[c.peer]
<1>1. c.peer \in Replica /\ c.peer # r /\ c.blk \in delivered[c.peer]
    BY DEF CallOK, Call
<1> QED BY <1>1 DEF TypeOK, Known

\* The tables a step leaves alone.
LEMMA SameTables ==
    ASSUME NetInv, Grows, NEW r \in Replica
    PROVE  /\ waiting'[r] = waiting[r] => WaitingOK(r)'
           /\ fetching'[r] = fetching[r] => FetchingOK(r)'
           /\ UNCHANGED <<storage[r], signed[r], delivered[r], need[r]>> => StoredOK(r)'
<1>1. ReplicaOK(r)
    BY DEF NetInv
<1>2. ASSUME waiting'[r] = waiting[r] PROVE WaitingOK(r)'
    <2>1. ASSUME NEW b \in DOMAIN waiting[r], NEW i \in DOMAIN waiting[r][b]
          PROVE  CallOK(r, waiting[r][b][i])'
        <3>1. CallOK(r, waiting[r][b][i])
            BY <1>1, <2>1 DEF ReplicaOK, WaitingOK
        <3> QED BY <1>2, <3>1 DEF Grows, CallOK, Call
    <2>2. DOMAIN waiting[r] \subseteq Known'
        BY <1>1 DEF ReplicaOK, WaitingOK, Grows
    <2> QED BY <1>1, <1>2, <2>1, <2>2 DEF ReplicaOK, WaitingOK
<1>3. ASSUME fetching'[r] = fetching[r] PROVE FetchingOK(r)'
    BY <1>1, <1>3 DEF ReplicaOK, FetchingOK, Grows, Invoke
<1>4. ASSUME UNCHANGED <<storage[r], signed[r], delivered[r], need[r]>> PROVE StoredOK(r)'
    BY <1>1, <1>4 DEF ReplicaOK, StoredOK, Grows
<1> QED BY <1>2, <1>3, <1>4

\* The running call of r has returned and left some calls to make.
LEMMA ThenFacts ==
    ASSUME NetInv, NEW r \in Replica, stack[r] # <<>>, NEW calls \in Seq(Call), Then(r, calls)
    PROVE  /\ stack'[r] = calls \o Tail(stack[r])
           /\ DOMAIN stack' = Replica
           /\ \A q \in Replica \ {r} : stack'[q] = stack[q]
           /\ \A op, b : /\ CallCount(stack[r], op, b) \in Nat
                         /\ CallCount(calls, op, b) \in Nat
                         /\ CallCount(stack'[r], op, b)
                               = CallCount(calls, op, b) + CallCount(stack[r], op, b)
                                     - One(Top(r).op = op /\ Top(r).blk = b)
<1>1. DOMAIN stack = Replica /\ stack[r] \in Seq(Call)
    BY DEF NetInv, TablesOK, ReplicaOK, StackOK
<1>2. /\ stack'[r] = calls \o Tail(stack[r]) /\ DOMAIN stack' = Replica
      /\ \A q \in Replica \ {r} : stack'[q] = stack[q]
    BY <1>1 DEF Then
<1>3. \A op, b : CallCount(calls \o Tail(stack[r]), op, b)
                     = CallCount(calls, op, b) + CallCount(stack[r], op, b)
                           - One(Head(stack[r]).op = op /\ Head(stack[r]).blk = b)
    BY <1>1, CountThen
<1> QED BY <1>1, <1>2, <1>3, CountFacts DEF Top

\* The rest of the handler is in order when the calls put before it are, and an
\* async_deliver that has returned has kept its promise.
LEMMA StackStep ==
    ASSUME NetInv, Grows, NEW r \in Replica, stack[r] # <<>>,
           NEW calls \in Seq(Call), Then(r, calls),
           storage[r] \subseteq storage'[r],
           delivered[r] \cup DOMAIN waiting[r] \subseteq delivered'[r] \cup DOMAIN waiting'[r],
           Top(r).op = "async_deliver" => Top(r).blk \in delivered'[r] \cup DOMAIN waiting'[r],
           \A i \in DOMAIN calls : CallOK(r, calls[i])' /\ Ready(r, i, calls[i])'
    PROVE  StackOK(r)'
<1> DEFINE s == stack[r]
           n == Len(calls)
<1>1. /\ s \in Seq(Call) /\ n \in Nat /\ Len(s) \in Nat
      /\ \A i \in DOMAIN s : CallOK(r, s[i]) /\ Ready(r, i, s[i])
    BY DEF NetInv, ReplicaOK, StackOK
<1>2. /\ stack'[r] = calls \o Tail(s)
      /\ Tail(s) \in Seq(Call) /\ Len(Tail(s)) = Len(s) - 1
      /\ \A i \in 1..(Len(s) - 1) : Tail(s)[i] = s[i + 1]
    BY <1>1, ThenFacts, HeadTailProperties
<1>3. /\ stack'[r] \in Seq(Call)
      /\ DOMAIN stack'[r] = 1..(n + Len(s) - 1)
      /\ \A i \in 1..n : stack'[r][i] = calls[i]
    BY <1>1, <1>2, ConcatProperties
<1>4. \A i \in (n + 1)..(n + Len(s) - 1) : /\ i - n + 1 \in 2..Len(s)
                                           /\ stack'[r][i] = s[i - n + 1]
    <2> SUFFICES ASSUME NEW i \in (n + 1)..(n + Len(s) - 1)
                 PROVE  i - n + 1 \in 2..Len(s) /\ stack'[r][i] = s[i - n + 1]
        OBVIOUS
    <2>1. /\ i \in 1..(n + Len(Tail(s))) /\ ~ (i <= n)
          /\ i - n \in 1..(Len(s) - 1) /\ i - n + 1 \in 2..Len(s)
        BY <1>1, <1>2
    <2>2. stack'[r][i] = Tail(s)[i - n]
        BY <1>1, <1>2, <2>1, ConcatProperties
    <2> QED BY <1>2, <2>1, <2>2
<1>5. \A i \in 2..Len(s) : /\ n + i - 1 \in (n + 1)..(n + Len(s) - 1)
                           /\ (n + i - 1) - n + 1 = i
    BY <1>1
<1> HIDE DEF n
<1>6. \A c : c.blk \in Known => /\ Parents(c.blk)' = Parents(c.blk)
                                /\ Undelivered(r, c.blk) = {} => Undelivered(r, c.blk)' = {}
    BY DEF Grows, Parents, Undelivered
<1>7. ASSUME NEW i \in DOMAIN stack'[r], NEW c, c = stack'[r][i]
      PROVE  CallOK(r, c)' /\ Ready(r, i, c)'
    <2>1. CASE i \in 1..n
        <3>1. i \in DOMAIN calls /\ c = calls[i]
            BY <1>3, <1>7, <2>1 DEF n
        <3> QED BY <3>1
    <2>2. CASE i \notin 1..n
        <3> DEFINE j == i - n + 1
        <3>1. i \in (n + 1)..(n + Len(s) - 1)
            BY <1>1, <1>3, <1>7, <2>2
        <3>2. j \in 2..Len(s) /\ c = s[j]
            BY <1>4, <1>7, <3>1
        <3>3. j \in DOMAIN s /\ i = n + j - 1 /\ i \in Nat /\ j \in Nat
            <4>1. DOMAIN s = 1..Len(s) /\ Len(s) \in Nat /\ n \in Nat
                BY <1>1
            <4>2. j \in 2..Len(s)
                BY <3>2
            <4>3. j \in DOMAIN s /\ j \in Nat
                BY <4>1, <4>2
            <4>4. i \in Int
                BY <3>1, <4>1
            <4>5. i = n + j - 1
                BY <4>1, <4>4
            <4>6. i \in Nat
                BY <4>1, <3>1
            <4> QED BY <4>3, <4>5, <4>6
        <3> HIDE DEF j
        <3>4. CallOK(r, c) /\ Ready(r, j, c)
            BY <1>1, <3>2, <3>3
        <3>5. c.blk \in Known
            <4>1. TypeOK
                BY DEF NetInv, CoreInv
            <4> QED BY <3>4, <4>1, CallKnown
        <3>6. ASSUME NEW b, Promised(r, j, b) PROVE Promised(r, i, b)'
            <4>1. CASE b \in delivered[r] \cup DOMAIN waiting[r]
                BY <4>1 DEF Promised
            <4>2. ASSUME NEW k \in 1..(j - 1), s[k].op = "async_deliver", s[k].blk = b
                  PROVE  Promised(r, i, b)'
                <5>1. CASE k = 1
                    <6>1. s[k] = Top(r)
                        BY <1>1, <5>1 DEF Top
                    <6> QED BY <4>2, <6>1 DEF Promised
                <5>2. CASE k # 1
                    <6>1. k \in 2..Len(s) /\ n + k - 1 \in 1..(i - 1)
                        <7>1. n \in Nat
                            BY <1>1 DEF n
                        <7> QED BY <1>1, <3>2, <3>3, <4>2, <5>2, <7>1
                    <6>2. stack'[r][n + k - 1] = s[k]
                        BY <1>4, <1>5, <6>1
                    <6> QED BY <4>2, <6>1, <6>2 DEF Promised
                <5> QED BY <5>1, <5>2
            <4> QED BY <3>6, <4>1, <4>2 DEF Promised
        <3>7. CallOK(r, c)'
            BY <3>4, CallGrows
        <3>8. Ready(r, i, c)'
            BY <1>6, <3>4, <3>5, <3>6 DEF Ready, Grows
        <3> QED BY <3>7, <3>8
    <2> QED BY <2>1, <2>2
<1> QED BY <1>3, <1>7 DEF StackOK

-----------------------------------------------------------------------------
(* The call on top, and what an action has to show.                         *)

\* The running call.
LEMMA TopFacts ==
    ASSUME NetInv, NEW r \in Replica, NEW op, Running(r, op)
    PROVE  /\ stack[r] # <<>> /\ Top(r) \in Call /\ Top(r).op = op
           /\ Top(r).blk \in Known /\ Top(r).blk \in Hash
           /\ Top(r).peer \in Replica \ {r} /\ Top(r).blk \in delivered[Top(r).peer]
           /\ op \in {"verify", "all", "on_deliver"} => Top(r).blk \in storage[r]
           /\ op = "on_deliver" => Undelivered(r, Top(r).blk) = {}
           /\ op = "on_receive_proposal" => Top(r).blk \in delivered[r]
           /\ op \in {"await_delivery", "on_receive_proposal"} => Top(r).blk # Genesis
           /\ op = "await_delivery" => Top(r).blk \in delivered[r] \cup DOMAIN waiting[r]
           /\ op = "all" => Range(Parents(Top(r).blk)) \subseteq delivered[r] \cup DOMAIN waiting[r]
           /\ CallCount(stack[r], op, Top(r).blk) \in Nat \ {0}
<1>1. stack[r] \in Seq(Call) /\ stack[r] # <<>> /\ Top(r).op = op /\ TypeOK
    BY DEF NetInv, CoreInv, ReplicaOK, StackOK, Running, Top
<1>2. 1 \in DOMAIN stack[r] /\ stack[r][1] = Top(r)
    BY <1>1 DEF Top
<1>3. PICK c : c = Top(r)
    OBVIOUS
<1>4. CallOK(r, c) /\ Ready(r, 1, c)
    BY <1>2, <1>3 DEF NetInv, ReplicaOK, StackOK
<1>5. c.blk \in Known /\ c.blk \in Hash /\ c.peer \in Replica \ {r} /\ c.blk \in delivered[c.peer]
    BY <1>1, <1>4, CallKnown
<1>6. \A b : Promised(r, 1, b) => b \in delivered[r] \cup DOMAIN waiting[r]
    BY DEF Promised
<1>7. CallCount(stack[r], op, c.blk) \in Nat \ {0}
    <2>1. 1 \in CallsAt(stack[r], op, c.blk)
        BY <1>1, <1>2, <1>3 DEF CallsAt
    <2> QED BY <1>1, <2>1, CountFacts
<1>8. /\ c.op = op /\ c \in Call
      /\ op \in {"await_delivery", "on_receive_proposal"} => c.blk # Genesis
    BY <1>1, <1>3, <1>4 DEF CallOK
<1>9. /\ op \in {"verify", "all", "on_deliver"} => c.blk \in storage[r]
      /\ op = "on_deliver" => Undelivered(r, c.blk) = {}
      /\ op = "on_receive_proposal" => c.blk \in delivered[r]
      /\ op = "await_delivery" => c.blk \in delivered[r] \cup DOMAIN waiting[r]
      /\ op = "all" => Range(Parents(c.blk)) \subseteq delivered[r] \cup DOMAIN waiting[r]
    BY <1>4, <1>6, <1>8 DEF Ready
<1> QED BY <1>1, <1>3, <1>5, <1>7, <1>8, <1>9

Op == {"async_deliver", "verify", "all", "all_then", "on_deliver", "await_delivery",
       "on_receive_proposal"}

\* A call that is made.
LEMMA InvokeFacts ==
    ASSUME NEW op \in Op, NEW b \in Hash, NEW p \in Replica
    PROVE  /\ Invoke(op, b, p) \in Seq(Call)
           /\ DOMAIN Invoke(op, b, p) = {1}
           /\ Invoke(op, b, p)[1] = [op |-> op, blk |-> b, peer |-> p]
           /\ \A o, x : CallCount(Invoke(op, b, p), o, x) = One(op = o /\ b = x)
<1> DEFINE c == [op |-> op, blk |-> b, peer |-> p]
<1>1. c \in Call /\ c.op = op /\ c.blk = b
    BY DEF Call, Op
<1>2. Invoke(op, b, p) = <<c>>
    BY DEF Invoke
<1> HIDE DEF c
<1>3. <<c>> \in Seq(Call) /\ DOMAIN <<c>> = {1} /\ <<c>>[1] = c
    BY <1>1
<1>4. \A o, x : CallCount(<<c>>, o, x) = One(op = o /\ b = x)
    BY <1>1, CountSingle
<1> QED BY <1>2, <1>3, <1>4 DEF c

\* A connection that grew by a good message, lost its first one, or stayed.
LEMMA ChannelsStep ==
    ASSUME NetInv, Grows, DOMAIN chan' = Link,
           \A p \in Link :
               \/ chan'[p] = chan[p]
               \/ chan[p] # <<>> /\ chan'[p] = Tail(chan[p])
               \/ \E m : MessageOK(p, m)' /\ chan'[p] = Append(chan[p], m)
    PROVE  ChannelsOK'
<1> SUFFICES ASSUME NEW p \in Link
             PROVE  /\ chan'[p] \in Seq(Message)
                    /\ \A i \in DOMAIN chan'[p] : \A m : m = chan'[p][i] => MessageOK(p, m)'
    BY DEF ChannelsOK
<1>1. chan[p] \in Seq(Message) /\ \A i \in DOMAIN chan[p] : MessageOK(p, chan[p][i])
    BY DEF NetInv, ChannelsOK
<1>2. \A i \in DOMAIN chan[p] : \A m : m = chan[p][i] => MessageOK(p, m)'
    BY <1>1, MessageGrows
<1>3. CASE chan'[p] = chan[p]
    BY <1>1, <1>2, <1>3
<1>4. CASE chan[p] # <<>> /\ chan'[p] = Tail(chan[p])
    <2>1. /\ chan'[p] \in Seq(Message)
          /\ \A i \in DOMAIN chan'[p] : i + 1 \in DOMAIN chan[p] /\ chan'[p][i] = chan[p][i + 1]
        BY <1>1, <1>4, HeadTailProperties
    <2> QED BY <1>2, <2>1
<1>5. ASSUME NEW n, MessageOK(p, n)', chan'[p] = Append(chan[p], n)
      PROVE  /\ chan'[p] \in Seq(Message)
             /\ \A i \in DOMAIN chan'[p] : \A m : m = chan'[p][i] => MessageOK(p, m)'
    <2>1. n \in Message
        BY <1>5 DEF MessageOK, Message
    <2>2. /\ chan'[p] \in Seq(Message)
          /\ \A i \in DOMAIN chan'[p] : \/ i \in DOMAIN chan[p] /\ chan'[p][i] = chan[p][i]
                                        \/ chan'[p][i] = n
        BY <1>1, <1>5, <2>1, AppendProperties
    <2> QED BY <1>2, <1>5, <2>2
<1> QED BY <1>3, <1>4, <1>5

\* An action of r leaves the tables of the others alone.
OwnTables(r) ==
    \A q \in Replica \ {r} :
        /\ storage'[q] = storage[q] /\ signed'[q] = signed[q] /\ fetching'[q] = fetching[q]
        /\ waiting'[q] = waiting[q] /\ need'[q] = need[q] /\ stack'[q] = stack[q]
        /\ delivered'[q] = delivered[q]

\* What an action of r has to show.
LEMMA NetStep ==
    ASSUME NetInv, Grows, NEW r \in Replica, OwnTables(r), TablesOK', ChannelsOK', ReplicaOK(r)'
    PROVE  NetInv'
<1>1. \A q \in Replica \ {r} : ReplicaOK(q)'
    BY OtherReplica DEF OwnTables
<1>2. \A q \in Replica : ReplicaOK(q)'
    BY <1>1
<1> QED BY <1>2 DEF NetInv, Grows

-----------------------------------------------------------------------------
(* Moving a block along: async_deliver_blk.                                 *)

Delivering == {"verify", "all", "on_deliver"}

\* The calls before and after a call of r has returned and left some to make.
LEMMA ThenCounts ==
    ASSUME NetInv, NEW r \in Replica, stack[r] # <<>>, NEW calls \in Seq(Call), Then(r, calls),
           NEW x
    PROVE  /\ InFlight(stack[r], x) \in Nat /\ InFlight(calls, x) \in Nat
           /\ InFlight(stack'[r], x) = InFlight(calls, x) + InFlight(stack[r], x)
                                         - One(Top(r).op \in Delivering /\ Top(r).blk = x)
           /\ CallCount(stack[r], "all_then", x) \in Nat /\ CallCount(calls, "all_then", x) \in Nat
           /\ CallCount(stack'[r], "all_then", x)
                  = CallCount(calls, "all_then", x) + CallCount(stack[r], "all_then", x)
                        - One(Top(r).op = "all_then" /\ Top(r).blk = x)
<1> DEFINE Counted(op) == /\ CallCount(stack[r], op, x) \in Nat
                          /\ CallCount(calls, op, x) \in Nat
                          /\ CallCount(stack'[r], op, x)
                                = CallCount(calls, op, x) + CallCount(stack[r], op, x)
                                      - One(Top(r).op = op /\ Top(r).blk = x)
<1>1. Counted("verify") /\ Counted("all") /\ Counted("on_deliver") /\ Counted("all_then")
    BY ThenFacts
<1>2. One(Top(r).op \in Delivering /\ Top(r).blk = x)
         = One(Top(r).op = "verify" /\ Top(r).blk = x) + One(Top(r).op = "all" /\ Top(r).blk = x)
               + One(Top(r).op = "on_deliver" /\ Top(r).blk = x)
    BY DEF One, Delivering
<1>3. /\ One(Top(r).op = "verify" /\ Top(r).blk = x) \in Nat
      /\ One(Top(r).op = "all" /\ Top(r).blk = x) \in Nat
      /\ One(Top(r).op = "on_deliver" /\ Top(r).blk = x) \in Nat
    BY DEF One
<1>4. PICK v, a, d : /\ v = One(Top(r).op = "verify" /\ Top(r).blk = x)
                     /\ a = One(Top(r).op = "all" /\ Top(r).blk = x)
                     /\ d = One(Top(r).op = "on_deliver" /\ Top(r).blk = x)
    OBVIOUS
<1>5. /\ v \in Nat /\ a \in Nat /\ d \in Nat
      /\ One(Top(r).op \in Delivering /\ Top(r).blk = x) = v + a + d
    BY <1>2, <1>3, <1>4
<1>6. /\ CallCount(stack'[r], "verify", x)
            = CallCount(calls, "verify", x) + CallCount(stack[r], "verify", x) - v
      /\ CallCount(stack'[r], "all", x)
            = CallCount(calls, "all", x) + CallCount(stack[r], "all", x) - a
      /\ CallCount(stack'[r], "on_deliver", x)
            = CallCount(calls, "on_deliver", x) + CallCount(stack[r], "on_deliver", x) - d
    BY <1>1, <1>4
<1> HIDE DEF Counted
<1>7. \A op \in {"verify", "all", "on_deliver"} :
          CallCount(stack[r], op, x) \in Nat /\ CallCount(calls, op, x) \in Nat
    BY <1>1 DEF Counted
<1>8. /\ CallCount(stack[r], "all_then", x) \in Nat /\ CallCount(calls, "all_then", x) \in Nat
      /\ CallCount(stack'[r], "all_then", x)
            = CallCount(calls, "all_then", x) + CallCount(stack[r], "all_then", x)
                  - One(Top(r).op = "all_then" /\ Top(r).blk = x)
    BY <1>1 DEF Counted
<1>9. /\ CallCount(stack[r], "verify", x) \in Nat /\ CallCount(calls, "verify", x) \in Nat
      /\ CallCount(stack[r], "all", x) \in Nat /\ CallCount(calls, "all", x) \in Nat
      /\ CallCount(stack[r], "on_deliver", x) \in Nat /\ CallCount(calls, "on_deliver", x) \in Nat
    BY <1>7
<1>10. InFlight(stack[r], x) \in Nat /\ InFlight(calls, x) \in Nat
    BY <1>9 DEF InFlight
<1>11. InFlight(stack'[r], x) = InFlight(calls, x) + InFlight(stack[r], x) - (v + a + d)
    <2> DEFINE cv == CallCount(calls, "verify", x)     sv == CallCount(stack[r], "verify", x)
               ca == CallCount(calls, "all", x)        sa == CallCount(stack[r], "all", x)
               cd == CallCount(calls, "on_deliver", x) sd == CallCount(stack[r], "on_deliver", x)
    <2>1. /\ InFlight(calls, x) = cv + ca + cd /\ InFlight(stack[r], x) = sv + sa + sd
          /\ InFlight(stack'[r], x) = (cv + sv - v) + (ca + sa - a) + (cd + sd - d)
        BY <1>6 DEF InFlight
    <2>2. cv \in Nat /\ sv \in Nat /\ ca \in Nat /\ sa \in Nat /\ cd \in Nat /\ sd \in Nat
        BY <1>9
    <2>3. v \in Nat /\ a \in Nat /\ d \in Nat
        BY <1>5
    <2> HIDE DEF cv, sv, ca, sa, cd, sd
    <2>4. (cv + sv - v) + (ca + sa - a) + (cd + sd - d)
              = (cv + ca + cd) + (sv + sa + sd) - (v + a + d)
        BY <2>2, <2>3
    <2> QED BY <2>1, <2>4
<1> QED BY <1>5, <1>8, <1>10, <1>11

\* What the callers of r rely on stays: stored blocks, deliveries made or promised.
Kept(r) ==
    /\ storage[r] \subseteq storage'[r]
    /\ delivered[r] \cup DOMAIN waiting[r] \subseteq delivered'[r] \cup DOMAIN waiting'[r]
    /\ Top(r).op = "async_deliver" => Top(r).blk \in delivered'[r] \cup DOMAIN waiting'[r]

\* One call at most is made next.
Calls(op, b, p) == IF op = "none" THEN <<>> ELSE Invoke(op, b, p)

Callable(r, op, b, p) ==
    /\ op \in {"none", "verify", "on_deliver", "on_receive_proposal"}
    /\ b \in Hash /\ p \in Replica \ {r} /\ b \in delivered[p]
    /\ op \in {"verify", "on_deliver"} => b \in storage'[r]
    /\ op = "on_deliver" => Undelivered(r, b)' = {}
    /\ op = "on_receive_proposal" => b \in delivered'[r] /\ b # Genesis

\* The step of r leaves its handler in order and those of the others alone.
Moved(r) ==
    /\ StackOK(r)' /\ DOMAIN stack' = Replica
    /\ \A q \in Replica \ {r} : stack'[q] = stack[q]

\* What it makes of the calls for x.
Counted(r, op, b) ==
    \A x :
        /\ InFlight(stack[r], x) \in Nat
        /\ InFlight(stack'[r], x) = InFlight(stack[r], x) + One(op \in Delivering /\ b = x)
                                      - One(Top(r).op \in Delivering /\ Top(r).blk = x)
        /\ CallCount(stack[r], "all_then", x) \in Nat
        /\ CallCount(stack'[r], "all_then", x)
               = CallCount(stack[r], "all_then", x) - One(Top(r).op = "all_then" /\ Top(r).blk = x)

\* What a step within a handler has to show.
LEMMA StackMove ==
    ASSUME NetInv, Grows, NEW r \in Replica, stack[r] # <<>>,
           NEW op, NEW b, NEW p, Callable(r, op, b, p), Then(r, Calls(op, b, p)), Kept(r)
    PROVE  Moved(r) /\ Counted(r, op, b)
<1>0. /\ op \in {"none", "verify", "on_deliver", "on_receive_proposal"}
      /\ b \in Hash /\ p \in Replica \ {r}
    BY DEF Callable
<1>1. PICK calls : calls = Calls(op, b, p)
    OBVIOUS
<1>2. /\ calls \in Seq(Call)
      /\ \A i \in DOMAIN calls : /\ calls[i].op = op /\ calls[i].blk = b /\ calls[i].peer = p
                                 /\ op # "none" /\ calls[i] \in Call
      /\ \A o, x : CallCount(calls, o, x) = One(op # "none" /\ op = o /\ b = x)
    <2>1. CASE op = "none"
        <3>1. calls = <<>>
            BY <1>1, <2>1 DEF Calls
        <3>2. calls \in Seq(Call) /\ DOMAIN calls = {}
            BY <3>1
        <3>3. \A o, x : CallCount(calls, o, x) = 0
            BY <3>1, CountEmpty
        <3> QED BY <2>1, <3>2, <3>3 DEF One
    <2>2. CASE op # "none"
        <3>1. calls = Invoke(op, b, p)
            BY <1>1, <2>2 DEF Calls
        <3>2. op \in Op
            BY <1>0, <2>2 DEF Op
        <3>3. /\ calls \in Seq(Call) /\ DOMAIN calls = {1}
              /\ calls[1] = [op |-> op, blk |-> b, peer |-> p]
              /\ \A o, x : CallCount(calls, o, x) = One(op = o /\ b = x)
            BY <1>0, <3>1, <3>2, InvokeFacts
        <3>4. \A o, x : One(op # "none" /\ op = o /\ b = x) = One(op = o /\ b = x)
            BY <2>2 DEF One
        <3>5. [op |-> op, blk |-> b, peer |-> p] \in Call
            BY <1>0, <3>2 DEF Call, Op
        <3> QED BY <2>2, <3>3, <3>4, <3>5
    <2> QED BY <2>1, <2>2
<1>3. ASSUME NEW i \in DOMAIN calls, NEW c, c = calls[i]
      PROVE  CallOK(r, c)' /\ Ready(r, i, c)'
    <2>1. c \in Call /\ c.op = op /\ c.blk = b /\ c.peer = p /\ op # "none"
        BY <1>2, <1>3
    <2>2. CallOK(r, c)'
        BY <2>1 DEF CallOK, Grows, Callable
    <2>3. Ready(r, i, c)'
        BY <2>1 DEF Ready, Callable
    <2> QED BY <2>2, <2>3
<1>4. \A i \in DOMAIN calls : CallOK(r, calls[i])' /\ Ready(r, i, calls[i])'
    BY <1>3
<1>5. Moved(r)
    <2>1. Then(r, calls)
        BY <1>1
    <2> QED BY <1>2, <1>4, <2>1, StackStep, ThenFacts DEF Kept, Moved
<1>6. ASSUME NEW x
      PROVE  /\ InFlight(calls, x) = One(op \in Delivering /\ b = x)
             /\ CallCount(calls, "all_then", x) = 0
    BY <1>0, <1>2 DEF InFlight, Delivering, One
<1>7. Counted(r, op, b)
    <2> SUFFICES ASSUME NEW x
                 PROVE  /\ InFlight(stack[r], x) \in Nat
        /\ InFlight(stack'[r], x) = InFlight(stack[r], x) + One(op \in Delivering /\ b = x)
                                      - One(Top(r).op \in Delivering /\ Top(r).blk = x)
        /\ CallCount(stack[r], "all_then", x) \in Nat
        /\ CallCount(stack'[r], "all_then", x)
               = CallCount(stack[r], "all_then", x) - One(Top(r).op = "all_then" /\ Top(r).blk = x)
        BY DEF Counted
    <2>1. Then(r, calls)
        BY <1>1
    <2>2. /\ InFlight(stack[r], x) \in Nat /\ InFlight(calls, x) \in Nat
          /\ InFlight(stack'[r], x) = InFlight(calls, x) + InFlight(stack[r], x)
                                         - One(Top(r).op \in Delivering /\ Top(r).blk = x)
          /\ CallCount(stack[r], "all_then", x) \in Nat /\ CallCount(calls, "all_then", x) \in Nat
          /\ CallCount(stack'[r], "all_then", x)
                  = CallCount(calls, "all_then", x) + CallCount(stack[r], "all_then", x)
                        - One(Top(r).op = "all_then" /\ Top(r).blk = x)
        BY <1>2, <2>1, ThenCounts
    <2> QED BY <1>6, <2>2 DEF One
<1> QED BY <1>5, <1>7

\* async_deliver_blk up to the callback of async_fetch_blk.
LEMMA AsyncDeliverStep ==
    ASSUME NetInv, Grows, NEW r \in Replica, AsyncDeliverBlk(r)
    PROVE  NetInv'
<1>1. PICK b, p : b = Top(r).blk /\ p = Top(r).peer
    OBVIOUS
<1> DEFINE new == b \notin delivered[r] /\ b \notin DOMAIN waiting[r]
           fetch == new /\ b \notin storage[r]
<1>2. /\ stack[r] # <<>> /\ Top(r).op = "async_deliver"
      /\ b \in Known /\ b \in Hash /\ p \in Replica \ {r} /\ b \in delivered[p]
    BY <1>1, TopFacts DEF AsyncDeliverBlk
<1>3. ReplicaOK(r) /\ TablesOK /\ ChannelsOK
    BY DEF NetInv
<1>4. /\ Then(r, IF new /\ b \in storage[r] THEN Invoke("verify", b, p) ELSE <<>>)
      /\ waiting' = IF new THEN [waiting EXCEPT ![r] = Put(@, b, <<>>)] ELSE waiting
      /\ fetch => /\ fetching' = [fetching EXCEPT ![r] = Put(@, b,
                          [peers |-> Fetch(r, b).peers \cup {p},
                           then |-> Fetch(r, b).then \o Invoke("verify", b, p)])]
                  /\ IF Fetch(r, b).peers = {} THEN Send(r, p, "req", b) ELSE UNCHANGED chan
      /\ ~ fetch => UNCHANGED <<fetching, chan>>
      /\ UNCHANGED <<blocks, delivered, proposer, storage, signed, need, aborted, losses, retries,
                     impeachments>>
    BY <1>1 DEF AsyncDeliverBlk, vars, counters
<1>5. /\ DOMAIN waiting' = Replica
      /\ \A q \in Replica \ {r} : waiting'[q] = waiting[q]
      /\ new => /\ DOMAIN waiting'[r] = DOMAIN waiting[r] \cup {b}
                /\ waiting'[r][b] = <<>>
                /\ \A x \in DOMAIN waiting[r] : waiting'[r][x] = waiting[r][x]
      /\ ~ new => waiting'[r] = waiting[r]
    <2>0. DOMAIN waiting = Replica
        BY <1>3 DEF TablesOK
    <2>1. CASE ~ new
        BY <1>4, <2>0, <2>1
    <2>2. CASE new
        <3>1. /\ waiting'[r] = Put(waiting[r], b, <<>>) /\ DOMAIN waiting' = Replica
              /\ \A q \in Replica \ {r} : waiting'[q] = waiting[q]
            BY <1>4, <2>0, <2>2
        <3> QED BY <2>2, <3>1 DEF Put
    <2> QED BY <2>1, <2>2
<1>6. new => b \notin DOMAIN fetching[r] /\ b \notin DOMAIN need[r]
    <2> SUFFICES ASSUME new PROVE b \notin DOMAIN fetching[r] /\ b \notin DOMAIN need[r]
        OBVIOUS
    <2>1. Tokens(r, b) = 0
        BY <1>2, <1>3 DEF ReplicaOK, OneToken, One
    <2>2. InFlight(stack[r], b) \in Nat
        BY <1>3, CountFacts DEF ReplicaOK, StackOK, InFlight
    <2> QED BY <2>1, <2>2 DEF Tokens, One
<1>7. /\ DOMAIN fetching' = Replica
      /\ \A q \in Replica \ {r} : fetching'[q] = fetching[q]
      /\ fetch => /\ DOMAIN fetching'[r] = DOMAIN fetching[r] \cup {b}
                  /\ fetching'[r][b] = [peers |-> {p}, then |-> Invoke("verify", b, p)]
                  /\ \A x \in DOMAIN fetching[r] : fetching'[r][x] = fetching[r][x]
      /\ ~ fetch => fetching'[r] = fetching[r]
    <2>1. fetch => Fetch(r, b) = [peers |-> {}, then |-> <<>>]
        BY <1>6 DEF Fetch
    <2>2. <<>> \o Invoke("verify", b, p) = Invoke("verify", b, p)
        <3>1. Invoke("verify", b, p) \in Seq(Call)
            BY <1>2, InvokeFacts DEF Op
        <3> QED BY <3>1, ConcatEmptySeq
    <2>0. DOMAIN fetching = Replica
        BY <1>3 DEF TablesOK
    <2>3. CASE ~ fetch
        BY <1>4, <2>0, <2>3
    <2>4. CASE fetch
        <3>0. Fetch(r, b).peers = {} /\ Fetch(r, b).then = <<>>
            BY <2>1, <2>4
        <3>1. /\ Fetch(r, b).peers \cup {p} = {p}
              /\ Fetch(r, b).then \o Invoke("verify", b, p) = Invoke("verify", b, p)
            <4>1. Fetch(r, b).then \o Invoke("verify", b, p) = Invoke("verify", b, p)
                BY <2>2, <3>0
            <4> HIDE DEF new, fetch
            <4> QED BY <3>0, <4>1
        <3>2. /\ fetching'[r] = Put(fetching[r], b, [peers |-> {p}, then |-> Invoke("verify", b, p)])
              /\ DOMAIN fetching' = Replica
              /\ \A q \in Replica \ {r} : fetching'[q] = fetching[q]
            BY <1>4, <2>0, <2>4, <3>1
        <3> QED BY <1>6, <2>4, <3>2 DEF Put
    <2> QED BY <2>3, <2>4
<1>8. delivered[r] \cup DOMAIN waiting[r] \subseteq delivered'[r] \cup DOMAIN waiting'[r]
      /\ b \in delivered'[r] \cup DOMAIN waiting'[r]
    BY <1>4, <1>5
<1>8a. Kept(r)
    BY <1>1, <1>4, <1>8 DEF Kept
<1>9. PICK op : op = IF new /\ b \in storage[r] THEN "verify" ELSE "none"
    OBVIOUS
<1>9a. Moved(r) /\ Counted(r, op, b)
    <2>1. Callable(r, op, b, p)
        BY <1>2, <1>4, <1>9 DEF Callable
    <2>2. Then(r, Calls(op, b, p))
        <3>1. Calls(op, b, p) = IF new /\ b \in storage[r] THEN Invoke("verify", b, p) ELSE <<>>
            BY <1>9 DEF Calls
        <3> QED BY <1>4, <3>1
    <2> QED BY <1>2, <1>8a, <2>1, <2>2, StackMove
<1>10. WaitingOK(r)'
    <2>1. CASE ~ new
        BY <1>5, <2>1, SameTables
    <2>2. CASE new
        <3>1. ASSUME NEW x \in DOMAIN waiting[r], NEW i \in DOMAIN waiting[r][x],
                     NEW c, c = waiting[r][x][i]
              PROVE  CallOK(r, c)'
            BY <1>3, <3>1, CallGrows DEF ReplicaOK, WaitingOK
        <3>2. ASSUME NEW x \in DOMAIN waiting'[r]
              PROVE  /\ x \in Known'
                     /\ waiting'[r][x] \in Seq(Call)
                     /\ \A i \in DOMAIN waiting'[r][x] :
                            /\ \A c : c = waiting'[r][x][i] => CallOK(r, c)'
                            /\ \/ waiting'[r][x][i].op = "all_then"
                               \/ /\ waiting'[r][x][i].op = "on_receive_proposal"
                                  /\ waiting'[r][x][i].blk = x
            <4>1. CASE x = b
                <5>1. waiting'[r][x] = <<>> /\ x \in Known'
                    BY <1>2, <1>5, <2>2, <4>1 DEF Grows
                <5>2. PICK w : w = waiting'[r][x]
                    OBVIOUS
                <5>3. w \in Seq(Call) /\ DOMAIN w = {}
                    BY <5>1, <5>2
                <5> QED BY <5>1, <5>2, <5>3
            <4>2. CASE x # b
                <5>1. x \in DOMAIN waiting[r] /\ waiting'[r][x] = waiting[r][x]
                    BY <1>5, <2>2, <3>2, <4>2
                <5> QED BY <1>3, <3>1, <5>1 DEF Grows, ReplicaOK, WaitingOK
            <4> QED BY <4>1, <4>2
        <3> QED BY <3>2 DEF WaitingOK
    <2> QED BY <2>1, <2>2
<1>11. FetchingOK(r)'
    <2>1. CASE ~ fetch
        BY <1>7, <2>1, SameTables
    <2>2. CASE fetch
        <3>1. ASSUME NEW x \in DOMAIN fetching'[r]
              PROVE  /\ \A q \in fetching'[r][x].peers : q \in Replica \ {r} /\ x \in delivered'[q]
                     /\ \E q \in Replica : /\ q # r /\ x \in delivered'[q]
                                           /\ fetching'[r][x].then = Invoke("verify", x, q)
            <4>1. CASE x = b
                BY <1>2, <1>4, <1>7, <2>2, <4>1
            <4>2. CASE x # b
                <5>1. x \in DOMAIN fetching[r] /\ fetching'[r][x] = fetching[r][x]
                    BY <1>7, <2>2, <3>1, <4>2
                <5> QED BY <1>3, <1>4, <5>1 DEF ReplicaOK, FetchingOK
            <4> QED BY <4>1, <4>2
        <3> QED BY <3>1 DEF FetchingOK, Invoke
    <2> QED BY <2>1, <2>2
<1>12. StoredOK(r)'
    BY <1>4, SameTables
<1>13. OneToken(r)'
    <2>1. DOMAIN waiting'[r] \cap delivered'[r] = {}
        BY <1>3, <1>4, <1>5 DEF ReplicaOK, OneToken
    <2>2. ASSUME NEW x \in Hash PROVE (Tokens(r, x) = One(x \in DOMAIN waiting[r]))'
        <3>1. Tokens(r, x) = One(x \in DOMAIN waiting[r])
            BY <1>3 DEF ReplicaOK, OneToken
        <3>2. /\ InFlight(stack'[r], x) = InFlight(stack[r], x) + One(new /\ b \in storage[r] /\ b = x)
              /\ InFlight(stack[r], x) \in Nat
            <4>1. /\ InFlight(stack[r], x) \in Nat
                  /\ InFlight(stack'[r], x) = InFlight(stack[r], x) + One(op \in Delivering /\ b = x)
                                      - One(Top(r).op \in Delivering /\ Top(r).blk = x)
                BY <1>9a DEF Counted
            <4>2. One(Top(r).op \in Delivering /\ Top(r).blk = x) = 0
                BY <1>2 DEF One, Delivering
            <4>3. One(op \in Delivering /\ b = x) = One(new /\ b \in storage[r] /\ b = x)
                BY <1>9 DEF One, Delivering
            <4> HIDE DEF new
            <4>4. One(new /\ b \in storage[r] /\ b = x) \in Nat
                BY DEF One
            <4> QED BY <4>1, <4>2, <4>3, <4>4
        <3>3. One(x \in DOMAIN fetching'[r]) = One(x \in DOMAIN fetching[r]) + One(fetch /\ b = x)
            BY <1>6, <1>7 DEF One
        <3>4. One(x \in DOMAIN waiting'[r]) = One(x \in DOMAIN waiting[r]) + One(new /\ b = x)
            BY <1>5 DEF One
        <3>5. One(new /\ b = x) = One(new /\ b \in storage[r] /\ b = x) + One(fetch /\ b = x)
            BY DEF One
        <3>6. One(x \in DOMAIN need'[r]) = One(x \in DOMAIN need[r])
            BY <1>4
        <3> HIDE DEF new, fetch
        <3> QED BY <3>1, <3>2, <3>3, <3>4, <3>5, <3>6 DEF Tokens, One
    <2> QED BY <2>1, <2>2 DEF OneToken
<1>14. CountsParents(r)'
    <2> SUFFICES ASSUME NEW x \in Hash
                 PROVE  /\ x \in DOMAIN need'[r] =>
                              /\ Undelivered(r, x)' \subseteq DOMAIN waiting'[r]
                              /\ need'[r][x] \in Nat \ {0}
                              /\ need'[r][x] = Cardinality(Undelivered(r, x)')
                                                  + CallCount(stack'[r], "all_then", x)
                        /\ x \notin DOMAIN need'[r] => CallCount(stack'[r], "all_then", x) = 0
                        /\ \A q \in DOMAIN waiting'[r] :
                              CallCount(waiting'[r][q], "all_then", x)
                                  = One(x \in DOMAIN need'[r] /\ q \in Undelivered(r, x)')
        BY DEF CountsParents
    <2>1. CallCount(stack'[r], "all_then", x) = CallCount(stack[r], "all_then", x)
        BY <1>2, <1>9a DEF Counted, One
    <2>2. Undelivered(r, x)' = Undelivered(r, x)
        BY <1>4 DEF Undelivered, Parents
    <2>3. CountsParents(r)
        BY <1>3 DEF ReplicaOK
    <2>4. new => CallCount(waiting'[r][b], "all_then", x) = 0
        BY <1>5, CountEmpty
    <2>5. new => ~ (x \in DOMAIN need[r] /\ b \in Undelivered(r, x))
        BY <2>3 DEF CountsParents
    <2> QED BY <1>4, <1>5, <2>1, <2>2, <2>3, <2>4, <2>5 DEF CountsParents, One
<1>15. ChannelsOK'
    <2>1. PICK m : m = [type |-> "req", blk |-> b]
        OBVIOUS
    <2>2. <<r, p>> \in Link /\ MessageOK(<<r, p>>, m)'
        BY <1>2, <2>1 DEF Link, MessageOK, Message, Grows
    <2>3. UNCHANGED chan \/ chan' = [chan EXCEPT ![<<r, p>>] = Append(@, m)]
        BY <1>4, <2>1 DEF Send
    <2>4. DOMAIN chan = Link
        BY <1>3 DEF TablesOK
    <2>5. \A q \in Link : \/ chan'[q] = chan[q]
                          \/ MessageOK(q, m)' /\ chan'[q] = Append(chan[q], m)
        BY <2>2, <2>3, <2>4
    <2>6. DOMAIN chan' = Link
        BY <2>3, <2>4
    <2> QED BY <2>5, <2>6, ChannelsStep
<1>16. TablesOK'
    <2>1. DOMAIN chan' = Link
        BY <1>3, <1>4 DEF TablesOK, Send
    <2> QED BY <1>3, <1>4, <1>5, <1>7, <1>9a, <2>1 DEF TablesOK, Moved
<1> QED BY <1>4, <1>5, <1>7, <1>9a, <1>10, <1>11, <1>12, <1>13, <1>14, <1>15, <1>16, NetStep
        DEF OwnTables, ReplicaOK, Moved

-----------------------------------------------------------------------------
(* Steps that move nobody.                                                  *)

\* A step of r that moves nobody from one table to another.
LEMMA Undisturbed ==
    ASSUME NetInv, Grows, NEW r \in Replica,
           StackOK(r)', WaitingOK(r)', FetchingOK(r)', StoredOK(r)',
           delivered'[r] = delivered[r], need'[r] = need[r],
           DOMAIN waiting'[r] = DOMAIN waiting[r], DOMAIN fetching'[r] = DOMAIN fetching[r],
           \A x : /\ InFlight(stack'[r], x) = InFlight(stack[r], x)
                  /\ CallCount(stack'[r], "all_then", x) = CallCount(stack[r], "all_then", x),
           \A q \in DOMAIN waiting[r] : \A x :
               CallCount(waiting'[r][q], "all_then", x) = CallCount(waiting[r][q], "all_then", x)
    PROVE  ReplicaOK(r)'
<1>1. ReplicaOK(r)
    BY DEF NetInv
<1>2. OneToken(r)'
    BY <1>1 DEF ReplicaOK, OneToken, Tokens
<1>3. CountsParents(r)'
    <2> SUFFICES ASSUME NEW x \in Hash
                 PROVE  /\ x \in DOMAIN need'[r] =>
                              /\ Undelivered(r, x)' \subseteq DOMAIN waiting'[r]
                              /\ need'[r][x] \in Nat \ {0}
                              /\ need'[r][x] = Cardinality(Undelivered(r, x)')
                                                  + CallCount(stack'[r], "all_then", x)
                        /\ x \notin DOMAIN need'[r] => CallCount(stack'[r], "all_then", x) = 0
                        /\ \A q \in DOMAIN waiting'[r] :
                              CallCount(waiting'[r][q], "all_then", x)
                                  = One(x \in DOMAIN need'[r] /\ q \in Undelivered(r, x)')
        BY DEF CountsParents
    <2>1. CountsParents(r)
        BY <1>1 DEF ReplicaOK
    <2>2. x \in DOMAIN need[r] => Undelivered(r, x)' = Undelivered(r, x)
        BY <1>1 DEF ReplicaOK, StoredOK, Undelivered, Parents, Grows
    <2> QED BY <2>1, <2>2 DEF CountsParents, One
<1> QED BY <1>2, <1>3 DEF ReplicaOK

\* A step that leaves every replica's tables alone.
LEMMA TablesUntouched ==
    ASSUME NetInv, Grows, UNCHANGED <<storage, signed, fetching, waiting, need, stack, delivered>>,
           TablesOK', ChannelsOK'
    PROVE  NetInv'
<1>1. \A q \in Replica : ReplicaOK(q)'
    BY OtherReplica
<1> QED BY <1>1 DEF NetInv, Grows

\* The connections stay right as long as nothing is taken away.
LEMMA SameChannels == ASSUME NetInv, Grows, chan' = chan PROVE ChannelsOK'
<1>1. DOMAIN chan' = Link
    BY DEF NetInv, TablesOK
<1> QED BY <1>1, ChannelsStep

\* The parents of a block its peer has are to be delivered, then the block.
VerifyCalls(b, p) ==
    [i \in DOMAIN Parents(b) |-> [op |-> "async_deliver", blk |-> Parents(b)[i], peer |-> p]]
        \o Invoke("all", b, p)

\* They ask for the parents before promise::all is made of them.
LEMMA VerifyCallsFacts ==
    ASSUME NetInv, NEW b \in Known, NEW p \in Replica, b \in delivered[p]
    PROVE  /\ VerifyCalls(b, p) \in Seq(Call)
           /\ \A i \in DOMAIN VerifyCalls(b, p) : \A c : c = VerifyCalls(b, p)[i] =>
                 /\ c \in Call /\ c.peer = p /\ c.blk \in delivered[p]
                 /\ \/ c.op = "async_deliver"
                    \/ /\ c.op = "all" /\ c.blk = b
                       /\ \A q \in Range(Parents(b)) : \E j \in 1..(i - 1) :
                             /\ VerifyCalls(b, p)[j].op = "async_deliver"
                             /\ VerifyCalls(b, p)[j].blk = q
           /\ \A x : /\ InFlight(VerifyCalls(b, p), x) = One(b = x)
                     /\ CallCount(VerifyCalls(b, p), "all_then", x) = 0
<1>1. PICK ps : ps = Parents(b)
    OBVIOUS
<1>2. ps \in Seq(Hash) /\ b \in Hash /\ Range(ps) \subseteq delivered[p]
    <2>1. CoreInv /\ TypeOK /\ DeliveredClosed
        BY DEF NetInv, CoreInv
    <2>2. Parents(b) \in Seq(Hash)
        BY <2>1, ParentsFacts
    <2>3. b \in Hash
        BY <2>1 DEF TypeOK, Known
    <2>4. Range(Parents(b)) \subseteq delivered[p]
        BY <2>1 DEF DeliveredClosed
    <2> QED BY <1>1, <2>2, <2>3, <2>4
<1>3. PICK n : n = Len(ps)
    OBVIOUS
<1>3a. n \in Nat /\ DOMAIN ps = 1..n
    BY <1>2, <1>3
<1>4. \A i \in 1..n : ps[i] \in Hash /\ ps[i] \in delivered[p]
    BY <1>2, <1>3a DEF Range
<1>5. PICK f : f = [i \in 1..n |-> [op |-> "async_deliver", blk |-> ps[i], peer |-> p]]
    OBVIOUS
<1>6. PICK g : g = Invoke("all", b, p)
    OBVIOUS
<1>7. PICK h : h = f \o g
    OBVIOUS
<1>7a. VerifyCalls(b, p) = h
    BY <1>1, <1>7, <1>3a, <1>5, <1>6 DEF VerifyCalls
<1>8. /\ \A i \in 1..n : /\ f[i] \in Call /\ f[i].op = "async_deliver"
                         /\ f[i].blk = ps[i] /\ f[i].peer = p
      /\ f \in Seq(Call) /\ Len(f) = n /\ DOMAIN f = 1..n
    <2>1. \A i \in 1..n : /\ f[i] \in Call /\ f[i].op = "async_deliver"
                         /\ f[i].blk = ps[i] /\ f[i].peer = p
        BY <1>4, <1>5 DEF Call
    <2>2. DOMAIN f = 1..n /\ f \in Seq(Call)
        BY <1>3a, <1>5, <2>1
    <2>3. Len(f) = n
        BY <1>3a, <1>5
    <2> QED BY <2>1, <2>2, <2>3
<1>9. /\ g \in Seq(Call) /\ Len(g) = 1
      /\ g[1] \in Call /\ g[1].op = "all" /\ g[1].blk = b /\ g[1].peer = p
      /\ \A o, x : CallCount(g, o, x) = One("all" = o /\ b = x)
    <2>0. "all" \in Op
        BY DEF Op
    <2>1. /\ g \in Seq(Call) /\ DOMAIN g = {1} /\ g[1] = [op |-> "all", blk |-> b, peer |-> p]
          /\ \A o, x : CallCount(g, o, x) = One("all" = o /\ b = x)
        BY <1>2, <1>6, <2>0, InvokeFacts
    <2>2. Len(g) = 1
        BY <1>6 DEF Invoke
    <2> QED BY <1>2, <2>1, <2>2 DEF Call
<1>10. /\ h \in Seq(Call) /\ Len(h) = n + 1 /\ DOMAIN h = 1..(n + 1)
       /\ \A i \in 1..n : h[i] = f[i]
       /\ h[n + 1] = g[1]
    <2>1. /\ h \in Seq(Call) /\ Len(h) = n + 1
          /\ \A i \in 1..(n + 1) : h[i] = IF i <= n THEN f[i] ELSE g[i - n]
        <3>1. /\ f \o g \in Seq(Call) /\ Len(f \o g) = Len(f) + Len(g)
              /\ \A i \in 1..(Len(f) + Len(g)) :
                    (f \o g)[i] = IF i <= Len(f) THEN f[i] ELSE g[i - Len(f)]
            <4>1. f \in Seq(Call) /\ g \in Seq(Call)
                BY <1>8, <1>9
            <4> QED BY <4>1, ConcatProperties
        <3> QED BY <1>7, <1>8, <1>9, <3>1
    <2>2. DOMAIN h = 1..(n + 1)
        BY <2>1, LenProperties
    <2>3. /\ \A i \in 1..n : i \in 1..(n + 1) /\ i <= n
          /\ n + 1 \in 1..(n + 1) /\ ~ (n + 1 <= n) /\ (n + 1) - n = 1
        BY <1>3a
    <2> QED BY <2>1, <2>2, <2>3
<1>11. ASSUME NEW i \in DOMAIN h, NEW c, c = h[i]
       PROVE  /\ c \in Call /\ c.peer = p /\ c.blk \in delivered[p]
              /\ \/ c.op = "async_deliver"
                 \/ /\ c.op = "all" /\ c.blk = b
                    /\ \A q \in Range(ps) : \E j \in 1..(i - 1) :
                             h[j].op = "async_deliver" /\ h[j].blk = q
    <2>1. CASE i \in 1..n
        BY <1>4, <1>8, <1>10, <1>11, <2>1
    <2>2. CASE i = n + 1
        <3>1. ASSUME NEW q \in Range(ps)
              PROVE  \E j \in 1..(i - 1) : h[j].op = "async_deliver" /\ h[j].blk = q
            <4>1. PICK j \in 1..n : ps[j] = q
                BY <1>3a DEF Range
            <4>2. j \in 1..(i - 1)
                BY <1>3a, <2>2
            <4> QED BY <1>8, <1>10, <4>1, <4>2
        <3>2. c \in Call /\ c.op = "all" /\ c.blk = b /\ c.peer = p
            BY <1>9, <1>10, <1>11, <2>2
        <3> QED BY <3>1, <3>2
    <2> QED BY <1>3a, <1>10, <2>1, <2>2
<1>12. ASSUME NEW o \in {"verify", "all", "on_deliver", "all_then"}, NEW x
       PROVE  CallCount(h, o, x) = One("all" = o /\ b = x)
    <2>1. CallsAt(f, o, x) = {}
        BY <1>8 DEF CallsAt
    <2>2. CallCount(f, o, x) = 0
        BY <1>8, <2>1, CountFacts
    <2>3. CallCount(h, o, x) = CallCount(f, o, x) + CallCount(g, o, x)
        BY <1>7, <1>8, <1>9, CountConcat
    <2> QED BY <1>9, <2>2, <2>3 DEF One
<1>13. ASSUME NEW x
       PROVE  InFlight(h, x) = One(b = x) /\ CallCount(h, "all_then", x) = 0
    <2>1. /\ CallCount(h, "verify", x) = 0 /\ CallCount(h, "on_deliver", x) = 0
          /\ CallCount(h, "all", x) = One(b = x) /\ CallCount(h, "all_then", x) = 0
        BY <1>12 DEF One
    <2> QED BY <2>1 DEF InFlight, One
<1> QED BY <1>1, <1>7a, <1>10, <1>11, <1>13

-----------------------------------------------------------------------------
(* verify, and promise::all when all the parents are delivered.             *)

\* The callback of async_fetch_blk.
LEMMA BVerifyStep ==
    ASSUME NetInv, Grows, NEW r \in Replica, Verify(r)
    PROVE  NetInv'
<1>1. PICK b, p : b = Top(r).blk /\ p = Top(r).peer
    OBVIOUS
<1>2. /\ stack[r] # <<>> /\ Top(r).op = "verify"
      /\ b \in Known /\ b \in Hash /\ p \in Replica \ {r} /\ b \in delivered[p] /\ b \in storage[r]
    BY <1>1, TopFacts DEF Verify
<1>3. ReplicaOK(r) /\ TablesOK /\ ChannelsOK
    BY DEF NetInv
<1>4. UNCHANGED <<blocks, delivered, proposer, storage, signed, fetching, waiting, need, chan,
                  losses, retries, impeachments>>
    BY DEF Verify, vars, counters
<1>5. ChannelsOK'
    BY <1>4, SameChannels
<1>6. CASE b \notin signed[r]
    <2>1. stack' = stack /\ aborted' = [aborted EXCEPT ![r] = TRUE]
        BY <1>1, <1>6 DEF Verify
    <2>2. TablesOK'
        BY <1>3, <1>4, <2>1 DEF TablesOK
    <2> QED BY <1>4, <1>5, <2>1, <2>2, TablesUntouched
<1>7. CASE b \in signed[r]
    <2>1. PICK calls : calls = VerifyCalls(b, p)
        OBVIOUS
    <2>2. Then(r, calls) /\ aborted' = aborted
        BY <1>1, <1>7, <2>1 DEF Verify, VerifyCalls
    <2>3. /\ calls \in Seq(Call)
          /\ \A i \in DOMAIN calls : \A c : c = calls[i] =>
                 /\ c \in Call /\ c.peer = p /\ c.blk \in delivered[p]
                 /\ \/ c.op = "async_deliver"
                    \/ /\ c.op = "all" /\ c.blk = b
                       /\ \A q \in Range(Parents(b)) : \E j \in 1..(i - 1) :
                             calls[j].op = "async_deliver" /\ calls[j].blk = q
          /\ \A x : InFlight(calls, x) = One(b = x) /\ CallCount(calls, "all_then", x) = 0
        <3>1. b \in Known /\ p \in Replica /\ b \in delivered[p]
            BY <1>2
        <3> QED BY <2>1, <3>1, VerifyCallsFacts
    <2>4. Kept(r)
        BY <1>2, <1>4 DEF Kept
    <2>5. stack'[r] = calls \o Tail(stack[r])
        BY <1>2, <2>2, <2>3, ThenFacts
    <2>6. /\ Len(calls) \in Nat /\ DOMAIN calls = 1..Len(calls)
          /\ \A i \in 1..Len(calls) : stack'[r][i] = calls[i]
        <3>1. PICK s : s = Tail(stack[r])
            OBVIOUS
        <3>2. s \in Seq(Call)
            BY <1>2, <1>3, <3>1 DEF ReplicaOK, StackOK
        <3>3. /\ Len(calls) \in Nat /\ DOMAIN calls = 1..Len(calls)
              /\ \A i \in 1..Len(calls) : (calls \o s)[i] = calls[i]
            BY <2>3, <3>2, ConcatProperties
        <3> QED BY <2>5, <3>1, <3>3
    <2>7. ASSUME NEW i \in DOMAIN calls, NEW c, c = calls[i]
          PROVE  CallOK(r, c)' /\ Ready(r, i, c)'
        <3>1. /\ c \in Call /\ c.peer = p /\ c.blk \in delivered[p]
              /\ \/ c.op = "async_deliver"
                 \/ /\ c.op = "all" /\ c.blk = b
                    /\ \A q \in Range(Parents(b)) : \E j \in 1..(i - 1) :
                             calls[j].op = "async_deliver" /\ calls[j].blk = q
            BY <2>3, <2>7
        <3>2. CallOK(r, c)'
            BY <1>2, <1>4, <3>1 DEF CallOK
        <3>3. CASE c.op = "async_deliver"
            BY <3>2, <3>3 DEF Ready
        <3>4. ASSUME c.op = "all", c.blk = b,
                     NEW q \in Range(Parents(b)), NEW j \in 1..(i - 1),
                     calls[j].op = "async_deliver", calls[j].blk = q
              PROVE  Promised(r, i, q)'
            <4>1. j \in 1..Len(calls)
                BY <2>6, <2>7, <3>4
            <4>2. stack'[r][j].op = "async_deliver" /\ stack'[r][j].blk = q
                BY <2>6, <3>4, <4>1
            <4> QED BY <3>4, <4>2 DEF Promised
        <3>5. CASE c.op = "all"
            <4>1. c.blk = b /\ \A q \in Range(Parents(b)) : Promised(r, i, q)'
                BY <3>1, <3>4, <3>5
            <4>2. c.blk \in storage'[r]
                BY <1>2, <1>4, <4>1
            <4>3. (\A q \in Range(Parents(c.blk)) : Promised(r, i, q))'
                BY <1>4, <4>1 DEF Parents
            <4> QED BY <3>2, <3>5, <4>2, <4>3 DEF Ready
        <3> QED BY <3>1, <3>2, <3>3, <3>5
    <2>8. Moved(r)
        <3>1. \A i \in DOMAIN calls : CallOK(r, calls[i])' /\ Ready(r, i, calls[i])'
            BY <2>7
        <3> QED BY <1>2, <2>2, <2>3, <2>4, <3>1, StackStep, ThenFacts DEF Kept, Moved
    <2>9. ASSUME NEW x
          PROVE  /\ InFlight(stack'[r], x) = InFlight(stack[r], x)
                 /\ CallCount(stack'[r], "all_then", x) = CallCount(stack[r], "all_then", x)
        <3>1. /\ InFlight(stack[r], x) \in Nat
              /\ InFlight(stack'[r], x) = InFlight(calls, x) + InFlight(stack[r], x)
                                         - One(Top(r).op \in Delivering /\ Top(r).blk = x)
              /\ CallCount(stack[r], "all_then", x) \in Nat
              /\ CallCount(stack'[r], "all_then", x)
                  = CallCount(calls, "all_then", x) + CallCount(stack[r], "all_then", x)
                        - One(Top(r).op = "all_then" /\ Top(r).blk = x)
            BY <1>2, <2>2, <2>3, ThenCounts
        <3>2. One(Top(r).op \in Delivering /\ Top(r).blk = x) = One(b = x)
            BY <1>1, <1>2 DEF One, Delivering
        <3>3. One(Top(r).op = "all_then" /\ Top(r).blk = x) = 0
            BY <1>2 DEF One
        <3>4. InFlight(calls, x) = One(b = x) /\ CallCount(calls, "all_then", x) = 0
            BY <2>3
        <3>5. One(b = x) \in Nat
            BY DEF One
        <3> QED BY <3>1, <3>2, <3>3, <3>4, <3>5
    <2>10. ReplicaOK(r)'
        <3>1. WaitingOK(r)' /\ FetchingOK(r)' /\ StoredOK(r)'
            BY <1>4, SameTables
        <3> QED BY <1>4, <2>8, <2>9, <3>1, Undisturbed DEF Moved
    <2>11. TablesOK'
        BY <1>3, <1>4, <2>2, <2>8 DEF TablesOK, Moved
    <2> QED BY <1>4, <1>5, <2>8, <2>10, <2>11, NetStep DEF OwnTables, Moved
<1> QED BY <1>6, <1>7

\* promise::all when every parent is delivered.
LEMMA AllDeliveredStep ==
    ASSUME NetInv, Grows, NEW r \in Replica, All(r), Undelivered(r, Top(r).blk) = {}
    PROVE  NetInv'
<1>1. PICK b, p, op : b = Top(r).blk /\ p = Top(r).peer /\ op = "on_deliver"
    OBVIOUS
<1>2. /\ stack[r] # <<>> /\ Top(r).op = "all"
      /\ b \in Known /\ b \in Hash /\ p \in Replica \ {r} /\ b \in delivered[p] /\ b \in storage[r]
    BY <1>1, TopFacts DEF All
<1>3. ReplicaOK(r) /\ TablesOK /\ ChannelsOK
    BY DEF NetInv
<1>4. /\ UNCHANGED <<blocks, delivered, proposer, storage, signed, fetching, waiting, need, chan,
                     aborted, losses, retries, impeachments>>
      /\ Then(r, Calls(op, b, p))
    BY <1>1 DEF All, vars, counters, Calls
<1>5. Callable(r, op, b, p)
    <2>1. Undelivered(r, b)' = {}
        BY <1>1, <1>4 DEF Undelivered, Parents
    <2> QED BY <1>1, <1>2, <1>4, <2>1 DEF Callable
<1>6. Moved(r) /\ Counted(r, op, b)
    <2>1. Kept(r)
        BY <1>2, <1>4 DEF Kept
    <2> QED BY <1>2, <1>4, <1>5, <2>1, StackMove
<1>7. ASSUME NEW x
      PROVE  /\ InFlight(stack'[r], x) = InFlight(stack[r], x)
             /\ CallCount(stack'[r], "all_then", x) = CallCount(stack[r], "all_then", x)
    <2>1. One(Top(r).op \in Delivering /\ Top(r).blk = x) = One(op \in Delivering /\ b = x)
        BY <1>1, <1>2 DEF One, Delivering
    <2>2. One(Top(r).op = "all_then" /\ Top(r).blk = x) = 0
        BY <1>2 DEF One
    <2>3. One(op \in Delivering /\ b = x) \in Nat
        BY DEF One
    <2> QED BY <1>6, <2>1, <2>2, <2>3 DEF Counted
<1>8. ReplicaOK(r)'
    <2>1. WaitingOK(r)' /\ FetchingOK(r)' /\ StoredOK(r)'
        BY <1>4, SameTables
    <2> QED BY <1>4, <1>6, <1>7, <2>1, Undisturbed DEF Moved
<1>9. ChannelsOK' /\ TablesOK'
    BY <1>3, <1>4, <1>6, SameChannels DEF TablesOK, Moved
<1> QED BY <1>4, <1>6, <1>8, <1>9, NetStep DEF OwnTables, Moved

-----------------------------------------------------------------------------
(* Queues of callbacks.                                                     *)

\* A callback of the delivery of q, the callbacks of q.
CallbackOK(r, q, c) ==
    CallOK(r, c) /\ (c.op = "all_then" \/ (c.op = "on_receive_proposal" /\ c.blk = q))

QueueOK(r, q, w) ==
    w \in Seq(Call) /\ \A i \in DOMAIN w : \A c : c = w[i] => CallbackOK(r, q, c)

\* The callbacks of a waiting block form a queue,
LEMMA WaitingQueue ==
    ASSUME NEW r, WaitingOK(r), NEW q \in DOMAIN waiting[r], NEW w, w = waiting[r][q]
    PROVE  q \in Known /\ QueueOK(r, q, w)
BY DEF WaitingOK, QueueOK, CallbackOK

\* all of them do,
LEMMA WaitingQueues ==
    ASSUME NEW r,
           \A q \in DOMAIN waiting'[r] : \A w :
               w = waiting'[r][q] => q \in Known' /\ QueueOK(r, q, w)'
    PROVE  WaitingOK(r)'
<1> SUFFICES ASSUME NEW q \in DOMAIN waiting'[r]
             PROVE  /\ q \in Known'
                    /\ waiting'[r][q] \in Seq(Call)
                    /\ \A i \in DOMAIN waiting'[r][q] :
                         /\ \A c : c = waiting'[r][q][i] => CallOK(r, c)'
                         /\ \/ waiting'[r][q][i].op = "all_then"
                            \/ waiting'[r][q][i].op = "on_receive_proposal" /\ waiting'[r][q][i].blk = q
    BY DEF WaitingOK
<1>1. PICK w : w = waiting'[r][q]
    OBVIOUS
<1>2. q \in Known' /\ QueueOK(r, q, w)'
    BY <1>1
<1> QED BY <1>1, <1>2 DEF QueueOK, CallbackOK

\* and stay one as long as nothing is taken away.
LEMMA QueueGrows ==
    ASSUME Grows, NEW r \in Replica, NEW q, NEW w, QueueOK(r, q, w)
    PROVE  QueueOK(r, q, w)'
BY CallGrows DEF QueueOK, CallbackOK

\* The promises of the blocks at get one callback more.
CallbackAdded(r, at, op, b, p) ==
    /\ DOMAIN waiting' = Replica /\ DOMAIN waiting'[r] = DOMAIN waiting[r]
    /\ \A q \in Replica \ {r} : waiting'[q] = waiting[q]
    /\ \A q \in DOMAIN waiting[r] :
          waiting'[r][q] = IF q \in at THEN waiting[r][q] \o Invoke(op, b, p) ELSE waiting[r][q]

CallbacksCounted(r, at, op, b) ==
    \A q \in DOMAIN waiting[r] : \A x :
        /\ CallCount(waiting[r][q], "all_then", x) \in Nat
        /\ CallCount(waiting'[r][q], "all_then", x)
               = CallCount(waiting[r][q], "all_then", x)
                     + One(q \in at /\ op = "all_then" /\ b = x)

\* What one callback more in some of the entries makes of the table.
LEMMA WaitingMore ==
    ASSUME NetInv, Grows, NEW r \in Replica, NEW at \in SUBSET DOMAIN waiting[r],
           NEW op \in Op, NEW b \in Hash, NEW p \in Replica \ {r}, b \in delivered[p],
           op = "all_then" \/ (op = "on_receive_proposal" /\ at \subseteq {b} /\ b # Genesis),
           CallbackAdded(r, at, op, b, p)
    PROVE  /\ WaitingOK(r)'
           /\ DOMAIN waiting' = Replica /\ DOMAIN waiting'[r] = DOMAIN waiting[r]
           /\ \A q \in Replica \ {r} : waiting'[q] = waiting[q]
           /\ CallbacksCounted(r, at, op, b)
<1>1. DOMAIN waiting = Replica /\ WaitingOK(r)
    BY DEF NetInv, TablesOK, ReplicaOK
<1>2. PICK g : g = Invoke(op, b, p)
    OBVIOUS
<1>3. /\ g \in Seq(Call) /\ DOMAIN g = {1} /\ g[1] = [op |-> op, blk |-> b, peer |-> p]
      /\ \A o, x : CallCount(g, o, x) = One(op = o /\ b = x)
    BY <1>2, InvokeFacts
<1>4. /\ DOMAIN waiting' = Replica /\ DOMAIN waiting'[r] = DOMAIN waiting[r]
      /\ \A q \in Replica \ {r} : waiting'[q] = waiting[q]
      /\ \A q \in at : waiting'[r][q] = waiting[r][q] \o g
      /\ \A q \in DOMAIN waiting[r] \ at : waiting'[r][q] = waiting[r][q]
    BY <1>1, <1>2 DEF CallbackAdded
<1>5. ASSUME NEW q \in DOMAIN waiting[r], NEW v, v = waiting[r][q]
      PROVE  /\ q \in Known' /\ QueueOK(r, q, v)' /\ v \in Seq(Call)
             /\ \A x : CallCount(v, "all_then", x) \in Nat
    <2>1. q \in Known /\ QueueOK(r, q, v)
        BY <1>1, <1>5, WaitingQueue
    <2>2. v \in Seq(Call)
        BY <2>1 DEF QueueOK
    <2>3. \A x : CallCount(v, "all_then", x) \in Nat
        BY <2>2, CountFacts
    <2> QED BY <2>1, <2>2, <2>3, QueueGrows DEF Grows
<1>6. ASSUME NEW q \in DOMAIN waiting[r], NEW w, w = waiting'[r][q]
      PROVE  /\ QueueOK(r, q, w)'
             /\ \A x : CallCount(w, "all_then", x) = CallCount(waiting[r][q], "all_then", x)
                           + One(q \in at /\ op = "all_then" /\ b = x)
    <2>1. PICK v : v = waiting[r][q]
        OBVIOUS
    <2>2. /\ QueueOK(r, q, v)' /\ v \in Seq(Call)
          /\ \A x : CallCount(v, "all_then", x) \in Nat
        BY <1>5, <2>1
    <2>5. CASE q \notin at
        <3>1. w = v
            BY <1>4, <1>6, <2>1, <2>5
        <3>2. \A x : CallCount(v, "all_then", x) + One(q \in at /\ op = "all_then" /\ b = x)
                        = CallCount(v, "all_then", x)
            BY <2>2, <2>5 DEF One
        <3> QED BY <2>1, <2>2, <3>1, <3>2
    <2>6. CASE q \in at
        <3>1. w = v \o g
            BY <1>4, <1>6, <2>1, <2>6
        <3>2. \A x : CallCount(w, "all_then", x)
                        = CallCount(v, "all_then", x) + CallCount(g, "all_then", x)
            BY <1>3, <2>2, <3>1, CountConcat
        <3>3. \A x : CallCount(g, "all_then", x) = One(q \in at /\ op = "all_then" /\ b = x)
            BY <1>3, <2>6 DEF One
        <3>4. /\ w \in Seq(Call)
              /\ \A i \in DOMAIN w : (i \in DOMAIN v /\ w[i] = v[i]) \/ w[i] = g[1]
            <4>1. PICK m : m = Len(v)
                OBVIOUS
            <4>2. m \in Nat /\ DOMAIN v = 1..m /\ Len(g) = 1
                BY <1>2, <2>2, <4>1 DEF Invoke
            <4>3. /\ w \in Seq(Call) /\ Len(w) = m + 1
                  /\ \A i \in 1..(m + 1) : w[i] = IF i <= m THEN v[i] ELSE g[i - m]
                <5>1. /\ v \o g \in Seq(Call) /\ Len(v \o g) = Len(v) + Len(g)
                      /\ \A i \in 1..(Len(v) + Len(g)) :
                            (v \o g)[i] = IF i <= Len(v) THEN v[i] ELSE g[i - Len(v)]
                    BY <1>3, <2>2, ConcatProperties
                <5> QED BY <3>1, <4>1, <4>2, <5>1
            <4>4. DOMAIN w = 1..(m + 1)
                BY <4>3, LenProperties
            <4>5. \A i \in 1..(m + 1) : i \in 1..m \/ (~ (i <= m) /\ i - m = 1)
                BY <4>2
            <4>6. \A i \in 1..m : i <= m
                BY <4>2
            <4>7. ASSUME NEW i \in DOMAIN w PROVE (i \in DOMAIN v /\ w[i] = v[i]) \/ w[i] = g[1]
                <5>1. i \in 1..(m + 1)
                    BY <4>4
                <5>2. w[i] = IF i <= m THEN v[i] ELSE g[i - m]
                    BY <4>3, <5>1
                <5> QED BY <4>2, <4>5, <4>6, <5>1, <5>2
            <4> QED BY <4>3, <4>7
        <3>5. PICK d : d = g[1]
            OBVIOUS
        <3>6. CallbackOK(r, q, d)'
            <4>1. d.op = op /\ d.blk = b /\ d.peer = p /\ d \in Call
                BY <1>3, <3>5 DEF Call, Op
            <4>2. CallOK(r, d)'
                BY <4>1 DEF CallOK, Grows
            <4> QED BY <2>6, <4>1, <4>2 DEF CallbackOK
        <3>7. QueueOK(r, q, w)'
            BY <2>2, <3>4, <3>5, <3>6 DEF QueueOK
        <3> QED BY <2>1, <3>2, <3>3, <3>7
    <2> QED BY <2>5, <2>6
<1>7. WaitingOK(r)'
    BY <1>4, <1>5, <1>6, WaitingQueues
<1>8. ASSUME NEW q \in DOMAIN waiting[r], NEW x
      PROVE  /\ CallCount(waiting[r][q], "all_then", x) \in Nat
             /\ CallCount(waiting'[r][q], "all_then", x)
                    = CallCount(waiting[r][q], "all_then", x)
                          + One(q \in at /\ op = "all_then" /\ b = x)
    <2>1. PICK v, w : v = waiting[r][q] /\ w = waiting'[r][q]
        OBVIOUS
    <2>2. CallCount(v, "all_then", x) \in Nat
        BY <1>5, <2>1
    <2>3. CallCount(w, "all_then", x) = CallCount(waiting[r][q], "all_then", x)
                           + One(q \in at /\ op = "all_then" /\ b = x)
        BY <1>6, <2>1
    <2> QED BY <2>1, <2>2, <2>3
<1> QED BY <1>4, <1>7, <1>8 DEF CallbacksCounted

-----------------------------------------------------------------------------
(* promise::all over parents that are not delivered.                        *)

\* What the counts say of the block of the running call.
LEMMA TopTokens ==
    ASSUME NetInv, NEW r \in Replica, NEW b \in Hash
    PROVE  /\ InFlight(stack[r], b) \in Nat /\ CallCount(stack[r], "all_then", b) \in Nat
           /\ InFlight(stack[r], b) + One(b \in DOMAIN fetching[r]) + One(b \in DOMAIN need[r])
                 = One(b \in DOMAIN waiting[r])
           /\ Running(r, "verify") /\ b = Top(r).blk => InFlight(stack[r], b) # 0
           /\ Running(r, "all") /\ b = Top(r).blk => InFlight(stack[r], b) # 0
           /\ Running(r, "on_deliver") /\ b = Top(r).blk => InFlight(stack[r], b) # 0
           /\ InFlight(stack[r], b) # 0 => /\ InFlight(stack[r], b) = 1
                                           /\ b \in DOMAIN waiting[r] /\ b \notin delivered[r]
                                           /\ b \notin DOMAIN fetching[r] /\ b \notin DOMAIN need[r]
           /\ Running(r, "all_then") /\ b = Top(r).blk =>
                 CallCount(stack[r], "all_then", b) # 0 /\ b \in DOMAIN need[r]
           /\ b \in DOMAIN need[r] => InFlight(stack[r], b) = 0 /\ b \in DOMAIN waiting[r]
<1>1. StackOK(r) /\ OneToken(r) /\ CountsParents(r)
    BY DEF NetInv, ReplicaOK
<1>2. /\ CallCount(stack[r], "verify", b) \in Nat /\ CallCount(stack[r], "all", b) \in Nat
      /\ CallCount(stack[r], "on_deliver", b) \in Nat /\ CallCount(stack[r], "all_then", b) \in Nat
    BY <1>1, CountFacts DEF StackOK
<1>3. InFlight(stack[r], b) \in Nat
    BY <1>2 DEF InFlight
<1>4. ASSUME NEW op, Running(r, op), b = Top(r).blk PROVE CallCount(stack[r], op, b) \in Nat \ {0}
    BY <1>4, TopFacts
<1>5. /\ Running(r, "verify") /\ b = Top(r).blk => InFlight(stack[r], b) # 0
      /\ Running(r, "all") /\ b = Top(r).blk => InFlight(stack[r], b) # 0
      /\ Running(r, "on_deliver") /\ b = Top(r).blk => InFlight(stack[r], b) # 0
      /\ Running(r, "all_then") /\ b = Top(r).blk => CallCount(stack[r], "all_then", b) # 0
    <2>1. /\ Running(r, "verify") /\ b = Top(r).blk => CallCount(stack[r], "verify", b) # 0
          /\ Running(r, "all") /\ b = Top(r).blk => CallCount(stack[r], "all", b) # 0
          /\ Running(r, "on_deliver") /\ b = Top(r).blk => CallCount(stack[r], "on_deliver", b) # 0
          /\ Running(r, "all_then") /\ b = Top(r).blk => CallCount(stack[r], "all_then", b) # 0
        BY <1>4
    <2> QED BY <1>2, <2>1 DEF InFlight
<1>6. InFlight(stack[r], b) + One(b \in DOMAIN fetching[r]) + One(b \in DOMAIN need[r])
          = One(b \in DOMAIN waiting[r])
    BY <1>1 DEF OneToken, Tokens
<1>7. InFlight(stack[r], b) # 0 => /\ InFlight(stack[r], b) = 1
                                   /\ b \in DOMAIN waiting[r]
                                   /\ b \notin DOMAIN fetching[r] /\ b \notin DOMAIN need[r]
    BY <1>3, <1>6 DEF One
<1>8. b \in DOMAIN waiting[r] => b \notin delivered[r]
    BY <1>1 DEF OneToken
<1>9. b \notin DOMAIN need[r] => CallCount(stack[r], "all_then", b) = 0
    BY <1>1 DEF CountsParents
<1>10. b \in DOMAIN need[r] => InFlight(stack[r], b) = 0 /\ b \in DOMAIN waiting[r]
    BY <1>3, <1>6 DEF One
<1> QED BY <1>2, <1>3, <1>5, <1>6, <1>7, <1>8, <1>9, <1>10

\* promise::all when some parents are not delivered.
LEMMA AllWaitsStep ==
    ASSUME NetInv, Grows, NEW r \in Replica, All(r), Undelivered(r, Top(r).blk) # {}
    PROVE  NetInv'
<1>1. PICK b, p, op, ps : b = Top(r).blk /\ p = Top(r).peer /\ op = "none" /\ ps = Undelivered(r, b)
    OBVIOUS
<1>2. /\ stack[r] # <<>> /\ Top(r).op = "all"
      /\ b \in Known /\ b \in Hash /\ p \in Replica \ {r} /\ b \in delivered[p] /\ b \in storage[r]
      /\ Range(Parents(b)) \subseteq delivered[r] \cup DOMAIN waiting[r]
    BY <1>1, TopFacts DEF All
<1>3. ReplicaOK(r) /\ TablesOK /\ ChannelsOK
    BY DEF NetInv
<1>4. /\ UNCHANGED <<blocks, delivered, proposer, storage, signed, fetching, chan,
                     aborted, losses, retries, impeachments>>
      /\ Then(r, Calls(op, b, p))
      /\ need' = [need EXCEPT ![r] = Put(@, b, Cardinality(ps))]
      /\ waiting' = [waiting EXCEPT ![r] =
             [x \in DOMAIN @ |-> IF x \in ps THEN @[x] \o Invoke("all_then", b, p) ELSE @[x]]]
    BY <1>1 DEF All, vars, counters, Calls
<1>5. /\ InFlight(stack[r], b) = 1 /\ CallCount(stack[r], "all_then", b) = 0
      /\ b \in DOMAIN waiting[r] /\ b \notin DOMAIN fetching[r] /\ b \notin DOMAIN need[r]
    <2>1. Running(r, "all")
        BY DEF All
    <2>2. /\ InFlight(stack[r], b) = 1
          /\ b \in DOMAIN waiting[r] /\ b \notin DOMAIN fetching[r] /\ b \notin DOMAIN need[r]
        BY <1>1, <1>2, <2>1, TopTokens
    <2> QED BY <1>2, <1>3, <2>2 DEF ReplicaOK, CountsParents
<1>6. /\ ps \subseteq DOMAIN waiting[r] /\ Cardinality(ps) \in Nat \ {0}
      /\ Undelivered(r, b)' = ps
    <2>1. IsFiniteSet(ps)
        BY <1>1, <1>2, ParentsFacts DEF NetInv
    <2>2. Cardinality(ps) \in Nat /\ Cardinality(ps) # 0
        BY <1>1, <2>1, FS_CardinalityType, FS_EmptySet
    <2>3. ps \subseteq DOMAIN waiting[r]
        BY <1>1, <1>2 DEF Undelivered
    <2>4. Undelivered(r, b)' = ps
        BY <1>1, <1>4 DEF Undelivered, Parents
    <2> QED BY <2>2, <2>3, <2>4
<1>7. /\ WaitingOK(r)'
      /\ DOMAIN waiting' = Replica /\ DOMAIN waiting'[r] = DOMAIN waiting[r]
      /\ \A q \in Replica \ {r} : waiting'[q] = waiting[q]
      /\ \A q \in DOMAIN waiting[r] : \A x :
            /\ CallCount(waiting[r][q], "all_then", x) \in Nat
            /\ CallCount(waiting'[r][q], "all_then", x)
                   = CallCount(waiting[r][q], "all_then", x) + One(q \in ps /\ b = x)
    <2>1. PICK o : o = "all_then"
        OBVIOUS
    <2>2. o \in Op /\ CallbackAdded(r, ps, o, b, p)
        BY <1>3, <1>4, <2>1 DEF Op, CallbackAdded, TablesOK
    <2>3. /\ WaitingOK(r)'
          /\ DOMAIN waiting' = Replica /\ DOMAIN waiting'[r] = DOMAIN waiting[r]
          /\ \A q \in Replica \ {r} : waiting'[q] = waiting[q]
          /\ CallbacksCounted(r, ps, o, b)
        <3>1. /\ ps \in SUBSET DOMAIN waiting[r] /\ o \in Op
              /\ o = "all_then" \/ (o = "on_receive_proposal" /\ ps \subseteq {b} /\ b # Genesis)
            BY <1>6, <2>1, <2>2
        <3> QED BY <1>2, <2>2, <3>1, WaitingMore
    <2>4. \A q, x : One(q \in ps /\ o = "all_then" /\ b = x) = One(q \in ps /\ b = x)
        BY <2>1 DEF One
    <2> QED BY <2>3, <2>4 DEF CallbacksCounted
<1>8. /\ DOMAIN need' = Replica
      /\ \A q \in Replica \ {r} : need'[q] = need[q]
      /\ DOMAIN need'[r] = DOMAIN need[r] \cup {b} /\ need'[r][b] = Cardinality(ps)
      /\ \A x \in DOMAIN need[r] : need'[r][x] = need[r][x]
      /\ need'[r] = [x \in DOMAIN need'[r] |-> need'[r][x]]
    <2>1. /\ DOMAIN need' = Replica /\ need'[r] = Put(need[r], b, Cardinality(ps))
          /\ \A q \in Replica \ {r} : need'[q] = need[q]
        BY <1>3, <1>4 DEF TablesOK
    <2> QED BY <1>5, <2>1 DEF Put
<1>9. Moved(r) /\ Counted(r, op, b)
    <2>1. Kept(r)
        BY <1>2, <1>4, <1>7 DEF Kept
    <2>2. Callable(r, op, b, p)
        BY <1>1, <1>2 DEF Callable
    <2> QED BY <1>2, <1>4, <2>1, <2>2, StackMove
<1>10. ASSUME NEW x
       PROVE  /\ InFlight(stack[r], x) \in Nat
              /\ InFlight(stack'[r], x) = InFlight(stack[r], x) - One(b = x)
              /\ CallCount(stack'[r], "all_then", x) = CallCount(stack[r], "all_then", x)
    <2>1. One(Top(r).op \in Delivering /\ Top(r).blk = x) = One(b = x)
        BY <1>1, <1>2 DEF One, Delivering
    <2>2. One(op \in Delivering /\ b = x) = 0 /\ One(Top(r).op = "all_then" /\ Top(r).blk = x) = 0
        BY <1>1, <1>2 DEF One, Delivering
    <2>3. One(b = x) \in Nat
        BY DEF One
    <2> QED BY <1>9, <2>1, <2>2, <2>3 DEF Counted
<1>11. FetchingOK(r)'
    BY <1>4, SameTables
<1>12. StoredOK(r)'
    BY <1>2, <1>3, <1>4, <1>8 DEF ReplicaOK, StoredOK, Grows
<1>13. OneToken(r)'
    <2>1. ASSUME NEW x \in Hash PROVE (Tokens(r, x) = One(x \in DOMAIN waiting[r]))'
        <3>1. InFlight(stack[r], x) + One(x \in DOMAIN fetching[r]) + One(x \in DOMAIN need[r])
                  = One(x \in DOMAIN waiting[r])
            BY TopTokens
        <3>2. One(x \in DOMAIN need'[r]) = One(x \in DOMAIN need[r]) + One(b = x)
            BY <1>5, <1>8 DEF One
        <3>3. /\ One(x \in DOMAIN waiting'[r]) = One(x \in DOMAIN waiting[r])
              /\ One(x \in DOMAIN fetching'[r]) = One(x \in DOMAIN fetching[r])
            BY <1>4, <1>7
        <3>4. One(b = x) \in Nat /\ One(x \in DOMAIN fetching[r]) \in Nat /\ One(x \in DOMAIN need[r]) \in Nat
            BY DEF One
        <3> QED BY <1>10, <3>1, <3>2, <3>3, <3>4 DEF Tokens
    <2> QED BY <1>3, <1>4, <1>7, <2>1 DEF ReplicaOK, OneToken
<1>14. CountsParents(r)'
    <2> SUFFICES ASSUME NEW x \in Hash
                 PROVE  /\ x \in DOMAIN need'[r] =>
                              /\ Undelivered(r, x)' \subseteq DOMAIN waiting'[r]
                              /\ need'[r][x] \in Nat \ {0}
                              /\ need'[r][x] = Cardinality(Undelivered(r, x)')
                                                  + CallCount(stack'[r], "all_then", x)
                        /\ x \notin DOMAIN need'[r] => CallCount(stack'[r], "all_then", x) = 0
                        /\ \A q \in DOMAIN waiting'[r] :
                              CallCount(waiting'[r][q], "all_then", x)
                                  = One(x \in DOMAIN need'[r] /\ q \in Undelivered(r, x)')
        BY DEF CountsParents
    <2>1. CallCount(stack'[r], "all_then", x) = CallCount(stack[r], "all_then", x)
        BY <1>10
    <2>2. Undelivered(r, x)' = Undelivered(r, x)
        BY <1>4 DEF Undelivered, Parents
    <2>3. CountsParents(r)
        BY <1>3 DEF ReplicaOK
    <2>4. CASE x = b
        <3>1. \A q \in DOMAIN waiting[r] : CallCount(waiting[r][q], "all_then", x) = 0
            BY <1>5, <2>3, <2>4 DEF CountsParents, One
        <3>2. \A q \in DOMAIN waiting[r] : CallCount(waiting'[r][q], "all_then", x) = One(q \in ps)
            BY <1>7, <2>4, <3>1 DEF One
        <3>3. \A q : One(x \in DOMAIN need'[r] /\ q \in Undelivered(r, x)') = One(q \in ps)
            BY <1>6, <1>8, <2>4
        <3>4. Cardinality(ps) = Cardinality(Undelivered(r, x)') + CallCount(stack'[r], "all_then", x)
            BY <1>5, <1>6, <2>1, <2>4
        <3> QED BY <1>6, <1>7, <1>8, <2>4, <3>2, <3>3, <3>4
    <2>5. CASE x # b
        <3>1. \A q \in DOMAIN waiting[r] :
                  CallCount(waiting'[r][q], "all_then", x) = CallCount(waiting[r][q], "all_then", x)
            BY <1>7, <2>5 DEF One
        <3> QED BY <1>7, <1>8, <2>1, <2>2, <2>3, <2>5, <3>1 DEF CountsParents
    <2> QED BY <2>4, <2>5
<1>15. ChannelsOK' /\ TablesOK'
    BY <1>3, <1>4, <1>7, <1>8, <1>9, SameChannels DEF TablesOK, Moved
<1> QED BY <1>4, <1>7, <1>8, <1>9, <1>11, <1>12, <1>13, <1>14, <1>15, NetStep
        DEF OwnTables, Moved, ReplicaOK

-----------------------------------------------------------------------------
(* A callback of promise::all.                                              *)

\* The callback of promise::all for one parent.
LEMMA BAllThenStep ==
    ASSUME NetInv, Grows, NEW r \in Replica, AllThen(r)
    PROVE  NetInv'
<1>1. PICK b, p : b = Top(r).blk /\ p = Top(r).peer
    OBVIOUS
<1>2. /\ stack[r] # <<>> /\ Top(r).op = "all_then"
      /\ b \in Known /\ b \in Hash /\ p \in Replica \ {r} /\ b \in delivered[p]
    BY <1>1, TopFacts DEF AllThen
<1>3. ReplicaOK(r) /\ TablesOK /\ ChannelsOK
    BY DEF NetInv
<1>4. PICK op : op = IF need[r][b] = 1 THEN "on_deliver" ELSE "none"
    OBVIOUS
<1>5. /\ UNCHANGED <<blocks, delivered, proposer, storage, signed, fetching, waiting, chan,
                     aborted, losses, retries, impeachments>>
      /\ Then(r, Calls(op, b, p))
      /\ op = "on_deliver" => need' = [need EXCEPT ![r] = Erase(@, b)]
      /\ op # "on_deliver" => need' = [need EXCEPT ![r][b] = @ - 1]
    <2>1. UNCHANGED <<blocks, delivered, proposer, storage, signed, fetching, waiting, chan,
                     aborted, losses, retries, impeachments>>
        BY DEF AllThen, vars, counters
    <2>2. CASE need[r][b] = 1
        <3>1. Calls(op, b, p) = Invoke("on_deliver", b, p) /\ op = "on_deliver"
            BY <1>4, <2>2 DEF Calls
        <3> QED BY <1>1, <2>1, <2>2, <3>1 DEF AllThen
    <2>3. CASE need[r][b] # 1
        <3>1. Calls(op, b, p) = <<>> /\ op = "none"
            BY <1>4, <2>3 DEF Calls
        <3>2. op # "on_deliver"
            BY <3>1
        <3>3. Then(r, <<>>) /\ need' = [need EXCEPT ![r][b] = @ - 1]
            BY <1>1, <2>3 DEF AllThen
        <3> QED BY <2>1, <3>1, <3>2, <3>3
    <2> QED BY <2>2, <2>3
<1>6. /\ b \in DOMAIN need[r] /\ b \in storage[r] /\ InFlight(stack[r], b) = 0
      /\ CallCount(stack[r], "all_then", b) \in Nat \ {0}
      /\ Undelivered(r, b) \subseteq DOMAIN waiting[r]
      /\ need[r][b] \in Nat
      /\ need[r][b] = Cardinality(Undelivered(r, b)) + CallCount(stack[r], "all_then", b)
      /\ Cardinality(Undelivered(r, b)) \in Nat
      /\ Cardinality(Undelivered(r, b)) = 0 => Undelivered(r, b) = {}
    <2>1. /\ b \in DOMAIN need[r] /\ InFlight(stack[r], b) = 0
          /\ CallCount(stack[r], "all_then", b) \in Nat \ {0}
        BY <1>1, <1>2, TopTokens DEF AllThen
    <2>2. b \in storage[r]
        BY <1>3, <2>1 DEF ReplicaOK, StoredOK
    <2>3. /\ Undelivered(r, b) \subseteq DOMAIN waiting[r]
          /\ need[r][b] \in Nat
          /\ need[r][b] = Cardinality(Undelivered(r, b)) + CallCount(stack[r], "all_then", b)
        BY <1>2, <1>3, <2>1 DEF ReplicaOK, CountsParents
    <2>4. IsFiniteSet(Undelivered(r, b))
        BY <1>2, ParentsFacts DEF NetInv
    <2>5. /\ Cardinality(Undelivered(r, b)) \in Nat
          /\ Cardinality(Undelivered(r, b)) = 0 => Undelivered(r, b) = {}
        BY <2>4, FS_CardinalityType, FS_EmptySet
    <2> QED BY <2>1, <2>2, <2>3, <2>5
<1>7. op = "on_deliver" => /\ Undelivered(r, b) = {} /\ Undelivered(r, b)' = {}
                           /\ CallCount(stack[r], "all_then", b) = 1
    <2> SUFFICES ASSUME op = "on_deliver"
                 PROVE  /\ Undelivered(r, b) = {} /\ Undelivered(r, b)' = {}
                        /\ CallCount(stack[r], "all_then", b) = 1
        OBVIOUS
    <2>1. need[r][b] = 1
        BY <1>4
    <2>2. Cardinality(Undelivered(r, b)) = 0 /\ CallCount(stack[r], "all_then", b) = 1
        BY <1>6, <2>1
    <2> QED BY <1>5, <1>6, <2>2 DEF Undelivered, Parents
<1>8. /\ DOMAIN need' = Replica
      /\ \A q \in Replica \ {r} : need'[q] = need[q]
      /\ need'[r] = [x \in DOMAIN need'[r] |-> need'[r][x]]
      /\ DOMAIN need'[r] = IF op = "on_deliver" THEN DOMAIN need[r] \ {b} ELSE DOMAIN need[r]
      /\ op # "on_deliver" => need'[r][b] = need[r][b] - 1
      /\ \A x \in DOMAIN need[r] \ {b} : need'[r][x] = need[r][x]
    <2>1. /\ DOMAIN need' = Replica
          /\ \A q \in Replica \ {r} : need'[q] = need[q]
          /\ op = "on_deliver" => need'[r] = Erase(need[r], b)
          /\ op # "on_deliver" => need'[r] = [need[r] EXCEPT ![b] = @ - 1]
        BY <1>3, <1>5 DEF TablesOK
    <2>2. need[r] = [x \in DOMAIN need[r] |-> need[r][x]]
        BY <1>3 DEF TablesOK
    <2>3. CASE op = "on_deliver"
        BY <2>1, <2>3 DEF Erase
    <2>4. CASE op # "on_deliver"
        BY <1>6, <2>1, <2>2, <2>4
    <2> QED BY <2>1, <2>3, <2>4
<1>9. Moved(r) /\ Counted(r, op, b)
    <2>1. Kept(r)
        BY <1>2, <1>5 DEF Kept
    <2>2. Callable(r, op, b, p)
        BY <1>2, <1>4, <1>5, <1>6, <1>7 DEF Callable
    <2> QED BY <1>2, <1>5, <2>1, <2>2, StackMove
<1>10. ASSUME NEW x
       PROVE  /\ InFlight(stack[r], x) \in Nat /\ CallCount(stack[r], "all_then", x) \in Nat
              /\ InFlight(stack'[r], x) = InFlight(stack[r], x) + One(op = "on_deliver" /\ b = x)
              /\ CallCount(stack'[r], "all_then", x) = CallCount(stack[r], "all_then", x) - One(b = x)
    <2>1. One(Top(r).op \in Delivering /\ Top(r).blk = x) = 0
        BY <1>1, <1>2 DEF One, Delivering
    <2>2. /\ One(op \in Delivering /\ b = x) = One(op = "on_deliver" /\ b = x)
          /\ One(Top(r).op = "all_then" /\ Top(r).blk = x) = One(b = x)
        BY <1>1, <1>2, <1>4 DEF One, Delivering
    <2>3. One(b = x) \in Nat /\ One(op = "on_deliver" /\ b = x) \in Nat
        BY DEF One
    <2> QED BY <1>9, <2>1, <2>2, <2>3 DEF Counted
<1>11. WaitingOK(r)' /\ FetchingOK(r)'
    BY <1>5, SameTables
<1>12. StoredOK(r)'
    BY <1>3, <1>5, <1>8 DEF ReplicaOK, StoredOK, Grows
<1>13. OneToken(r)'
    <2>1. ASSUME NEW x \in Hash PROVE (Tokens(r, x) = One(x \in DOMAIN waiting[r]))'
        <3>1. InFlight(stack[r], x) + One(x \in DOMAIN fetching[r]) + One(x \in DOMAIN need[r])
                  = One(x \in DOMAIN waiting[r])
            BY TopTokens
        <3>2. One(x \in DOMAIN need'[r]) = One(x \in DOMAIN need[r]) - One(op = "on_deliver" /\ b = x)
            BY <1>6, <1>8 DEF One
        <3>3. /\ One(x \in DOMAIN waiting'[r]) = One(x \in DOMAIN waiting[r])
              /\ One(x \in DOMAIN fetching'[r]) = One(x \in DOMAIN fetching[r])
            BY <1>5
        <3>4. /\ One(op = "on_deliver" /\ b = x) \in Nat
              /\ One(x \in DOMAIN fetching[r]) \in Nat /\ One(x \in DOMAIN need[r]) \in Nat
            BY DEF One
        <3> QED BY <1>10, <3>1, <3>2, <3>3, <3>4 DEF Tokens
    <2> QED BY <1>3, <1>5, <2>1 DEF ReplicaOK, OneToken
<1>14. CountsParents(r)'
    <2> SUFFICES ASSUME NEW x \in Hash
                 PROVE  /\ x \in DOMAIN need'[r] =>
                              /\ Undelivered(r, x)' \subseteq DOMAIN waiting'[r]
                              /\ need'[r][x] \in Nat \ {0}
                              /\ need'[r][x] = Cardinality(Undelivered(r, x)')
                                                  + CallCount(stack'[r], "all_then", x)
                        /\ x \notin DOMAIN need'[r] => CallCount(stack'[r], "all_then", x) = 0
                        /\ \A q \in DOMAIN waiting'[r] :
                              CallCount(waiting'[r][q], "all_then", x)
                                  = One(x \in DOMAIN need'[r] /\ q \in Undelivered(r, x)')
        BY DEF CountsParents
    <2>1. CallCount(stack'[r], "all_then", x) = CallCount(stack[r], "all_then", x) - One(b = x)
        BY <1>10
    <2>2. Undelivered(r, x)' = Undelivered(r, x)
        BY <1>5 DEF Undelivered, Parents
    <2>3. CountsParents(r)
        BY <1>3 DEF ReplicaOK
    <2>4. CASE x = b /\ op = "on_deliver"
        <3>1. \A q \in DOMAIN waiting[r] : CallCount(waiting[r][q], "all_then", x) = 0
            BY <1>6, <1>7, <2>3, <2>4 DEF CountsParents, One
        <3>2. CallCount(stack'[r], "all_then", x) = 0
            BY <1>7, <2>1, <2>4 DEF One
        <3>3. \A q : One(x \in DOMAIN need'[r] /\ q \in Undelivered(r, x)') = 0
            BY <1>7, <2>4 DEF One
        <3> QED BY <1>5, <1>8, <2>4, <3>1, <3>2, <3>3
    <2>5. CASE x = b /\ op # "on_deliver"
        <3>1. x \in DOMAIN need'[r] /\ need'[r][x] = need[r][b] - 1 /\ x \in DOMAIN need[r]
            BY <1>6, <1>8, <2>5
        <3>2. need[r][b] # 1 /\ need[r][b] \in Nat /\ need[r][b] # 0
            BY <1>4, <1>6, <2>5
        <3>3. CallCount(stack'[r], "all_then", x) = CallCount(stack[r], "all_then", b) - 1
            BY <2>1, <2>5 DEF One
        <3>4. need'[r][x] \in Nat \ {0}
            BY <3>1, <3>2
        <3>5. need'[r][x] = Cardinality(Undelivered(r, b)) + CallCount(stack'[r], "all_then", x)
            BY <1>6, <3>1, <3>3
        <3>6. \A q \in DOMAIN waiting[r] : CallCount(waiting[r][q], "all_then", x)
                                              = One(x \in DOMAIN need[r] /\ q \in Undelivered(r, x))
            BY <2>3 DEF CountsParents
        <3>7. One(TRUE) = 1
            BY DEF One
        <3>8. \A q : One(x \in DOMAIN need'[r] /\ q \in Undelivered(r, x)')
                        = One(x \in DOMAIN need[r] /\ q \in Undelivered(r, x))
            BY <2>2, <3>1
        <3> QED BY <1>5, <1>6, <2>2, <2>5, <3>1, <3>4, <3>5, <3>6, <3>8
    <2>6. CASE x # b
        <3>1. CallCount(stack'[r], "all_then", x) = CallCount(stack[r], "all_then", x)
            BY <1>10, <2>6 DEF One
        <3>2. /\ x \in DOMAIN need'[r] <=> x \in DOMAIN need[r]
              /\ x \in DOMAIN need[r] => need'[r][x] = need[r][x]
            BY <1>8, <2>6
        <3> QED BY <1>5, <2>2, <2>3, <3>1, <3>2 DEF CountsParents
    <2> QED BY <2>4, <2>5, <2>6
<1>15. ChannelsOK' /\ TablesOK'
    BY <1>3, <1>5, <1>8, <1>9, SameChannels DEF TablesOK, Moved
<1> QED BY <1>5, <1>8, <1>9, <1>11, <1>12, <1>13, <1>14, <1>15, NetStep
        DEF OwnTables, Moved, ReplicaOK

-----------------------------------------------------------------------------
(* on_deliver_blk.                                                          *)

\* The callbacks of a delivery hold no call that delivers.
LEMMA QueueInFlight ==
    ASSUME NEW r, NEW b, NEW w, QueueOK(r, b, w), NEW x
    PROVE  InFlight(w, x) = 0 /\ CallCount(w, "all_then", x) \in Nat
<1>1. w \in Seq(Call) /\ \A i \in DOMAIN w : w[i].op \notin {"verify", "all", "on_deliver"}
    BY DEF QueueOK, CallbackOK
<1>2. ASSUME NEW o \in {"verify", "all", "on_deliver"} PROVE CallCount(w, o, x) = 0
    <2>1. CallsAt(w, o, x) = {}
        BY <1>1 DEF CallsAt
    <2> QED BY <1>1, <2>1, CountFacts
<1>3. CallCount(w, "verify", x) = 0 /\ CallCount(w, "all", x) = 0 /\ CallCount(w, "on_deliver", x) = 0
    BY <1>2
<1> QED BY <1>1, <1>3, CountFacts DEF InFlight

\* E2CBase::on_deliver_blk.
LEMMA BDeliverStep ==
    ASSUME NetInv, Grows, NEW r \in Replica, BOnDeliverBlk(r)
    PROVE  NetInv'
<1>1. PICK b, calls : b = Top(r).blk /\ calls = waiting[r][b]
    OBVIOUS
<1>2. /\ stack[r] # <<>> /\ Top(r).op = "on_deliver"
      /\ b \in Known /\ b \in Hash /\ b \in storage[r]
    BY <1>1, TopFacts DEF BOnDeliverBlk
<1>3. ReplicaOK(r) /\ TablesOK /\ ChannelsOK /\ TypeOK
    BY DEF NetInv, CoreInv
<1>4. /\ InFlight(stack[r], b) = 1 /\ b \in DOMAIN waiting[r] /\ b \notin delivered[r]
      /\ b \notin DOMAIN fetching[r] /\ b \notin DOMAIN need[r]
    BY <1>1, <1>2, TopTokens DEF BOnDeliverBlk
<1>5. /\ UNCHANGED <<blocks, proposer, storage, signed, fetching, need, chan,
                     aborted, losses, retries, impeachments>>
      /\ delivered' = [delivered EXCEPT ![r] = @ \cup {b}]
      /\ Then(r, calls)
      /\ waiting' = [waiting EXCEPT ![r] = Erase(@, b)]
    BY <1>1, <1>4 DEF BOnDeliverBlk, OnDeliverBlk, Deliver, counters
<1>6. /\ DOMAIN waiting' = Replica
      /\ \A q \in Replica \ {r} : waiting'[q] = waiting[q]
      /\ DOMAIN waiting'[r] = DOMAIN waiting[r] \ {b}
      /\ \A q \in DOMAIN waiting[r] \ {b} : waiting'[r][q] = waiting[r][q]
    BY <1>3, <1>5 DEF TablesOK, Erase
<1>7. /\ DOMAIN delivered' = Replica
      /\ \A q \in Replica \ {r} : delivered'[q] = delivered[q]
      /\ delivered'[r] = delivered[r] \cup {b}
    BY <1>3, <1>5 DEF TypeOK
<1>8. Kept(r)
    BY <1>2, <1>5, <1>6, <1>7 DEF Kept
<1>9. QueueOK(r, b, calls) /\ QueueOK(r, b, calls)' /\ calls \in Seq(Call)
    <2>1. QueueOK(r, b, calls)
        BY <1>1, <1>3, <1>4, WaitingQueue DEF ReplicaOK
    <2> QED BY <2>1, QueueGrows DEF QueueOK
<1>10. Moved(r)
    <2>1. ASSUME NEW i \in DOMAIN calls, NEW c, c = calls[i]
          PROVE  CallOK(r, c)' /\ Ready(r, i, c)'
        <3>1. CallbackOK(r, b, c)'
            BY <1>9, <2>1 DEF QueueOK
        <3>2. CallOK(r, c)' /\ (c.op = "all_then" \/ (c.op = "on_receive_proposal" /\ c.blk = b))
            BY <3>1 DEF CallbackOK
        <3> QED BY <1>7, <3>2 DEF Ready
    <2>2. \A i \in DOMAIN calls : CallOK(r, calls[i])' /\ Ready(r, i, calls[i])'
        BY <2>1
    <2> QED BY <1>2, <1>5, <1>8, <1>9, <2>2, StackStep, ThenFacts DEF Kept, Moved
<1>11. ASSUME NEW x \in Hash
       PROVE  /\ InFlight(stack[r], x) \in Nat /\ CallCount(stack[r], "all_then", x) \in Nat
              /\ InFlight(stack'[r], x) = InFlight(stack[r], x) - One(b = x)
              /\ CallCount(stack'[r], "all_then", x) = CallCount(stack[r], "all_then", x)
                     + One(x \in DOMAIN need[r] /\ b \in Undelivered(r, x))
    <2>1. /\ InFlight(stack[r], x) \in Nat
          /\ InFlight(stack'[r], x) = InFlight(calls, x) + InFlight(stack[r], x)
                                         - One(Top(r).op \in Delivering /\ Top(r).blk = x)
          /\ CallCount(stack[r], "all_then", x) \in Nat
          /\ CallCount(stack'[r], "all_then", x)
                  = CallCount(calls, "all_then", x) + CallCount(stack[r], "all_then", x)
                        - One(Top(r).op = "all_then" /\ Top(r).blk = x)
        BY <1>2, <1>5, <1>9, ThenCounts
    <2>2. InFlight(calls, x) = 0 /\ CallCount(calls, "all_then", x) \in Nat
        BY <1>9, QueueInFlight
    <2>3. CallCount(calls, "all_then", x) = One(x \in DOMAIN need[r] /\ b \in Undelivered(r, x))
        BY <1>1, <1>3, <1>4 DEF ReplicaOK, CountsParents
    <2>4. /\ One(Top(r).op \in Delivering /\ Top(r).blk = x) = One(b = x)
          /\ One(Top(r).op = "all_then" /\ Top(r).blk = x) = 0
        BY <1>1, <1>2 DEF One, Delivering
    <2>5. One(b = x) \in Nat /\ One(x \in DOMAIN need[r] /\ b \in Undelivered(r, x)) \in Nat
        BY DEF One
    <2> QED BY <2>1, <2>2, <2>3, <2>4, <2>5
<1>12. WaitingOK(r)'
    <2>1. ASSUME NEW q \in DOMAIN waiting'[r], NEW w, w = waiting'[r][q]
          PROVE  q \in Known' /\ QueueOK(r, q, w)'
        <3>1. q \in DOMAIN waiting[r] /\ w = waiting[r][q]
            BY <1>6, <2>1
        <3>2. q \in Known /\ QueueOK(r, q, w)
            BY <1>3, <3>1, WaitingQueue DEF ReplicaOK
        <3> QED BY <3>2, QueueGrows DEF Grows
    <2> QED BY <2>1, WaitingQueues
<1>13. FetchingOK(r)'
    BY <1>5, SameTables
<1>14. StoredOK(r)'
    BY <1>2, <1>3, <1>5, <1>7 DEF ReplicaOK, StoredOK, Grows
<1>15. OneToken(r)'
    <2>1. ASSUME NEW x \in Hash PROVE (Tokens(r, x) = One(x \in DOMAIN waiting[r]))'
        <3>1. InFlight(stack[r], x) + One(x \in DOMAIN fetching[r]) + One(x \in DOMAIN need[r])
                  = One(x \in DOMAIN waiting[r])
            BY TopTokens
        <3>2. One(x \in DOMAIN waiting'[r]) = One(x \in DOMAIN waiting[r]) - One(b = x)
            BY <1>4, <1>6 DEF One
        <3>3. /\ One(x \in DOMAIN need'[r]) = One(x \in DOMAIN need[r])
              /\ One(x \in DOMAIN fetching'[r]) = One(x \in DOMAIN fetching[r])
            BY <1>5
        <3>4. /\ One(b = x) \in Nat
              /\ One(x \in DOMAIN fetching[r]) \in Nat /\ One(x \in DOMAIN need[r]) \in Nat
            BY DEF One
        <3> QED BY <1>11, <3>1, <3>2, <3>3, <3>4 DEF Tokens
    <2>2. DOMAIN waiting'[r] \cap delivered'[r] = {}
        BY <1>3, <1>6, <1>7 DEF ReplicaOK, OneToken
    <2> QED BY <2>1, <2>2 DEF OneToken
<1>16. CountsParents(r)'
    <2> SUFFICES ASSUME NEW x \in Hash
                 PROVE  /\ x \in DOMAIN need'[r] =>
                              /\ Undelivered(r, x)' \subseteq DOMAIN waiting'[r]
                              /\ need'[r][x] \in Nat \ {0}
                              /\ need'[r][x] = Cardinality(Undelivered(r, x)')
                                                  + CallCount(stack'[r], "all_then", x)
                        /\ x \notin DOMAIN need'[r] => CallCount(stack'[r], "all_then", x) = 0
                        /\ \A q \in DOMAIN waiting'[r] :
                              CallCount(waiting'[r][q], "all_then", x)
                                  = One(x \in DOMAIN need'[r] /\ q \in Undelivered(r, x)')
        BY DEF CountsParents
    <2>1. CountsParents(r)
        BY <1>3 DEF ReplicaOK
    <2>2. Undelivered(r, x)' = Undelivered(r, x) \ {b}
        BY <1>5, <1>7 DEF Undelivered, Parents
    <2>3. \A q \in DOMAIN waiting'[r] :
              CallCount(waiting'[r][q], "all_then", x)
                                  = One(x \in DOMAIN need'[r] /\ q \in Undelivered(r, x)')
        <3>1. \A q \in DOMAIN waiting'[r] : One(x \in DOMAIN need'[r] /\ q \in Undelivered(r, x)')
                                              = One(x \in DOMAIN need[r] /\ q \in Undelivered(r, x))
            BY <1>5, <1>6, <2>2 DEF One
        <3> QED BY <1>6, <2>1, <3>1 DEF CountsParents
    <2>4. x \notin DOMAIN need'[r] => CallCount(stack'[r], "all_then", x) = 0
        BY <1>5, <1>11, <2>1 DEF CountsParents, One
    <2>5. ASSUME x \in DOMAIN need[r]
          PROVE  /\ Undelivered(r, x)' \subseteq DOMAIN waiting'[r]
                 /\ need'[r][x] \in Nat \ {0}
                 /\ need'[r][x] = Cardinality(Undelivered(r, x)') + CallCount(stack'[r], "all_then", x)
        <3>1. /\ Undelivered(r, x) \subseteq DOMAIN waiting[r]
              /\ need[r][x] \in Nat \ {0}
              /\ need[r][x] = Cardinality(Undelivered(r, x)) + CallCount(stack[r], "all_then", x)
            BY <2>1, <2>5 DEF CountsParents
        <3>2. x \in Known
            BY <1>3, <2>5 DEF ReplicaOK, StoredOK
        <3>3. PICK u : u = Undelivered(r, x)
            OBVIOUS
        <3>4. IsFiniteSet(u) /\ Cardinality(u) \in Nat
            BY <3>2, <3>3, ParentsFacts, FS_CardinalityType DEF NetInv
        <3>5. Cardinality(u) = Cardinality(u \ {b}) + One(b \in u) /\ Cardinality(u \ {b}) \in Nat
            <4>1. CASE b \in u
                <5>1. /\ IsFiniteSet(u \ {b}) /\ Cardinality(u \ {b}) = Cardinality(u) - 1
                    BY <3>4, <4>1, FS_RemoveElement
                <5>2. Cardinality(u \ {b}) \in Nat
                    BY <5>1, FS_CardinalityType
                <5> QED BY <3>4, <4>1, <5>1, <5>2 DEF One
            <4>2. CASE b \notin u
                <5>1. u \ {b} = u
                    BY <4>2
                <5> QED BY <3>4, <4>2, <5>1 DEF One
            <4> QED BY <4>1, <4>2
        <3>6. CallCount(stack'[r], "all_then", x) = CallCount(stack[r], "all_then", x) + One(b \in u)
            <4>1. One(x \in DOMAIN need[r] /\ b \in Undelivered(r, x)) = One(b \in u)
                BY <2>5, <3>3
            <4> QED BY <1>11, <4>1
        <3>7. One(b \in u) \in Nat /\ CallCount(stack[r], "all_then", x) \in Nat
            BY <1>11 DEF One
        <3>8. Cardinality(u \ {b}) + CallCount(stack'[r], "all_then", x) = need[r][x]
            BY <3>1, <3>3, <3>4, <3>5, <3>6, <3>7
        <3> QED BY <1>5, <1>6, <2>2, <3>1, <3>3, <3>8
    <2> QED BY <1>5, <2>3, <2>4, <2>5
<1>17. ChannelsOK' /\ TablesOK'
    BY <1>3, <1>5, <1>6, <1>10, SameChannels DEF TablesOK, Moved
<1> QED BY <1>5, <1>6, <1>7, <1>10, <1>12, <1>13, <1>14, <1>15, <1>16, <1>17, NetStep
        DEF OwnTables, Moved, ReplicaOK

-----------------------------------------------------------------------------
(* The end of propose_handler; on_receive_proposal.                         *)

\* A proposal goes to every peer.
LEMMA BroadcastStep ==
    ASSUME NetInv, Grows, NEW r \in Replica, NEW b \in delivered'[r], b \in Hash, b # Genesis,
           Broadcast(r, b)
    PROVE  ChannelsOK' /\ DOMAIN chan' = Link
<1>1. PICK m : m = [type |-> "propose", blk |-> b]
    OBVIOUS
<1>2. \A p \in Link : p[1] = r => MessageOK(p, m)'
    BY <1>1 DEF MessageOK, Message
<1>3. /\ DOMAIN chan' = Link
      /\ \A p \in Link : \/ chan'[p] = chan[p]
                         \/ MessageOK(p, m)' /\ chan'[p] = Append(chan[p], m)
    BY <1>1, <1>2 DEF Broadcast
<1> QED BY <1>3, ChannelsStep

\* The end of propose_handler.
LEMMA AwaitStep ==
    ASSUME NetInv, Grows, NEW r \in Replica, AwaitDelivery(r)
    PROVE  NetInv'
<1>1. PICK b, p, then : b = Top(r).blk /\ p = Top(r).peer /\ then = "on_receive_proposal"
    OBVIOUS
<1>2. /\ stack[r] # <<>> /\ Top(r).op = "await_delivery" /\ b # Genesis
      /\ b \in Known /\ b \in Hash /\ p \in Replica \ {r} /\ b \in delivered[p]
      /\ b \in delivered[r] \cup DOMAIN waiting[r]
    BY <1>1, TopFacts DEF AwaitDelivery
<1>3. ReplicaOK(r) /\ TablesOK /\ ChannelsOK
    BY DEF NetInv
<1>4. PICK op : op = IF b \in delivered[r] THEN then ELSE "none"
    OBVIOUS
<1>5. /\ UNCHANGED <<blocks, delivered, proposer, storage, signed, fetching, need, chan,
                     aborted, losses, retries, impeachments>>
      /\ Then(r, Calls(op, b, p))
      /\ op = then => waiting' = waiting
      /\ op # then => /\ waiting' = [waiting EXCEPT ![r][b] = @ \o Invoke(then, b, p)]
                      /\ b \in DOMAIN waiting[r]
    <2>1. UNCHANGED <<blocks, delivered, proposer, storage, signed, fetching, need, chan,
                     aborted, losses, retries, impeachments>>
        BY DEF AwaitDelivery, vars, counters
    <2>2. CASE b \in delivered[r]
        <3>1. Calls(op, b, p) = Invoke(then, b, p) /\ op = then
            BY <1>1, <1>4, <2>2 DEF Calls
        <3> QED BY <1>1, <2>1, <2>2, <3>1 DEF AwaitDelivery
    <2>3. CASE b \notin delivered[r]
        <3>1. Calls(op, b, p) = <<>> /\ op # then
            BY <1>1, <1>4, <2>3 DEF Calls
        <3>2. Then(r, <<>>) /\ waiting' = [waiting EXCEPT ![r][b] = @ \o Invoke(then, b, p)]
            BY <1>1, <2>3 DEF AwaitDelivery
        <3> QED BY <1>2, <2>1, <2>3, <3>1, <3>2
    <2> QED BY <2>2, <2>3
<1>6. /\ WaitingOK(r)'
      /\ DOMAIN waiting' = Replica /\ DOMAIN waiting'[r] = DOMAIN waiting[r]
      /\ \A q \in Replica \ {r} : waiting'[q] = waiting[q]
      /\ \A q \in DOMAIN waiting[r] : \A x :
            CallCount(waiting'[r][q], "all_then", x) = CallCount(waiting[r][q], "all_then", x)
    <2>1. CASE op = then
        <3>1. WaitingOK(r)'
            BY <1>5, <2>1, SameTables
        <3> QED BY <1>3, <1>5, <2>1, <3>1 DEF TablesOK
    <2>2. CASE op # then
        <3>1. CallbackAdded(r, {b}, then, b, p)
            <4>1. DOMAIN waiting = Replica
                BY <1>3 DEF TablesOK
            <4> QED BY <1>5, <2>2, <4>1 DEF CallbackAdded
        <3>2. /\ {b} \in SUBSET DOMAIN waiting[r] /\ then \in Op
              /\ then = "all_then" \/ (then = "on_receive_proposal" /\ {b} \subseteq {b} /\ b # Genesis)
            BY <1>1, <1>2, <1>5, <2>2 DEF Op
        <3>3. /\ WaitingOK(r)'
              /\ DOMAIN waiting' = Replica /\ DOMAIN waiting'[r] = DOMAIN waiting[r]
              /\ \A q \in Replica \ {r} : waiting'[q] = waiting[q]
              /\ CallbacksCounted(r, {b}, then, b)
            BY <1>2, <3>1, <3>2, WaitingMore
        <3>4. \A q, x : One(q \in {b} /\ then = "all_then" /\ b = x) = 0
            BY <1>1 DEF One
        <3>5. \A q \in DOMAIN waiting[r] : \A x :
                  CallCount(waiting'[r][q], "all_then", x) = CallCount(waiting[r][q], "all_then", x)
            BY <3>3, <3>4 DEF CallbacksCounted
        <3> QED BY <3>3, <3>5
    <2> QED BY <2>1, <2>2
<1>7. Moved(r) /\ Counted(r, op, b)
    <2>1. Kept(r)
        BY <1>2, <1>5, <1>6 DEF Kept
    <2>2. Callable(r, op, b, p)
        BY <1>1, <1>2, <1>4, <1>5 DEF Callable
    <2> QED BY <1>2, <1>5, <2>1, <2>2, StackMove
<1>8. ASSUME NEW x
      PROVE  /\ InFlight(stack'[r], x) = InFlight(stack[r], x)
             /\ CallCount(stack'[r], "all_then", x) = CallCount(stack[r], "all_then", x)
    <2>1. /\ One(Top(r).op \in Delivering /\ Top(r).blk = x) = 0 /\ One(op \in Delivering /\ b = x) = 0
          /\ One(Top(r).op = "all_then" /\ Top(r).blk = x) = 0
        BY <1>1, <1>2, <1>4 DEF One, Delivering
    <2> QED BY <1>7, <2>1 DEF Counted
<1>9. ReplicaOK(r)'
    <2>1. FetchingOK(r)' /\ StoredOK(r)'
        BY <1>5, SameTables
    <2> QED BY <1>5, <1>6, <1>7, <1>8, <2>1, Undisturbed DEF Moved
<1>10. ChannelsOK' /\ TablesOK'
    BY <1>3, <1>5, <1>6, <1>7, SameChannels DEF TablesOK, Moved
<1> QED BY <1>5, <1>6, <1>7, <1>9, <1>10, NetStep DEF OwnTables, Moved

\* on_receive_proposal.
LEMMA BReceiveStep ==
    ASSUME NetInv, Grows, NEW r \in Replica, BOnReceiveProposal(r)
    PROVE  NetInv'
<1>1. PICK b, p, op : b = Top(r).blk /\ p = Top(r).peer /\ op = "none"
    OBVIOUS
<1>2. /\ stack[r] # <<>> /\ Top(r).op = "on_receive_proposal" /\ b # Genesis
      /\ b \in Known /\ b \in Hash /\ p \in Replica \ {r} /\ b \in delivered[p]
      /\ b \in delivered[r]
    BY <1>1, TopFacts DEF BOnReceiveProposal
<1>3. ReplicaOK(r) /\ TablesOK /\ ChannelsOK
    BY DEF NetInv
<1>4. /\ UNCHANGED <<blocks, delivered, proposer, storage, signed, fetching, waiting, need,
                     aborted, losses, retries, impeachments>>
      /\ Then(r, Calls(op, b, p))
    BY <1>1 DEF BOnReceiveProposal, OnReceiveProposal, vars, counters, Calls
<1>5. Moved(r) /\ Counted(r, op, b)
    <2>1. Kept(r)
        BY <1>2, <1>4 DEF Kept
    <2>2. Callable(r, op, b, p)
        BY <1>1, <1>2 DEF Callable
    <2> QED BY <1>2, <1>4, <2>1, <2>2, StackMove
<1>6. ASSUME NEW x
      PROVE  /\ InFlight(stack'[r], x) = InFlight(stack[r], x)
             /\ CallCount(stack'[r], "all_then", x) = CallCount(stack[r], "all_then", x)
    <2>1. /\ One(Top(r).op \in Delivering /\ Top(r).blk = x) = 0 /\ One(op \in Delivering /\ b = x) = 0
          /\ One(Top(r).op = "all_then" /\ Top(r).blk = x) = 0
        BY <1>1, <1>2 DEF One, Delivering
    <2> QED BY <1>5, <2>1 DEF Counted
<1>7. ReplicaOK(r)'
    <2>1. WaitingOK(r)' /\ FetchingOK(r)' /\ StoredOK(r)'
        BY <1>4, SameTables
    <2> QED BY <1>4, <1>5, <1>6, <2>1, Undisturbed DEF Moved
<1>8. ChannelsOK' /\ DOMAIN chan' = Link
    <2>1. chan' = chan \/ Broadcast(r, b)
        BY <1>1 DEF BOnReceiveProposal
    <2>2. CASE chan' = chan
        BY <1>3, <2>2, SameChannels DEF TablesOK
    <2>3. CASE Broadcast(r, b)
        <3>1. b \in delivered'[r]
            BY <1>2, <1>4
        <3> QED BY <1>2, <2>3, <3>1, BroadcastStep
    <2> QED BY <2>1, <2>2, <2>3
<1>9. TablesOK'
    BY <1>3, <1>4, <1>5, <1>8 DEF TablesOK, Moved
<1> QED BY <1>4, <1>5, <1>7, <1>8, <1>9, NetStep DEF OwnTables, Moved

-----------------------------------------------------------------------------
(* The messages.                                                            *)

\* The message that r takes.
LEMMA ReceivedFacts ==
    ASSUME NetInv, NEW r \in Replica, NEW s \in Replica \ {r}, NEW type, Receives(s, r, type),
           NEW b, b = Head(chan[<<s, r>>]).blk
    PROVE  /\ <<s, r>> \in Link /\ <<r, s>> \in Link /\ <<s, r>> # <<r, s>>
           /\ chan[<<s, r>>] # <<>> /\ stack[r] = <<>>
           /\ b \in Hash /\ b \in Known
           /\ type = "req" => b \in delivered[r]
           /\ type # "req" => b \in delivered[s]
           /\ type = "propose" => b # Genesis
<1>1. /\ <<s, r>> \in Link /\ <<r, s>> \in Link /\ <<s, r>> # <<r, s>>
      /\ <<s, r>>[1] = s /\ <<s, r>>[2] = r
    BY DEF Link
<1>2. PICK m, p : m = Head(chan[<<s, r>>]) /\ p = <<s, r>>
    OBVIOUS
<1>3. chan[p] # <<>> /\ stack[r] = <<>> /\ m.type = type /\ m.blk = b
    BY <1>2 DEF Receives, Idle
<1>4. MessageOK(p, m) /\ TypeOK
    <2>1. chan[p] \in Seq(Message) /\ \A i \in DOMAIN chan[p] : MessageOK(p, chan[p][i])
        BY <1>1, <1>2 DEF NetInv, ChannelsOK
    <2>2. 1 \in DOMAIN chan[p] /\ chan[p][1] = m
        BY <1>2, <1>3, <2>1
    <2> QED BY <2>1, <2>2 DEF NetInv, CoreInv
<1>5. /\ b \in Hash
      /\ type = "req" => b \in delivered[r]
      /\ type # "req" => b \in delivered[s]
      /\ type = "propose" => b # Genesis
    BY <1>1, <1>2, <1>3, <1>4 DEF MessageOK, Message
<1>6. b \in Known
    BY <1>4, <1>5 DEF TypeOK
<1> QED BY <1>1, <1>2, <1>3, <1>5, <1>6

\* An empty handler has no calls.
LEMMA IdleCounts ==
    ASSUME NEW r, stack[r] = <<>>, NEW x
    PROVE  InFlight(stack[r], x) = 0 /\ CallCount(stack[r], "all_then", x) = 0
BY CountEmpty DEF InFlight

\* propose_handler.
LEMMA BProposalStep ==
    ASSUME NetInv, Grows, NEW r \in Replica, NEW s \in Replica \ {r}, ProposeHandler(s, r)
    PROVE  NetInv'
<1>1. PICK b : b = Head(chan[<<s, r>>]).blk
    OBVIOUS
<1>2. /\ <<s, r>> \in Link /\ chan[<<s, r>>] # <<>> /\ stack[r] = <<>>
      /\ b \in Hash /\ b \in Known /\ b \in delivered[s] /\ b # Genesis
    <2>1. PICK type : type = "propose"
        OBVIOUS
    <2>2. Receives(s, r, type)
        BY <2>1 DEF ProposeHandler
    <2> QED BY <1>1, <2>1, <2>2, ReceivedFacts
<1>3. ReplicaOK(r) /\ TablesOK /\ ChannelsOK
    BY DEF NetInv
<1>4. /\ UNCHANGED <<blocks, delivered, proposer, fetching, waiting, need,
                     aborted, losses, retries, impeachments>>
      /\ storage' = [storage EXCEPT ![r] = @ \cup {b}]
      /\ signed' = IF b \in storage[r] THEN signed ELSE [signed EXCEPT ![r] = @ \cup {b}]
      /\ stack' = [stack EXCEPT ![r] =
                       IF blocks[b].proposer # proposer[r] THEN <<>>
                       ELSE Invoke("async_deliver", b, s) \o Invoke("await_delivery", b, s)]
      /\ chan' = [chan EXCEPT ![<<s, r>>] = Tail(@)]
    BY <1>1 DEF ProposeHandler, vars, counters
<1>5. /\ DOMAIN storage' = Replica /\ DOMAIN signed' = Replica /\ DOMAIN stack' = Replica
      /\ DOMAIN chan' = Link
      /\ \A q \in Replica \ {r} : storage'[q] = storage[q] /\ signed'[q] = signed[q] /\ stack'[q] = stack[q]
      /\ storage'[r] = storage[r] \cup {b} /\ signed'[r] \subseteq signed[r] \cup {b}
    BY <1>3, <1>4 DEF TablesOK
<1>6. PICK calls : calls = stack'[r]
    OBVIOUS
<1>7. /\ StackOK(r)'
      /\ \A x : InFlight(stack'[r], x) = 0 /\ CallCount(stack'[r], "all_then", x) = 0
    <2>1. CASE blocks[b].proposer # proposer[r]
        <3>1. stack'[r] = <<>>
            BY <1>3, <1>4, <2>1 DEF TablesOK
        <3>2. calls \in Seq(Call) /\ DOMAIN calls = {} /\ calls = <<>>
            BY <1>6, <3>1
        <3>3. StackOK(r)'
            BY <1>6, <3>2 DEF StackOK
        <3>4. \A x : InFlight(calls, x) = 0 /\ CallCount(calls, "all_then", x) = 0
            BY <3>2, CountEmpty DEF InFlight
        <3> QED BY <1>6, <3>3, <3>4
    <2>2. CASE blocks[b].proposer = proposer[r]
        <3>1. PICK f, g : f = Invoke("async_deliver", b, s) /\ g = Invoke("await_delivery", b, s)
            OBVIOUS
        <3>2. calls = f \o g
            BY <1>3, <1>4, <1>6, <2>2, <3>1 DEF TablesOK
        <3>3. /\ f \in Seq(Call) /\ g \in Seq(Call) /\ Len(f) = 1 /\ Len(g) = 1
              /\ f[1] = [op |-> "async_deliver", blk |-> b, peer |-> s]
              /\ g[1] = [op |-> "await_delivery", blk |-> b, peer |-> s]
              /\ f[1] \in Call /\ g[1] \in Call
              /\ \A o, x : CallCount(f, o, x) = One("async_deliver" = o /\ b = x)
              /\ \A o, x : CallCount(g, o, x) = One("await_delivery" = o /\ b = x)
            <4>1. "async_deliver" \in Op /\ "await_delivery" \in Op
                BY DEF Op
            <4>2. Len(f) = 1 /\ Len(g) = 1
                BY <3>1 DEF Invoke
            <4>3. /\ f \in Seq(Call) /\ f[1] = [op |-> "async_deliver", blk |-> b, peer |-> s]
                  /\ \A o, x : CallCount(f, o, x) = One("async_deliver" = o /\ b = x)
                BY <1>2, <3>1, <4>1, InvokeFacts
            <4>4. /\ g \in Seq(Call) /\ g[1] = [op |-> "await_delivery", blk |-> b, peer |-> s]
                  /\ \A o, x : CallCount(g, o, x) = One("await_delivery" = o /\ b = x)
                BY <1>2, <3>1, <4>1, InvokeFacts
            <4>5. f[1] \in Call /\ g[1] \in Call
                BY <1>2, <4>3, <4>4 DEF Call
            <4> QED BY <4>2, <4>3, <4>4, <4>5
        <3>4. calls \in Seq(Call) /\ DOMAIN calls = 1..2 /\ calls[1] = f[1] /\ calls[2] = g[1]
            <4>1. /\ f \o g \in Seq(Call) /\ Len(f \o g) = Len(f) + Len(g)
                  /\ \A i \in 1..(Len(f) + Len(g)) :
                        (f \o g)[i] = IF i <= Len(f) THEN f[i] ELSE g[i - Len(f)]
                <5>1. f \in Seq(Call) /\ g \in Seq(Call)
                    BY <3>3
                <5> QED BY <5>1, ConcatProperties
            <4>2. /\ calls \in Seq(Call) /\ Len(calls) = 2
                  /\ \A i \in 1..2 : calls[i] = IF i <= 1 THEN f[i] ELSE g[i - 1]
                BY <3>2, <3>3, <4>1
            <4>3. DOMAIN calls = 1..2
                BY <4>2, LenProperties
            <4> QED BY <4>2, <4>3
        <3>5. ASSUME NEW o \in {"verify", "all", "on_deliver", "all_then"}, NEW x
              PROVE  CallCount(calls, o, x) = 0
            <4>1. CallCount(calls, o, x) = CallCount(f, o, x) + CallCount(g, o, x)
                BY <3>2, <3>3, CountConcat
            <4>2. CallCount(f, o, x) = 0 /\ CallCount(g, o, x) = 0
                BY <3>3 DEF One
            <4> QED BY <4>1, <4>2
        <3>6. \A x : InFlight(calls, x) = 0 /\ CallCount(calls, "all_then", x) = 0
            <4> SUFFICES ASSUME NEW x PROVE InFlight(calls, x) = 0 /\ CallCount(calls, "all_then", x) = 0
                OBVIOUS
            <4>1. /\ CallCount(calls, "verify", x) = 0 /\ CallCount(calls, "all", x) = 0
                  /\ CallCount(calls, "on_deliver", x) = 0 /\ CallCount(calls, "all_then", x) = 0
                BY <3>5
            <4> QED BY <4>1 DEF InFlight
        <3>7. ASSUME NEW i \in DOMAIN calls, NEW c, c = calls[i]
              PROVE  CallOK(r, c)' /\ Ready(r, i, c)'
            <4>1. /\ c \in Call /\ c.blk = b /\ c.peer = s
                  /\ \/ c.op = "async_deliver"
                     \/ c.op = "await_delivery" /\ i = 2
                BY <3>3, <3>4, <3>7
            <4>2. CallOK(r, c)'
                BY <1>2, <1>4, <4>1 DEF CallOK
            <4>3. c.op = "await_delivery" => Promised(r, i, c.blk)'
                <5>1. stack'[r][1].op = "async_deliver" /\ stack'[r][1].blk = b
                    BY <1>6, <3>3, <3>4
                <5>2. i = 2 => 1 \in 1..(i - 1)
                    OBVIOUS
                <5> QED BY <4>1, <5>1, <5>2 DEF Promised
            <4> QED BY <4>1, <4>2, <4>3 DEF Ready
        <3>8. StackOK(r)'
            BY <1>6, <3>4, <3>7 DEF StackOK
        <3> QED BY <1>6, <3>6, <3>8
    <2> QED BY <2>1, <2>2
<1>8. ReplicaOK(r)'
    <2>1. WaitingOK(r)' /\ FetchingOK(r)'
        BY <1>4, SameTables
    <2>2. StoredOK(r)'
        BY <1>2, <1>3, <1>4, <1>5 DEF ReplicaOK, StoredOK, Grows
    <2>3. \A x : /\ InFlight(stack'[r], x) = InFlight(stack[r], x)
                 /\ CallCount(stack'[r], "all_then", x) = CallCount(stack[r], "all_then", x)
        BY <1>2, <1>7, IdleCounts
    <2> QED BY <1>4, <1>7, <2>1, <2>2, <2>3, Undisturbed
<1>9. ChannelsOK'
    <2>1. \A p \in Link : chan'[p] = chan[p] \/ (chan[p] # <<>> /\ chan'[p] = Tail(chan[p]))
        BY <1>2, <1>3, <1>4 DEF TablesOK
    <2> QED BY <1>5, <2>1, ChannelsStep
<1>10. TablesOK'
    BY <1>3, <1>4, <1>5 DEF TablesOK
<1> QED BY <1>4, <1>5, <1>8, <1>9, <1>10, NetStep DEF OwnTables

\* resp_blk_handler.
LEMMA RespStep ==
    ASSUME NetInv, Grows, NEW r \in Replica, NEW s \in Replica \ {r}, RespBlkHandler(s, r)
    PROVE  NetInv'
<1>1. PICK b, calls : b = Head(chan[<<s, r>>]).blk /\ calls = Fetch(r, b).then
    OBVIOUS
<1>2. /\ <<s, r>> \in Link /\ chan[<<s, r>>] # <<>> /\ stack[r] = <<>>
      /\ b \in Hash /\ b \in Known
    <2>1. PICK type : type = "resp"
        OBVIOUS
    <2>2. Receives(s, r, type)
        BY <2>1 DEF RespBlkHandler
    <2> QED BY <1>1, <2>1, <2>2, ReceivedFacts
<1>3. ReplicaOK(r) /\ TablesOK /\ ChannelsOK
    BY DEF NetInv
<1>4. /\ UNCHANGED <<blocks, delivered, proposer, signed, waiting, need,
                     aborted, losses, retries, impeachments>>
      /\ storage' = [storage EXCEPT ![r] = @ \cup {b}]
      /\ stack' = [stack EXCEPT ![r] = calls]
      /\ fetching' = [fetching EXCEPT ![r] = Erase(@, b)]
      /\ chan' = [chan EXCEPT ![<<s, r>>] = Tail(@)]
    BY <1>1 DEF RespBlkHandler, vars, counters
<1>5. /\ DOMAIN storage' = Replica /\ DOMAIN stack' = Replica /\ DOMAIN fetching' = Replica
      /\ DOMAIN chan' = Link
      /\ \A q \in Replica \ {r} : /\ storage'[q] = storage[q] /\ stack'[q] = stack[q]
                                  /\ fetching'[q] = fetching[q]
      /\ storage'[r] = storage[r] \cup {b} /\ stack'[r] = calls
      /\ DOMAIN fetching'[r] = DOMAIN fetching[r] \ {b}
      /\ \A x \in DOMAIN fetching[r] \ {b} : fetching'[r][x] = fetching[r][x]
    BY <1>3, <1>4 DEF TablesOK, Erase
<1>6. /\ StackOK(r)'
      /\ \A x : /\ InFlight(stack'[r], x) = One(b \in DOMAIN fetching[r] /\ b = x)
                /\ CallCount(stack'[r], "all_then", x) = 0
    <2>1. CASE b \notin DOMAIN fetching[r]
        <3>1. calls = <<>>
            BY <1>1, <2>1 DEF Fetch
        <3>2. calls \in Seq(Call) /\ DOMAIN calls = {}
            BY <3>1
        <3>3. StackOK(r)'
            BY <1>5, <3>2 DEF StackOK
        <3>4. \A x : InFlight(calls, x) = 0 /\ CallCount(calls, "all_then", x) = 0
            BY <3>1, CountEmpty DEF InFlight
        <3>5. \A x : One(b \in DOMAIN fetching[r] /\ b = x) = 0
            BY <2>1 DEF One
        <3> QED BY <1>5, <3>3, <3>4, <3>5
    <2>2. CASE b \in DOMAIN fetching[r]
        <3>1. PICK p \in Replica : /\ p # r /\ b \in delivered[p] /\ calls = Invoke("verify", b, p)
            BY <1>1, <1>3, <2>2 DEF ReplicaOK, FetchingOK, Fetch
        <3>2. /\ calls \in Seq(Call) /\ DOMAIN calls = {1}
              /\ calls[1] = [op |-> "verify", blk |-> b, peer |-> p]
              /\ \A o, x : CallCount(calls, o, x) = One("verify" = o /\ b = x)
            <4>1. "verify" \in Op
                BY DEF Op
            <4> QED BY <1>2, <3>1, <4>1, InvokeFacts
        <3>3. ASSUME NEW i \in DOMAIN calls, NEW c, c = calls[i]
              PROVE  CallOK(r, c)' /\ Ready(r, i, c)'
            <4>1. c \in Call /\ c.op = "verify" /\ c.blk = b /\ c.peer = p
                BY <1>2, <3>2, <3>3 DEF Call
            <4> QED BY <1>4, <1>5, <3>1, <4>1 DEF CallOK, Ready
        <3>4. StackOK(r)'
            BY <1>5, <3>2, <3>3 DEF StackOK
        <3>5. ASSUME NEW x
              PROVE  /\ InFlight(calls, x) = One(b \in DOMAIN fetching[r] /\ b = x)
                     /\ CallCount(calls, "all_then", x) = 0
            <4>1. /\ CallCount(calls, "verify", x) = One(b = x) /\ CallCount(calls, "all", x) = 0
                  /\ CallCount(calls, "on_deliver", x) = 0 /\ CallCount(calls, "all_then", x) = 0
                BY <3>2 DEF One
            <4>2. One(b \in DOMAIN fetching[r] /\ b = x) = One(b = x)
                BY <2>2
            <4> QED BY <4>1, <4>2 DEF InFlight, One
        <3> QED BY <1>5, <3>4, <3>5
    <2> QED BY <2>1, <2>2
<1>7. WaitingOK(r)'
    BY <1>4, SameTables
<1>8. FetchingOK(r)'
    <2>1. ASSUME NEW x \in DOMAIN fetching'[r]
          PROVE  /\ \A p \in fetching'[r][x].peers : p \in Replica \ {r} /\ x \in delivered'[p]
                 /\ \E p \in Replica : /\ p # r /\ x \in delivered'[p]
                                       /\ fetching'[r][x].then = Invoke("verify", x, p)
        <3>1. x \in DOMAIN fetching[r] /\ fetching'[r][x] = fetching[r][x]
            BY <1>5
        <3> QED BY <1>3, <1>4, <3>1 DEF ReplicaOK, FetchingOK
    <2> QED BY <2>1 DEF FetchingOK, Invoke
<1>9. StoredOK(r)'
    BY <1>2, <1>3, <1>4, <1>5 DEF ReplicaOK, StoredOK, Grows
<1>10. OneToken(r)'
    <2>1. ASSUME NEW x \in Hash PROVE (Tokens(r, x) = One(x \in DOMAIN waiting[r]))'
        <3>1. InFlight(stack[r], x) + One(x \in DOMAIN fetching[r]) + One(x \in DOMAIN need[r])
                  = One(x \in DOMAIN waiting[r])
            BY TopTokens
        <3>2. InFlight(stack[r], x) = 0
            BY <1>2, IdleCounts
        <3>3. One(x \in DOMAIN fetching'[r])
                  = One(x \in DOMAIN fetching[r]) - One(b \in DOMAIN fetching[r] /\ b = x)
            BY <1>5 DEF One
        <3>4. InFlight(stack'[r], x) = One(b \in DOMAIN fetching[r] /\ b = x)
            BY <1>6
        <3>5. /\ One(x \in DOMAIN need'[r]) = One(x \in DOMAIN need[r])
              /\ One(x \in DOMAIN waiting'[r]) = One(x \in DOMAIN waiting[r])
            BY <1>4
        <3>6. /\ One(b \in DOMAIN fetching[r] /\ b = x) \in Nat
              /\ One(x \in DOMAIN fetching[r]) \in Nat /\ One(x \in DOMAIN need[r]) \in Nat
            BY DEF One
        <3> QED BY <3>1, <3>2, <3>3, <3>4, <3>5, <3>6 DEF Tokens
    <2> QED BY <1>3, <1>4, <2>1 DEF ReplicaOK, OneToken
<1>11. CountsParents(r)'
    <2>1. CountsParents(r)
        BY <1>3 DEF ReplicaOK
    <2>2. \A x : CallCount(stack'[r], "all_then", x) = CallCount(stack[r], "all_then", x)
        BY <1>2, <1>6, IdleCounts
    <2>3. \A x : Undelivered(r, x)' = Undelivered(r, x)
        BY <1>4 DEF Undelivered, Parents
    <2> QED BY <1>4, <2>1, <2>2, <2>3 DEF CountsParents
<1>12. ChannelsOK'
    <2>1. \A p \in Link : chan'[p] = chan[p] \/ (chan[p] # <<>> /\ chan'[p] = Tail(chan[p]))
        BY <1>2, <1>3, <1>4 DEF TablesOK
    <2> QED BY <1>5, <2>1, ChannelsStep
<1>13. TablesOK'
    BY <1>3, <1>4, <1>5 DEF TablesOK
<1> QED BY <1>4, <1>5, <1>6, <1>7, <1>8, <1>9, <1>10, <1>11, <1>12, <1>13, NetStep
        DEF OwnTables, ReplicaOK

\* req_blk_handler.
LEMMA ReqStep ==
    ASSUME NetInv, Grows, NEW r \in Replica, NEW s \in Replica \ {r}, ReqBlkHandler(s, r)
    PROVE  NetInv'
<1>1. PICK b : b = Head(chan[<<s, r>>]).blk
    OBVIOUS
<1>2. /\ <<s, r>> \in Link /\ <<r, s>> \in Link /\ <<s, r>> # <<r, s>>
      /\ chan[<<s, r>>] # <<>>
      /\ b \in Hash /\ b \in Known /\ b \in delivered[r]
    <2>1. PICK type : type = "req"
        OBVIOUS
    <2>2. Receives(s, r, type)
        BY <2>1 DEF ReqBlkHandler
    <2> QED BY <1>1, <2>1, <2>2, ReceivedFacts
<1>3. TablesOK
    BY DEF NetInv
<1>4. PICK m, p, q : m = [type |-> "resp", blk |-> b] /\ p = <<s, r>> /\ q = <<r, s>>
    OBVIOUS
<1>5. /\ UNCHANGED <<blocks, delivered, proposer, storage, signed, fetching, waiting, need, stack,
                     aborted, losses, retries, impeachments>>
      /\ chan' = [chan EXCEPT ![p] = Tail(@), ![q] = Append(@, m)]
    BY <1>1, <1>4 DEF ReqBlkHandler, vars, counters
<1>6. MessageOK(q, m)'
    BY <1>2, <1>4, <1>5 DEF MessageOK, Message
<1>7. /\ DOMAIN chan' = Link
      /\ chan'[p] = Tail(chan[p]) /\ chan'[q] = Append(chan[q], m)
      /\ \A l \in Link \ {p, q} : chan'[l] = chan[l]
    BY <1>2, <1>3, <1>4, <1>5 DEF TablesOK
<1>8. \A l \in Link : \/ chan'[l] = chan[l]
                      \/ chan[l] # <<>> /\ chan'[l] = Tail(chan[l])
                      \/ MessageOK(l, m)' /\ chan'[l] = Append(chan[l], m)
    BY <1>2, <1>4, <1>6, <1>7
<1>9. ChannelsOK'
    BY <1>7, <1>8, ChannelsStep
<1>10. TablesOK'
    BY <1>3, <1>5, <1>7 DEF TablesOK
<1> QED BY <1>5, <1>9, <1>10, TablesUntouched

\* FetchContext::timeout_cb.
LEMMA FetchTimeoutStep ==
    ASSUME NetInv, Grows, NEW r \in Replica, NEW b \in Hash, FetchTimeout(r, b)
    PROVE  NetInv'
<1>1. TablesOK /\ ReplicaOK(r)
    BY DEF NetInv
<1>2. PICK m : m = [type |-> "req", blk |-> b]
    OBVIOUS
<1>3. /\ b \in DOMAIN fetching[r] /\ retries' = retries + 1
      /\ UNCHANGED <<blocks, delivered, proposer, storage, signed, fetching, waiting, need, stack,
                     aborted, losses, impeachments>>
      /\ chan' = [p \in Link |-> IF p[1] = r /\ p[2] \in fetching[r][b].peers
                                 THEN Append(chan[p], m) ELSE chan[p]]
    BY <1>2 DEF FetchTimeout, vars
<1>4. \A p \in Link : p[2] \in fetching[r][b].peers => MessageOK(p, m)'
    BY <1>1, <1>2, <1>3 DEF MessageOK, Message, ReplicaOK, FetchingOK
<1>5. DOMAIN chan' = Link /\ \A p \in Link : \/ chan'[p] = chan[p]
                                             \/ MessageOK(p, m)' /\ chan'[p] = Append(chan[p], m)
    BY <1>3, <1>4
<1>6. ChannelsOK'
    BY <1>5, ChannelsStep
<1>7. TablesOK'
    BY <1>1, <1>3, <1>5 DEF TablesOK
<1> QED BY <1>3, <1>6, <1>7, TablesUntouched

\* A connection breaks.
LEMMA LoseStep ==
    ASSUME NetInv, Grows, NEW r \in Replica, NEW s \in Replica \ {r}, Lose(s, r)
    PROVE  NetInv'
<1>1. TablesOK
    BY DEF NetInv
<1>2. PICK l : l = <<s, r>>
    OBVIOUS
<1>3. /\ chan[l] # <<>> /\ losses' = losses + 1 /\ l \in Link
      /\ UNCHANGED <<blocks, delivered, proposer, storage, signed, fetching, waiting, need, stack,
                     aborted, retries, impeachments>>
      /\ chan' = [chan EXCEPT ![l] = Tail(@)]
    BY <1>2 DEF Lose, vars, Link
<1>4. DOMAIN chan' = Link /\ \A p \in Link : \/ chan'[p] = chan[p]
                                             \/ chan[p] # <<>> /\ chan'[p] = Tail(chan[p])
    BY <1>1, <1>3 DEF TablesOK
<1>5. ChannelsOK'
    BY <1>4, ChannelsStep
<1>6. TablesOK'
    BY <1>1, <1>3, <1>4 DEF TablesOK
<1> QED BY <1>3, <1>5, <1>6, TablesUntouched

\* on_propose by the main thread.
LEMMA BProposeStep ==
    ASSUME NetInv, Grows, NEW r \in Replica, NEW h \in Hash, BPropose(r, h)
    PROVE  NetInv'
<1>1. ReplicaOK(r) /\ TablesOK /\ TypeOK
    BY DEF NetInv, CoreInv
<1>2. /\ UNCHANGED <<proposer, fetching, waiting, need, stack, aborted, losses, retries, impeachments>>
      /\ storage' = [storage EXCEPT ![r] = @ \cup {h}]
      /\ signed' = [signed EXCEPT ![r] = @ \cup {h}]
      /\ delivered' = [delivered EXCEPT ![r] = @ \cup {h}]
      /\ h \notin Known /\ stack[r] = <<>> /\ h \in Known' /\ Broadcast(r, h)
    BY DEF BPropose, OnPropose, Deliver, Idle, counters, Known, Put
<1>3. /\ storage'[r] = storage[r] \cup {h} /\ signed'[r] = signed[r] \cup {h}
      /\ delivered'[r] = delivered[r] \cup {h}
      /\ DOMAIN storage' = Replica /\ DOMAIN signed' = Replica
      /\ \A q \in Replica \ {r} : /\ storage'[q] = storage[q] /\ signed'[q] = signed[q]
                                  /\ delivered'[q] = delivered[q]
    BY <1>1, <1>2 DEF TablesOK, TypeOK
<1>4. StackOK(r)'
    <2>1. PICK s : s = stack'[r]
        OBVIOUS
    <2>2. s = <<>>
        BY <1>2, <2>1
    <2>3. s \in Seq(Call) /\ DOMAIN s = {}
        BY <2>2
    <2> QED BY <2>1, <2>3 DEF StackOK
<1>5. WaitingOK(r)' /\ FetchingOK(r)'
    BY <1>2, SameTables
<1>6. StoredOK(r)'
    BY <1>1, <1>2, <1>3 DEF ReplicaOK, StoredOK, Grows
<1>7. DOMAIN waiting[r] \subseteq Known
    BY <1>1 DEF ReplicaOK, WaitingOK
<1>8. OneToken(r)'
    BY <1>1, <1>2, <1>3, <1>7 DEF ReplicaOK, OneToken, Tokens
<1>9. CountsParents(r)'
    <2>1. CountsParents(r)
        BY <1>1 DEF ReplicaOK
    <2>2. ASSUME NEW x \in DOMAIN need[r] PROVE Undelivered(r, x)' = Undelivered(r, x)
        <3>1. x \in Known /\ x \in Hash
            BY <1>1, <2>2 DEF ReplicaOK, StoredOK, TypeOK, Known
        <3>2. h \notin Undelivered(r, x)
            BY <1>2, <1>7, <2>1, <2>2, <3>1 DEF CountsParents
        <3>3. Parents(x)' = Parents(x)
            BY <3>1 DEF Grows, Parents
        <3> QED BY <1>3, <3>2, <3>3 DEF Undelivered
    <2>3. \A x : \A p : One(x \in DOMAIN need[r] /\ p \in Undelivered(r, x)')
                          = One(x \in DOMAIN need[r] /\ p \in Undelivered(r, x))
        BY <2>2 DEF One
    <2> QED BY <1>2, <2>1, <2>2, <2>3 DEF CountsParents
<1>10. ChannelsOK' /\ DOMAIN chan' = Link
    <2>1. h # Genesis
        BY <1>2 DEF NetInv, CoreInv, BlocksOK
    <2> QED BY <1>2, <1>3, <2>1, BroadcastStep
<1>11. TablesOK'
    BY <1>1, <1>2, <1>3, <1>10 DEF TablesOK
<1> QED BY <1>2, <1>3, <1>4, <1>5, <1>6, <1>8, <1>9, <1>10, <1>11, NetStep DEF OwnTables, ReplicaOK

-----------------------------------------------------------------------------
(* The invariant.                                                           *)

\* The steps that touch no table of the network layer but proposer and the counters.
LEMMA QuietStep ==
    ASSUME NetInv, Grows, NEW r \in Replica,
           \/ Impeach(r)
           \/ BProposeNullParent(r)
           \/ \E b \in Hash : BCommitTimerCb(r, b)
           \/ UNCHANGED bvars
    PROVE  NetInv'
<1>1. TablesOK
    BY DEF NetInv
<1>2. /\ UNCHANGED <<storage, signed, fetching, waiting, need, stack, chan, aborted, delivered>>
      /\ proposer' \in [Replica -> Replica]
      /\ {losses', retries', impeachments'} \subseteq Nat
    <2>1. CASE Impeach(r)
        <3>1. /\ UNCHANGED <<storage, signed, fetching, waiting, need, stack, chan, aborted,
                            delivered, losses, retries>>
              /\ proposer' = [proposer EXCEPT ![r] = Rotation[@]]
              /\ impeachments' = impeachments + 1
            BY <2>1 DEF Impeach, vars
        <3>2. proposer' \in [Replica -> Replica]
            BY <1>1, <3>1, RotationAssumption DEF TablesOK
        <3>3. losses \in Nat /\ retries \in Nat /\ impeachments \in Nat
            BY <1>1 DEF TablesOK
        <3> QED BY <3>1, <3>2, <3>3
    <2>2. CASE BProposeNullParent(r)
        BY <1>1, <2>2 DEF BProposeNullParent, OnProposeNullParent, TablesOK, baseVars, counters
    <2>3. ASSUME NEW b \in Hash, BCommitTimerCb(r, b)
          PROVE  /\ UNCHANGED <<storage, signed, fetching, waiting, need, stack, chan, aborted,
                                delivered>>
                 /\ proposer' \in [Replica -> Replica]
                 /\ {losses', retries', impeachments'} \subseteq Nat
        BY <1>1, <2>3 DEF BCommitTimerCb, CommitTimerCb, TablesOK, baseVars, counters
    <2>4. CASE UNCHANGED bvars
        BY <1>1, <2>4 DEF bvars, vars, baseVars, counters, TablesOK
    <2> QED BY <2>1, <2>2, <2>3, <2>4
<1>3. TablesOK'
    BY <1>1, <1>2 DEF TablesOK
<1> QED BY <1>2, <1>3, SameChannels, TablesUntouched

\* The network layer starts in a state of its invariant.
LEMMA InitNetInv == BInit => NetInv
<1> SUFFICES ASSUME BInit PROVE NetInv
    OBVIOUS
<1>1. CoreInv
    BY InitCoreInv DEF BInit
<1>2. DeliveredClosed
    BY <1>1 DEF BInit, Init, DeliveredClosed, CoreInv, BlocksOK, Range
<1>3. FirstProposer \in Replica
    BY FirstProposerAssumption, ProposersAssumption
<1>4. TablesOK
    BY <1>3 DEF BInit, TablesOK, Empty
<1>5. ChannelsOK
    <2>1. ASSUME NEW p \in Link PROVE chan[p] \in Seq(Message) /\ DOMAIN chan[p] = {}
        BY DEF BInit
    <2> QED BY <2>1 DEF ChannelsOK
<1>6. ASSUME NEW r \in Replica PROVE ReplicaOK(r)
    <2>1. /\ stack[r] = <<>> /\ fetching[r] = Empty /\ waiting[r] = Empty /\ need[r] = Empty
          /\ storage[r] = {Genesis} /\ signed[r] = {} /\ delivered[r] = {Genesis}
        BY DEF BInit, Init
    <2>2. DOMAIN fetching[r] = {} /\ DOMAIN waiting[r] = {} /\ DOMAIN need[r] = {}
        BY <2>1 DEF Empty
    <2>3. StackOK(r)
        <3>1. stack[r] \in Seq(Call) /\ DOMAIN stack[r] = {}
            BY <2>1
        <3> QED BY <3>1 DEF StackOK
    <2>4. WaitingOK(r) /\ FetchingOK(r)
        BY <2>2 DEF WaitingOK, FetchingOK
    <2>5. StoredOK(r)
        BY <1>1, <2>1, <2>2 DEF StoredOK, CoreInv, BlocksOK
    <2>6. OneToken(r)
        BY <2>1, <2>2, IdleCounts DEF OneToken, Tokens, One
    <2>7. CountsParents(r)
        BY <2>1, <2>2, IdleCounts DEF CountsParents
    <2> QED BY <2>3, <2>4, <2>5, <2>6, <2>7 DEF ReplicaOK
<1> QED BY <1>1, <1>2, <1>4, <1>5, <1>6 DEF NetInv

\* Every step of the network layer keeps its invariant.
LEMMA NetInvStep == NetInv /\ [BNext]_bvars => NetInv'
<1> SUFFICES ASSUME NetInv, [BNext]_bvars PROVE NetInv'
    OBVIOUS
<1>1. Grows
    <2>1. CoreInv /\ DeliveredClosed /\ TypeOK
        BY DEF NetInv, CoreInv
    <2> QED BY <2>1, BStepIsCoreStep, CoreGrows
<1>2. ASSUME NEW r \in Replica, HandlerStep(r) PROVE NetInv'
    BY <1>1, <1>2, AsyncDeliverStep, BVerifyStep, AllDeliveredStep, AllWaitsStep, BAllThenStep,
       BDeliverStep, AwaitStep, BReceiveStep DEF HandlerStep
<1>3. ASSUME NEW r \in Replica, BProposeNullParent(r) \/ Impeach(r) PROVE NetInv'
    BY <1>1, <1>3, QuietStep
<1>4. ASSUME NEW r \in Replica, NEW b \in Hash,
             BPropose(r, b) \/ BCommitTimerCb(r, b) \/ FetchTimeout(r, b)
      PROVE  NetInv'
    BY <1>1, <1>4, BProposeStep, QuietStep, FetchTimeoutStep
<1>5. ASSUME NEW r \in Replica, NEW s \in Replica \ {r}, HandleMessage(s, r) \/ Lose(s, r)
      PROVE  NetInv'
    BY <1>1, <1>5, BProposalStep, ReqStep, RespStep, LoseStep DEF HandleMessage
<1>6. CASE UNCHANGED bvars
    <2>1. FirstProposer \in Replica
        BY FirstProposerAssumption, ProposersAssumption
    <2> QED BY <1>1, <1>6, <2>1, QuietStep
<1> QED BY <1>2, <1>3, <1>4, <1>5, <1>6 DEF BNext

\* The tables, the stack and the connections of the network layer fit together in every
\* reachable state: who is asked for a block has it, one call or entry sees every delivery
\* through, promise::all counts the parents that still have to tell.
THEOREM NetInvariant == BSpec => []NetInv
BY InitNetInv, NetInvStep, PTL DEF BSpec

\* The network layer keeps its types; what is signed or delivered is in the storage,
\* and a promise::all that is kept waits for one parent at least.
THEOREM NetworkTypes == BSpec => []BTypeOK
<1>1. NetInv => BTypeOK
    <2> SUFFICES ASSUME NetInv PROVE BTypeOK
        OBVIOUS
    <2>1. TablesOK /\ ChannelsOK /\ TypeOK
        BY DEF NetInv, CoreInv
    <2>2. ASSUME NEW r \in Replica
          PROVE  /\ storage[r] \subseteq Known
                 /\ signed[r] \cup delivered[r] \subseteq storage[r]
                 /\ DOMAIN fetching[r] \subseteq Known
                 /\ \A b \in DOMAIN fetching[r] : /\ fetching[r][b].peers \subseteq Replica \ {r}
                                                  /\ fetching[r][b].then \in Callbacks
                 /\ DOMAIN waiting[r] \subseteq Known
                 /\ \A b \in DOMAIN waiting[r] : waiting[r][b] \in Callbacks
                 /\ need[r] \in [DOMAIN need[r] -> Nat \ {0}]
                 /\ DOMAIN need[r] \subseteq DOMAIN waiting[r]
                 /\ stack[r] \in Callbacks
        <3>1. /\ StackOK(r) /\ WaitingOK(r) /\ FetchingOK(r) /\ StoredOK(r) /\ CountsParents(r)
              /\ need[r] = [b \in DOMAIN need[r] |-> need[r][b]]
            BY <2>1 DEF NetInv, ReplicaOK, TablesOK
        <3>2. ASSUME NEW b \in DOMAIN fetching[r]
              PROVE  /\ b \in Known /\ fetching[r][b].peers \subseteq Replica \ {r}
                     /\ fetching[r][b].then \in Callbacks
            <4>1. PICK p \in Replica : b \in delivered[p] /\ fetching[r][b].then = Invoke("verify", b, p)
                BY <3>1, <3>2 DEF FetchingOK
            <4>2. b \in Known /\ b \in Hash
                BY <2>1, <4>1 DEF TypeOK, Known
            <4>3. Invoke("verify", b, p) \in Seq(Call)
                BY <4>2 DEF Invoke, Call
            <4> QED BY <3>1, <3>2, <4>1, <4>2, <4>3 DEF FetchingOK, Callbacks
        <3>3. need[r] \in [DOMAIN need[r] -> Nat \ {0}] /\ DOMAIN need[r] \subseteq Known
            <4>1. DOMAIN need[r] \subseteq Known
                BY <3>1 DEF StoredOK
            <4>2. ASSUME NEW b \in DOMAIN need[r] PROVE need[r][b] \in Nat \ {0}
                BY <2>1, <3>1, <4>1, <4>2 DEF CountsParents, TypeOK, Known
            <4> QED BY <3>1, <4>1, <4>2
        <3>4. DOMAIN need[r] \subseteq DOMAIN waiting[r]
            <4>1. ASSUME NEW b \in DOMAIN need[r] PROVE b \in DOMAIN waiting[r]
                <5>1. b \in Hash
                    BY <2>1, <3>3, <4>1 DEF TypeOK, Known
                <5> QED BY <4>1, <5>1, TopTokens DEF One
            <4> QED BY <4>1
        <3> QED BY <3>1, <3>2, <3>3, <3>4 DEF StackOK, WaitingOK, StoredOK, Callbacks
    <2> QED BY <2>1, <2>2 DEF BTypeOK, TablesOK, ChannelsOK
<1> QED BY <1>1, NetInvariant, PTL

\* The assertion of E2CBase::on_deliver_blk holds and the result it ignores is true:
\* whatever order parents are fetched and delivered in, all of them are there, and no
\* block is delivered twice, not even when a fetch and a proposal race for it.
THEOREM DeliversInOrder == BSpec => []DeliveryAsserted
<1>1. NetInv => DeliveryAsserted
    <2> SUFFICES ASSUME NetInv, NEW r \in Replica, Running(r, "on_deliver"),
                        NEW b, b = Top(r).blk
                 PROVE  Range(Parents(b)) \subseteq delivered[r] /\ b \notin delivered[r]
        BY DEF DeliveryAsserted
    <2>1. b \in Hash /\ Undelivered(r, b) = {}
        BY TopFacts
    <2>2. b \notin delivered[r]
        BY <2>1, TopTokens
    <2> QED BY <2>1, <2>2 DEF Undelivered
<1> QED BY <1>1, NetInvariant, PTL

\* Between two handlers the counts leave nothing else for a delivery to wait for.
LEMMA WaitsOn == NetInv => WaitsForSomething
<1> SUFFICES ASSUME NetInv, NEW r \in Replica, Idle(r), NEW b \in DOMAIN waiting[r],
                    b \notin DOMAIN fetching[r]
             PROVE  /\ b \in DOMAIN need[r]
                    /\ Undelivered(r, b) \subseteq DOMAIN waiting[r]
                    /\ Cardinality(Undelivered(r, b)) = need[r][b]
    BY DEF WaitsForSomething
<1>1. b \in Hash
    BY DEF NetInv, CoreInv, TypeOK, ReplicaOK, WaitingOK, Known
<1>2. InFlight(stack[r], b) = 0 /\ CallCount(stack[r], "all_then", b) = 0
    BY IdleCounts DEF Idle
<1>3. b \in DOMAIN need[r]
    BY <1>1, <1>2, TopTokens DEF One
<1>4. /\ Undelivered(r, b) \subseteq DOMAIN waiting[r]
      /\ need[r][b] = Cardinality(Undelivered(r, b)) + CallCount(stack[r], "all_then", b)
    BY <1>1, <1>3 DEF NetInv, ReplicaOK, CountsParents
<1>5. Cardinality(Undelivered(r, b)) \in Nat
    <2>1. b \in Known
        BY DEF NetInv, ReplicaOK, WaitingOK
    <2>2. IsFiniteSet(Undelivered(r, b))
        BY <2>1, ParentsFacts DEF NetInv
    <2> QED BY <2>2, FS_CardinalityType
<1> QED BY <1>2, <1>3, <1>4, <1>5

\* No promise of a delivery is forgotten: when a handler has returned, each one waits for a
\* fetch or for as many undelivered parents as its promise::all counts.
THEOREM NoWakeUpLost == BSpec => []WaitsForSomething
BY WaitsOn, NetInvariant, PTL

\* req_blk_handler finds every block it is asked for, since a request goes to a replica
\* that sent the block or a descendant of it, which delivered both.
THEOREM FetchesServable == BSpec => []RequestsServable
<1>1. NetInv => RequestsServable
    BY DEF NetInv, ReplicaOK, StoredOK, ChannelsOK, MessageOK, RequestsServable, Link
<1> QED BY <1>1, NetInvariant, PTL

=============================================================================
