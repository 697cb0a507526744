------------------------- MODULE E2CProposalProofs -------------------------
(***************************************************************************)
(* What becomes of a proposal on the network: whose blocks a replica       *)
(* files, whatever is impeached; and, while one replica proposes, that     *)
(* blocks are sent once, filed without gaps, never fetched unless one      *)
(* was lost, and filed by everybody although one message was lost.         *)
(*                                                                         *)
(* Everything rests on NetInv of module E2CBaseProofs. PastInv is          *)
(* inductive on top of it, and so are FirstInv, ProposalInv, CalmInv and   *)
(* FiledInv as long as the first proposer is the only one.                 *)
(***************************************************************************)
EXTENDS E2CBaseProofs, WellFoundedInduction

-----------------------------------------------------------------------------
(* What becomes of a proposal.                                              *)

Has(s, op, b) == CallsAt(s, op, b) # {}

\* on_receive_proposal(b) is still to be called.
Pending(r, b) ==
    \/ Has(stack[r], "await_delivery", b)
    \/ Has(stack[r], "on_receive_proposal", b)
    \/ \E q \in DOMAIN waiting[r] : Has(waiting[r][q], "on_receive_proposal", b)

\* The proposers that r has come to when its pace maker has rotated n times.
PathTo(r, n, view) ==
    /\ view \in [0..n -> Replica]
    /\ view[0] = FirstProposer /\ view[n] = proposer[r]
    /\ \A i \in 1..n : view[i] = Rotation[view[i - 1]]

\* What r has filed, or is about to, was proposed by one of them.
PastOK(r) ==
    \E n \in 0..impeachments : \E view \in [0..n -> Replica] :
        /\ PathTo(r, n, view)
        /\ \A b \in Hash \ {Genesis} :
              b \in Range(ht_blk_map[r]) \/ Pending(r, b) => blocks[b].proposer \in Range(view)

\* What is past verify holds a signature.
SignedOnly(r) ==
    \A b \in Hash :
        (\/ Has(stack[r], "all", b)
         \/ Has(stack[r], "on_deliver", b)
         \/ b \in DOMAIN need[r]
         \/ b \in delivered[r] \ {Genesis})
        => b \in signed[r]

PastInv == \A r \in Replica : PastOK(r) /\ SignedOnly(r)

-----------------------------------------------------------------------------
(* What holds while one replica proposes.                                   *)

\* No other replica may propose, or no pace maker has come to another one yet.
Early == SingleProposer \/ impeachments = 0

\* The proposer has filed every block there is, without a gap; the parents of a block are
\* what it has filed below it; and nobody has aborted: LeaderInv of module E2CCoreLog, for
\* the proposer of the configuration.
FirstFiledAll == \A b \in Known : AlreadyHandled(FirstProposer, b)

FirstContiguous == DOMAIN ht_blk_map[FirstProposer] = 0..Height(b_mark[FirstProposer])

FirstParents ==
    \A b \in Known :
        Parents(b) = [i \in 1..Height(b) |-> ht_blk_map[FirstProposer][Height(b) - i]]

FirstInv == FirstFiledAll /\ FirstContiguous /\ FirstParents /\ NeverAborts

\* A replica forwards what it has filed.
SentIsFiled ==
    \A p \in Link : \A i \in DOMAIN chan[p] :
        chan[p][i].type = "propose" => AlreadyHandled(p[1], chan[p][i].blk)

\* A proposal that was parsed is filed or will be, while the pace makers rest.
SignedIsFiled(r) == \A b \in signed[r] : AlreadyHandled(r, b) \/ Pending(r, b)

\* The invariant while one replica proposes, whatever is lost.
ProposalInv ==
    /\ \A b \in Known \ {Genesis} : blocks[b].proposer = FirstProposer
    /\ SentIsFiled
    /\ ForwardedOnce
    /\ impeachments = 0 => /\ proposer = [r \in Replica |-> FirstProposer]
                           /\ \A r \in Replica : SignedIsFiled(r)

-----------------------------------------------------------------------------
(* What holds while one replica proposes and no message is lost.            *)

\* The proposal of b is on the way from p[1] to p[2], before position n.
Sent(p, b, n) == \E i \in 1..(n - 1) : chan[p][i].type = "propose" /\ chan[p][i].blk = b

\* The block that the running handler is about.
Proposal(r) == stack[r][Len(stack[r])].blk

\* A handler is about one block; the ancestors of the block are there.
OneProposal(r) ==
    stack[r] # <<>> =>
        /\ stack[r][Len(stack[r])].op \in {"await_delivery", "on_receive_proposal"}
        /\ \A i \in 1..(Len(stack[r]) - 1) :
              /\ stack[r][i].op \in {"async_deliver", "verify", "all", "on_deliver"}
              /\ stack[r][i].op = "async_deliver" => stack[r][i].blk \in storage[r]
              /\ stack[r][i].op # "async_deliver" => stack[r][i].blk = Proposal(r)

CalmReplica(r) ==
    /\ DOMAIN fetching[r] = {} /\ DOMAIN need[r] = {}
    /\ \A b \in DOMAIN waiting[r] : waiting[r][b] = <<>>
    /\ \A b \in storage[r] : Range(Parents(b)) \subseteq storage[r]
    /\ OneProposal(r)
    /\ \A b \in storage[r] : \/ AlreadyHandled(r, b)
                              \/ (stack[r] # <<>> /\ b = Proposal(r))

\* Every connection carries the blocks of the chain in its order, and whatever a running
\* replica has filed.
CalmChannel(p) ==
    /\ \A i \in DOMAIN chan[p] :
          /\ chan[p][i].type = "propose"
          /\ \A b \in Range(Parents(chan[p][i].blk)) : b \in storage[p[2]] \/ Sent(p, b, i)
    /\ ~ aborted[p[1]] =>
          \A b \in Known \ {Genesis} :
              AlreadyHandled(p[1], b) => b \in storage[p[2]] \/ Sent(p, b, Len(chan[p]) + 1)

CalmInv ==
    losses = 0 /\ impeachments = 0 => /\ \A r \in Replica : CalmReplica(r)
                                      /\ \A p \in Link : CalmChannel(p)

-----------------------------------------------------------------------------
(* What becomes of a lost proposal, when one replica proposes.              *)

\* Besides a sender and a receiver there is a third replica.
ThirdReplica == \A s, d \in Replica : \E t \in Replica : t \notin {s, d}

\* What is asked for or answered is awaited, unless it has come meanwhile.
Expected(p) ==
    \A i \in DOMAIN chan[p] :
        LET m == chan[p][i]
            r == p[IF m.type = "req" THEN 1 ELSE 2]
        IN  m.type # "propose" => m.blk \in storage[r] \cup DOMAIN fetching[r]

\* What was fetched and not proposed to r is about to stop it.
UnsignedStops(r) ==
    aborted[r] \/ \A b \in storage[r] \ {Genesis} : b \in signed[r] \/ Has(stack[r], "verify", b)

\* r runs and has fetched nothing.
Sound(r) == ~ aborted[r] /\ storage[r] \subseteq signed[r] \cup {Genesis}

\* b has come to p[2], or will before position n of the connection is read.
Reaches(p, b, n) == b \in storage[p[2]] \/ Sent(p, b, n)

\* Whatever p[1] has filed comes to p[2] over this connection, up to what was lost.
Brings(p, lost) ==
    \A b \in Known \ {Genesis} :
        AlreadyHandled(p[1], b) => b \in lost \/ Reaches(p, b, Len(chan[p]) + 1)

\* Proposals come after the ancestors of their blocks, and nothing was asked for.
Ordered(p) ==
    \A i \in DOMAIN chan[p] :
        /\ chan[p][i].type # "resp"
        /\ chan[p][i].type = "propose" =>
              \A b \in Range(Parents(chan[p][i].blk)) : Reaches(p, b, i)

\* d has filed all ancestors of x or its handler is about to.
FiledBelow(d, x) ==
    /\ Range(Parents(x)) \subseteq storage[d]
    /\ CalmReplica(d) \/ \A b \in Range(Parents(x)) : AlreadyHandled(d, b)

\* Nobody but d asks, and nobody but d is answered.
Onward(p, d) ==
    /\ p[2] # d => Ordered(p)
    /\ \A i \in DOMAIN chan[p] : chan[p][i].type = "req" => p[1] = d

\* While d alone misses x, it sends on nothing that the others could miss, so they are calm
\* and send x to it.
Missed(d, x) ==
    /\ FiledBelow(d, x)
    /\ \A r \in Replica \ {d} : CalmReplica(r) /\ Sound(r)
    /\ \A p \in Link : Onward(p, d)

\* One message was lost, the proposal of x on connection l.
LostOne(l, x) ==
    /\ \A p \in Link : Brings(p, IF p = l THEN {x} ELSE {})
    /\ impeachments = 0 /\ x \notin storage[l[2]] => Missed(l[2], x)

FiledInv ==
    /\ \A r \in Replica : UnsignedStops(r)
    /\ \A p \in Link : Expected(p)
    /\ losses = 0 => /\ \A p \in Link : Brings(p, {})
                     /\ impeachments = 0 => \A r \in Replica : Sound(r)
    /\ losses = 1 /\ impeachments = 0 =>
          \E l \in Link : \E x \in Known \ {Genesis} : LostOne(l, x)

-----------------------------------------------------------------------------
(* The calls of a handler.                                                  *)

\* An empty sequence has no calls, one call has itself,
LEMMA HasOne ==
    ASSUME NEW op \in Op, NEW b \in Hash, NEW p \in Replica
    PROVE  /\ Invoke(op, b, p) \in Seq(Call)
           /\ \A o, x : Has(Invoke(op, b, p), o, x) <=> (op = o /\ b = x)
<1>1. /\ Invoke(op, b, p) \in Seq(Call)
      /\ \A o, x : CallCount(Invoke(op, b, p), o, x) = One(op = o /\ b = x)
    BY InvokeFacts
<1>2. PICK s : s = Invoke(op, b, p)
    OBVIOUS
<1>3. \A o, x : CallCount(s, o, x) = 0 <=> CallsAt(s, o, x) = {}
    BY <1>1, <1>2, CountFacts
<1> QED BY <1>1, <1>2, <1>3 DEF Has, One

\* No call is left of a handler that has ended.
LEMMA HasNone == \A o, x : ~ Has(<<>>, o, x)
BY DEF Has, CallsAt

\* and two sequences in a row have what each of them has.
LEMMA HasConcat ==
    ASSUME NEW s \in Seq(Call), NEW t \in Seq(Call)
    PROVE  s \o t \in Seq(Call) /\ \A o, x : Has(s \o t, o, x) <=> Has(s, o, x) \/ Has(t, o, x)
<1>1. s \o t \in Seq(Call)
    BY ConcatProperties
<1> SUFFICES ASSUME NEW o, NEW x PROVE Has(s \o t, o, x) <=> Has(s, o, x) \/ Has(t, o, x)
    BY <1>1
<1>2. CallCount(s \o t, o, x) = CallCount(s, o, x) + CallCount(t, o, x)
    BY CountConcat
<1>3. /\ CallCount(s, o, x) \in Nat /\ (CallCount(s, o, x) = 0 <=> CallsAt(s, o, x) = {})
      /\ CallCount(t, o, x) \in Nat /\ (CallCount(t, o, x) = 0 <=> CallsAt(t, o, x) = {})
      /\ CallCount(s \o t, o, x) = 0 <=> CallsAt(s \o t, o, x) = {}
    BY <1>1, CountFacts
<1> QED BY <1>2, <1>3 DEF Has

\* A call that returns after making some calls.
LEMMA HasThen ==
    ASSUME NetInv, NEW r \in Replica, stack[r] # <<>>, NEW calls \in Seq(Call), Then(r, calls)
    PROVE  \A o, x :
              /\ Has(stack'[r], o, x) => Has(calls, o, x) \/ Has(stack[r], o, x)
              /\ Has(stack[r], o, x) => Has(stack'[r], o, x) \/ (Top(r).op = o /\ Top(r).blk = x)
              /\ Has(calls, o, x) => Has(stack'[r], o, x)
              /\ Top(r).op = o /\ Top(r).blk = x => Has(stack[r], o, x)
<1>1. PICK s, c, rest : s = stack[r] /\ c = Head(s) /\ rest = Tail(s)
    OBVIOUS
<1>2. s \in Seq(Call) /\ s # <<>> /\ stack'[r] = calls \o rest
    BY <1>1, ThenFacts DEF NetInv, ReplicaOK, StackOK
<1>3. c \in Call /\ rest \in Seq(Call) /\ <<c>> \in Seq(Call) /\ s = <<c>> \o rest
    BY <1>1, <1>2, HeadTailProperties
<1>4. \A o, x : Has(<<c>>, o, x) <=> (c.op = o /\ c.blk = x)
    <2> SUFFICES ASSUME NEW o, NEW x PROVE Has(<<c>>, o, x) <=> (c.op = o /\ c.blk = x)
        OBVIOUS
    <2>1. CallCount(<<c>>, o, x) = One(c.op = o /\ c.blk = x)
        BY <1>3, CountSingle
    <2>2. CallCount(<<c>>, o, x) = 0 <=> CallsAt(<<c>>, o, x) = {}
        BY <1>3, CountFacts
    <2> QED BY <2>1, <2>2 DEF Has, One
<1>5. \A o, x : Has(<<c>> \o rest, o, x) <=> Has(<<c>>, o, x) \/ Has(rest, o, x)
    BY <1>3, HasConcat
<1>6. \A o, x : Has(s, o, x) <=> (c.op = o /\ c.blk = x) \/ Has(rest, o, x)
    BY <1>3, <1>4, <1>5
<1>7. \A o, x : Has(calls \o rest, o, x) <=> Has(calls, o, x) \/ Has(rest, o, x)
    BY <1>3, HasConcat
<1> QED BY <1>1, <1>2, <1>6, <1>7 DEF Top

\* A step of a handler: no proposal is added, none is dropped but the one that is
\* given to on_receive_proposal, and nothing gets past verify without a signature.
Flows(r) ==
    /\ UNCHANGED <<proposer, impeachments, losses, signed, storage>>
    /\ \A x : Pending(r, x)' => Pending(r, x)
    /\ \A x : Pending(r, x) => \/ Pending(r, x)'
                               \/ Running(r, "on_receive_proposal") /\ x = Top(r).blk
    /\ SignedOnly(r) => SignedOnly(r)'

\* async_deliver_blk.
LEMMA AsyncDeliverFlow ==
    ASSUME NetInv, Grows, NEW r \in Replica, AsyncDeliverBlk(r)
    PROVE  Flows(r)
<1>1. PICK b, p, op : b = Top(r).blk /\ p = Top(r).peer /\ op = "verify"
    OBVIOUS
<1>2. PICK async : async = "async_deliver"
    OBVIOUS
<1>3. /\ b \in Hash /\ p \in Replica /\ stack[r] # <<>> /\ Top(r).op = "async_deliver"
    BY <1>1, <1>2, TopFacts DEF AsyncDeliverBlk
<1>4. op \in Op
    BY <1>1 DEF Op
<1>5. PICK calls : /\ Then(r, calls) /\ calls \in {<<>>, Invoke(op, b, p)}
    BY <1>1 DEF AsyncDeliverBlk
<1>6. calls \in Seq(Call) /\ \A o, x : Has(calls, o, x) => o = op
    <2>1. CASE calls = <<>>
        BY <2>1, HasNone
    <2>2. CASE calls = Invoke(op, b, p)
        BY <1>3, <1>4, <2>2, HasOne
    <2> QED BY <1>5, <2>1, <2>2
<1>7. \A o, x : /\ Has(stack'[r], o, x) => o = op \/ Has(stack[r], o, x)
                /\ Has(stack[r], o, x) => Has(stack'[r], o, x) \/ Top(r).op = o
    BY <1>3, <1>5, <1>6, HasThen
<1>8. /\ UNCHANGED <<delivered, need, proposer, impeachments, losses, signed, storage>>
      /\ \A q \in DOMAIN waiting'[r] : \/ q \in DOMAIN waiting[r] /\ waiting'[r][q] = waiting[r][q]
                                       \/ waiting'[r][q] = <<>>
      /\ \A q \in DOMAIN waiting[r] : q \in DOMAIN waiting'[r] /\ waiting'[r][q] = waiting[r][q]
    <2>1. UNCHANGED <<delivered, need, proposer, impeachments, losses, signed, storage>>
        BY DEF AsyncDeliverBlk, vars, counters
    <2>2. DOMAIN waiting = Replica
        BY DEF NetInv, TablesOK
    <2>3. \/ waiting' = waiting
          \/ b \notin DOMAIN waiting[r] /\ waiting' = [waiting EXCEPT ![r] = Put(@, b, <<>>)]
        BY <1>1 DEF AsyncDeliverBlk
    <2>4. CASE waiting' = waiting
        BY <2>1, <2>4
    <2>5. CASE b \notin DOMAIN waiting[r] /\ waiting' = [waiting EXCEPT ![r] = Put(@, b, <<>>)]
        <3>1. PICK w, w1, none : w = waiting[r] /\ w1 = waiting'[r] /\ none = <<>>
            OBVIOUS
        <3>2. w1 = Put(w, b, none) /\ b \notin DOMAIN w
            BY <2>2, <2>5, <3>1
        <3>3. /\ \A q \in DOMAIN w1 : (q \in DOMAIN w /\ w1[q] = w[q]) \/ w1[q] = none
              /\ \A q \in DOMAIN w : q \in DOMAIN w1 /\ w1[q] = w[q]
            BY <3>2 DEF Put
        <3>4. /\ \A q \in DOMAIN waiting'[r] : \/ q \in DOMAIN waiting[r] /\ waiting'[r][q] = waiting[r][q]
                                               \/ waiting'[r][q] = <<>>
              /\ \A q \in DOMAIN waiting[r] : q \in DOMAIN waiting'[r] /\ waiting'[r][q] = waiting[r][q]
            BY <3>1, <3>3
        <3> QED BY <2>1, <3>4
    <2> QED BY <2>3, <2>4, <2>5
<1>9. \A x : (\E q \in DOMAIN waiting'[r] : Has(waiting'[r][q], "on_receive_proposal", x))
                <=> (\E q \in DOMAIN waiting[r] : Has(waiting[r][q], "on_receive_proposal", x))
    BY <1>8, HasNone
<1>10. \A x : Pending(r, x)' <=> Pending(r, x)
    BY <1>1, <1>3, <1>7, <1>9 DEF Pending
<1>11. SignedOnly(r) => SignedOnly(r)'
    BY <1>1, <1>7, <1>8 DEF SignedOnly
<1> QED BY <1>8, <1>10, <1>11 DEF Flows

\* A handler that calls nothing of a proposal, and leaves the callbacks alone.
LEMMA QuietFlow ==
    ASSUME NetInv, NEW r \in Replica, NEW calls, NEW b,
           stack[r] # <<>>, calls \in Seq(Call), Then(r, calls),
           Top(r).op # "await_delivery", Top(r).blk = b,
           \A x : ~ Has(calls, "await_delivery", x) /\ ~ Has(calls, "on_receive_proposal", x),
           \A x : (\E q \in DOMAIN waiting'[r] : Has(waiting'[r][q], "on_receive_proposal", x))
                    <=> (\E q \in DOMAIN waiting[r] : Has(waiting[r][q], "on_receive_proposal", x))
    PROVE  /\ \A x : Pending(r, x)' => Pending(r, x)
           /\ \A x : Pending(r, x) => \/ Pending(r, x)'
                                      \/ Top(r).op = "on_receive_proposal" /\ x = b
BY HasThen DEF Pending

\* The callback of async_fetch_blk.
LEMMA VerifyFlow ==
    ASSUME NetInv, Grows, NEW r \in Replica, Verify(r)
    PROVE  Flows(r)
<1>1. PICK b, p, op : b = Top(r).blk /\ p = Top(r).peer /\ op = "verify"
    OBVIOUS
<1>2. /\ b \in Hash /\ b \in Known /\ p \in Replica /\ b \in delivered[p]
      /\ stack[r] # <<>> /\ Top(r).op = "verify"
    BY <1>1, TopFacts DEF Verify
<1>3. UNCHANGED <<delivered, need, waiting, proposer, impeachments, losses, signed, storage>>
    BY DEF Verify, vars, counters
<1>4. CASE b \notin signed[r]
    <2>1. UNCHANGED stack
        BY <1>1, <1>4 DEF Verify
    <2> QED BY <1>3, <2>1 DEF Flows, Pending, SignedOnly
<1>5. CASE b \in signed[r]
    <2>1. PICK calls : calls = VerifyCalls(b, p)
        OBVIOUS
    <2>2. Then(r, calls)
        BY <1>1, <1>5, <2>1 DEF Verify, VerifyCalls
    <2>3. /\ calls \in Seq(Call)
          /\ \A i \in DOMAIN calls : \/ calls[i].op = "async_deliver"
                                     \/ calls[i].op = "all" /\ calls[i].blk = b
        BY <1>2, <2>1, VerifyCallsFacts
    <2>4. \A o, x : Has(calls, o, x) => o = "async_deliver" \/ (o = "all" /\ x = b)
        BY <2>3 DEF Has, CallsAt
    <2>5. \A o, x : Has(stack'[r], o, x) => Has(calls, o, x) \/ Has(stack[r], o, x)
        BY <1>2, <2>2, <2>3, HasThen
    <2>6. /\ \A x : Pending(r, x)' => Pending(r, x)
          /\ \A x : Pending(r, x) => Pending(r, x)' \/ Top(r).op = "on_receive_proposal"
        BY <1>1, <1>2, <1>3, <2>2, <2>3, <2>4, QuietFlow
    <2>7. SignedOnly(r) => SignedOnly(r)'
        BY <1>3, <1>5, <2>4, <2>5 DEF SignedOnly
    <2> QED BY <1>2, <1>3, <2>6, <2>7 DEF Flows
<1> QED BY <1>4, <1>5

\* promise::all.
LEMMA AllFlow ==
    ASSUME NetInv, Grows, NEW r \in Replica, All(r)
    PROVE  Flows(r)
<1>1. PICK b, p, op, type, ps : /\ b = Top(r).blk /\ p = Top(r).peer /\ op = "on_deliver"
                                /\ type = "all_then" /\ ps = Undelivered(r, b)
    OBVIOUS
<1>2. b \in Hash /\ p \in Replica /\ stack[r] # <<>> /\ Top(r).op = "all"
    BY <1>1, TopFacts DEF All
<1>3. /\ UNCHANGED <<delivered, proposer, impeachments, losses, signed, storage>>
      /\ DOMAIN waiting = Replica /\ DOMAIN need = Replica
      /\ op \in Op /\ type \in Op
    BY <1>1 DEF All, vars, counters, NetInv, TablesOK, Op
<1>4. Has(stack[r], "all", b)
    <2>1. 1 \in DOMAIN stack[r] /\ stack[r][1] = Top(r)
        BY <1>2 DEF NetInv, ReplicaOK, StackOK, Top
    <2> QED BY <1>1, <1>2, <2>1 DEF Has, CallsAt
<1>5. CASE ps = {}
    <2>1. PICK calls : calls = Invoke(op, b, p)
        OBVIOUS
    <2>2. Then(r, calls) /\ UNCHANGED <<waiting, need>>
        BY <1>1, <1>5, <2>1 DEF All
    <2>3. calls \in Seq(Call) /\ \A o, x : Has(calls, o, x) <=> (o = op /\ x = b)
        BY <1>2, <1>3, <2>1, HasOne
    <2>4. /\ \A x : Pending(r, x)' => Pending(r, x)
          /\ \A x : Pending(r, x) => Pending(r, x)' \/ Top(r).op = "on_receive_proposal"
        BY <1>1, <1>2, <2>2, <2>3, QuietFlow
    <2>5. \A o, x : Has(stack'[r], o, x) => (o = op /\ x = b) \/ Has(stack[r], o, x)
        BY <1>2, <2>2, <2>3, HasThen
    <2>6. SignedOnly(r) => SignedOnly(r)'
        BY <1>2, <1>3, <1>4, <2>2, <2>5 DEF SignedOnly
    <2> QED BY <1>2, <1>3, <2>4, <2>6 DEF Flows
<1>6. CASE ps # {}
    <2>1. PICK calls, n, call : calls = <<>> /\ n = Cardinality(ps) /\ call = Invoke(type, b, p)
        OBVIOUS
    <2>2. /\ Then(r, calls) /\ need'[r] = Put(need[r], b, n)
          /\ waiting'[r] = [x \in DOMAIN waiting[r] |-> IF x \in ps THEN waiting[r][x] \o call
                                                                   ELSE waiting[r][x]]
        BY <1>1, <1>3, <1>6, <2>1 DEF All
    <2>3. calls \in Seq(Call) /\ \A o, x : ~ Has(calls, o, x)
        BY <2>1, HasNone
    <2>4. call \in Seq(Call) /\ \A o, x : Has(call, o, x) => o = "all_then"
        BY <1>1, <1>2, <1>3, <2>1, HasOne
    <2>5. ASSUME NEW q \in DOMAIN waiting[r], NEW x
          PROVE  Has(waiting'[r][q], "on_receive_proposal", x)
                     <=> Has(waiting[r][q], "on_receive_proposal", x)
        <3>1. PICK w : w = waiting[r][q]
            OBVIOUS
        <3>2. w \in Seq(Call)
            BY <3>1 DEF NetInv, ReplicaOK, WaitingOK
        <3>3. \A o : Has(w \o call, o, x) <=> Has(w, o, x) \/ Has(call, o, x)
            BY <2>4, <3>2, HasConcat
        <3> QED BY <2>2, <2>4, <3>1, <3>3
    <2>6. DOMAIN waiting'[r] = DOMAIN waiting[r]
        BY <2>2
    <2>7. /\ \A x : Pending(r, x)' => Pending(r, x)
          /\ \A x : Pending(r, x) => Pending(r, x)' \/ Top(r).op = "on_receive_proposal"
        BY <1>1, <1>2, <2>2, <2>3, <2>5, <2>6, QuietFlow
    <2>8. \A o, x : Has(stack'[r], o, x) => Has(stack[r], o, x)
        BY <1>2, <2>2, <2>3, HasThen
    <2>9. DOMAIN need'[r] = DOMAIN need[r] \cup {b}
        BY <2>2 DEF Put
    <2>10. SignedOnly(r) => SignedOnly(r)'
        BY <1>2, <1>3, <1>4, <2>8, <2>9 DEF SignedOnly
    <2> QED BY <1>2, <1>3, <2>7, <2>10 DEF Flows
<1> QED BY <1>5, <1>6

\* One parent is delivered.
LEMMA AllThenFlow ==
    ASSUME NetInv, Grows, NEW r \in Replica, AllThen(r)
    PROVE  Flows(r)
<1>1. PICK b, p, op : b = Top(r).blk /\ p = Top(r).peer /\ op = "on_deliver"
    OBVIOUS
<1>2. b \in Hash /\ p \in Replica /\ stack[r] # <<>> /\ Top(r).op = "all_then" /\ op \in Op
    BY <1>1, TopFacts DEF AllThen, Op
<1>3. b \in DOMAIN need[r]
    BY <1>1, <1>2, TopTokens DEF AllThen
<1>4. /\ UNCHANGED <<delivered, waiting, proposer, impeachments, losses, signed, storage>>
      /\ DOMAIN need = Replica
    BY DEF AllThen, vars, counters, NetInv, TablesOK
<1>5. DOMAIN need'[r] \subseteq DOMAIN need[r]
    <2>1. \/ need' = [need EXCEPT ![r] = Erase(@, b)]
          \/ need' = [need EXCEPT ![r][b] = @ - 1]
        BY <1>1 DEF AllThen
    <2> QED BY <1>4, <2>1 DEF Erase
<1>6. PICK calls : /\ Then(r, calls)
                   /\ calls \in {<<>>, Invoke(op, b, p)}
    BY <1>1 DEF AllThen
<1>7. calls \in Seq(Call) /\ \A o, x : Has(calls, o, x) => o = op /\ x = b
    <2>1. CASE calls = <<>>
        BY <2>1, HasNone
    <2>2. CASE calls = Invoke(op, b, p)
        BY <1>2, <2>2, HasOne
    <2> QED BY <1>6, <2>1, <2>2
<1>8. /\ \A x : Pending(r, x)' => Pending(r, x)
      /\ \A x : Pending(r, x) => Pending(r, x)' \/ Top(r).op = "on_receive_proposal"
    BY <1>1, <1>2, <1>4, <1>6, <1>7, QuietFlow
<1>9. \A o, x : Has(stack'[r], o, x) => (o = op /\ x = b) \/ Has(stack[r], o, x)
    BY <1>2, <1>6, <1>7, HasThen
<1>10. SignedOnly(r) => SignedOnly(r)'
    BY <1>2, <1>3, <1>4, <1>5, <1>9 DEF SignedOnly
<1> QED BY <1>2, <1>4, <1>8, <1>10 DEF Flows

\* E2CBase::on_deliver_blk.
LEMMA DeliverFlow ==
    ASSUME NetInv, Grows, NEW r \in Replica, BOnDeliverBlk(r)
    PROVE  Flows(r)
<1>1. PICK b, calls : b = Top(r).blk /\ calls = waiting[r][b]
    OBVIOUS
<1>2. /\ b \in Hash /\ stack[r] # <<>> /\ Top(r).op = "on_deliver"
      /\ b \in DOMAIN waiting[r] /\ DOMAIN waiting = Replica /\ TypeOK
    <2>1. PICK op : op = "on_deliver"
        OBVIOUS
    <2>2. Running(r, op)
        BY <2>1 DEF BOnDeliverBlk
    <2>3. b \in Hash /\ stack[r] # <<>> /\ Top(r).op = "on_deliver"
        BY <1>1, <2>1, <2>2, TopFacts
    <2>4. b \in DOMAIN waiting[r]
        BY <1>1, <2>1, <2>2, <2>3, TopTokens
    <2> QED BY <2>3, <2>4 DEF NetInv, TablesOK, CoreInv
<1>3. /\ UNCHANGED <<need, proposer, impeachments, losses, signed, storage>>
      /\ delivered' = [delivered EXCEPT ![r] = @ \cup {b}]
      /\ Then(r, calls) /\ waiting'[r] = Erase(waiting[r], b)
    BY <1>1, <1>2 DEF BOnDeliverBlk, OnDeliverBlk, Deliver, counters
<1>4. calls \in Seq(Call) /\ \A o, x : Has(calls, o, x) => o \in {"all_then", "on_receive_proposal"}
    <2>1. /\ calls \in Seq(Call)
          /\ \A i \in DOMAIN calls : calls[i].op \in {"all_then", "on_receive_proposal"}
        BY <1>1, <1>2 DEF NetInv, ReplicaOK, WaitingOK
    <2> QED BY <2>1 DEF Has, CallsAt
<1>5. \A o, x : /\ Has(stack'[r], o, x) => Has(calls, o, x) \/ Has(stack[r], o, x)
                /\ Has(stack[r], o, x) => Has(stack'[r], o, x) \/ Top(r).op = o
                /\ Has(calls, o, x) => Has(stack'[r], o, x)
                /\ Top(r).op = o /\ Top(r).blk = x => Has(stack[r], o, x)
    BY <1>2, <1>3, <1>4, HasThen
<1>6. /\ \A q \in DOMAIN waiting'[r] : q \in DOMAIN waiting[r] /\ waiting'[r][q] = waiting[r][q]
      /\ \A q \in DOMAIN waiting[r] : \/ q \in DOMAIN waiting'[r] /\ waiting'[r][q] = waiting[r][q]
                                      \/ waiting[r][q] = calls
    BY <1>1, <1>3 DEF Erase
<1>7. ASSUME NEW x PROVE Pending(r, x)' <=> Pending(r, x)
    <2>1. ASSUME Pending(r, x)' PROVE Pending(r, x)
        BY <1>1, <1>2, <1>4, <1>5, <1>6, <2>1 DEF Pending
    <2>2. ASSUME Pending(r, x) PROVE Pending(r, x)'
        BY <1>2, <1>5, <1>6, <2>2 DEF Pending
    <2> QED BY <2>1, <2>2
<1>8. SignedOnly(r) => SignedOnly(r)'
    <2>1. Has(stack[r], "on_deliver", b)
        BY <1>1, <1>2, <1>5
    <2>2. delivered'[r] = delivered[r] \cup {b}
        BY <1>2, <1>3 DEF TypeOK
    <2>3. \A x : /\ Has(stack'[r], "all", x) => Has(stack[r], "all", x)
                 /\ Has(stack'[r], "on_deliver", x) => Has(stack[r], "on_deliver", x)
        BY <1>4, <1>5
    <2> QED BY <1>2, <1>3, <2>1, <2>2, <2>3 DEF SignedOnly
<1> QED BY <1>3, <1>7, <1>8 DEF Flows

\* on_receive_proposal.
LEMMA ReceiveFlow ==
    ASSUME NetInv, Grows, NEW r \in Replica, BOnReceiveProposal(r)
    PROVE  Flows(r)
<1>1. PICK b, op, calls : b = Top(r).blk /\ op = "on_receive_proposal" /\ calls = <<>>
    OBVIOUS
<1>2. Running(r, op) /\ stack[r] # <<>> /\ Top(r).op = op /\ Then(r, calls)
    BY <1>1, TopFacts DEF BOnReceiveProposal
<1>3. calls \in Seq(Call) /\ \A o, x : ~ Has(calls, o, x)
    BY <1>1, HasNone
<1>4. UNCHANGED <<delivered, waiting, need, proposer, impeachments, losses, signed, storage>>
    BY DEF BOnReceiveProposal, OnReceiveProposal, vars, counters
<1>5. /\ \A x : Pending(r, x)' => Pending(r, x)
      /\ \A x : Pending(r, x) => Pending(r, x)' \/ (Top(r).op = op /\ x = b)
    BY <1>1, <1>2, <1>3, <1>4, QuietFlow
<1>6. \A o, x : Has(stack'[r], o, x) => Has(stack[r], o, x)
    BY <1>2, <1>3, HasThen
<1>7. SignedOnly(r) => SignedOnly(r)'
    BY <1>4, <1>6 DEF SignedOnly
<1> QED BY <1>1, <1>2, <1>4, <1>5, <1>7 DEF Flows

\* The end of propose_handler.
LEMMA AwaitFlow ==
    ASSUME NetInv, Grows, NEW r \in Replica, AwaitDelivery(r)
    PROVE  Flows(r)
<1>1. PICK b, p, op, next : /\ b = Top(r).blk /\ p = Top(r).peer
                            /\ op = "await_delivery" /\ next = "on_receive_proposal"
    OBVIOUS
<1>2. /\ Running(r, op) /\ stack[r] # <<>> /\ Top(r).op = op /\ b \in Hash /\ p \in Replica
      /\ b \in delivered[r] \cup DOMAIN waiting[r]
      /\ next \in Op /\ DOMAIN waiting = Replica
    BY <1>1, TopFacts DEF AwaitDelivery, Op, NetInv, TablesOK
<1>3. UNCHANGED <<delivered, need, proposer, impeachments, losses, signed, storage>>
    BY DEF AwaitDelivery, vars, counters
<1>4. PICK call, none : call = Invoke(next, b, p) /\ none = <<>>
    OBVIOUS
<1>5. /\ call \in Seq(Call) /\ \A o, x : Has(call, o, x) <=> (o = next /\ x = b)
      /\ none \in Seq(Call) /\ \A o, x : ~ Has(none, o, x)
    BY <1>2, <1>4, HasOne, HasNone
<1>6. CASE b \in delivered[r]
    <2>1. Then(r, call) /\ waiting' = waiting
        BY <1>1, <1>4, <1>6 DEF AwaitDelivery
    <2>2. \A o, x : /\ Has(stack'[r], o, x) => Has(call, o, x) \/ Has(stack[r], o, x)
                    /\ Has(stack[r], o, x) => Has(stack'[r], o, x) \/ (Top(r).op = o /\ Top(r).blk = x)
                    /\ Has(call, o, x) => Has(stack'[r], o, x)
                    /\ Top(r).op = o /\ Top(r).blk = x => Has(stack[r], o, x)
        BY <1>2, <1>5, <2>1, HasThen
    <2>3. \A x : Pending(r, x)' <=> Pending(r, x)
        BY <1>1, <1>2, <1>5, <2>1, <2>2 DEF Pending
    <2>4. SignedOnly(r) => SignedOnly(r)'
        BY <1>1, <1>3, <1>5, <2>2 DEF SignedOnly
    <2> QED BY <1>3, <2>3, <2>4 DEF Flows
<1>7. CASE b \notin delivered[r]
    <2>1. Then(r, none) /\ waiting' = [waiting EXCEPT ![r][b] = @ \o call] /\ b \in DOMAIN waiting[r]
        BY <1>1, <1>2, <1>4, <1>7 DEF AwaitDelivery
    <2>2. \A o, x : /\ Has(stack'[r], o, x) => Has(stack[r], o, x)
                    /\ Has(stack[r], o, x) => Has(stack'[r], o, x) \/ (Top(r).op = o /\ Top(r).blk = x)
                    /\ Top(r).op = o /\ Top(r).blk = x => Has(stack[r], o, x)
        BY <1>2, <1>5, <2>1, HasThen
    <2>3. /\ DOMAIN waiting'[r] = DOMAIN waiting[r]
          /\ waiting'[r][b] = waiting[r][b] \o call
          /\ \A q \in DOMAIN waiting[r] \ {b} : waiting'[r][q] = waiting[r][q]
        BY <1>2, <2>1
    <2>4. waiting[r][b] \in Seq(Call)
        BY <2>1 DEF NetInv, ReplicaOK, WaitingOK
    <2>5. \A o, x : Has(waiting'[r][b], o, x) <=> Has(waiting[r][b], o, x) \/ (o = next /\ x = b)
        <3>1. PICK w : w = waiting[r][b]
            OBVIOUS
        <3>2. \A o, x : Has(w \o call, o, x) <=> Has(w, o, x) \/ Has(call, o, x)
            BY <1>5, <2>4, <3>1, HasConcat
        <3> QED BY <1>5, <2>3, <3>1, <3>2
    <2>6. ASSUME NEW x PROVE Pending(r, x)' <=> Pending(r, x)
        <3>1. ASSUME Pending(r, x)' PROVE Pending(r, x)
            BY <1>1, <1>2, <2>1, <2>2, <2>3, <2>5, <3>1 DEF Pending
        <3>2. ASSUME Pending(r, x) PROVE Pending(r, x)'
            BY <1>1, <1>2, <2>1, <2>2, <2>3, <2>5, <3>2 DEF Pending
        <3> QED BY <3>1, <3>2
    <2>7. SignedOnly(r) => SignedOnly(r)'
        BY <1>1, <1>3, <2>2 DEF SignedOnly
    <2> QED BY <1>3, <2>6, <2>7 DEF Flows
<1> QED BY <1>6, <1>7

\* Every call of a handler passes the proposals on that way.
LEMMA HandlerFlow ==
    ASSUME NetInv, Grows, NEW r \in Replica, HandlerStep(r)
    PROVE  Flows(r)
BY AsyncDeliverFlow, VerifyFlow, AllFlow, AllThenFlow, DeliverFlow, AwaitFlow, ReceiveFlow
   DEF HandlerStep

\* b is the block of the next message from s to r.
Incoming(s, r, b) == b = Head(chan[<<s, r>>]).blk

\* A proposal comes in.
LEMMA ProposalFlow ==
    ASSUME NetInv, Grows, NEW r \in Replica, NEW s \in Replica \ {r}, ProposeHandler(s, r),
           NEW b, Incoming(s, r, b)
    PROVE  /\ \A x : Pending(r, x)' => \/ Pending(r, x)
                                       \/ x = b /\ blocks[b].proposer = proposer[r]
           /\ \A x : Pending(r, x) => Pending(r, x)'
           /\ blocks[b].proposer = proposer[r] => Pending(r, b)'
           /\ signed'[r] \subseteq signed[r] \cup {b} /\ signed[r] \subseteq signed'[r]
           /\ SignedOnly(r) => SignedOnly(r)'
<1>1. PICK deliver, await, type : deliver = "async_deliver" /\ await = "await_delivery" /\ type = "propose"
    OBVIOUS
<1>2. stack[r] = <<>> /\ b \in Hash /\ DOMAIN stack = Replica /\ DOMAIN signed = Replica
    <2>1. Receives(s, r, type)
        BY <1>1 DEF ProposeHandler
    <2> QED BY <2>1, ReceivedFacts DEF NetInv, TablesOK, Incoming
<1>3. /\ UNCHANGED <<delivered, waiting, need>>
      /\ signed' \in {signed, [signed EXCEPT ![r] = @ \cup {b}]}
      /\ stack'[r] = IF blocks[b].proposer # proposer[r] THEN <<>>
                     ELSE Invoke(deliver, b, s) \o Invoke(await, b, s)
    BY <1>1, <1>2 DEF ProposeHandler, vars, Incoming
<1>4. signed'[r] \subseteq signed[r] \cup {b} /\ signed[r] \subseteq signed'[r]
    BY <1>2, <1>3
<1>5. /\ \A o, x : Has(stack'[r], o, x) => o \in {deliver, await} /\ x = b
      /\ \A x : Has(stack'[r], await, x) <=> blocks[b].proposer = proposer[r] /\ x = b
    <2>1. CASE blocks[b].proposer # proposer[r]
        <3>1. PICK none : none = <<>>
            OBVIOUS
        <3>2. stack'[r] = none /\ \A o, x : ~ Has(none, o, x)
            BY <1>3, <2>1, <3>1, HasNone
        <3> QED BY <2>1, <3>2
    <2>2. CASE blocks[b].proposer = proposer[r]
        <3>1. PICK c, d : c = Invoke(deliver, b, s) /\ d = Invoke(await, b, s)
            OBVIOUS
        <3>2. deliver \in Op /\ await \in Op /\ s \in Replica
            BY <1>1 DEF Op
        <3>3. /\ c \in Seq(Call) /\ d \in Seq(Call)
              /\ \A o, x : Has(c, o, x) <=> (o = deliver /\ x = b)
              /\ \A o, x : Has(d, o, x) <=> (o = await /\ x = b)
            <4>1. b \in Hash
                BY <1>2
            <4>2. \A op \in Op : /\ Invoke(op, b, s) \in Seq(Call)
                                 /\ \A o, x : Has(Invoke(op, b, s), o, x) <=> (op = o /\ x = b)
                BY <3>2, <4>1, HasOne
            <4> QED BY <3>1, <3>2, <4>2
        <3>4. \A o, x : Has(c \o d, o, x) <=> Has(c, o, x) \/ Has(d, o, x)
            BY <3>3, HasConcat
        <3>5. stack'[r] = c \o d
            BY <1>3, <2>2, <3>1
        <3>6. deliver # await
            BY <1>1
        <3>7. \A o, x : Has(stack'[r], o, x) <=> Has(c, o, x) \/ Has(d, o, x)
            BY <3>4, <3>5
        <3> QED BY <2>2, <3>3, <3>6, <3>7
    <2> QED BY <2>1, <2>2
<1>6. \A o, x : ~ Has(stack[r], o, x)
    BY <1>2, HasNone
<1>7. SignedOnly(r) => SignedOnly(r)'
    BY <1>1, <1>3, <1>4, <1>5 DEF SignedOnly
<1> QED BY <1>1, <1>3, <1>4, <1>5, <1>6, <1>7 DEF Pending

\* What is pending is known.
LEMMA PendingKnown ==
    ASSUME NetInv, NEW r \in Replica, NEW x, Pending(r, x)
    PROVE  x \in Known /\ x \in Hash /\ x # Genesis
<1>1. /\ stack[r] \in Seq(Call)
      /\ \A i \in DOMAIN stack[r] : CallOK(r, stack[r][i])
      /\ \A q \in DOMAIN waiting[r] : \A i \in DOMAIN waiting[r][q] : CallOK(r, waiting[r][q][i])
    BY DEF NetInv, ReplicaOK, StackOK, WaitingOK
<1>2. PICK c : CallOK(r, c) /\ c.blk = x /\ c.op \in {"await_delivery", "on_receive_proposal"}
    <2>1. ASSUME Has(stack[r], "await_delivery", x) \/ Has(stack[r], "on_receive_proposal", x)
          PROVE  \E c : CallOK(r, c) /\ c.blk = x /\ c.op \in {"await_delivery", "on_receive_proposal"}
        BY <1>1, <2>1 DEF Has, CallsAt
    <2>2. ASSUME NEW q \in DOMAIN waiting[r], Has(waiting[r][q], "on_receive_proposal", x)
          PROVE  \E c : CallOK(r, c) /\ c.blk = x /\ c.op \in {"await_delivery", "on_receive_proposal"}
        BY <1>1, <2>2 DEF Has, CallsAt
    <2> QED BY <2>1, <2>2 DEF Pending
<1>3. TypeOK
    BY DEF NetInv, CoreInv
<1> QED BY <1>2, <1>3, CallKnown DEF CallOK

\* update adds one block at most.
LEMMA UpdateRange ==
    ASSUME NEW r \in Replica, NEW b, NEW ht, Update(r, b, ht), DOMAIN ht_blk_map = Replica
    PROVE  /\ Range(ht_blk_map'[r]) \subseteq Range(ht_blk_map[r]) \cup {b}
           /\ \A q \in Replica \ {r} : ht_blk_map'[q] = ht_blk_map[q]
<1>1. CASE HasHeight(r, ht)
    BY <1>1 DEF Update
<1>2. CASE ~ HasHeight(r, ht)
    <2>1. ht_blk_map' = [ht_blk_map EXCEPT ![r] = Put(@, ht, b)]
        BY <1>2 DEF Update
    <2>2. ht_blk_map'[r] = Put(ht_blk_map[r], ht, b)
        BY <2>1
    <2> QED BY <2>1, <2>2 DEF Put, Range
<1> QED BY <1>1, <1>2

\* What is filed or pending.
Concerns(r, x) == x \in Range(ht_blk_map[r]) \/ Pending(r, x)

\* r files or expects nothing but what its current proposer has proposed.
LEMMA PastKept ==
    ASSUME NetInv, Grows, NEW r \in Replica, PastOK(r), proposer'[r] = proposer[r],
           impeachments' = impeachments \/ impeachments' = impeachments + 1,
           \A x \in Hash \ {Genesis} :
               Concerns(r, x)' => Concerns(r, x) \/ blocks'[x].proposer = proposer[r]
    PROVE  PastOK(r)'
<1>1. impeachments \in Nat /\ TypeOK
    BY DEF NetInv, TablesOK, CoreInv
<1>2. PICK n \in 0..impeachments : \E view \in [0..n -> Replica] :
          /\ PathTo(r, n, view)
          /\ \A b \in Hash \ {Genesis} : Concerns(r, b) => blocks[b].proposer \in Range(view)
    BY DEF PastOK, Concerns
<1>3. PICK view \in [0..n -> Replica] :
          /\ PathTo(r, n, view)
          /\ \A b \in Hash \ {Genesis} : Concerns(r, b) => blocks[b].proposer \in Range(view)
    BY <1>2
<1>4. n \in 0..impeachments' /\ PathTo(r, n, view)'
    BY <1>1, <1>3 DEF PathTo
<1>5. proposer[r] \in Range(view)
    BY <1>1, <1>3 DEF PathTo, Range
<1>6. ASSUME NEW b \in Hash \ {Genesis}, Concerns(r, b)' PROVE blocks'[b].proposer \in Range(view)
    <2>1. CASE Concerns(r, b)
        <3>1. b \in Known
            BY <1>1, <2>1, PendingKnown DEF Concerns, TypeOK, Range
        <3> QED BY <1>3, <2>1, <3>1 DEF Grows
    <2> QED BY <1>5, <1>6, <2>1
<1> QED BY <1>4, <1>6 DEF PastOK, Concerns

\* The pace maker of r moves on.
LEMMA PastRotates ==
    ASSUME NetInv, NEW r \in Replica, PastOK(r), Impeach(r)
    PROVE  PastOK(r)'
<1>1. /\ impeachments \in Nat /\ proposer \in [Replica -> Replica]
      /\ impeachments' = impeachments + 1 /\ proposer'[r] = Rotation[proposer[r]]
      /\ UNCHANGED <<blocks, ht_blk_map, stack, waiting>>
    BY DEF NetInv, TablesOK, Impeach, vars
<1>2. PICK n \in 0..impeachments : \E old \in [0..n -> Replica] :
          /\ PathTo(r, n, old)
          /\ \A b \in Hash \ {Genesis} :
                b \in Range(ht_blk_map[r]) \/ Pending(r, b) => blocks[b].proposer \in Range(old)
    BY DEF PastOK
<1>3. PICK old \in [0..n -> Replica] :
          /\ PathTo(r, n, old)
          /\ \A b \in Hash \ {Genesis} :
                b \in Range(ht_blk_map[r]) \/ Pending(r, b) => blocks[b].proposer \in Range(old)
    BY <1>2
<1>4. /\ n \in Nat /\ n + 1 \in 0..impeachments' /\ Rotation[proposer[r]] \in Replica
      /\ \A i \in 0..n : old[i] \in Replica
    BY <1>1, <1>3, RotationAssumption
<1>5. PICK view : view = [i \in 0..(n + 1) |-> IF i <= n THEN old[i] ELSE Rotation[proposer[r]]]
    OBVIOUS
<1>6. view \in [0..(n + 1) -> Replica]
    BY <1>4, <1>5
<1>7. /\ view[n + 1] = Rotation[proposer[r]] /\ n + 1 \in 0..(n + 1)
      /\ \A i \in 0..n : view[i] = old[i] /\ i \in 0..(n + 1)
    BY <1>4, <1>5
<1>8. ASSUME NEW i \in 1..(n + 1) PROVE view[i] = Rotation[view[i - 1]]
    <2>1. CASE i = n + 1
        BY <1>3, <1>4, <1>7, <2>1 DEF PathTo
    <2>2. CASE i # n + 1
        <3>1. i \in 1..n /\ i \in 0..n /\ i - 1 \in 0..n
            BY <1>4, <2>2
        <3>2. old[i] = Rotation[old[i - 1]]
            BY <1>3, <3>1 DEF PathTo
        <3>3. view[i] = old[i] /\ view[i - 1] = old[i - 1]
            BY <1>7, <3>1
        <3> QED BY <3>2, <3>3
    <2> QED BY <2>1, <2>2
<1>9. PathTo(r, n + 1, view)'
    <2>1. view[0] = FirstProposer
        BY <1>3, <1>4, <1>7 DEF PathTo
    <2>2. view[n + 1] = proposer'[r]
        BY <1>1, <1>7
    <2>3. \A i \in 1..(n + 1) : view[i] = Rotation[view[i - 1]]
        BY <1>8
    <2> QED BY <1>6, <2>1, <2>2, <2>3 DEF PathTo
<1>10. Range(old) \subseteq Range(view)
    <2>1. DOMAIN old = 0..n /\ DOMAIN view = 0..(n + 1)
        BY <1>3, <1>6
    <2> QED BY <1>7, <2>1 DEF Range
<1>11. \A b \in Hash \ {Genesis} : b \in Range(ht_blk_map'[r]) \/ Pending(r, b)' =>
          blocks'[b].proposer \in Range(view)
    BY <1>1, <1>3, <1>10 DEF Pending
<1> QED BY <1>4, <1>6, <1>9, <1>11 DEF PastOK

\* What an action of r leaves alone.
Own(r) ==
    \A q \in Replica \ {r} :
        /\ storage'[q] = storage[q] /\ signed'[q] = signed[q] /\ fetching'[q] = fetching[q]
        /\ waiting'[q] = waiting[q] /\ need'[q] = need[q] /\ stack'[q] = stack[q]
        /\ delivered'[q] = delivered[q] /\ proposer'[q] = proposer[q]
        /\ ht_blk_map'[q] = ht_blk_map[q]

\* A handler changes the tables of its own replica,
LEMMA HandlerOwn == ASSUME NetInv, NEW r \in Replica, HandlerStep(r) PROVE Own(r)
<1>1. /\ TablesOK /\ DOMAIN delivered = Replica /\ DOMAIN ht_blk_map = Replica
    BY DEF NetInv, CoreInv, TypeOK
<1>2. CASE AsyncDeliverBlk(r)
    BY <1>1, <1>2 DEF AsyncDeliverBlk, Then, Own, TablesOK, vars
<1>3. CASE Verify(r)
    BY <1>1, <1>3 DEF Verify, Then, Own, TablesOK, vars
<1>4. CASE All(r)
    BY <1>1, <1>4 DEF All, Then, Own, TablesOK, vars
<1>5. CASE AllThen(r)
    BY <1>1, <1>5 DEF AllThen, Then, Own, TablesOK, vars
<1>6. CASE BOnDeliverBlk(r)
    BY <1>1, <1>6 DEF BOnDeliverBlk, OnDeliverBlk, Deliver, Then, Own, TablesOK
<1>7. CASE AwaitDelivery(r)
    BY <1>1, <1>7 DEF AwaitDelivery, Then, Own, TablesOK, vars
<1>8. CASE BOnReceiveProposal(r)
    <2>1. \/ UNCHANGED vars
          \/ UNCHANGED delivered /\ Update(r, Top(r).blk, Height(Top(r).blk))
        BY <1>8 DEF BOnReceiveProposal, OnReceiveProposal
    <2>2. UNCHANGED delivered /\ \A q \in Replica \ {r} : ht_blk_map'[q] = ht_blk_map[q]
        BY <1>1, <2>1, UpdateRange DEF vars
    <2> QED BY <1>1, <1>8, <2>2 DEF BOnReceiveProposal, Then, Own, TablesOK
<1> QED BY <1>2, <1>3, <1>4, <1>5, <1>6, <1>7, <1>8 DEF HandlerStep

\* so does on_propose, which files nothing but its block,
LEMMA ProposeOwn ==
    ASSUME NetInv, NEW r \in Replica, NEW h \in Hash, BPropose(r, h)
    PROVE  Own(r) /\ Range(ht_blk_map'[r]) \subseteq Range(ht_blk_map[r]) \cup {h}
<1>1. TablesOK /\ DOMAIN delivered = Replica /\ DOMAIN ht_blk_map = Replica
    BY DEF NetInv, CoreInv, TypeOK
<1>2. PICK ht : Update(r, h, ht)
    BY DEF BPropose, OnPropose
<1> QED BY <1>1, <1>2, UpdateRange DEF BPropose, OnPropose, Deliver, Own, TablesOK

\* and so does a message handler, which files nothing.
LEMMA MessageOwn ==
    ASSUME NetInv, NEW r \in Replica, NEW s \in Replica \ {r}, HandleMessage(s, r)
    PROVE  Own(r) /\ UNCHANGED <<blocks, delivered, ht_blk_map, proposer, waiting, need, losses,
                                 impeachments>>
<1>1. TablesOK
    BY DEF NetInv
<1>2. CASE ProposeHandler(s, r)
    BY <1>1, <1>2 DEF ProposeHandler, Own, TablesOK, vars, counters
<1>3. CASE ReqBlkHandler(s, r)
    BY <1>1, <1>3 DEF ReqBlkHandler, Own, TablesOK, vars, counters
<1>4. CASE RespBlkHandler(s, r)
    BY <1>1, <1>4 DEF RespBlkHandler, Own, TablesOK, vars, counters
<1> QED BY <1>2, <1>3, <1>4 DEF HandleMessage

\* The steps that leave the handlers and the callbacks alone.
LEMMA StillFlow ==
    ASSUME UNCHANGED <<stack, waiting>>, NEW r, NEW x
    PROVE  Pending(r, x)' <=> Pending(r, x)
BY DEF Pending

\* A response continues with verify.
LEMMA RespFlow ==
    ASSUME NetInv, NEW r \in Replica, NEW s \in Replica \ {r}, RespBlkHandler(s, r)
    PROVE  /\ \A x : Pending(r, x)' <=> Pending(r, x)
           /\ UNCHANGED signed
           /\ SignedOnly(r) => SignedOnly(r)'
<1>1. PICK b : Incoming(s, r, b)
    BY DEF Incoming
<1>2. /\ stack[r] = <<>> /\ DOMAIN stack = Replica
    <2>1. Idle(r)
        BY DEF RespBlkHandler, Receives
    <2> QED BY <2>1 DEF Idle, NetInv, TablesOK
<1>3. UNCHANGED <<delivered, waiting, need, signed>> /\ stack'[r] = Fetch(r, b).then
    BY <1>1, <1>2 DEF RespBlkHandler, Incoming, vars
<1>4. \A o, x : Has(stack'[r], o, x) => o = "verify"
    <2>1. CASE b \in DOMAIN fetching[r]
        <3>1. PICK p : fetching[r][b].then = Invoke("verify", b, p)
            BY <2>1 DEF NetInv, ReplicaOK, FetchingOK
        <3>2. PICK c : c = [op |-> "verify", blk |-> b, peer |-> p]
            OBVIOUS
        <3>3. stack'[r] = <<c>> /\ c.op = "verify"
            BY <1>3, <2>1, <3>1, <3>2 DEF Fetch, Invoke
        <3>4. \A i \in DOMAIN <<c>> : <<c>>[i] = c
            OBVIOUS
        <3> QED BY <3>3, <3>4 DEF Has, CallsAt
    <2>2. CASE b \notin DOMAIN fetching[r]
        BY <1>3, <2>2, HasNone DEF Fetch
    <2> QED BY <2>1, <2>2
<1>5. \A o, x : ~ Has(stack[r], o, x)
    BY <1>2, HasNone
<1> QED BY <1>3, <1>4, <1>5 DEF Pending, SignedOnly

\* The steps outside of the handlers, and those between them, in which nothing is
\* filed or expected and nothing gets past verify.
LEMMA StillPast ==
    ASSUME NetInv, Grows, NEW r \in Replica, PastOK(r), SignedOnly(r),
           UNCHANGED <<proposer, ht_blk_map, stack, waiting, need, signed, delivered>>,
           impeachments' = impeachments
    PROVE  PastOK(r)' /\ SignedOnly(r)'
<1>1. \A x : Concerns(r, x)' => Concerns(r, x)
    BY StillFlow DEF Concerns
<1> QED BY <1>1, PastKept DEF SignedOnly

\* A replica that does not act.
LEMMA OtherPast ==
    ASSUME NetInv, Grows, NEW r \in Replica, Own(r), NEW q \in Replica \ {r},
           PastOK(q), SignedOnly(q),
           impeachments' = impeachments \/ impeachments' = impeachments + 1
    PROVE  PastOK(q)' /\ SignedOnly(q)'
<1>1. \A x : Concerns(q, x)' => Concerns(q, x)
    BY DEF Concerns, Pending, Own
<1>2. proposer'[q] = proposer[q]
    BY DEF Own
<1>3. PastOK(q)'
    BY <1>1, <1>2, PastKept
<1> QED BY <1>3 DEF SignedOnly, Own

\* Calls of a handler file what was pending, of a proposer that r has come to.
LEMMA HandlerPast ==
    ASSUME NetInv, Grows, NEW r \in Replica, PastOK(r), SignedOnly(r), HandlerStep(r)
    PROVE  PastOK(r)' /\ SignedOnly(r)' /\ impeachments' = impeachments
<1>1. Flows(r)
    BY HandlerFlow
<1>2. SignedOnly(r)' /\ impeachments' = impeachments /\ proposer' = proposer
    BY <1>1 DEF Flows
<1>3. ASSUME NEW x, Concerns(r, x)' PROVE Concerns(r, x)
    <2>1. CASE ~ BOnReceiveProposal(r)
        <3>1. ht_blk_map' = ht_blk_map
            BY <2>1 DEF HandlerStep, AsyncDeliverBlk, Verify, All, AllThen, BOnDeliverBlk, OnDeliverBlk,
                        AwaitDelivery, vars
        <3> QED BY <1>1, <1>3, <3>1 DEF Flows, Concerns
    <2>2. CASE BOnReceiveProposal(r)
        <3>1. PICK b, op : b = Top(r).blk /\ op = "on_receive_proposal"
            OBVIOUS
        <3>2. Pending(r, b)
            <4>1. stack[r] # <<>> /\ Top(r).op = op
                BY <2>2, <3>1 DEF BOnReceiveProposal, Running, Top
            <4>2. 1 \in DOMAIN stack[r] /\ stack[r][1] = Top(r)
                BY <4>1 DEF NetInv, ReplicaOK, StackOK, Top
            <4> QED BY <3>1, <4>1, <4>2 DEF Pending, Has, CallsAt
        <3>3. Range(ht_blk_map'[r]) \subseteq Range(ht_blk_map[r]) \cup {b}
            <4>1. DOMAIN ht_blk_map = Replica
                BY DEF NetInv, CoreInv, TypeOK
            <4>2. UNCHANGED vars \/ Update(r, b, Height(b))
                BY <2>2, <3>1 DEF BOnReceiveProposal, OnReceiveProposal
            <4>3. CASE UNCHANGED vars
                BY <4>3 DEF vars
            <4> QED BY <4>1, <4>2, <4>3, UpdateRange
        <3> QED BY <1>1, <1>3, <3>2, <3>3 DEF Flows, Concerns
    <2> QED BY <2>1, <2>2
<1> QED BY <1>2, <1>3, PastKept

\* on_propose files a block of the proposer in force, which is r.
LEMMA ProposePast ==
    ASSUME NetInv, Grows, NEW r \in Replica, NEW h \in Hash, PastOK(r), SignedOnly(r), BPropose(r, h)
    PROVE  PastOK(r)' /\ SignedOnly(r)' /\ impeachments' = impeachments
<1>1. /\ UNCHANGED <<stack, waiting, need, proposer, impeachments>> /\ proposer[r] = r
      /\ blocks'[h].proposer = r
      /\ signed'[r] = signed[r] \cup {h} /\ delivered'[r] = delivered[r] \cup {h}
    <2>1. DOMAIN signed = Replica /\ DOMAIN delivered = Replica
        BY DEF NetInv, TablesOK, CoreInv, TypeOK
    <2> QED BY <2>1 DEF BPropose, OnPropose, Deliver, counters, Put
<1>2. \A x : Concerns(r, x)' => Concerns(r, x) \/ x = h
    BY <1>1, StillFlow, ProposeOwn DEF Concerns
<1>3. PastOK(r)'
    BY <1>1, <1>2, PastKept
<1> QED BY <1>1, <1>3 DEF SignedOnly

\* propose_handler lets a block of the proposer in force pass, and only that.
LEMMA MessagePast ==
    ASSUME NetInv, Grows, NEW r \in Replica, NEW s \in Replica \ {r}, PastOK(r), SignedOnly(r),
           HandleMessage(s, r)
    PROVE  PastOK(r)' /\ SignedOnly(r)' /\ impeachments' = impeachments
<1>1. UNCHANGED <<blocks, delivered, ht_blk_map, proposer, waiting, need, losses, impeachments>>
    BY MessageOwn
<1>2. CASE ProposeHandler(s, r)
    <2>1. PICK b : Incoming(s, r, b)
        BY DEF Incoming
    <2>2. /\ SignedOnly(r)'
          /\ \A x : Pending(r, x)' => Pending(r, x) \/ (x = b /\ blocks[b].proposer = proposer[r])
        BY <1>2, <2>1, ProposalFlow
    <2>3. \A x : Concerns(r, x)' => Concerns(r, x) \/ blocks'[x].proposer = proposer[r]
        BY <1>1, <2>2 DEF Concerns
    <2> QED BY <1>1, <2>2, <2>3, PastKept
<1>3. CASE RespBlkHandler(s, r)
    <2>1. SignedOnly(r)' /\ \A x : Pending(r, x)' => Pending(r, x)
        BY <1>3, RespFlow
    <2>2. \A x : Concerns(r, x)' => Concerns(r, x)
        BY <1>1, <2>1 DEF Concerns
    <2> QED BY <1>1, <2>1, <2>2, PastKept
<1>4. CASE ReqBlkHandler(s, r)
    BY <1>4, StillPast DEF ReqBlkHandler, vars, counters
<1> QED BY <1>2, <1>3, <1>4 DEF HandleMessage

\* Every step keeps it: no block passes propose_handler that the pace maker refuses.
LEMMA PastStep == NetInv /\ PastInv /\ [BNext]_bvars => PastInv'
<1> SUFFICES ASSUME NetInv, PastInv, [BNext]_bvars PROVE PastInv'
    OBVIOUS
<1>1. Grows
    <2>1. CoreInv /\ DeliveredClosed /\ TypeOK
        BY DEF NetInv, CoreInv
    <2> QED BY <2>1, BStepIsCoreStep, CoreGrows
<1>2. \A r \in Replica : PastOK(r) /\ SignedOnly(r)
    BY DEF PastInv
<1>3. ASSUME NEW r \in Replica, Own(r), PastOK(r)' /\ SignedOnly(r)',
             impeachments' = impeachments \/ impeachments' = impeachments + 1
      PROVE  PastInv'
    <2>1. \A q \in Replica \ {r} : PastOK(q)' /\ SignedOnly(q)'
        BY <1>1, <1>2, <1>3, OtherPast
    <2> QED BY <1>3, <2>1 DEF PastInv
<1>4. ASSUME NEW r \in Replica, HandlerStep(r) PROVE PastInv'
    BY <1>1, <1>2, <1>3, <1>4, HandlerOwn, HandlerPast
<1>5. ASSUME NEW r \in Replica, NEW h \in Hash, BPropose(r, h) PROVE PastInv'
    BY <1>1, <1>2, <1>3, <1>5, ProposeOwn, ProposePast
<1>6. ASSUME NEW r \in Replica, NEW s \in Replica \ {r}, HandleMessage(s, r) PROVE PastInv'
    BY <1>1, <1>2, <1>3, <1>6, MessageOwn, MessagePast
<1>7. ASSUME NEW r \in Replica, Impeach(r) PROVE PastInv'
    <2>1. /\ UNCHANGED <<blocks, delivered, ht_blk_map, storage, signed, fetching, waiting, need, stack>>
          /\ proposer' = [proposer EXCEPT ![r] = Rotation[@]] /\ impeachments' = impeachments + 1
        BY <1>7 DEF Impeach, vars
    <2>2. Own(r)
        BY <2>1 DEF Own, NetInv, TablesOK
    <2>3. PastOK(r)'
        BY <1>2, <1>7, PastRotates
    <2>4. SignedOnly(r)'
        BY <1>2, <2>1 DEF SignedOnly
    <2> QED BY <1>3, <2>1, <2>2, <2>3, <2>4
<1>8. ASSUME UNCHANGED <<proposer, ht_blk_map, stack, waiting, need, signed, delivered, impeachments>>
      PROVE  PastInv'
    BY <1>1, <1>2, <1>8, StillPast DEF PastInv
<1>9. ASSUME NEW r \in Replica,
             \/ BProposeNullParent(r)
             \/ \E b \in Hash : BCommitTimerCb(r, b) \/ FetchTimeout(r, b)
             \/ \E s \in Replica \ {r} : Lose(s, r)
      PROVE  UNCHANGED <<proposer, ht_blk_map, stack, waiting, need, signed, delivered, impeachments>>
    BY <1>9 DEF BProposeNullParent, OnProposeNullParent, BCommitTimerCb, CommitTimerCb, FetchTimeout, Lose,
                vars, baseVars, counters
<1>10. CASE UNCHANGED bvars
    BY <1>8, <1>10 DEF bvars, vars, baseVars, counters
<1> QED BY <1>4, <1>5, <1>6, <1>7, <1>8, <1>9, <1>10 DEF BNext

\* Nothing but b0 is filed when the replicas start.
LEMMA InitPast == BInit => PastInv
<1> SUFFICES ASSUME BInit, NEW r \in Replica PROVE PastOK(r) /\ SignedOnly(r)
    BY DEF PastInv
<1>1. /\ stack[r] = <<>> /\ DOMAIN waiting[r] = {} /\ DOMAIN need[r] = {} /\ impeachments = 0
      /\ delivered[r] = {Genesis} /\ proposer[r] = FirstProposer /\ Range(ht_blk_map[r]) = {Genesis}
    BY DEF BInit, Init, Empty, Range
<1>2. \A o, x : ~ Has(stack[r], o, x)
    BY <1>1, HasNone
<1>3. SignedOnly(r)
    BY <1>1, <1>2 DEF SignedOnly
<1>4. \A x \in Hash \ {Genesis} : ~ (x \in Range(ht_blk_map[r]) \/ Pending(r, x))
    BY <1>1, <1>2 DEF Pending
<1>5. PICK view : view = [i \in 0..0 |-> FirstProposer]
    OBVIOUS
<1>6. PathTo(r, 0, view) /\ view \in [0..0 -> Replica] /\ 0 \in 0..impeachments
    BY <1>1, <1>5, FirstProposerAssumption, ProposersAssumption DEF PathTo
<1> QED BY <1>3, <1>4, <1>6 DEF PastOK

\* A replica files no block of a proposer its own pace maker has not come to: the check
\* of propose_handler is enough, although blocks are filed by callbacks long after it,
\* when the pace maker may have been moved by the impeachment timer.
THEOREM FilesPastProposers == BSpec => []FiledFromPast
<1>1. NetInv /\ PastInv => FiledFromPast
    <2> SUFFICES ASSUME NetInv, PastInv, NEW r \in Replica
                 PROVE  \E n \in 0..impeachments : \E view \in [0..n -> Replica] :
                            /\ PathTo(r, n, view)
                            /\ \A b \in Range(ht_blk_map[r]) \ {Genesis} :
                                  blocks[b].proposer \in Range(view)
        BY DEF FiledFromPast, PathTo
    <2>1. Range(ht_blk_map[r]) \subseteq Hash
        BY DEF NetInv, CoreInv, TypeOK, Known, Range
    <2>2. PastOK(r)
        BY DEF PastInv
    <2> QED BY <2>1, <2>2 DEF PastOK
<1> QED BY <1>1, InitNetInv, NetInvStep, InitPast, PastStep, PTL DEF BSpec

-----------------------------------------------------------------------------
(* One replica proposes: the core is then E2CCore with this proposer alone, *)
(* whichever may propose later.                                             *)

First == INSTANCE E2CCoreProofs WITH Proposers <- {FirstProposer}

LEMMA FirstIsReplica == FirstProposer \in Replica
BY FirstProposerAssumption, ProposersAssumption

LEMMA FirstLeads ==
    /\ First!SingleProposer /\ First!Leader = FirstProposer
    /\ {FirstProposer} \subseteq Replica /\ Genesis \in Hash
<1>1. \E r \in Replica : {FirstProposer} = {r}
    BY FirstIsReplica
<1>2. (CHOOSE r \in Replica : r \in {FirstProposer}) = FirstProposer
    BY FirstIsReplica
<1> QED BY <1>1, <1>2, FirstIsReplica, GenesisAssumption DEF First!SingleProposer, First!Leader

\* The invariants of the core are those of E2CCoreLog for this proposer.
LEMMA FirstCore == First!CoreInv <=> CoreInv
BY DEF CoreInv, First!CoreInv, TypeOK, First!TypeOK, BlocksOK, First!BlocksOK, MapOK, First!MapOK,
       HighestFiled, First!HighestFiled, FiledIsPendingOrDecided, First!FiledIsPendingOrDecided,
       ExecutedOnce, First!ExecutedOnce, AlreadyHandled, First!AlreadyHandled, HasHeight,
       First!HasHeight, Height, First!Height, Parents, First!Parents, Known, First!Known, Block,
       First!Block, Range, First!Range

LEMMA FirstIsLeaderInv == First!LeaderInv <=> FirstInv
<1>1. First!LeaderFiledAll <=> FirstFiledAll
    BY FirstLeads DEF First!LeaderFiledAll, FirstFiledAll, AlreadyHandled, First!AlreadyHandled,
                      HasHeight, First!HasHeight, Height, First!Height, Known, First!Known
<1>2. First!LeaderContiguous <=> FirstContiguous
    BY FirstLeads DEF First!LeaderContiguous, FirstContiguous, Height, First!Height
<1>3. First!ParentsFiled <=> FirstParents
    BY FirstLeads DEF First!ParentsFiled, FirstParents, Height, First!Height, Known, First!Known,
                      Parents, First!Parents
<1>4. First!NeverAborts <=> NeverAborts
    BY DEF First!NeverAborts, NeverAborts
<1> QED BY <1>1, <1>2, <1>3, <1>4 DEF First!LeaderInv, FirstInv

\* A step in which nobody proposes is one of the core with any proposers.
LEMMA FirstWatches ==
    ASSUME TypeOK, [Next]_vars, UNCHANGED <<blocks, alive>>
    PROVE  [First!Next]_(First!vars)
<1>1. ASSUME NEW r \in Replica, NEW h, OnPropose(r, h) PROVE FALSE
    BY <1>1 DEF OnPropose, Put, Known
<1>2. ASSUME NEW r \in Replica, OnProposeNullParent(r) PROVE FALSE
    BY <1>2 DEF OnProposeNullParent, TypeOK
<1>3. ASSUME NEW r \in Replica, NEW b \in Hash, OnDeliverBlk(r, b) PROVE First!OnDeliverBlk(r, b)
    BY <1>3 DEF OnDeliverBlk, First!OnDeliverBlk, Deliver, First!Deliver, Parents, First!Parents,
                Known, First!Known, Range, First!Range
<1>4. ASSUME NEW r \in Replica, NEW b \in Hash, OnReceiveProposal(r, b)
      PROVE  First!OnReceiveProposal(r, b)
    BY <1>4 DEF OnReceiveProposal, First!OnReceiveProposal, AlreadyHandled, First!AlreadyHandled,
                Update, First!Update, HasHeight, First!HasHeight, Height, First!Height, Put, First!Put
<1>5. ASSUME NEW r \in Replica, NEW b \in Hash, CommitTimerCb(r, b) PROVE First!CommitTimerCb(r, b)
    BY <1>5 DEF CommitTimerCb, First!CommitTimerCb, Height, First!Height
<1>6. CASE UNCHANGED vars
    BY <1>6 DEF vars, First!vars
<1> QED BY <1>1, <1>2, <1>3, <1>4, <1>5, <1>6 DEF Next, First!Next

\* The proposer of a step is the first one,
LEMMA FirstProposes ==
    ASSUME Early', ProposalInv, NEW r \in Replica,
           BProposeNullParent(r) \/ \E h \in Hash : BPropose(r, h)
    PROVE  r = FirstProposer
<1>1. CASE SingleProposer
    <2>1. r \in Proposers
        BY DEF BProposeNullParent, OnProposeNullParent, BPropose, OnPropose
    <2> QED BY <1>1, <2>1, FirstProposerAssumption DEF SingleProposer
<1>2. CASE impeachments' = 0
    <2>1. impeachments = 0 /\ proposer[r] = r
        BY <1>2 DEF BProposeNullParent, BPropose, baseVars, counters
    <2> QED BY <2>1 DEF ProposalInv
<1> QED BY <1>1, <1>2 DEF Early, SingleProposer

\* so every step of the network is one of the core where it alone proposes.
LEMMA FirstStep ==
    ASSUME Early', NetInv, ProposalInv, [BNext]_bvars
    PROVE  [First!Next]_(First!vars)
<1>1. TypeOK /\ [Next]_vars
    BY BStepIsCoreStep DEF NetInv, CoreInv
<1>2. ASSUME NEW r \in Replica, NEW h \in Hash, BPropose(r, h) PROVE First!Next
    <2>1. OnPropose(r, h) /\ r = FirstProposer
        BY <1>2, FirstProposes DEF BPropose
    <2>2. First!OnPropose(r, h)
        BY <2>1 DEF OnPropose, First!OnPropose, NoNullParent, First!NoNullParent, GetParents,
           First!GetParents, Deliver, First!Deliver, Update, First!Update, HasHeight, First!HasHeight,
           Height, First!Height, Put, First!Put, Known, First!Known, Range, First!Range
    <2> QED BY <2>2 DEF First!Next
<1>3. ASSUME NEW r \in Replica, BProposeNullParent(r) PROVE First!Next
    <2>1. OnProposeNullParent(r) /\ r = FirstProposer
        BY <1>3, FirstProposes DEF BProposeNullParent
    <2>2. First!OnProposeNullParent(r)
        BY <2>1 DEF OnProposeNullParent, First!OnProposeNullParent, NoNullParent, First!NoNullParent,
                    HasHeight, First!HasHeight, Height, First!Height
    <2> QED BY <2>2 DEF First!Next
<1>4. ASSUME UNCHANGED <<blocks, alive>> PROVE [First!Next]_(First!vars)
    BY <1>1, <1>4, FirstWatches
<1>5. ASSUME NEW r \in Replica, HandlerStep(r) PROVE UNCHANGED <<blocks, alive>>
    BY <1>5 DEF HandlerStep, AsyncDeliverBlk, Verify, All, AllThen, BOnDeliverBlk, OnDeliverBlk,
                AwaitDelivery, BOnReceiveProposal, OnReceiveProposal, vars
<1>6. ASSUME NEW r \in Replica, NEW s \in Replica \ {r}, HandleMessage(s, r) \/ Lose(s, r)
      PROVE  UNCHANGED <<blocks, alive>>
    BY <1>6 DEF HandleMessage, ProposeHandler, ReqBlkHandler, RespBlkHandler, Lose, vars
<1>7. ASSUME NEW r \in Replica, Impeach(r) \/ \E b \in Hash : BCommitTimerCb(r, b) \/ FetchTimeout(r, b)
      PROVE  UNCHANGED <<blocks, alive>>
    BY <1>7 DEF Impeach, BCommitTimerCb, CommitTimerCb, FetchTimeout, vars
<1>8. CASE UNCHANGED bvars
    BY <1>4, <1>8 DEF bvars, vars
<1> QED BY <1>2, <1>3, <1>4, <1>5, <1>6, <1>7, <1>8 DEF BNext

LEMMA FirstInvStep ==
    ASSUME Early', NetInv, FirstInv, ProposalInv, [BNext]_bvars
    PROVE  FirstInv'
<1>1. First!CoreInv /\ First!LeaderInv
    BY FirstCore, FirstIsLeaderInv DEF NetInv
<1>2. First!LeaderInv'
    BY <1>1, FirstStep, FirstLeads, First!LeaderInvStep
<1>3. (First!LeaderInv <=> FirstInv)'
    BY FirstIsLeaderInv, PTL
<1> QED BY <1>2, <1>3

LEMMA InitFirst ==
    ASSUME Init
    PROVE  FirstInv
<1>1. First!Init
    BY DEF Init, First!Init, GenesisBlock, First!GenesisBlock
<1> QED BY <1>1, FirstLeads, First!InitLeaderInv, FirstIsLeaderInv

-----------------------------------------------------------------------------
(* While one replica proposes.                                              *)

\* There is one block per height,
LEMMA OneBlockPerHeight ==
    ASSUME CoreInv, FirstInv, NEW b \in Known, NEW c \in Known, Height(b) = Height(c)
    PROVE  b = c
BY DEF FirstInv, FirstFiledAll, AlreadyHandled

\* so a height that is taken is taken by the block itself.
LEMMA TakenByItself ==
    ASSUME CoreInv, FirstInv, NEW r \in Replica, NEW b \in Known, HasHeight(r, Height(b))
    PROVE  AlreadyHandled(r, b)
<1>1. ht_blk_map[r][Height(b)] \in Known /\ Height(ht_blk_map[r][Height(b)]) = Height(b)
    BY DEF CoreInv, TypeOK, MapOK, HasHeight
<1> QED BY <1>1, OneBlockPerHeight DEF AlreadyHandled

\* and all blocks lie on one branch.
LEMMA OneBranch ==
    ASSUME CoreInv, FirstInv, NEW b \in Known, NEW c \in Known
    PROVE  /\ b = c \/ b \in Range(Parents(c)) \/ c \in Range(Parents(b))
           /\ Height(b) < Height(c) => b \in Range(Parents(c))
<1>1. PICK mp : mp = ht_blk_map[FirstProposer]
    OBVIOUS
<1>2. \A x \in Known : /\ Height(x) \in Nat
                       /\ mp[Height(x)] = x
                       /\ Parents(x) = [i \in 1..Height(x) |-> mp[Height(x) - i]]
    BY <1>1 DEF CoreInv, TypeOK, Block, FirstInv, FirstFiledAll, FirstParents, AlreadyHandled,
                Height
<1>3. ASSUME NEW x \in Known, NEW y \in Known, Height(x) < Height(y)
      PROVE  x \in Range(Parents(y))
    <2>1. PICK i : i = Height(y) - Height(x)
        OBVIOUS
    <2>2. i \in 1..Height(y) /\ Height(y) - i = Height(x)
        BY <1>2, <1>3, <2>1
    <2>3. Parents(y)[i] = x /\ i \in DOMAIN Parents(y)
        BY <1>2, <2>2
    <2> QED BY <2>3 DEF Range
<1>4. Height(b) = Height(c) => b = c
    BY <1>2
<1> QED BY <1>2, <1>3, <1>4

\* update files the block it is given.
LEMMA UpdateFiles ==
    ASSUME CoreInv, FirstInv, NEW r \in Replica, NEW b \in Known, Update(r, b, Height(b)),
           blocks'[b] = blocks[b], Stays
    PROVE  AlreadyHandled(r, b)'
<1>1. CASE HasHeight(r, Height(b))
    BY <1>1, TakenByItself DEF AlreadyHandled, HasHeight, Height, Stays
<1>2. CASE ~ HasHeight(r, Height(b))
    <2>1. PICK m, ht : m = ht_blk_map[r] /\ ht = Height(b)
        OBVIOUS
    <2>2. ht_blk_map'[r] = Put(m, ht, b)
        BY <1>2, <2>1 DEF Update, CoreInv, TypeOK
    <2>3. ht \in DOMAIN Put(m, ht, b) /\ Put(m, ht, b)[ht] = b
        BY DEF Put
    <2>4. blocks'[b].height = ht
        BY <2>1 DEF Height
    <2> QED BY <2>2, <2>3, <2>4 DEF AlreadyHandled, HasHeight, Height
<1> QED BY <1>1, <1>2

\* Filed blocks stay filed.
LEMMA FiledStays ==
    ASSUME Stays, Grows, NEW r \in Replica, NEW b \in Known, AlreadyHandled(r, b)
    PROVE  AlreadyHandled(r, b)'
BY DEF Stays, Grows, AlreadyHandled, HasHeight, Height

\* The channels grow by proposals that have just been filed, and other messages.
ChannelsGrow ==
    /\ DOMAIN chan' = Link
    /\ \A p \in Link :
          \/ chan'[p] = chan[p]
          \/ chan[p] # <<>> /\ chan'[p] = Tail(chan[p])
          \/ \E m : /\ chan'[p] = Append(chan[p], m)
                    /\ m.type = "propose" => /\ ~ AlreadyHandled(p[1], m.blk)
                                             /\ AlreadyHandled(p[1], m.blk)'

\* What r may send, and no proposal twice.
SentFiled(r, t) == \A i \in DOMAIN t : t[i].type = "propose" => AlreadyHandled(r, t[i].blk)

\* No proposal is in t twice.
NoTwice(t) == \A i, j \in DOMAIN t : t[i].type = "propose" /\ t[i] = t[j] => i = j

\* No step sends a proposal a second time on a connection.
LEMMA SentStep ==
    ASSUME NetInv, Grows, Stays, SentIsFiled, ForwardedOnce, ChannelsGrow
    PROVE  SentIsFiled' /\ ForwardedOnce'
<1> SUFFICES ASSUME NEW p \in Link, NEW t, t = chan'[p]
             PROVE  SentFiled(p[1], t)' /\ NoTwice(t)
    BY DEF SentIsFiled, ForwardedOnce, SentFiled, NoTwice
<1>1. PICK s : s = chan[p]
    OBVIOUS
<1>2. s \in Seq(Message) /\ p[1] \in Replica
    BY <1>1 DEF NetInv, ChannelsOK, Link
<1>3. ASSUME NEW i \in DOMAIN s, s[i].type = "propose"
      PROVE  AlreadyHandled(p[1], s[i].blk) /\ AlreadyHandled(p[1], s[i].blk)'
    <2>1. AlreadyHandled(p[1], s[i].blk)
        BY <1>1, <1>3 DEF SentIsFiled
    <2>2. MessageOK(p, s[i])
        BY <1>1 DEF NetInv, ChannelsOK
    <2>3. s[i].blk \in Known
        BY <1>2, <1>3, <2>2 DEF MessageOK, NetInv, CoreInv, TypeOK
    <2> QED BY <1>2, <2>1, <2>3, FiledStays
<1>4. \A i, j \in DOMAIN s : s[i].type = "propose" /\ s[i] = s[j] => i = j
    BY <1>1 DEF ForwardedOnce
<1>5. CASE t = s
    BY <1>3, <1>4, <1>5 DEF SentFiled, NoTwice
<1>6. CASE s # <<>> /\ t = Tail(s)
    <2>1. /\ \A i \in DOMAIN t : i + 1 \in DOMAIN s /\ t[i] = s[i + 1]
          /\ DOMAIN t \subseteq Nat
        BY <1>2, <1>6, HeadTailProperties
    <2>2. ASSUME NEW i \in DOMAIN t, t[i].type = "propose" PROVE AlreadyHandled(p[1], t[i].blk)'
        BY <1>3, <2>1, <2>2
    <2>3. ASSUME NEW i \in DOMAIN t, NEW j \in DOMAIN t, t[i].type = "propose", t[i] = t[j]
          PROVE  i = j
        <3>1. i + 1 = j + 1 /\ i \in Nat /\ j \in Nat
            BY <1>4, <2>1, <2>3
        <3> QED BY <3>1
    <2> QED BY <2>2, <2>3 DEF SentFiled, NoTwice
<1>7. ASSUME NEW m, t = Append(s, m),
             m.type = "propose" => ~ AlreadyHandled(p[1], m.blk) /\ AlreadyHandled(p[1], m.blk)'
      PROVE  SentFiled(p[1], t)' /\ NoTwice(t)
    <2>1. \A i \in DOMAIN t : \/ i \in DOMAIN s /\ t[i] = s[i]
                              \/ i = Len(s) + 1 /\ t[i] = m
        BY <1>2, <1>7
    <2>2. \A i \in DOMAIN t : t[i].type = "propose" => AlreadyHandled(p[1], t[i].blk)'
        BY <1>3, <1>7, <2>1
    <2>3. ASSUME NEW i \in DOMAIN t, NEW j \in DOMAIN t, t[i].type = "propose", t[i] = t[j]
          PROVE  i = j
        BY <1>3, <1>4, <1>7, <2>1, <2>3
    <2> QED BY <2>2, <2>3 DEF SentFiled, NoTwice
<1>8. \/ t = s
      \/ s # <<>> /\ t = Tail(s)
      \/ \E m : /\ t = Append(s, m)
                /\ m.type = "propose" => ~ AlreadyHandled(p[1], m.blk) /\ AlreadyHandled(p[1], m.blk)'
    BY <1>1 DEF ChannelsGrow
<1> QED BY <1>5, <1>6, <1>7, <1>8

\* do_broadcast_proposal of a block that has just been filed.
LEMMA BroadcastGrows ==
    ASSUME NEW r, NEW b, Broadcast(r, b), ~ AlreadyHandled(r, b), AlreadyHandled(r, b)'
    PROVE  ChannelsGrow
<1>1. PICK m : m = [type |-> "propose", blk |-> b]
    OBVIOUS
<1>2. chan' = [p \in Link |-> IF p[1] = r THEN Append(chan[p], m) ELSE chan[p]] /\ m.blk = b
    BY <1>1 DEF Broadcast
<1> QED BY <1>2 DEF ChannelsGrow

\* Before it is filed for the first time a block is not on file.
LEMMA UnknownNotFiled ==
    ASSUME CoreInv, NEW r \in Replica, NEW h, h \notin Known
    PROVE  ~ AlreadyHandled(r, h)
BY DEF CoreInv, TypeOK, AlreadyHandled, HasHeight

\* on_receive_proposal files what it forwards.
LEMMA ReceiveGrowsChannels ==
    ASSUME NetInv, FirstInv, Grows, Stays, NEW r \in Replica, BOnReceiveProposal(r)
    PROVE  ChannelsGrow
<1>1. PICK b : b = Top(r).blk
    OBVIOUS
<1>2. Running(r, "on_receive_proposal") /\ DOMAIN chan = Link
    BY DEF BOnReceiveProposal, NetInv, TablesOK
<1>3. b \in Known
    BY <1>1, <1>2, TopFacts
<1>4. CASE AlreadyHandled(r, b)
    <2>1. chan' = chan
        BY <1>1, <1>4 DEF BOnReceiveProposal
    <2> QED BY <1>2, <2>1 DEF ChannelsGrow
<1>5. CASE ~ AlreadyHandled(r, b)
    <2>1. Update(r, b, Height(b)) /\ Broadcast(r, b)
        BY <1>1, <1>5 DEF BOnReceiveProposal, OnReceiveProposal
    <2>2. blocks'[b] = blocks[b]
        BY <1>3 DEF Grows
    <2>3. AlreadyHandled(r, b)'
        BY <1>3, <2>1, <2>2, UpdateFiles DEF NetInv
    <2> QED BY <1>5, <2>1, <2>3, BroadcastGrows
<1> QED BY <1>4, <1>5

\* on_propose creates one block, its own.
LEMMA ProposePuts ==
    ASSUME NEW r, NEW h, OnPropose(r, h)
    PROVE  \E rec : r \in Proposers /\ rec.proposer = r /\ blocks' = Put(blocks, h, rec)
<1>1. PICK ps, ht : blocks' = Put(blocks, h, [proposer |-> r, height |-> ht, parents |-> ps])
    BY DEF OnPropose
<1>2. PICK rec : rec = [proposer |-> r, height |-> ht, parents |-> ps]
    OBVIOUS
<1> QED BY <1>1, <1>2 DEF OnPropose

\* on_propose files what it broadcasts.
LEMMA ProposeGrowsChannels ==
    ASSUME NetInv, FirstInv, FirstInv', NEW r \in Replica, NEW h \in Hash,
           BPropose(r, h),
           r = FirstProposer
    PROVE  ChannelsGrow /\ AlreadyHandled(r, h)'
<1>1. OnPropose(r, h) /\ Broadcast(r, h) /\ h \notin Known
    BY DEF BPropose, OnPropose
<1>2. h \in Known'
    <2>1. PICK rec : r \in Proposers /\ blocks' = Put(blocks, h, rec)
        BY <1>1, ProposePuts
    <2> QED BY <2>1 DEF Put, Known
<1>3. ~ AlreadyHandled(r, h)
    BY <1>1, UnknownNotFiled DEF NetInv
<1>4. AlreadyHandled(r, h)'
    BY <1>2 DEF FirstInv, FirstFiledAll
<1> QED BY <1>1, <1>3, <1>4, BroadcastGrows

\* The other calls of a handler send a request or nothing.
LEMMA HandlerGrowsChannels ==
    ASSUME NetInv, FirstInv, Grows, Stays, NEW r \in Replica, HandlerStep(r)
    PROVE  ChannelsGrow
<1>1. DOMAIN chan = Link
    BY DEF NetInv, TablesOK
<1>2. CASE BOnReceiveProposal(r)
    BY <1>2, ReceiveGrowsChannels
<1>3. CASE AsyncDeliverBlk(r)
    <2>1. chan' = chan \/ \E p, b : Send(r, p, "req", b)
        BY <1>3 DEF AsyncDeliverBlk
    <2>2. ASSUME NEW p, NEW b, Send(r, p, "req", b) PROVE ChannelsGrow
        <3>1. PICK m : m = [type |-> "req", blk |-> b]
            OBVIOUS
        <3>2. m.type = "req" /\ chan' = [chan EXCEPT ![<<r, p>>] = Append(@, m)]
            BY <2>2, <3>1 DEF Send
        <3> QED BY <1>1, <3>2 DEF ChannelsGrow
    <2> QED BY <1>1, <2>1, <2>2 DEF ChannelsGrow
<1>4. CASE Verify(r) \/ All(r) \/ AllThen(r) \/ BOnDeliverBlk(r) \/ AwaitDelivery(r)
    <2>1. chan' = chan
        BY <1>4 DEF Verify, All, AllThen, BOnDeliverBlk, AwaitDelivery
    <2> QED BY <1>1, <2>1 DEF ChannelsGrow
<1> QED BY <1>2, <1>3, <1>4 DEF HandlerStep

\* A message is taken off its channel, a request is answered.
LEMMA MessageGrowsChannels ==
    ASSUME NetInv, NEW r \in Replica, NEW s \in Replica \ {r},
           HandleMessage(s, r) \/ Lose(s, r)
    PROVE  ChannelsGrow
<1>1. DOMAIN chan = Link /\ <<s, r>> \in Link /\ <<r, s>> \in Link /\ <<s, r>> # <<r, s>>
    BY DEF NetInv, TablesOK, Link
<1>2. CASE ProposeHandler(s, r) \/ RespBlkHandler(s, r) \/ Lose(s, r)
    <2>1. chan[<<s, r>>] # <<>> /\ chan' = [chan EXCEPT ![<<s, r>>] = Tail(@)]
        BY <1>2 DEF ProposeHandler, RespBlkHandler, Lose, Receives
    <2> QED BY <1>1, <2>1 DEF ChannelsGrow
<1>3. CASE ReqBlkHandler(s, r)
    <2>1. PICK b : b = Head(chan[<<s, r>>]).blk
        OBVIOUS
    <2>2. PICK m : m = [type |-> "resp", blk |-> b]
        OBVIOUS
    <2>3. chan[<<s, r>>] # <<>>
        BY <1>3 DEF ReqBlkHandler, Receives
    <2>4. chan' = [chan EXCEPT ![<<s, r>>] = Tail(@), ![<<r, s>>] = Append(@, m)]
        BY <1>3, <2>1, <2>2 DEF ReqBlkHandler
    <2>5. m.type # "propose"
        BY <2>2
    <2> QED BY <1>1, <2>3, <2>4, <2>5 DEF ChannelsGrow
<1> QED BY <1>2, <1>3 DEF HandleMessage

\* Every step grows the channels that way.
LEMMA StepGrowsChannels ==
    ASSUME Early', NetInv, FirstInv, FirstInv', ProposalInv, Grows, Stays, [BNext]_bvars
    PROVE  ChannelsGrow
<1>1. DOMAIN chan = Link
    BY DEF NetInv, TablesOK
<1>2. CASE chan' = chan
    BY <1>1, <1>2 DEF ChannelsGrow
<1>3. ASSUME NEW r \in Replica, HandlerStep(r) PROVE ChannelsGrow
    BY <1>3, HandlerGrowsChannels
<1>4. ASSUME NEW r \in Replica, NEW h \in Hash, BPropose(r, h) PROVE ChannelsGrow
    BY <1>4, FirstProposes, ProposeGrowsChannels
<1>5. ASSUME NEW r \in Replica, NEW s \in Replica \ {r}, HandleMessage(s, r) \/ Lose(s, r)
      PROVE  ChannelsGrow
    BY <1>5, MessageGrowsChannels
<1>6. ASSUME NEW r \in Replica, NEW b \in Hash, FetchTimeout(r, b) PROVE ChannelsGrow
    <2>1. PICK m, to : m = [type |-> "req", blk |-> b] /\ to = fetching[r][b].peers
        OBVIOUS
    <2>2. chan' = [p \in Link |-> IF p[1] = r /\ p[2] \in to THEN Append(chan[p], m) ELSE chan[p]]
        BY <1>6, <2>1 DEF FetchTimeout
    <2>3. m.type # "propose"
        BY <2>1
    <2> QED BY <2>2, <2>3 DEF ChannelsGrow
<1>7. ASSUME NEW r \in Replica, BProposeNullParent(r) \/ Impeach(r) PROVE chan' = chan
    BY <1>7 DEF BProposeNullParent, baseVars, Impeach
<1>8. ASSUME NEW r \in Replica, NEW b \in Hash, BCommitTimerCb(r, b) PROVE chan' = chan
    BY <1>8 DEF BCommitTimerCb, baseVars
<1>9. UNCHANGED bvars => chan' = chan
    BY DEF bvars, baseVars
<1> QED BY <1>2, <1>3, <1>4, <1>5, <1>6, <1>7, <1>8, <1>9 DEF BNext

\* A new block is the proposer's.
LEMMA NewBlock ==
    ASSUME [First!Next]_(First!vars), NEW b \in Known', b \notin Known
    PROVE  blocks'[b].proposer = FirstProposer
<1>1. blocks' # blocks
    BY DEF Known
<1>2. PICK r \in Replica, h \in Hash : First!OnPropose(r, h)
    BY <1>1 DEF First!Next, First!vars, First!OnProposeNullParent, First!OnDeliverBlk,
                First!OnReceiveProposal, First!CommitTimerCb
<1>3. PICK ps, ht : /\ blocks' = First!Put(blocks, h, [proposer |-> r, height |-> ht, parents |-> ps])
                    /\ r = FirstProposer
    BY <1>2 DEF First!OnPropose
<1>4. PICK rec : rec = [proposer |-> r, height |-> ht, parents |-> ps]
    OBVIOUS
<1>5. blocks' = First!Put(blocks, h, rec) /\ rec.proposer = FirstProposer
    BY <1>3, <1>4
<1> QED BY <1>5 DEF First!Put, Known

\* on_receive_proposal leaves its block on file.
LEMMA ReceiveFiles ==
    ASSUME NetInv, FirstInv, Grows, Stays, NEW r \in Replica, HandlerStep(r),
           Running(r, "on_receive_proposal"), NEW b, b = Top(r).blk
    PROVE  AlreadyHandled(r, b)'
<1>1. b \in Known
    BY TopFacts
<1>2. CASE AlreadyHandled(r, b)
    BY <1>1, <1>2, FiledStays
<1>3. CASE ~ AlreadyHandled(r, b)
    <2>1. BOnReceiveProposal(r)
        BY DEF HandlerStep, Running, AsyncDeliverBlk, Verify, All, AllThen, BOnDeliverBlk, AwaitDelivery
    <2>2. Update(r, b, Height(b))
        BY <1>3, <2>1 DEF BOnReceiveProposal, OnReceiveProposal
    <2>3. blocks'[b] = blocks[b]
        BY <1>1 DEF Grows
    <2> QED BY <1>1, <2>2, <2>3, UpdateFiles DEF NetInv
<1> QED BY <1>2, <1>3

\* What was filed or pending is filed or pending.
Followed(r, b) == AlreadyHandled(r, b) \/ Pending(r, b)

\* What is signed is followed through the calls of a handler,
LEMMA HandlerSigned ==
    ASSUME NetInv, FirstInv, Grows, Stays, NEW r \in Replica, HandlerStep(r), SignedIsFiled(r)
    PROVE  SignedIsFiled(r)' /\ impeachments' = impeachments /\ proposer' = proposer
<1>1. Flows(r)
    BY HandlerFlow
<1>2. SUFFICES ASSUME NEW b \in signed[r] PROVE Followed(r, b)'
    BY <1>1 DEF SignedIsFiled, Flows, Followed
<1>3. Followed(r, b) /\ b \in Known
    BY DEF SignedIsFiled, Followed, NetInv, ReplicaOK, StoredOK
<1>4. CASE AlreadyHandled(r, b)
    BY <1>3, <1>4, FiledStays DEF Followed
<1>5. CASE Pending(r, b)
    <2>1. Pending(r, b)' \/ (Running(r, "on_receive_proposal") /\ b = Top(r).blk)
        BY <1>1, <1>5 DEF Flows
    <2> QED BY <2>1, ReceiveFiles DEF Followed
<1> QED BY <1>3, <1>4, <1>5 DEF Followed

\* when a message comes,
LEMMA MessageSigned ==
    ASSUME NetInv, FirstInv, Grows, Stays, NEW r \in Replica, NEW s \in Replica \ {r},
           HandleMessage(s, r), SignedIsFiled(r), proposer[r] = FirstProposer,
           \A b \in Known \ {Genesis} : blocks[b].proposer = FirstProposer
    PROVE  SignedIsFiled(r)'
<1>1. ASSUME NEW b \in signed[r], NEW x, x = b, Pending(r, x) => Pending(r, x)'
      PROVE  Followed(r, x)'
    <2>1. Followed(r, b) /\ b \in Known
        BY DEF SignedIsFiled, Followed, NetInv, ReplicaOK, StoredOK
    <2>2. AlreadyHandled(r, b) => AlreadyHandled(r, b)'
        BY <2>1, FiledStays
    <2> QED BY <1>1, <2>1, <2>2 DEF Followed
<1>2. CASE ProposeHandler(s, r)
    <2>1. PICK b : b = Head(chan[<<s, r>>]).blk
        OBVIOUS
    <2>2. Receives(s, r, "propose")
        BY <1>2 DEF ProposeHandler
    <2>3. b \in Known \ {Genesis}
        BY <2>1, <2>2, ReceivedFacts
    <2>4. blocks[b].proposer = proposer[r]
        BY <2>3
    <2>5. Incoming(s, r, b)
        BY <2>1 DEF Incoming
    <2>6. /\ \A x : Pending(r, x) => Pending(r, x)'
          /\ Pending(r, b)'
          /\ signed'[r] \subseteq signed[r] \cup {b}
        BY <1>2, <2>4, <2>5, ProposalFlow
    <2>7. ASSUME NEW x \in signed'[r] PROVE Followed(r, x)'
        <3>1. CASE x = b
            BY <2>6, <3>1 DEF Followed
        <3>2. CASE x \in signed[r]
            BY <1>1, <2>6, <3>2
        <3> QED BY <2>6, <2>7, <3>1, <3>2
    <2> QED BY <2>7 DEF SignedIsFiled, Followed
<1>3. CASE RespBlkHandler(s, r)
    <2>1. /\ \A x : Pending(r, x)' <=> Pending(r, x)
          /\ UNCHANGED signed
        BY <1>3, RespFlow
    <2>2. ASSUME NEW x \in signed[r] PROVE Followed(r, x)'
        BY <1>1, <2>1
    <2> QED BY <2>1, <2>2 DEF SignedIsFiled, Followed
<1>4. CASE ReqBlkHandler(s, r)
    <2>1. UNCHANGED <<stack, waiting>> /\ UNCHANGED signed
        BY <1>4 DEF ReqBlkHandler
    <2>2. ASSUME NEW x \in signed[r] PROVE Followed(r, x)'
        BY <1>1, <2>1, StillFlow
    <2> QED BY <2>1, <2>2 DEF SignedIsFiled, Followed
<1> QED BY <1>2, <1>3, <1>4 DEF HandleMessage

\* when the tables rest or get a block that has been filed.
LEMMA StillSigned ==
    ASSUME NetInv, Grows, Stays, NEW r \in Replica, SignedIsFiled(r),
           stack'[r] = stack[r], waiting'[r] = waiting[r],
           \A b \in signed'[r] : b \in signed[r] \/ AlreadyHandled(r, b)'
    PROVE  SignedIsFiled(r)'
<1>1. ASSUME NEW b \in signed'[r] PROVE Followed(r, b)'
    <2>1. CASE AlreadyHandled(r, b)'
        BY <2>1 DEF Followed
    <2>2. CASE b \in signed[r]
        <3>1. Followed(r, b) /\ b \in Known
            BY <2>2 DEF SignedIsFiled, Followed, NetInv, ReplicaOK, StoredOK
        <3>2. AlreadyHandled(r, b) => AlreadyHandled(r, b)'
            BY <3>1, FiledStays
        <3>3. Pending(r, b) => Pending(r, b)'
            BY DEF Pending
        <3> QED BY <3>1, <3>2, <3>3 DEF Followed
    <2> QED BY <1>1, <2>1, <2>2
<1> QED BY <1>1 DEF SignedIsFiled, Followed

\* What every step of the network does to the state below it.
LEMMA StepBelow ==
    ASSUME Early', NetInv, FirstInv, ProposalInv, [BNext]_bvars
    PROVE  Grows /\ Stays /\ FirstInv' /\ [Next]_vars
<1>1. CoreInv /\ DeliveredClosed /\ TypeOK
    BY DEF NetInv, CoreInv
<1>2. [Next]_vars
    BY <1>1, BStepIsCoreStep
<1> QED BY <1>1, <1>2, CoreGrows, StaysFiled, FirstInvStep

\* While no pace maker is moved, what is signed is followed.
LEMMA SignedStep ==
    ASSUME Early', NetInv, FirstInv, ProposalInv, [BNext]_bvars, impeachments' = 0
    PROVE  /\ proposer' = [r \in Replica |-> FirstProposer]
           /\ \A r \in Replica : SignedIsFiled(r)'
<1>1. Grows /\ Stays /\ FirstInv'
    BY StepBelow
<1>2. ASSUME impeachments = 0
      PROVE  /\ proposer = [r \in Replica |-> FirstProposer]
             /\ \A r \in Replica : SignedIsFiled(r)
    BY <1>2 DEF ProposalInv
<1> DEFINE Followed1(r) == SignedIsFiled(r)' /\ Own(r) /\ proposer' = proposer /\ impeachments = 0
<1>3. ASSUME NEW r \in Replica, Followed1(r)
      PROVE  /\ proposer' = [q \in Replica |-> FirstProposer]
             /\ \A q \in Replica : SignedIsFiled(q)'
    <2>1. ASSUME NEW q \in Replica \ {r} PROVE SignedIsFiled(q)'
        BY <1>1, <1>2, <1>3, <2>1, StillSigned DEF Own
    <2> QED BY <1>2, <1>3, <2>1
<1>4. ASSUME NEW r \in Replica, HandlerStep(r) PROVE Followed1(r)
    <2>1. impeachments = 0
        BY <1>4, HandlerFlow, <1>1 DEF Flows
    <2> QED BY <1>1, <1>2, <1>4, <2>1, HandlerSigned, HandlerOwn
<1>5. ASSUME NEW r \in Replica, NEW h \in Hash, BPropose(r, h) PROVE Followed1(r)
    <2>1. /\ impeachments = 0 /\ proposer' = proposer /\ stack' = stack /\ waiting' = waiting
          /\ signed' = [signed EXCEPT ![r] = @ \cup {h}]
        BY <1>5 DEF BPropose, counters
    <2>2. AlreadyHandled(r, h)'
        BY <1>1, <1>5, FirstProposes, ProposeGrowsChannels
    <2>3. \A b \in signed'[r] : b \in signed[r] \/ AlreadyHandled(r, b)'
        BY <2>1, <2>2 DEF NetInv, TablesOK
    <2>4. SignedIsFiled(r)'
        BY <1>1, <1>2, <2>1, <2>3, StillSigned
    <2> QED BY <1>5, <2>1, <2>4, ProposeOwn
<1>6. ASSUME NEW r \in Replica, NEW s \in Replica \ {r}, HandleMessage(s, r) PROVE Followed1(r)
    <2>1. Own(r) /\ impeachments = 0 /\ proposer' = proposer
        BY <1>6, MessageOwn
    <2>2. proposer[r] = FirstProposer /\ SignedIsFiled(r)
        BY <1>2, <2>1
    <2>3. SignedIsFiled(r)'
        BY <1>1, <1>6, <2>2, MessageSigned DEF ProposalInv
    <2> QED BY <2>1, <2>3
<1>7. ASSUME NEW r \in Replica, Impeach(r) PROVE FALSE
    <2>1. impeachments' = impeachments + 1 /\ impeachments \in Nat
        BY <1>7 DEF Impeach, NetInv, TablesOK
    <2> QED BY <2>1
<1>8. ASSUME UNCHANGED <<proposer, stack, waiting, signed, impeachments>>
      PROVE  /\ proposer' = [q \in Replica |-> FirstProposer]
             /\ \A q \in Replica : SignedIsFiled(q)'
    BY <1>1, <1>2, <1>8, StillSigned
<1>9. ASSUME NEW r \in Replica,
             \/ BProposeNullParent(r)
             \/ \E b \in Hash : BCommitTimerCb(r, b) \/ FetchTimeout(r, b)
             \/ \E s \in Replica \ {r} : Lose(s, r)
      PROVE  UNCHANGED <<proposer, stack, waiting, signed, impeachments>>
    BY <1>9 DEF BProposeNullParent, BCommitTimerCb, FetchTimeout, Lose, baseVars, counters
<1>10. CASE UNCHANGED bvars
    BY <1>8, <1>10 DEF bvars, baseVars, counters
<1> HIDE DEF Followed1
<1> QED BY <1>3, <1>4, <1>5, <1>6, <1>7, <1>8, <1>9, <1>10 DEF BNext

\* Every step keeps what holds when one replica proposes.
LEMMA ProposalStep ==
    ASSUME Early', NetInv, FirstInv, ProposalInv, [BNext]_bvars
    PROVE  FirstInv' /\ ProposalInv'
<1>1. Grows /\ Stays /\ FirstInv' /\ [Next]_vars
    BY StepBelow
<1>2. SentIsFiled' /\ ForwardedOnce'
    BY <1>1, StepGrowsChannels, SentStep DEF ProposalInv
<1>3. ASSUME NEW b \in Known' \ {Genesis} PROVE blocks'[b].proposer = FirstProposer
    <2>1. CASE b \in Known
        BY <1>1, <1>3, <2>1 DEF ProposalInv, Grows
    <2>2. CASE b \notin Known
        <3>1. [First!Next]_(First!vars)
            BY FirstStep
        <3> QED BY <1>3, <2>2, <3>1, NewBlock
    <2> QED BY <2>1, <2>2
<1>4. impeachments' = 0 => /\ proposer' = [r \in Replica |-> FirstProposer]
                           /\ \A r \in Replica : SignedIsFiled(r)'
    BY SignedStep
<1> QED BY <1>1, <1>2, <1>3, <1>4 DEF ProposalInv

\* It holds when the replicas start.
LEMMA InitProposal ==
    ASSUME BInit
    PROVE  FirstInv /\ ProposalInv
<1>1. FirstInv
    BY InitFirst DEF BInit
<1>2. Known = {Genesis}
    BY DEF BInit, Init, Known
<1>3. \A p \in Link : chan[p] = <<>>
    BY DEF BInit
<1>4. SentIsFiled /\ ForwardedOnce
    BY <1>3 DEF SentIsFiled, ForwardedOnce
<1>5. proposer = [r \in Replica |-> FirstProposer] /\ \A r \in Replica : SignedIsFiled(r)
    BY DEF BInit, SignedIsFiled
<1> QED BY <1>1, <1>2, <1>4, <1>5 DEF ProposalInv

\* What a step does to the counters of losses and impeachments.
LEMMA CountersStep ==
    ASSUME NetInv, Grows, [BNext]_bvars
    PROVE  /\ losses \in Nat /\ impeachments \in Nat
           /\ \/ losses' = losses
              \/ losses' = losses + 1 /\ \E r \in Replica : \E s \in Replica \ {r} : Lose(s, r)
           /\ impeachments' = impeachments \/ impeachments' = impeachments + 1
<1>1. losses \in Nat /\ impeachments \in Nat
    BY DEF NetInv, TablesOK
<1>2. ASSUME NEW r \in Replica, HandlerStep(r) PROVE UNCHANGED <<losses, impeachments>>
    BY <1>2, HandlerFlow DEF Flows
<1>3. ASSUME NEW r \in Replica, NEW s \in Replica \ {r}, HandleMessage(s, r)
      PROVE  UNCHANGED <<losses, impeachments>>
    BY <1>3, MessageOwn
<1>4. ASSUME NEW r \in Replica,
             \/ BProposeNullParent(r)
             \/ \E b \in Hash : BPropose(r, b) \/ BCommitTimerCb(r, b) \/ FetchTimeout(r, b)
      PROVE  UNCHANGED <<losses, impeachments>>
    BY <1>4 DEF BProposeNullParent, BPropose, BCommitTimerCb, FetchTimeout, baseVars, counters
<1>5. ASSUME NEW r \in Replica, NEW s \in Replica \ {r}, Lose(s, r)
      PROVE  losses' = losses + 1 /\ impeachments' = impeachments
    BY <1>5 DEF Lose
<1>6. ASSUME NEW r \in Replica, Impeach(r)
      PROVE  losses' = losses /\ impeachments' = impeachments + 1
    BY <1>6 DEF Impeach
<1>7. UNCHANGED bvars => UNCHANGED <<losses, impeachments>>
    BY DEF bvars, baseVars, counters
<1>8. BNext => /\ \/ losses' = losses
                  \/ losses' = losses + 1 /\ \E r \in Replica : \E s \in Replica \ {r} : Lose(s, r)
               /\ impeachments' = impeachments \/ impeachments' = impeachments + 1
    BY <1>2, <1>3, <1>4, <1>5, <1>6 DEF BNext
<1> QED BY <1>1, <1>7, <1>8

\* It has been so for as long as it is so.
LEMMA EarlyBefore ==
    ASSUME NetInv, [BNext]_bvars, Early'
    PROVE  Early
<1>1. /\ impeachments \in Nat
      /\ impeachments' = impeachments \/ impeachments' = impeachments + 1
    <2>1. TypeOK /\ CoreInv /\ DeliveredClosed
        BY DEF NetInv, CoreInv
    <2>2. Grows
        BY <2>1, BStepIsCoreStep, CoreGrows
    <2> QED BY <2>2, CountersStep
<1>2. SingleProposer \/ impeachments' = 0
    BY DEF Early, SingleProposer
<1> QED BY <1>1, <1>2 DEF Early

\* While one replica proposes the blocks are its own, a replica sends what it has filed, once,
\* and what it has parsed it files or will file as long as no pace maker is moved.
THEOREM ProposalInvariant == BSpec => [](NetInv /\ (Early => FirstInv /\ ProposalInv))
<1>1. BInit => NetInv /\ (Early => FirstInv /\ ProposalInv)
    BY InitNetInv, InitProposal
<1>2. /\ NetInv /\ (Early => FirstInv /\ ProposalInv)
      /\ [BNext]_bvars
      => (NetInv /\ (Early => FirstInv /\ ProposalInv))'
    BY NetInvStep, EarlyBefore, ProposalStep
<1> QED BY <1>1, <1>2, PTL DEF BSpec

\* While one replica proposes, whatever is lost, fetched or dies, all decisions are on one chain
\* and get_parents finds no null block (consensus.cpp:44-55, 87-148).
THEOREM NetworkOneChain == BSpec => [](Early => OneChain /\ NeverAborts)
<1>1. ASSUME CoreInv, FirstInv, NEW r \in Replica, NEW q \in Replica, NEW b \in decision[r],
             NEW c \in decision[q]
      PROVE  b = c \/ b \in Range(Parents(c)) \/ c \in Range(Parents(b))
    <2>1. b \in Known /\ c \in Known
        BY <1>1 DEF CoreInv, TypeOK
    <2> QED BY <1>1, <2>1, OneBranch
<1>2. NetInv /\ (Early => FirstInv /\ ProposalInv) => (Early => OneChain /\ NeverAborts)
    BY <1>1 DEF OneChain, FirstInv, NetInv
<1> QED BY <1>2, ProposalInvariant, PTL

\* With one proposer no connection ever holds a proposal twice: the guard of
\* on_receive_proposal sees a block on file before do_broadcast_proposal is called again.
THEOREM ForwardsOnce == SingleProposer => (BSpec => []ForwardedOnce)
<1> SUFFICES ASSUME SingleProposer PROVE BSpec => []ForwardedOnce
    OBVIOUS
<1>1. (Early => ProposalInv) => ForwardedOnce
    BY DEF ProposalInv, Early
<1> QED BY <1>1, ProposalInvariant, PTL

\* Below b_mark every block is delivered, hence signed, hence filed or still pending; and
\* nothing is pending between two handlers that is delivered.
LEMMA GapClosed ==
    ASSUME NetInv, FirstInv, PastInv, ProposalInv, impeachments = 0,
           NEW r \in Replica, Idle(r)
    PROVE  NoNullParent(r)
<1>1. PICK m : m = b_mark[r]
    OBVIOUS
<1>2. m \in Known /\ m \in delivered[r] /\ AlreadyHandled(r, m) /\ Height(m) \in Nat
    BY <1>1 DEF NetInv, CoreInv, TypeOK, HighestFiled, Block, Height
<1>3. SUFFICES ASSUME NEW ht \in 1..Height(m), ht # Height(m) PROVE HasHeight(r, ht)
    BY <1>1, <1>2 DEF NoNullParent, AlreadyHandled
<1>4. PICK c : c = ht_blk_map[FirstProposer][ht]
    OBVIOUS
<1>5. HasHeight(FirstProposer, ht) /\ FirstProposer \in Replica
    <2>1. FirstProposer \in Replica
        BY FirstIsReplica
    <2>2. HasHeight(FirstProposer, Height(m))
        BY <1>2 DEF FirstInv, FirstFiledAll, AlreadyHandled
    <2>3. Height(b_mark[FirstProposer]) \in Nat
        BY <2>1 DEF NetInv, CoreInv, TypeOK, Block, Height
    <2> QED BY <1>2, <1>3, <2>1, <2>2, <2>3 DEF FirstInv, FirstContiguous, HasHeight
<1>6. c \in Known /\ Height(c) = ht
    BY <1>4, <1>5 DEF NetInv, CoreInv, TypeOK, MapOK, HasHeight
<1>7. c \in Range(Parents(m))
    <2>1. Parents(m) = [i \in 1..Height(m) |-> ht_blk_map[FirstProposer][Height(m) - i]]
        BY <1>2 DEF FirstInv, FirstParents
    <2>2. PICK n, i : n = Height(m) /\ i = n - ht
        OBVIOUS
    <2>3. i \in 1..n /\ n - i = ht
        BY <1>2, <1>3, <2>2
    <2>4. i \in DOMAIN Parents(m) /\ Parents(m)[i] = c
        BY <1>4, <2>1, <2>2, <2>3
    <2> QED BY <2>4 DEF Range
<1>8. c \in delivered[r]
    BY <1>2, <1>7 DEF NetInv, DeliveredClosed
<1>9. c # Genesis
    <2>1. Height(Genesis) = 0 /\ ht \in Int /\ ht >= 1
        BY <1>2, <1>3 DEF NetInv, CoreInv, BlocksOK
    <2> QED BY <1>6, <2>1
<1>10. c \in signed[r]
    <2>1. c \in Hash
        BY <1>6 DEF NetInv, CoreInv, TypeOK, Known
    <2>2. SignedOnly(r)
        BY DEF PastInv
    <2> QED BY <1>8, <1>9, <2>1, <2>2 DEF SignedOnly
<1>11. ~ Pending(r, c)
    <2>1. stack[r] = <<>>
        BY DEF Idle
    <2>2. ASSUME NEW q \in DOMAIN waiting[r], Has(waiting[r][q], "on_receive_proposal", c) PROVE FALSE
        <3>1. q = c
            BY <2>2 DEF NetInv, ReplicaOK, WaitingOK, Has, CallsAt
        <3> QED BY <1>8, <2>2, <3>1 DEF NetInv, ReplicaOK, OneToken
    <2> QED BY <2>1, <2>2, HasNone DEF Pending
<1>12. AlreadyHandled(r, c)
    BY <1>10, <1>11 DEF ProposalInv, SignedIsFiled
<1> QED BY <1>6, <1>12 DEF AlreadyHandled

\* With one proposer in force no height below b_mark is empty between two handlers:
\* blocks that were fetched in any order and lost in between are filed when the handler
\* ends, so get_parents of E2CCore would find no null block.
THEOREM GapsClosedAtRest == BSpec => []NoGapAtRest
<1>1. NetInv /\ (Early => FirstInv /\ ProposalInv) /\ PastInv => NoGapAtRest
    BY GapClosed DEF NoGapAtRest, Early
<1>2. BSpec => []PastInv
    BY InitNetInv, NetInvStep, InitPast, PastStep, PTL DEF BSpec
<1> QED BY <1>1, <1>2, ProposalInvariant, PTL

\* No block is its own ancestor.
AncestorsBelow ==
    \A b \in Known : Range(Parents(b)) \subseteq Known \ {b}

\* Because the ancestors are filed at lower heights.
LEMMA NotOwnAncestor == CoreInv /\ FirstInv => AncestorsBelow
<1> SUFFICES ASSUME CoreInv, FirstInv, NEW b \in Known,
                    NEW i \in DOMAIN Parents(b)
             PROVE  Parents(b)[i] \in Known \ {b}
    BY DEF AncestorsBelow, Range
<1>1. PICK n, j, top : n = Height(b) /\ j = n - i /\ top = Height(b_mark[FirstProposer])
    OBVIOUS
<1>2. FirstProposer \in Replica /\ n \in Nat /\ top \in Nat
    BY <1>1, FirstIsReplica DEF CoreInv, TypeOK, Block, Height
<1>3. Parents(b) = [k \in 1..n |-> ht_blk_map[FirstProposer][n - k]]
    BY <1>1 DEF FirstInv, FirstParents
<1>4. i \in 1..n /\ Parents(b)[i] = ht_blk_map[FirstProposer][j]
    BY <1>1, <1>3
<1>5. n \in 0..top
    BY <1>1 DEF FirstInv, FirstFiledAll, FirstContiguous, AlreadyHandled, HasHeight
<1>6. j \in 0..top /\ j # n
    BY <1>1, <1>2, <1>4, <1>5
<1>7. HasHeight(FirstProposer, j)
    BY <1>1, <1>6 DEF FirstInv, FirstContiguous, HasHeight
<1>8. ht_blk_map[FirstProposer][j] \in Known /\ Height(ht_blk_map[FirstProposer][j]) = j
    BY <1>2, <1>7 DEF CoreInv, TypeOK, MapOK, HasHeight
<1> QED BY <1>1, <1>4, <1>6, <1>8

\* What r files, it files in this step.
FilesOnly(r, new) ==
    \A b \in Known' \ {Genesis} :
        AlreadyHandled(r, b)' => b \in new \/ (b \in Known /\ AlreadyHandled(r, b))

\* A message is taken off the connection.
LEMMA ReachesAfterTail ==
    ASSUME NetInv, NEW p \in Link, chan[p] # <<>>, chan'[p] = Tail(chan[p]),
           storage[p[2]] \subseteq storage'[p[2]], Head(chan[p]).blk \in storage'[p[2]],
           NEW b, NEW n \in 1..Len(chan[p]), Reaches(p, b, n + 1)
    PROVE  Reaches(p, b, n)'
<1>1. PICK s, t : s = chan[p] /\ t = chan'[p]
    OBVIOUS
<1>2. s \in Seq(Message) /\ s # <<>> /\ t = Tail(s)
    BY <1>1 DEF NetInv, ChannelsOK
<1>3. CASE b \in storage[p[2]]
    BY <1>3 DEF Reaches
<1>4. CASE Sent(p, b, n + 1)
    <2>1. PICK i \in 1..n : s[i].type = "propose" /\ s[i].blk = b
        BY <1>1, <1>4 DEF Sent
    <2>2. CASE i = 1
        <3>1. s[1] = Head(s)
            BY <1>2
        <3>2. Head(s).blk = b
            BY <2>1, <2>2, <3>1
        <3> QED BY <1>1, <3>2 DEF Reaches
    <2>3. CASE i # 1
        <3>1. i - 1 \in 1..(n - 1)
            BY <2>3
        <3>2. i - 1 \in DOMAIN t
            BY <1>1, <1>2, <2>3, HeadTailProperties
        <3>3. t[i - 1] = s[i]
            BY <1>2, <3>2, HeadTailProperties
        <3> QED BY <1>1, <2>1, <3>1, <3>3 DEF Reaches, Sent
    <2> QED BY <2>2, <2>3
<1> QED BY <1>3, <1>4 DEF Reaches

\* The connection rests, or a message is added to it.
LEMMA ReachesLater ==
    ASSUME NetInv, NEW p \in Link, NEW b, NEW n \in 1..(Len(chan[p]) + 1), Reaches(p, b, n),
           chan'[p] = chan[p] \/ \E m : chan'[p] = Append(chan[p], m),
           storage[p[2]] \subseteq storage'[p[2]]
    PROVE  Reaches(p, b, n)'
<1>1. PICK s, t : s = chan[p] /\ t = chan'[p]
    OBVIOUS
<1>2. s \in Seq(Message) /\ (t = s \/ \E m : t = Append(s, m)) /\ n \in 1..(Len(s) + 1)
    BY <1>1 DEF NetInv, ChannelsOK
<1>3. CASE b \in storage[p[2]]
    BY <1>3 DEF Reaches
<1>4. CASE Sent(p, b, n)
    <2>1. PICK i \in 1..(n - 1) : s[i].type = "propose" /\ s[i].blk = b
        BY <1>1, <1>4 DEF Sent
    <2>2. i \in 1..Len(s)
        BY <1>2, <2>1
    <2>3. t[i] = s[i]
        BY <1>2, <2>2
    <2> QED BY <1>1, <2>1, <2>3 DEF Reaches, Sent
<1> QED BY <1>3, <1>4 DEF Reaches

\* What CalmChannel says of a message and of a filed block.
InOrder(p, b, n) == \A c \in Range(Parents(b)) : Reaches(p, c, n)

\* Nobody comes back.
StaysDead == \A r \in Replica : aborted[r] => aborted'[r]

\* CalmChannel in these terms.
LEMMA CalmChannelSays ==
    ASSUME NEW p, NEW s, s = chan[p]
    PROVE  CalmChannel(p) <=>
              /\ \A i \in DOMAIN s : s[i].type = "propose" /\ InOrder(p, s[i].blk, i)
              /\ ~ aborted[p[1]] =>
                    \A b \in Known \ {Genesis} :
                        AlreadyHandled(p[1], b) => Reaches(p, b, Len(s) + 1)
BY DEF CalmChannel, InOrder, Reaches

\* Blocks on a connection are known, and keep their ancestors.
LEMMA MessageStays ==
    ASSUME NetInv, Grows, NEW p \in Link, NEW s, s = chan[p], NEW i \in DOMAIN s
    PROVE  s \in Seq(Message) /\ s[i].blk \in Known /\ Parents(s[i].blk)' = Parents(s[i].blk)
<1>1. s \in Seq(Message) /\ MessageOK(p, s[i]) /\ p[1] \in Replica /\ p[2] \in Replica
    BY DEF NetInv, ChannelsOK, Link
<1>2. s[i].blk \in Known
    BY <1>1 DEF MessageOK, NetInv, CoreInv, TypeOK
<1> QED BY <1>1, <1>2 DEF Grows, Parents

\* Nothing happens on the connection.
LEMMA CalmRests ==
    ASSUME NetInv, Grows, StaysDead, NEW p \in Link, CalmChannel(p), chan'[p] = chan[p],
           storage[p[2]] \subseteq storage'[p[2]], FilesOnly(p[1], {})
    PROVE  CalmChannel(p)'
<1>1. PICK s : s = chan[p]
    OBVIOUS
<1>2. s \in Seq(Message) /\ chan'[p] = s
    BY <1>1 DEF NetInv, ChannelsOK
<1>3. ASSUME NEW b, NEW n \in 1..(Len(s) + 1), Reaches(p, b, n) PROVE Reaches(p, b, n)'
    BY <1>1, <1>3, ReachesLater
<1>4. ASSUME NEW i \in DOMAIN s PROVE s[i].type = "propose" /\ InOrder(p, s[i].blk, i)'
    <2>1. s[i].type = "propose" /\ InOrder(p, s[i].blk, i)
        BY <1>1, <1>4, CalmChannelSays
    <2>3. i \in 1..(Len(s) + 1)
        BY <1>2, <1>4
    <2>2. Parents(s[i].blk)' = Parents(s[i].blk)
        BY <1>1, <1>4, MessageStays
    <2> QED BY <1>3, <2>1, <2>2, <2>3 DEF InOrder
<1>5. ASSUME ~ aborted'[p[1]], NEW b \in Known' \ {Genesis}, AlreadyHandled(p[1], b)'
      PROVE  Reaches(p, b, Len(s) + 1)'
    <2>1. b \in Known /\ AlreadyHandled(p[1], b) /\ ~ aborted[p[1]]
        BY <1>5 DEF FilesOnly, StaysDead, Link
    <2>2. Reaches(p, b, Len(s) + 1)
        BY <1>1, <1>5, <2>1, CalmChannelSays
    <2> QED BY <1>2, <1>3, <2>2
<1> QED BY <1>2, <1>4, <1>5 DEF CalmChannel, InOrder, Reaches

\* The oldest message is taken, its block is stored.
LEMMA CalmTaken ==
    ASSUME NetInv, Grows, StaysDead, NEW p \in Link, CalmChannel(p), chan[p] # <<>>,
           chan'[p] = Tail(chan[p]),
           storage[p[2]] \subseteq storage'[p[2]], Head(chan[p]).blk \in storage'[p[2]],
           FilesOnly(p[1], {})
    PROVE  CalmChannel(p)'
<1>1. PICK s, t : s = chan[p] /\ t = Tail(s)
    OBVIOUS
<1>2. s \in Seq(Message) /\ s # <<>> /\ chan'[p] = t
    BY <1>1 DEF NetInv, ChannelsOK
<1>3. /\ Len(s) = Len(t) + 1 /\ Len(t) \in Nat /\ t \in Seq(Message)
      /\ \A i \in DOMAIN t : i + 1 \in DOMAIN s /\ t[i] = s[i + 1]
    BY <1>1, <1>2, HeadTailProperties
<1>4. ASSUME NEW b, NEW n \in 1..Len(s), Reaches(p, b, n + 1) PROVE Reaches(p, b, n)'
    BY <1>1, <1>2, <1>4, ReachesAfterTail
<1>5. ASSUME NEW i \in DOMAIN t PROVE t[i].type = "propose" /\ InOrder(p, t[i].blk, i)'
    <2>1. i + 1 \in DOMAIN s /\ t[i] = s[i + 1] /\ i \in 1..Len(s)
        BY <1>3, <1>5
    <2>2. s[i + 1].type = "propose" /\ InOrder(p, s[i + 1].blk, i + 1)
        BY <1>1, <2>1, CalmChannelSays
    <2>3. Parents(s[i + 1].blk)' = Parents(s[i + 1].blk)
        BY <1>1, <2>1, MessageStays
    <2>4. \A c \in Range(Parents(s[i + 1].blk)) : Reaches(p, c, i)'
        BY <1>4, <2>1, <2>2 DEF InOrder
    <2> QED BY <2>1, <2>2, <2>3, <2>4 DEF InOrder
<1>6. ASSUME ~ aborted'[p[1]], NEW b \in Known' \ {Genesis}, AlreadyHandled(p[1], b)'
      PROVE  Reaches(p, b, Len(t) + 1)'
    <2>1. b \in Known /\ AlreadyHandled(p[1], b) /\ ~ aborted[p[1]]
        BY <1>6 DEF FilesOnly, StaysDead, Link
    <2>2. Reaches(p, b, Len(s) + 1)
        BY <1>1, <1>6, <2>1, CalmChannelSays
    <2>3. Len(s) \in 1..Len(s)
        BY <1>3
    <2>4. Reaches(p, b, Len(s))'
        BY <1>4, <2>2, <2>3
    <2> QED BY <1>3, <2>4
<1> QED BY <1>2, <1>5, <1>6 DEF CalmChannel, InOrder, Reaches

\* A block is sent whose ancestors the sender has filed, that is sent, before.
LEMMA CalmAdded ==
    ASSUME NetInv, Grows, NEW p \in Link, CalmChannel(p), ~ aborted[p[1]], NEW b \in Known',
           chan'[p] = Append(chan[p], [type |-> "propose", blk |-> b]),
           storage[p[2]] \subseteq storage'[p[2]], FilesOnly(p[1], {b}),
           \A c \in Range(Parents(b))' : c \in Known /\ AlreadyHandled(p[1], c)
    PROVE  CalmChannel(p)'
<1>1. PICK s, m : s = chan[p] /\ m = [type |-> "propose", blk |-> b]
    OBVIOUS
<1>2. PICK t : t = Append(s, m)
    OBVIOUS
<1>3. s \in Seq(Message) /\ chan'[p] = t /\ m.type = "propose" /\ m.blk = b
    BY <1>1, <1>2 DEF NetInv, ChannelsOK
<1>4. /\ Len(t) = Len(s) + 1 /\ Len(s) \in Nat /\ t[Len(t)] = m
      /\ DOMAIN s = 1..Len(s)
      /\ \A i \in DOMAIN t : (i \in DOMAIN s /\ t[i] = s[i]) \/ (i = Len(t) /\ t[i] = m)
    BY <1>2, <1>3
<1>5. ASSUME NEW x, NEW n \in 1..(Len(s) + 1), Reaches(p, x, n) PROVE Reaches(p, x, n)'
    <2>1. chan'[p] = Append(chan[p], m)
        BY <1>1, <1>2, <1>3
    <2> QED BY <1>1, <1>5, <2>1, ReachesLater
<1>6. ASSUME NEW x \in Known, x = Genesis \/ AlreadyHandled(p[1], x)
      PROVE  Reaches(p, x, Len(t))'
    <2>1. Genesis \in storage[p[2]]
        BY DEF Link, NetInv, CoreInv, BlocksOK, TypeOK, ReplicaOK, StoredOK
    <2>2. x # Genesis => Reaches(p, x, Len(s) + 1)
        BY <1>1, <1>6, CalmChannelSays
    <2>3. Reaches(p, x, Len(s) + 1)
        BY <2>1, <2>2 DEF Reaches
    <2>4. Len(s) + 1 \in 1..(Len(s) + 1)
        BY <1>4
    <2>5. Reaches(p, x, Len(s) + 1)'
        BY <1>5, <2>3, <2>4
    <2> QED BY <1>4, <2>5
<1>7. ASSUME NEW i \in DOMAIN t PROVE t[i].type = "propose" /\ InOrder(p, t[i].blk, i)'
    <2>1. CASE i \in DOMAIN s /\ t[i] = s[i]
        <3>1. s[i].type = "propose" /\ InOrder(p, s[i].blk, i)
            BY <1>1, <2>1, CalmChannelSays
        <3>4. i \in 1..(Len(s) + 1)
            BY <1>4, <2>1
        <3>2. Parents(s[i].blk)' = Parents(s[i].blk)
            BY <1>1, <2>1, MessageStays
        <3>3. \A c \in Range(Parents(s[i].blk)) : Reaches(p, c, i)'
            BY <1>5, <3>1, <3>4 DEF InOrder
        <3> QED BY <2>1, <3>1, <3>2, <3>3 DEF InOrder
    <2>2. CASE i = Len(t) /\ t[i] = m
        <3>1. ASSUME NEW c \in Range(Parents(b))' PROVE Reaches(p, c, Len(t))'
            BY <1>6, <3>1
        <3> QED BY <1>3, <2>2, <3>1 DEF InOrder
    <2> QED BY <1>4, <1>7, <2>1, <2>2
<1>8. ASSUME NEW x \in Known' \ {Genesis}, AlreadyHandled(p[1], x)'
      PROVE  Reaches(p, x, Len(t) + 1)'
    <2>1. CASE x = b
        <3>1. Len(t) \in 1..Len(t) /\ t[Len(t)].type = "propose" /\ t[Len(t)].blk = b
            BY <1>3, <1>4
        <3>2. (Len(t) + 1) - 1 = Len(t)
            BY <1>4
        <3> QED BY <1>3, <2>1, <3>1, <3>2 DEF Reaches, Sent
    <2>2. CASE x # b
        <3>1. x \in Known /\ AlreadyHandled(p[1], x)
            BY <1>8, <2>2 DEF FilesOnly
        <3>2. Reaches(p, x, Len(t))'
            BY <1>6, <3>1
        <3>3. 1..(Len(t) - 1) \subseteq 1..((Len(t) + 1) - 1)
            BY <1>4
        <3> QED BY <3>2, <3>3 DEF Reaches, Sent
    <2> QED BY <2>1, <2>2
<1> QED BY <1>3, <1>7, <1>8 DEF CalmChannel, InOrder, Reaches

\* The calls of a handler that is about b: those that prepare b and the last one.
Preparing(c, st, b) ==
    /\ c.op \in {"async_deliver", "verify", "all", "on_deliver"}
    /\ c.op = "async_deliver" => c.blk \in st
    /\ c.op # "async_deliver" => c.blk = b

\* The last call.
Concluding(c, b) == c.op \in {"await_delivery", "on_receive_proposal"} /\ c.blk = b

\* A handler that is about b.
About(s, st, b) ==
    /\ s # <<>>
    /\ Concluding(s[Len(s)], b)
    /\ \A i \in 1..(Len(s) - 1) : Preparing(s[i], st, b)

\* OneProposal in these terms.
LEMMA OneProposalIs ==
    ASSUME NEW r, stack[r] # <<>>
    PROVE  OneProposal(r) <=> About(stack[r], storage[r], Proposal(r))
BY DEF OneProposal, About, Concluding, Preparing, Proposal

\* A call is replaced by calls that prepare b.
LEMMA AboutThen ==
    ASSUME NEW s \in Seq(Call), NEW calls \in Seq(Call), NEW st, NEW b, About(s, st, b),
           Preparing(Head(s), st, b), \A i \in DOMAIN calls : Preparing(calls[i], st, b)
    PROVE  About(calls \o Tail(s), st, b)
<1>1. PICK u, t : u = Tail(s) /\ t = calls \o u
    OBVIOUS
<1>2. s # <<>> /\ Concluding(s[Len(s)], b)
    BY DEF About
<1>3. Head(s) = s[1] /\ Len(s) \in Nat \ {0}
    BY <1>2
<1>4. Len(s) # 1
    BY <1>2, <1>3 DEF Concluding, Preparing
<1>5. /\ u \in Seq(Call) /\ Len(u) = Len(s) - 1 /\ Len(u) \in Nat \ {0}
      /\ \A i \in 1..Len(u) : u[i] = s[i + 1]
    BY <1>1, <1>2, <1>3, <1>4, HeadTailProperties
<1>6. /\ t \in Seq(Call) /\ Len(t) = Len(calls) + Len(u) /\ Len(calls) \in Nat
      /\ \A i \in 1..Len(calls) : t[i] = calls[i]
      /\ \A i \in 1..Len(u) : t[i + Len(calls)] = u[i]
    BY <1>1, <1>5
<1>7. t[Len(t)] = s[Len(s)]
    <2>1. Len(u) \in 1..Len(u) /\ Len(t) = Len(u) + Len(calls)
        BY <1>5, <1>6
    <2>2. t[Len(t)] = u[Len(u)]
        BY <1>6, <2>1
    <2> QED BY <1>3, <1>5, <2>1, <2>2
<1>8. ASSUME NEW i \in 1..(Len(t) - 1) PROVE Preparing(t[i], st, b)
    <2>1. CASE i \in 1..Len(calls)
        BY <1>6, <2>1
    <2>2. CASE i \notin 1..Len(calls)
        <3>1. PICK j : j = i - Len(calls)
            OBVIOUS
        <3>2. j \in 1..Len(u) /\ j + 1 \in 1..(Len(s) - 1) /\ i = j + Len(calls)
            BY <1>5, <1>6, <1>8, <2>2, <3>1
        <3>3. t[i] = s[j + 1]
            BY <1>5, <1>6, <3>2
        <3> QED BY <3>2, <3>3 DEF About
    <2> QED BY <2>1, <2>2
<1>9. t # <<>>
    BY <1>5, <1>6
<1> QED BY <1>1, <1>2, <1>7, <1>8, <1>9 DEF About

\* The call that runs prepares the proposal or is the last one.
LEMMA CalmTop ==
    ASSUME NetInv, NEW r \in Replica, OneProposal(r), stack[r] # <<>>, NEW c, c = Top(r)
    PROVE  \/ Preparing(c, storage[r], Proposal(r))
           \/ Concluding(c, Proposal(r)) /\ stack[r] = <<c>>
<1>1. PICK s, st, b : s = stack[r] /\ st = storage[r] /\ b = Proposal(r)
    OBVIOUS
<1>2. s \in Seq(Call) /\ s # <<>> /\ c = s[1]
    BY <1>1 DEF NetInv, ReplicaOK, StackOK, Top
<1>3. About(s, st, b)
    BY <1>1, OneProposalIs
<1>4. CASE Len(s) = 1
    <2>1. s = <<c>>
        BY <1>2, <1>4
    <2> QED BY <1>1, <1>2, <1>3, <1>4, <2>1 DEF About
<1>5. CASE Len(s) # 1
    <2>1. 1 \in 1..(Len(s) - 1)
        <3>1. PICK n : n = Len(s)
            OBVIOUS
        <3>2. n \in Nat \ {0} /\ n # 1
            BY <1>2, <1>5, <3>1, EmptySeq
        <3>3. 1 \in 1..(n - 1)
            BY <3>2
        <3> QED BY <3>1, <3>3
    <2>2. Preparing(s[1], st, b)
        BY <1>3, <2>1 DEF About
    <2> QED BY <1>1, <1>2, <2>2
<1> QED BY <1>4, <1>5

\* A call that prepares the proposal makes others that do.
LEMMA CalmThen ==
    ASSUME NetInv, NEW r \in Replica, OneProposal(r), stack[r] # <<>>,
           Preparing(Top(r), storage[r], Proposal(r)), storage'[r] = storage[r],
           NEW calls \in Seq(Call), Then(r, calls),
           \A i \in DOMAIN calls : Preparing(calls[i], storage[r], Proposal(r))
    PROVE  OneProposal(r)' /\ stack'[r] # <<>> /\ Proposal(r)' = Proposal(r)
<1>1. PICK s, st, b, t : s = stack[r] /\ st = storage[r] /\ b = Proposal(r) /\ t = stack'[r]
    OBVIOUS
<1>2. s \in Seq(Call) /\ t = calls \o Tail(s)
    <2>1. DOMAIN stack = Replica
        BY DEF NetInv, TablesOK
    <2> QED BY <1>1, <2>1 DEF Then, NetInv, ReplicaOK, StackOK
<1>3. About(s, st, b)
    BY <1>1, OneProposalIs
<1>4. Preparing(Head(s), st, b)
    BY <1>1 DEF Top
<1>5. About(t, st, b)
    BY <1>1, <1>2, <1>3, <1>4, AboutThen
<1>6. t # <<>> /\ t[Len(t)].blk = b
    BY <1>5 DEF About, Concluding
<1>7. Proposal(r)' = b
    BY <1>1, <1>6 DEF Proposal
<1> QED BY <1>1, <1>5, <1>6, <1>7 DEF OneProposal, About, Concluding, Preparing

\* What remains calm when the tables of r rest and its handler goes on or ends.
LEMMA CalmReplicaKept ==
    ASSUME NetInv, Grows, Stays, NEW r \in Replica, CalmReplica(r), NEW x, x = Proposal(r),
           fetching'[r] = fetching[r], need'[r] = need[r], storage'[r] = storage[r],
           \A b \in DOMAIN waiting'[r] : waiting'[r][b] = <<>>, OneProposal(r)',
           stack[r] # <<>> => \/ stack'[r] # <<>> /\ Proposal(r)' = x
                              \/ AlreadyHandled(r, x)'
    PROVE  CalmReplica(r)'
<1>1. storage[r] \subseteq Known
    BY DEF NetInv, ReplicaOK, StoredOK
<1>2. ASSUME NEW b \in storage[r]
      PROVE  AlreadyHandled(r, b)' \/ (stack'[r] # <<>> /\ b = Proposal(r)')
    <2>1. AlreadyHandled(r, b) => AlreadyHandled(r, b)'
        BY <1>1, <1>2, FiledStays
    <2>2. AlreadyHandled(r, b) \/ (stack[r] # <<>> /\ b = Proposal(r))
        BY <1>2 DEF CalmReplica
    <2> QED BY <2>1, <2>2
<1>3. \A b \in storage[r] : Parents(b)' = Parents(b)
    BY <1>1 DEF Grows, Parents
<1>4. \A b \in storage[r] : Range(Parents(b))' \subseteq storage[r]
    BY <1>3 DEF CalmReplica
<1> QED BY <1>2, <1>4 DEF CalmReplica

\* A replica that is calm has delivered whatever it has stored but its proposal.
LEMMA CalmStored ==
    ASSUME NetInv, NEW r \in Replica, CalmReplica(r), NEW b \in storage[r], b \notin delivered[r]
    PROVE  stack[r] # <<>> /\ b = Proposal(r)
<1>1. ~ AlreadyHandled(r, b)
    BY DEF NetInv, CoreInv, TypeOK, AlreadyHandled, HasHeight
<1> QED BY <1>1 DEF CalmReplica

\* A call that prepares the proposal leaves the replica calm.
LEMMA PreparingCalm ==
    ASSUME NetInv, Grows, Stays, NEW r \in Replica, CalmReplica(r), stack[r] # <<>>,
           Preparing(Top(r), storage[r], Proposal(r)),
           storage'[r] = storage[r], fetching'[r] = fetching[r], need'[r] = need[r],
           \A b \in DOMAIN waiting'[r] : waiting'[r][b] = <<>>,
           NEW calls \in Seq(Call), Then(r, calls),
           \A i \in DOMAIN calls : Preparing(calls[i], storage[r], Proposal(r))
    PROVE  CalmReplica(r)'
<1>1. OneProposal(r)
    BY DEF CalmReplica
<1>2. OneProposal(r)' /\ stack'[r] # <<>> /\ Proposal(r)' = Proposal(r)
    BY <1>1, CalmThen
<1>3. PICK x : x = Proposal(r)
    OBVIOUS
<1> QED BY <1>2, <1>3, CalmReplicaKept

\* async_deliver_blk finds the block in the storage: nothing is fetched.
LEMMA AsyncDeliverCalm ==
    ASSUME NetInv, Grows, Stays, NEW r \in Replica, CalmReplica(r), AsyncDeliverBlk(r)
    PROVE  CalmReplica(r)' /\ chan' = chan
<1>1. PICK b, p, st, x : b = Top(r).blk /\ p = Top(r).peer /\ st = storage[r] /\ x = Proposal(r)
    OBVIOUS
<1>2. /\ Running(r, "async_deliver") /\ stack[r] # <<>> /\ b \in Hash /\ p \in Replica
      /\ Top(r).op = "async_deliver"
    BY <1>1, TopFacts DEF AsyncDeliverBlk, Running
<1>3. Preparing(Top(r), st, x)
    BY <1>1, <1>2, CalmTop DEF CalmReplica, Concluding
<1>4. b \in st
    BY <1>1, <1>2, <1>3 DEF Preparing
<1>5. /\ chan' = chan /\ fetching' = fetching /\ need' = need /\ storage' = storage
      /\ \/ waiting' = waiting /\ Then(r, <<>>)
         \/ /\ waiting' = [waiting EXCEPT ![r] = Put(@, b, <<>>)] /\ b \notin delivered[r]
            /\ Then(r, Invoke("verify", b, p))
    BY <1>1, <1>4 DEF AsyncDeliverBlk
<1>6. \A q \in DOMAIN waiting[r] : waiting[r][q] = <<>>
    BY DEF CalmReplica
<1>7. CASE waiting' = waiting /\ Then(r, <<>>)
    <2>1. PICK calls : calls = <<>>
        OBVIOUS
    <2>2. calls \in Seq(Call) /\ Then(r, calls) /\ \A i \in DOMAIN calls : Preparing(calls[i], st, x)
        BY <1>7, <2>1
    <2> QED BY <1>1, <1>2, <1>3, <1>5, <1>6, <1>7, <2>2, PreparingCalm
<1>8. CASE /\ waiting' = [waiting EXCEPT ![r] = Put(@, b, <<>>)] /\ b \notin delivered[r]
           /\ Then(r, Invoke("verify", b, p))
    <2>1. PICK calls : calls = Invoke("verify", b, p)
        OBVIOUS
    <2>2. calls \in Seq(Call) /\ Then(r, calls)
        BY <1>2, <1>8, <2>1, InvokeFacts DEF Op
    <2>3. b = x
        BY <1>1, <1>4, <1>8, CalmStored
    <2>4. \A i \in DOMAIN calls : Preparing(calls[i], st, x)
        BY <2>1, <2>3 DEF Invoke, Preparing
    <2>5. \A q \in DOMAIN waiting'[r] : waiting'[r][q] = <<>>
        BY <1>6, <1>8 DEF Put, NetInv, TablesOK
    <2> QED BY <1>1, <1>2, <1>3, <1>5, <2>2, <2>4, <2>5, PreparingCalm
<1> QED BY <1>5, <1>7, <1>8

\* The parents that verify asks for are stored.
LEMMA VerifyCalm ==
    ASSUME NetInv, Grows, Stays, NEW r \in Replica, CalmReplica(r), Verify(r)
    PROVE  CalmReplica(r)' /\ chan' = chan
<1>1. PICK b, p, st, x : b = Top(r).blk /\ p = Top(r).peer /\ st = storage[r] /\ x = Proposal(r)
    OBVIOUS
<1>2. /\ stack[r] # <<>> /\ b \in Known /\ b \in st /\ p \in Replica /\ b \in delivered[p]
      /\ Top(r).op = "verify"
    BY <1>1, TopFacts DEF Verify, Running
<1>3. Preparing(Top(r), st, x)
    BY <1>1, <1>2, CalmTop DEF CalmReplica, Concluding
<1>4. b = x
    BY <1>1, <1>2, <1>3 DEF Preparing
<1>5. /\ chan' = chan /\ fetching' = fetching /\ need' = need /\ storage' = storage
      /\ waiting' = waiting /\ (stack' = stack \/ Then(r, VerifyCalls(b, p)))
    BY <1>1 DEF Verify, VerifyCalls
<1>6. \A q \in DOMAIN waiting[r] : waiting[r][q] = <<>>
    BY DEF CalmReplica
<1>7. CASE stack' = stack
    <2>1. OneProposal(r)' /\ Proposal(r)' = x
        BY <1>1, <1>5, <1>7 DEF CalmReplica, OneProposal, Proposal
    <2> QED BY <1>1, <1>2, <1>5, <1>6, <1>7, <2>1, CalmReplicaKept
<1>8. CASE Then(r, VerifyCalls(b, p))
    <2>1. PICK calls : calls = VerifyCalls(b, p)
        OBVIOUS
    <2>2. calls \in Seq(Call) /\ Then(r, calls)
        BY <1>2, <1>8, <2>1, VerifyCallsFacts
    <2>3. PICK ps : ps = Parents(b)
        OBVIOUS
    <2>4. ps \in Seq(Hash) /\ Range(ps) \subseteq st
        BY <1>1, <1>2, <2>3, ParentsFacts DEF CalmReplica, NetInv
    <2>5. PICK ask, last : /\ ask = [i \in DOMAIN ps |-> [op |-> "async_deliver", blk |-> ps[i], peer |-> p]]
                           /\ last = Invoke("all", b, p)
        OBVIOUS
    <2>6. calls = ask \o last
        BY <2>1, <2>3, <2>5 DEF VerifyCalls
    <2>7. \A i \in DOMAIN ask : Preparing(ask[i], st, x)
        BY <2>4, <2>5 DEF Preparing, Range
    <2>8. \A i \in DOMAIN last : Preparing(last[i], st, x)
        BY <1>4, <2>5 DEF Preparing, Invoke
    <2>9. DOMAIN ask = 1..Len(ps) /\ Len(ps) \in Nat
        BY <2>4, <2>5
    <2>10. ask \in Seq(Call)
        BY <1>2, <2>4, <2>5, <2>9 DEF Call
    <2>11. last \in Seq(Call)
        BY <1>1, <1>2, <2>5, InvokeFacts DEF Op, NetInv, CoreInv, TypeOK, Known
    <2>12. \A i \in DOMAIN calls : Preparing(calls[i], st, x)
        BY <2>6, <2>7, <2>8, <2>10, <2>11
    <2> QED BY <1>1, <1>2, <1>3, <1>5, <1>6, <2>2, <2>12, PreparingCalm
<1> QED BY <1>5, <1>7, <1>8

\* promise::all finds all parents delivered.
LEMMA AllCalm ==
    ASSUME NetInv, Grows, Stays, AncestorsBelow, NEW r \in Replica, CalmReplica(r), All(r)
    PROVE  CalmReplica(r)' /\ chan' = chan
<1>1. PICK b, p, st, x : b = Top(r).blk /\ p = Top(r).peer /\ st = storage[r] /\ x = Proposal(r)
    OBVIOUS
<1>2. /\ stack[r] # <<>> /\ b \in Known /\ b \in Hash /\ b \in st /\ p \in Replica
      /\ Top(r).op = "all"
    BY <1>1, TopFacts DEF All, Running
<1>3. Preparing(Top(r), st, x)
    BY <1>1, <1>2, CalmTop DEF CalmReplica, Concluding
<1>4. b = x
    BY <1>1, <1>2, <1>3 DEF Preparing
<1>5. Undelivered(r, b) = {}
    <2>1. SUFFICES ASSUME NEW c \in Range(Parents(b)), c \notin delivered[r] PROVE FALSE
        BY DEF Undelivered
    <2>2. c \in st /\ c # b
        BY <1>1, <1>2 DEF CalmReplica, AncestorsBelow
    <2> QED BY <1>1, <1>4, <2>1, <2>2, CalmStored
<1>6. /\ chan' = chan /\ fetching' = fetching /\ need' = need /\ storage' = storage
      /\ waiting' = waiting /\ Then(r, Invoke("on_deliver", b, p))
    BY <1>1, <1>5 DEF All
<1>7. PICK calls : calls = Invoke("on_deliver", b, p)
    OBVIOUS
<1>8. calls \in Seq(Call) /\ Then(r, calls)
    BY <1>2, <1>6, <1>7, InvokeFacts DEF Op
<1>9. \A i \in DOMAIN calls : Preparing(calls[i], st, x)
    BY <1>4, <1>7 DEF Invoke, Preparing
<1>10. \A q \in DOMAIN waiting[r] : waiting[r][q] = <<>>
    BY DEF CalmReplica
<1> QED BY <1>1, <1>2, <1>3, <1>6, <1>8, <1>9, <1>10, PreparingCalm

\* Nobody waits for the block that is delivered.
LEMMA DeliverCalm ==
    ASSUME NetInv, Grows, Stays, NEW r \in Replica, CalmReplica(r), BOnDeliverBlk(r)
    PROVE  CalmReplica(r)' /\ chan' = chan
<1>1. PICK b, st, x : b = Top(r).blk /\ st = storage[r] /\ x = Proposal(r)
    OBVIOUS
<1>2. stack[r] # <<>> /\ Top(r).op = "on_deliver"
    <2>1. Running(r, "on_deliver")
        BY DEF BOnDeliverBlk
    <2> QED BY <2>1, TopFacts
<1>3. Preparing(Top(r), st, x)
    BY <1>1, <1>2, CalmTop DEF CalmReplica, Concluding
<1>4. \A q \in DOMAIN waiting[r] : waiting[r][q] = <<>>
    BY DEF CalmReplica
<1>5. /\ chan' = chan /\ fetching' = fetching /\ need' = need /\ storage' = storage
      /\ waiting' = [waiting EXCEPT ![r] = Erase(@, b)] /\ Then(r, <<>>)
    BY <1>1, <1>4 DEF BOnDeliverBlk
<1>6. PICK calls : calls = <<>>
    OBVIOUS
<1>7. calls \in Seq(Call) /\ Then(r, calls) /\ \A i \in DOMAIN calls : Preparing(calls[i], st, x)
    BY <1>5, <1>6
<1>8. \A q \in DOMAIN waiting'[r] : waiting'[r][q] = <<>>
    BY <1>4, <1>5 DEF Erase, NetInv, TablesOK
<1> QED BY <1>1, <1>2, <1>3, <1>5, <1>7, <1>8, PreparingCalm

\* The proposal is delivered when the handler comes to its end: it waits for nothing.
LEMMA AwaitCalm ==
    ASSUME NetInv, Grows, Stays, NEW r \in Replica, CalmReplica(r), AwaitDelivery(r)
    PROVE  CalmReplica(r)' /\ chan' = chan
<1>1. PICK c, b, x : c = Top(r) /\ b = Top(r).blk /\ x = Proposal(r)
    OBVIOUS
<1>2. /\ stack[r] # <<>> /\ b \in Hash /\ c \in Call /\ c.op = "await_delivery" /\ c.blk = b
      /\ b \in delivered[r] \cup DOMAIN waiting[r]
    BY <1>1, TopFacts DEF AwaitDelivery, Running
<1>3. Concluding(c, x) /\ stack[r] = <<c>>
    BY <1>1, <1>2, CalmTop DEF CalmReplica, Preparing
<1>4. b = x
    BY <1>2, <1>3 DEF Concluding
<1>5. b \in delivered[r]
    <2>1. InFlight(stack[r], b) = 0
        BY <1>2, <1>3, CountSingle DEF InFlight, One
    <2>2. b \notin DOMAIN fetching[r] /\ b \notin DOMAIN need[r]
        BY DEF CalmReplica
    <2>3. b \notin DOMAIN waiting[r]
        BY <1>2, <2>1, <2>2, TopTokens DEF One
    <2> QED BY <1>2, <2>3
<1>6. PICK then : then = Invoke("on_receive_proposal", b, c.peer)
    OBVIOUS
<1>7. /\ chan' = chan /\ fetching' = fetching /\ need' = need /\ storage' = storage
      /\ waiting' = waiting /\ Then(r, then)
    BY <1>1, <1>5, <1>6 DEF AwaitDelivery
<1>8. stack'[r] = then \o Tail(stack[r]) /\ Tail(stack[r]) = <<>>
    BY <1>3, <1>7 DEF Then, NetInv, TablesOK
<1>9. PICK d : d = [op |-> "on_receive_proposal", blk |-> b, peer |-> c.peer]
    OBVIOUS
<1>10. stack'[r] = <<d>> /\ d.op = "on_receive_proposal" /\ d.blk = b
    <2>1. then = <<d>>
        BY <1>6, <1>9 DEF Invoke
    <2>2. <<d>> \o <<>> = <<d>>
        OBVIOUS
    <2> QED BY <1>8, <1>9, <2>1, <2>2
<1>11. OneProposal(r)' /\ stack'[r] # <<>> /\ Proposal(r)' = x
    <2>1. PICK t : t = stack'[r]
        OBVIOUS
    <2>2. t = <<d>> /\ Len(t) = 1 /\ t[Len(t)] = d /\ 1..(Len(t) - 1) = {} /\ t # <<>>
        BY <1>10, <2>1
    <2>3. Proposal(r)' = b
        BY <1>10, <2>1, <2>2 DEF Proposal
    <2>4. OneProposal(r)'
        BY <1>10, <2>1, <2>2 DEF OneProposal
    <2> QED BY <1>4, <2>1, <2>2, <2>3, <2>4
<1>12. \A q \in DOMAIN waiting[r] : waiting[r][q] = <<>>
    BY DEF CalmReplica
<1> QED BY <1>1, <1>7, <1>11, <1>12, CalmReplicaKept

\* The last call ends the handler; it has filed the proposal.
LEMMA ReceiveCalm ==
    ASSUME NetInv, FirstInv, Grows, Stays, NEW r \in Replica, CalmReplica(r), BOnReceiveProposal(r)
    PROVE  CalmReplica(r)'
<1>1. PICK c, b, x : c = Top(r) /\ b = Top(r).blk /\ x = Proposal(r)
    OBVIOUS
<1>2. /\ Running(r, "on_receive_proposal")
      /\ stack[r] # <<>> /\ c.op = "on_receive_proposal" /\ c.blk = b
    <2>1. Running(r, "on_receive_proposal")
        BY DEF BOnReceiveProposal
    <2> QED BY <1>1, <2>1, TopFacts
<1>3. Concluding(c, x) /\ stack[r] = <<c>>
    BY <1>1, <1>2, CalmTop DEF CalmReplica, Preparing
<1>4. b = x
    BY <1>2, <1>3 DEF Concluding
<1>5. /\ fetching' = fetching /\ need' = need /\ storage' = storage /\ waiting' = waiting
      /\ Then(r, <<>>)
    BY DEF BOnReceiveProposal
<1>6. stack'[r] = <<>>
    <2>1. stack'[r] = <<>> \o Tail(<<c>>)
        BY <1>3, <1>5 DEF Then, NetInv, TablesOK
    <2>2. <<>> \o Tail(<<c>>) = <<>>
        OBVIOUS
    <2> QED BY <2>1, <2>2
<1>7. AlreadyHandled(r, b)'
    BY <1>1, <1>2, ReceiveFiles DEF HandlerStep
<1>8. \A q \in DOMAIN waiting[r] : waiting[r][q] = <<>>
    BY DEF CalmReplica
<1>9. OneProposal(r)'
    BY <1>6 DEF OneProposal
<1> QED BY <1>1, <1>4, <1>5, <1>7, <1>8, <1>9, CalmReplicaKept

\* What is not touched files nothing.
LEMMA SameFiles ==
    ASSUME NetInv, Grows, NEW q \in Replica, ht_blk_map'[q] = ht_blk_map[q]
    PROVE  FilesOnly(q, {})
<1> SUFFICES ASSUME NEW b \in Known' \ {Genesis}, AlreadyHandled(q, b)'
             PROVE  b \in Known /\ AlreadyHandled(q, b)
    BY DEF FilesOnly
<1>1. PICK h : h = blocks'[b].height
    OBVIOUS
<1>2. h \in DOMAIN ht_blk_map[q] /\ ht_blk_map[q][h] = b
    BY <1>1 DEF AlreadyHandled, HasHeight, Height
<1>3. b \in Known
    BY <1>2 DEF NetInv, CoreInv, TypeOK
<1>4. blocks[b].height = h
    BY <1>1, <1>3 DEF Grows
<1> QED BY <1>2, <1>3, <1>4 DEF AlreadyHandled, HasHeight, Height

\* update files its block at the most.
LEMMA UpdateFilesOnly ==
    ASSUME NetInv, Grows, NEW q \in Replica, NEW b, NEW ht, Update(q, b, ht)
    PROVE  FilesOnly(q, {b})
<1> SUFFICES ASSUME NEW x \in Known' \ {Genesis}, AlreadyHandled(q, x)', x # b
             PROVE  x \in Known /\ AlreadyHandled(q, x)
    BY DEF FilesOnly
<1>1. PICK h, m, n : h = blocks'[x].height /\ m = ht_blk_map[q] /\ n = ht_blk_map'[q]
    OBVIOUS
<1>2. h \in DOMAIN n /\ n[h] = x
    BY <1>1 DEF AlreadyHandled, HasHeight, Height
<1>3. n = m \/ n = Put(m, ht, b)
    BY <1>1 DEF Update, NetInv, CoreInv, TypeOK
<1>4. h \in DOMAIN m /\ m[h] = x
    BY <1>2, <1>3 DEF Put
<1>5. x \in Known
    BY <1>1, <1>4 DEF NetInv, CoreInv, TypeOK
<1>6. blocks[x].height = h
    BY <1>1, <1>5 DEF Grows
<1> QED BY <1>1, <1>4, <1>5, <1>6 DEF AlreadyHandled, HasHeight, Height

\* All connections are calm.
CalmChannels == \A p \in Link : CalmChannel(p)

\* Nothing is sent or filed.
LEMMA ChannelsRest ==
    ASSUME NetInv, Grows, StaysDead, CalmChannels, chan' = chan, ht_blk_map' = ht_blk_map,
           \A q \in Replica : storage[q] \subseteq storage'[q]
    PROVE  CalmChannels'
<1> SUFFICES ASSUME NEW p \in Link PROVE CalmChannel(p)'
    BY DEF CalmChannels
<1>1. p[1] \in Replica /\ p[2] \in Replica
    BY DEF Link
<1>2. FilesOnly(p[1], {})
    BY <1>1, SameFiles
<1> QED BY <1>1, <1>2, CalmRests DEF CalmChannels

\* A replica files a block of which it has filed all ancestors, and sends it.
LEMMA BroadcastCalm ==
    ASSUME NetInv, Grows, StaysDead, CalmChannels, NEW r \in Replica, ~ aborted[r],
           NEW b \in Known', Broadcast(r, b),
           NEW ht, Update(r, b, ht),
           \A q \in Replica \ {r} : ht_blk_map'[q] = ht_blk_map[q],
           \A q \in Replica : storage[q] \subseteq storage'[q],
           \A c \in Range(Parents(b))' : c \in Known /\ AlreadyHandled(r, c)
    PROVE  CalmChannels'
<1> SUFFICES ASSUME NEW p \in Link PROVE CalmChannel(p)'
    BY DEF CalmChannels
<1>1. p[1] \in Replica /\ p[2] \in Replica /\ CalmChannel(p)
    BY DEF Link, CalmChannels
<1>2. CASE p[1] = r
    <2>1. chan'[p] = Append(chan[p], [type |-> "propose", blk |-> b])
        BY <1>2 DEF Broadcast
    <2>2. FilesOnly(p[1], {b})
        BY <1>2, UpdateFilesOnly
    <2> QED BY <1>1, <1>2, <2>1, <2>2, CalmAdded
<1>3. CASE p[1] # r
    <2>1. chan'[p] = chan[p]
        BY <1>3 DEF Broadcast
    <2>2. FilesOnly(p[1], {})
        BY <1>1, <1>3, SameFiles
    <2> QED BY <1>1, <2>1, <2>2, CalmRests
<1> QED BY <1>2, <1>3

\* on_receive_proposal forwards a block after its ancestors.
LEMMA ReceiveAfterParents ==
    ASSUME NetInv, AncestorsBelow, NEW r \in Replica, CalmReplica(r), BOnReceiveProposal(r),
           NEW b, b = Top(r).blk, NEW a \in Range(Parents(b))
    PROVE  a \in Known /\ AlreadyHandled(r, a)
<1>1. PICK c, x : c = Top(r) /\ x = Proposal(r)
    OBVIOUS
<1>2. /\ stack[r] # <<>> /\ c.op = "on_receive_proposal" /\ c.blk = b
      /\ b \in Known /\ b \in delivered[r]
    <2>1. Running(r, "on_receive_proposal")
        BY DEF BOnReceiveProposal
    <2> QED BY <1>1, <2>1, TopFacts
<1>3. b = x
    <2>1. Concluding(c, x)
        BY <1>1, <1>2, CalmTop DEF CalmReplica, Preparing
    <2> QED BY <1>2, <2>1 DEF Concluding
<1>4. a \in Known /\ a # b
    BY <1>2 DEF AncestorsBelow
<1>5. b \in storage[r]
    BY <1>2 DEF NetInv, ReplicaOK, StoredOK
<1>6. a \in storage[r]
    BY <1>5 DEF CalmReplica
<1>7. AlreadyHandled(r, a) \/ a = Proposal(r)
    BY <1>6 DEF CalmReplica
<1> QED BY <1>1, <1>3, <1>4, <1>7

\* so its connections stay calm.
LEMMA ReceiveChannelsCalm ==
    ASSUME NetInv, Grows, Stays, StaysDead, AncestorsBelow, NEW r \in Replica, CalmReplica(r),
           CalmChannels, BOnReceiveProposal(r)
    PROVE  CalmChannels'
<1>1. PICK b : b = Top(r).blk
    OBVIOUS
<1>2. b \in Known
    <2>1. Running(r, "on_receive_proposal")
        BY DEF BOnReceiveProposal
    <2> QED BY <1>1, <2>1, TopFacts
<1>3. storage' = storage
    BY DEF BOnReceiveProposal
<1>4. CASE AlreadyHandled(r, b)
    <2>1. chan' = chan /\ ht_blk_map' = ht_blk_map
        BY <1>1, <1>4 DEF BOnReceiveProposal, vars
    <2> QED BY <1>3, <2>1, ChannelsRest
<1>5. CASE ~ AlreadyHandled(r, b)
    <2>1. Update(r, b, Height(b)) /\ Broadcast(r, b)
        BY <1>1, <1>5 DEF BOnReceiveProposal, OnReceiveProposal
    <2>2. \A q \in Replica \ {r} : ht_blk_map'[q] = ht_blk_map[q]
        BY <2>1, UpdateRange DEF NetInv, CoreInv, TypeOK
    <2>3. Parents(b)' = Parents(b) /\ b \in Known'
        BY <1>2 DEF Grows, Parents
    <2>4. \A a \in Range(Parents(b)) : a \in Known /\ AlreadyHandled(r, a)
        BY <1>1, ReceiveAfterParents
    <2>5. PICK ht : ht = Height(b)
        OBVIOUS
    <2>6. ~ aborted[r]
        BY DEF BOnReceiveProposal, Running, Up
    <2> QED BY <1>3, <2>1, <2>2, <2>3, <2>4, <2>5, <2>6, BroadcastCalm
<1> QED BY <1>4, <1>5

\* on_propose creates its block,
LEMMA ProposeKnown ==
    ASSUME NEW r, NEW h, OnPropose(r, h)
    PROVE  Known' = Known \cup {h}
<1>1. PICK rec : blocks' = Put(blocks, h, rec)
    BY ProposePuts
<1> QED BY <1>1, PutFacts DEF Known

\* whose ancestors the proposer has filed,
LEMMA ProposeAfterParents ==
    ASSUME FirstInv, AncestorsBelow', NEW r \in Replica, NEW h \in Hash,
           BPropose(r, h), NEW c \in Range(Parents(h))',
           r = FirstProposer
    PROVE  c \in Known /\ AlreadyHandled(r, c)
<1>1. OnPropose(r, h)
    BY DEF BPropose
<1>2. Known' = Known \cup {h}
    BY <1>1, ProposeKnown
<1>3. r = FirstProposer
    OBVIOUS
<1>4. c \in Known' \ {h}
    BY <1>2 DEF AncestorsBelow
<1>5. c \in Known
    BY <1>2, <1>4
<1> QED BY <1>3, <1>5 DEF FirstInv, FirstFiledAll

\* it stays calm,
LEMMA ProposeReplicaCalm ==
    ASSUME NetInv, NetInv', FirstInv, FirstInv', Grows, Stays,
           NEW r \in Replica, NEW h \in Hash, CalmReplica(r), BPropose(r, h),
           r = FirstProposer
    PROVE  CalmReplica(r)'
<1>1. /\ OnPropose(r, h) /\ stack[r] = <<>>
      /\ storage' = [storage EXCEPT ![r] = @ \cup {h}]
      /\ fetching' = fetching /\ need' = need /\ waiting' = waiting /\ stack' = stack
    BY DEF BPropose, Idle
<1>2. AlreadyHandled(r, h)' /\ h \in delivered'[r]
    <2>1. PICK ps : Deliver(r, h, ps)
        BY <1>1 DEF OnPropose
    <2>2. h \in delivered'[r]
        BY <2>1 DEF Deliver, NetInv, CoreInv, TypeOK
    <2> QED BY <2>2, ProposeGrowsChannels
<1>3. ASSUME NEW b \in storage'[r]
      PROVE  Range(Parents(b))' \subseteq storage'[r] /\ AlreadyHandled(r, b)'
    <2>1. CASE b = h
        <3>1. Range(Parents(h))' \subseteq delivered'[r]
            BY <1>2 DEF Grows, DeliveredClosed
        <3>2. delivered'[r] \subseteq storage'[r]
            BY DEF NetInv, ReplicaOK, StoredOK
        <3> QED BY <1>2, <2>1, <3>1, <3>2
    <2>2. CASE b \in storage[r]
        <3>1. b \in Known
            BY <2>2 DEF NetInv, ReplicaOK, StoredOK
        <3>2. AlreadyHandled(r, b)
            BY <1>1, <2>2 DEF CalmReplica
        <3>3. Range(Parents(b)) \subseteq storage[r] /\ Parents(b)' = Parents(b)
            BY <2>2, <3>1 DEF CalmReplica, Grows, Parents
        <3>4. storage[r] \subseteq storage'[r]
            BY <1>1 DEF NetInv, TablesOK
        <3> QED BY <3>1, <3>2, <3>3, <3>4, FiledStays
    <2> QED BY <1>1, <1>3, <2>1, <2>2 DEF NetInv, TablesOK
<1>4. OneProposal(r)'
    BY <1>1 DEF OneProposal
<1>5. /\ DOMAIN fetching'[r] = {} /\ DOMAIN need'[r] = {}
      /\ \A b \in DOMAIN waiting'[r] : waiting'[r][b] = <<>>
    BY <1>1 DEF CalmReplica
<1> QED BY <1>3, <1>4, <1>5 DEF CalmReplica

\* and so do its connections.
LEMMA ProposeChannelsCalm ==
    ASSUME NetInv, FirstInv, Grows, StaysDead, AncestorsBelow',
           NEW r \in Replica, NEW h \in Hash, CalmChannels, BPropose(r, h),
           r = FirstProposer
    PROVE  CalmChannels'
<1>1. /\ OnPropose(r, h) /\ Broadcast(r, h)
      /\ storage' = [storage EXCEPT ![r] = @ \cup {h}]
    BY DEF BPropose
<1>2. PICK ht : Update(r, h, ht)
    BY <1>1 DEF OnPropose
<1>3. Known' = Known \cup {h}
    BY <1>1, ProposeKnown
<1>4. \A c \in Range(Parents(h))' : c \in Known /\ AlreadyHandled(r, c)
    BY ProposeAfterParents
<1>5. \A q \in Replica \ {r} : ht_blk_map'[q] = ht_blk_map[q]
    BY <1>2, UpdateRange DEF NetInv, CoreInv, TypeOK
<1>6. \A q \in Replica : storage[q] \subseteq storage'[q]
    BY <1>1 DEF NetInv, TablesOK
<1>7. ~ aborted[r]
    BY DEF BPropose, Idle, Up
<1> QED BY <1>1, <1>2, <1>3, <1>4, <1>5, <1>6, <1>7, BroadcastCalm

\* A calm connection carries nothing but proposals whose ancestors are stored.
LEMMA CalmHead ==
    ASSUME NetInv, NEW p \in Link, CalmChannel(p), chan[p] # <<>>, NEW m, m = Head(chan[p])
    PROVE  m.type = "propose" /\ Range(Parents(m.blk)) \subseteq storage[p[2]]
<1>1. PICK s : s = chan[p]
    OBVIOUS
<1>2. s \in Seq(Message) /\ s # <<>> /\ m = Head(s)
    BY <1>1 DEF NetInv, ChannelsOK
<1>3. 1 \in DOMAIN s /\ s[1] = m
    <2>1. s \in Seq(Message) /\ s # <<>>
        BY <1>2
    <2>2. Head(s) = s[1]
        BY <2>1
    <2>3. PICK n : n = Len(s)
        OBVIOUS
    <2>4. n \in Nat \ {0} /\ DOMAIN s = 1..n
        BY <2>1, <2>3, EmptySeq, LenProperties
    <2>5. 1 \in 1..n
        BY <2>4
    <2> QED BY <1>2, <2>2, <2>4, <2>5
<1>4. m.type = "propose" /\ InOrder(p, m.blk, 1)
    <2>1. \A i \in DOMAIN s : s[i].type = "propose" /\ InOrder(p, s[i].blk, i)
        BY <1>1, CalmChannelSays
    <2>2. s[1].type = "propose" /\ InOrder(p, s[1].blk, 1)
        BY <1>3, <2>1
    <2> QED BY <1>3, <2>2
<1>5. ASSUME NEW c \in Range(Parents(m.blk)) PROVE c \in storage[p[2]]
    <2>1. Reaches(p, c, 1)
        BY <1>4, <1>5 DEF InOrder
    <2> QED BY <2>1 DEF Reaches, Sent
<1> QED BY <1>4, <1>5

\* A handler that begins with two calls.
LEMMA TwoCalls ==
    ASSUME NEW c, NEW d, NEW t, t = <<c>> \o <<d>>
    PROVE  Len(t) = 2 /\ t[1] = c /\ t[2] = d /\ t # <<>>
<1>1. PICK u, v : u = <<c>> /\ v = <<d>>
    OBVIOUS
<1>2. u \in Seq({c, d}) /\ v \in Seq({c, d}) /\ Len(u) = 1 /\ Len(v) = 1 /\ u[1] = c /\ v[1] = d
    BY <1>1
<1>3. t = u \o v
    BY <1>1
<1>4. Len(t) = 2
    BY <1>2, <1>3
<1>5. t[1] = u[1]
    BY <1>2, <1>3
<1>6. t[2] = v[2 - Len(u)]
    BY <1>2, <1>3
<1> QED BY <1>2, <1>4, <1>5, <1>6

\* propose_handler gets a block whose ancestors are stored: the replica stays calm,
LEMMA ProposalCalm ==
    ASSUME NetInv, Grows, Stays, NEW r \in Replica, NEW s \in Replica \ {r},
           ProposeHandler(s, r), CalmReplica(r), proposer[r] = FirstProposer,
           \A b \in Known \ {Genesis} : blocks[b].proposer = FirstProposer,
           NEW b, Incoming(s, r, b), Range(Parents(b)) \subseteq storage[r]
    PROVE  CalmReplica(r)'
<1>1. PICK m, p : m = Head(chan[<<s, r>>]) /\ p = <<s, r>>
    OBVIOUS
<1>2. Receives(s, r, "propose") /\ b = m.blk
    BY <1>1 DEF ProposeHandler, Incoming
<1>3. /\ p \in Link /\ p[2] = r /\ chan[p] # <<>> /\ stack[r] = <<>>
      /\ b \in Known /\ b # Genesis
    BY <1>1, <1>2, ReceivedFacts
<1>4. blocks[b].proposer = FirstProposer
    BY <1>3
<1>5. PICK c, d : /\ c = [op |-> "async_deliver", blk |-> b, peer |-> s]
                  /\ d = [op |-> "await_delivery", blk |-> b, peer |-> s]
    OBVIOUS
<1>6. /\ storage' = [storage EXCEPT ![r] = @ \cup {b}]
      /\ stack' = [stack EXCEPT ![r] = <<c>> \o <<d>>]
      /\ fetching' = fetching /\ need' = need /\ waiting' = waiting
    BY <1>1, <1>2, <1>4, <1>5 DEF ProposeHandler, Invoke
<1>7. storage'[r] = storage[r] \cup {b}
    BY <1>6 DEF NetInv, TablesOK
<1>8. PICK t : t = stack'[r]
    OBVIOUS
<1>9. /\ t # <<>> /\ Len(t) = 2 /\ t[1] = c /\ t[2] = d
      /\ c.op = "async_deliver" /\ c.blk = b /\ d.op = "await_delivery" /\ d.blk = b
    <2>1. t = <<c>> \o <<d>>
        BY <1>6, <1>8 DEF NetInv, TablesOK
    <2>2. Len(t) = 2 /\ t[1] = c /\ t[2] = d /\ t # <<>>
        BY <2>1, TwoCalls
    <2> QED BY <1>5, <2>2
<1>10. OneProposal(r)' /\ Proposal(r)' = b
    <2>1. Proposal(r)' = b
        BY <1>8, <1>9 DEF Proposal
    <2>2. 1..(Len(t) - 1) = {1}
        BY <1>9
    <2>3. \A i \in 1..(Len(t) - 1) : t[i].op = "async_deliver" /\ t[i].blk \in storage'[r]
        BY <1>7, <1>9, <2>2
    <2>4. t[Len(t)].op = "await_delivery"
        BY <1>9
    <2> QED BY <1>8, <2>1, <2>3, <2>4 DEF OneProposal
<1>11. ASSUME NEW x \in storage'[r]
       PROVE  Range(Parents(x))' \subseteq storage'[r] /\ (AlreadyHandled(r, x)' \/ x = b)
    <2>1. x \in Known
        BY <1>3, <1>7, <1>11 DEF NetInv, ReplicaOK, StoredOK
    <2>2. Parents(x)' = Parents(x)
        BY <2>1 DEF Grows, Parents
    <2>3. Range(Parents(x)) \subseteq storage[r]
        BY <1>7, <1>11 DEF CalmReplica
    <2>4. x # b => AlreadyHandled(r, x)
        BY <1>3, <1>7, <1>11 DEF CalmReplica
    <2>5. x # b => AlreadyHandled(r, x)'
        BY <2>1, <2>4, FiledStays
    <2> QED BY <1>7, <2>2, <2>3, <2>5
<1>12. /\ DOMAIN fetching'[r] = {} /\ DOMAIN need'[r] = {}
       /\ \A q \in DOMAIN waiting'[r] : waiting'[r][q] = <<>>
    BY <1>6 DEF CalmReplica
<1>13. stack'[r] # <<>>
    BY <1>8, <1>9
<1> QED BY <1>10, <1>11, <1>12, <1>13 DEF CalmReplica

\* and so do the connections.
LEMMA MessageCalm ==
    ASSUME NetInv, Grows, Stays, StaysDead, NEW r \in Replica, NEW s \in Replica \ {r},
           HandleMessage(s, r),
           CalmReplica(r), CalmChannels, proposer[r] = FirstProposer,
           \A b \in Known \ {Genesis} : blocks[b].proposer = FirstProposer
    PROVE  CalmReplica(r)' /\ CalmChannels'
<1>1. PICK type : Receives(s, r, type) /\ type \in {"propose", "req", "resp"}
    BY DEF HandleMessage, ProposeHandler, ReqBlkHandler, RespBlkHandler
<1>2. PICK m, b, p : m = Head(chan[<<s, r>>]) /\ b = m.blk /\ p = <<s, r>>
    OBVIOUS
<1>3. p \in Link /\ p[2] = r /\ chan[p] # <<>> /\ stack[r] = <<>> /\ b \in Known /\ m.type = type
    BY <1>1, <1>2, ReceivedFacts DEF Receives
<1>4. m.type = "propose" /\ Range(Parents(b)) \subseteq storage[r]
    BY <1>2, <1>3, CalmHead DEF CalmChannels
<1>5. ProposeHandler(s, r) /\ Incoming(s, r, b)
    BY <1>2, <1>4 DEF HandleMessage, ReqBlkHandler, RespBlkHandler, Receives, Incoming
<1>6. CalmReplica(r)'
    BY <1>4, <1>5, ProposalCalm
<1>7. /\ storage' = [storage EXCEPT ![r] = @ \cup {b}]
      /\ chan' = [chan EXCEPT ![p] = Tail(@)]
      /\ ht_blk_map' = ht_blk_map
    BY <1>2, <1>5 DEF ProposeHandler, vars
<1>8. storage'[r] = storage[r] \cup {b} /\ \A q \in Replica : storage[q] \subseteq storage'[q]
    BY <1>7 DEF NetInv, TablesOK
<1>9. ASSUME NEW l \in Link PROVE CalmChannel(l)'
    <2>1. l[1] \in Replica /\ l[2] \in Replica /\ CalmChannel(l)
        BY DEF Link, CalmChannels
    <2>2. FilesOnly(l[1], {})
        BY <1>7, <2>1, SameFiles
    <2>3. CASE l = p
        <3>1. chan'[l] = Tail(chan[l])
            BY <1>3, <1>7, <2>3 DEF NetInv, TablesOK
        <3>2. Head(chan[l]).blk \in storage'[l[2]]
            BY <1>2, <1>3, <1>8, <2>3
        <3> QED BY <1>3, <1>8, <2>1, <2>2, <2>3, <3>1, <3>2, CalmTaken
    <2>4. CASE l # p
        <3>1. chan'[l] = chan[l]
            BY <1>7, <2>4
        <3> QED BY <1>8, <2>1, <2>2, <3>1, CalmRests
    <2> QED BY <2>3, <2>4
<1> QED BY <1>6, <1>9 DEF CalmChannels

\* Every call of a handler leaves its replica calm and, but for the last one, the connections
\* alone.
LEMMA HandlerReplicaCalm ==
    ASSUME NetInv, FirstInv, Grows, Stays, AncestorsBelow, NEW r \in Replica,
           HandlerStep(r), CalmReplica(r)
    PROVE  /\ CalmReplica(r)'
           /\ BOnReceiveProposal(r) \/ UNCHANGED <<chan, ht_blk_map, storage>>
<1>1. CASE BOnReceiveProposal(r)
    BY <1>1, ReceiveCalm
<1>2. CASE AllThen(r)
    <2>1. Running(r, "all_then")
        BY <1>2 DEF AllThen
    <2>2. PICK c : c = Top(r)
        OBVIOUS
    <2>3. c.op = "all_then" /\ stack[r] # <<>>
        BY <2>1, <2>2, TopFacts
    <2> QED BY <2>2, <2>3, CalmTop DEF CalmReplica, Preparing, Concluding
<1>3. CASE AsyncDeliverBlk(r) \/ Verify(r) \/ All(r) \/ BOnDeliverBlk(r) \/ AwaitDelivery(r)
    <2>1. CalmReplica(r)' /\ chan' = chan
        BY <1>3, AsyncDeliverCalm, VerifyCalm, AllCalm, DeliverCalm, AwaitCalm
    <2>2. ht_blk_map' = ht_blk_map /\ storage' = storage
        BY <1>3 DEF AsyncDeliverBlk, Verify, All, BOnDeliverBlk, OnDeliverBlk, AwaitDelivery, vars
    <2> QED BY <2>1, <2>2
<1> QED BY <1>1, <1>2, <1>3 DEF HandlerStep

\* It leaves the connections calm.
LEMMA HandlerCalm ==
    ASSUME NetInv, FirstInv, Grows, Stays, StaysDead, AncestorsBelow, NEW r \in Replica,
           HandlerStep(r), CalmReplica(r), CalmChannels
    PROVE  CalmReplica(r)' /\ CalmChannels'
<1>1. CalmReplica(r)' /\ (BOnReceiveProposal(r) \/ UNCHANGED <<chan, ht_blk_map, storage>>)
    BY HandlerReplicaCalm
<1>2. CASE BOnReceiveProposal(r)
    BY <1>1, <1>2, ReceiveChannelsCalm
<1>3. CASE UNCHANGED <<chan, ht_blk_map, storage>>
    BY <1>1, <1>3, ChannelsRest
<1> QED BY <1>1, <1>2, <1>3

\* A replica that does not move stays calm.
LEMMA OtherCalm ==
    ASSUME NetInv, Grows, Stays, NEW q \in Replica, CalmReplica(q),
           fetching'[q] = fetching[q], need'[q] = need[q], storage'[q] = storage[q],
           waiting'[q] = waiting[q], stack'[q] = stack[q]
    PROVE  CalmReplica(q)'
<1>1. PICK x : x = Proposal(q)
    OBVIOUS
<1>2. Proposal(q)' = x
    BY <1>1 DEF Proposal
<1>3. OneProposal(q)'
    <2>1. OneProposal(q)
        BY DEF CalmReplica
    <2> QED BY <2>1 DEF OneProposal, Proposal
<1>4. \A b \in DOMAIN waiting'[q] : waiting'[q][b] = <<>>
    BY DEF CalmReplica
<1> QED BY <1>1, <1>2, <1>3, <1>4, CalmReplicaKept

\* The replicas and the connections are calm.
Calm == CalmChannels /\ \A r \in Replica : CalmReplica(r)

\* One replica moves, the others stay calm.
LEMMA CalmMove ==
    ASSUME NetInv, Grows, Stays, Calm, NEW r \in Replica, Own(r), CalmReplica(r)', CalmChannels'
    PROVE  Calm'
<1>1. ASSUME NEW q \in Replica \ {r} PROVE CalmReplica(q)'
    BY OtherCalm DEF Own, Calm
<1> QED BY <1>1 DEF Calm

\* Nobody comes back in the network layer.
LEMMA NobodyComesBack ==
    ASSUME NetInv, [BNext]_bvars
    PROVE  StaysDead
<1> SUFFICES ASSUME NEW q \in Replica, aborted[q] PROVE aborted'[q]
    BY DEF StaysDead
<1>1. ASSUME NEW r \in Replica, Verify(r) PROVE aborted'[q]
    BY <1>1 DEF Verify, NetInv, TablesOK
<1>2. ASSUME NEW r \in Replica, HandlerStep(r), ~ Verify(r) PROVE aborted' = aborted
    BY <1>2 DEF HandlerStep, AsyncDeliverBlk, All, AllThen, BOnDeliverBlk, AwaitDelivery,
                BOnReceiveProposal
<1>3. ASSUME NEW r \in Replica, NEW s \in Replica \ {r}, HandleMessage(s, r) PROVE aborted' = aborted
    BY <1>3 DEF HandleMessage, ProposeHandler, ReqBlkHandler, RespBlkHandler
<1>4. ASSUME NEW r \in Replica,
             \/ BProposeNullParent(r)
             \/ Impeach(r)
             \/ \E b \in Hash : BPropose(r, b) \/ BCommitTimerCb(r, b) \/ FetchTimeout(r, b)
             \/ \E s \in Replica \ {r} : Lose(s, r)
      PROVE  aborted' = aborted
    BY <1>4 DEF BProposeNullParent, Impeach, BPropose, BCommitTimerCb, FetchTimeout, Lose, baseVars
<1>5. CASE UNCHANGED bvars
    BY <1>5 DEF bvars, baseVars
<1> QED BY <1>1, <1>2, <1>3, <1>4, <1>5 DEF BNext

\* Every step but a loss and an impeachment leaves everybody calm.
LEMMA CalmStep ==
    ASSUME Early', NetInv, FirstInv, ProposalInv, CalmInv, [BNext]_bvars,
           losses' = 0, impeachments' = 0
    PROVE  Calm'
<1>1. Grows /\ Stays /\ StaysDead /\ FirstInv' /\ NetInv'
    BY StepBelow, NetInvStep, NobodyComesBack
<1>2. AncestorsBelow /\ AncestorsBelow'
    <2>1. CoreInv /\ CoreInv'
        BY <1>1 DEF NetInv
    <2>2. (CoreInv /\ FirstInv)' => AncestorsBelow'
        BY NotOwnAncestor, PTL
    <2> QED BY <1>1, <2>1, <2>2, NotOwnAncestor
<1>3. losses = 0 /\ impeachments = 0
    <2>1. /\ losses \in Nat /\ impeachments \in Nat
          /\ losses' = losses \/ losses' = losses + 1
          /\ impeachments' = impeachments \/ impeachments' = impeachments + 1
        BY <1>1, CountersStep
    <2> QED BY <2>1
<1>4. Calm
    BY <1>3 DEF CalmInv, Calm, CalmChannels
<1>5. ASSUME NEW r \in Replica, HandlerStep(r) PROVE Calm'
    BY <1>1, <1>2, <1>4, <1>5, HandlerCalm, HandlerOwn, CalmMove DEF Calm
<1>6. ASSUME NEW r \in Replica, NEW h \in Hash, BPropose(r, h) PROVE Calm'
    BY <1>1, <1>2, <1>4, <1>6, FirstProposes, ProposeReplicaCalm, ProposeChannelsCalm, ProposeOwn, CalmMove DEF Calm
<1>7. ASSUME NEW r \in Replica, NEW s \in Replica \ {r}, HandleMessage(s, r) PROVE Calm'
    <2>1. proposer[r] = FirstProposer /\ \A b \in Known \ {Genesis} : blocks[b].proposer = FirstProposer
        BY <1>3 DEF ProposalInv
    <2>2. CalmReplica(r)' /\ CalmChannels'
        BY <1>1, <1>4, <1>7, <2>1, MessageCalm DEF Calm
    <2> QED BY <1>1, <1>4, <1>7, <2>2, MessageOwn, CalmMove
<1>8. ASSUME NEW r \in Replica, Impeach(r) PROVE FALSE
    BY <1>3, <1>8 DEF Impeach
<1>9. ASSUME NEW r \in Replica, NEW s \in Replica \ {r}, Lose(s, r) PROVE FALSE
    BY <1>3, <1>9 DEF Lose
<1>10. ASSUME NEW r \in Replica, NEW b \in Hash, FetchTimeout(r, b) PROVE FALSE
    BY <1>4, <1>10 DEF FetchTimeout, Calm, CalmReplica
<1>11. ASSUME UNCHANGED <<ht_blk_map, storage, fetching, need, waiting, stack, chan>>
       PROVE  Calm'
    <2>1. CalmChannels'
        BY <1>1, <1>4, <1>11, ChannelsRest DEF Calm
    <2>2. ASSUME NEW q \in Replica PROVE CalmReplica(q)'
        BY <1>1, <1>4, <1>11, OtherCalm DEF Calm
    <2> QED BY <2>1, <2>2 DEF Calm
<1>12. ASSUME NEW r \in Replica, BProposeNullParent(r) \/ \E b \in Hash : BCommitTimerCb(r, b)
       PROVE  UNCHANGED <<ht_blk_map, storage, fetching, need, waiting, stack, chan>>
    BY <1>12 DEF BProposeNullParent, OnProposeNullParent, BCommitTimerCb, CommitTimerCb, baseVars
<1>13. CASE UNCHANGED bvars
    BY <1>11, <1>13 DEF bvars, vars, baseVars
<1> QED BY <1>5, <1>6, <1>7, <1>8, <1>9, <1>10, <1>11, <1>12, <1>13 DEF BNext

\* All is calm when the replicas start.
LEMMA InitCalm == BInit => CalmInv
<1> SUFFICES ASSUME BInit PROVE CalmInv
    OBVIOUS
<1>1. ASSUME NEW r \in Replica PROVE CalmReplica(r)
    <2>1. /\ stack[r] = <<>> /\ DOMAIN fetching[r] = {} /\ DOMAIN need[r] = {} /\ DOMAIN waiting[r] = {}
          /\ storage[r] = {Genesis} /\ Parents(Genesis) = <<>> /\ AlreadyHandled(r, Genesis)
        BY DEF BInit, Init, Empty, Parents, GenesisBlock, AlreadyHandled, HasHeight, Height
    <2>2. Range(Parents(Genesis)) = {}
        BY <2>1 DEF Range
    <2> QED BY <2>1, <2>2 DEF CalmReplica, OneProposal
<1>2. ASSUME NEW p \in Link PROVE CalmChannel(p)
    <2>1. chan[p] = <<>> /\ Known = {Genesis}
        BY DEF BInit, Init, Known
    <2> QED BY <2>1 DEF CalmChannel
<1> QED BY <1>1, <1>2 DEF CalmInv

\* Every step keeps what holds when one replica proposes and nothing is lost.
LEMMA CalmInvStep ==
    ASSUME Early', NetInv, FirstInv, ProposalInv, CalmInv, [BNext]_bvars
    PROVE  NetInv' /\ FirstInv' /\ ProposalInv' /\ CalmInv'
<1>1. losses' = 0 /\ impeachments' = 0 => Calm'
    BY CalmStep
<1>2. CalmInv'
    BY <1>1 DEF CalmInv, Calm, CalmChannels
<1> QED BY <1>2, NetInvStep, ProposalStep

\* With one proposer in force and no loss the parents of a proposal have always come
\* before it, whoever forwarded it: async_fetch_blk is never reached with a block that is
\* not stored.
THEOREM FetchesNothing == BSpec => []NothingToFetch
<1>1. BInit => NetInv /\ (Early => FirstInv /\ ProposalInv /\ CalmInv)
    BY InitNetInv, InitProposal, InitCalm
<1>2. /\ NetInv /\ (Early => FirstInv /\ ProposalInv /\ CalmInv)
      /\ [BNext]_bvars
      => (NetInv /\ (Early => FirstInv /\ ProposalInv /\ CalmInv))'
    BY NetInvStep, EarlyBefore, CalmInvStep
<1>3. (Early => CalmInv) => NothingToFetch
    BY DEF CalmInv, CalmReplica, NothingToFetch, Early
<1> QED BY <1>1, <1>2, <1>3, PTL DEF BSpec

-----------------------------------------------------------------------------
(* One connection in one step.                                              *)

\* Nothing stored is thrown away.
StorageGrows == \A q \in Replica : storage[q] \subseteq storage'[q]

\* The oldest message of p is taken off the connection.
Takes(p) == chan[p] # <<>> /\ chan'[p] = Tail(chan[p])

\* The block that a message makes its receiver file.
Carries(m) == IF m.type = "propose" THEN {m.blk} ELSE {}

\* What happens to a connection that does not break: its sender files what it sends on it.
ChannelMoves(p) ==
    \/ chan'[p] = chan[p] /\ FilesOnly(p[1], {})
    \/ Takes(p) /\ Head(chan[p]).blk \in storage'[p[2]] /\ FilesOnly(p[1], {})
    \/ \E m : chan'[p] = Append(chan[p], m) /\ FilesOnly(p[1], Carries(m))

\* No connection moves another way.
ChannelsMove == StorageGrows /\ \A p \in Link : ChannelMoves(p)

\* do_broadcast_proposal after update.
LEMMA BroadcastMoves ==
    ASSUME NetInv, Grows, NEW r \in Replica, NEW b, Broadcast(r, b), NEW ht, Update(r, b, ht),
           \A q \in Replica \ {r} : ht_blk_map'[q] = ht_blk_map[q]
    PROVE  \A p \in Link : ChannelMoves(p)
<1> SUFFICES ASSUME NEW p \in Link PROVE ChannelMoves(p)
    OBVIOUS
<1>1. p[1] \in Replica
    BY DEF Link
<1>2. CASE p[1] = r
    <2>1. PICK m : m = [type |-> "propose", blk |-> b]
        OBVIOUS
    <2>2. chan'[p] = Append(chan[p], m)
        BY <1>2, <2>1 DEF Broadcast
    <2>3. FilesOnly(p[1], Carries(m))
        BY <1>2, <2>1, UpdateFilesOnly DEF Carries
    <2> QED BY <2>2, <2>3 DEF ChannelMoves
<1>3. CASE p[1] # r
    <2>1. chan'[p] = chan[p]
        BY <1>3 DEF Broadcast
    <2> QED BY <1>1, <1>3, <2>1, SameFiles DEF ChannelMoves
<1> QED BY <1>2, <1>3

\* Where nothing is filed, a connection rests, is read, or gets a request or an answer.
LEMMA SendMoves ==
    ASSUME NetInv, Grows, ht_blk_map' = ht_blk_map, NEW p \in Link,
           \/ chan'[p] = chan[p]
           \/ Takes(p) /\ Head(chan[p]).blk \in storage'[p[2]]
           \/ \E m : chan'[p] = Append(chan[p], m) /\ m.type # "propose"
    PROVE  ChannelMoves(p)
<1>1. FilesOnly(p[1], {})
    BY SameFiles DEF Link
<1> QED BY <1>1 DEF ChannelMoves, Carries

\* The calls of a handler.
LEMMA HandlerMoves ==
    ASSUME NetInv, Grows, NEW r \in Replica, HandlerStep(r)
    PROVE  ChannelsMove
<1>1. StorageGrows
    BY HandlerFlow DEF Flows, StorageGrows
<1>2. CASE BOnReceiveProposal(r)
    <2>1. PICK b, ht : b = Top(r).blk /\ ht = Height(b)
        OBVIOUS
    <2>2. CASE AlreadyHandled(r, b)
        <3>1. chan' = chan /\ ht_blk_map' = ht_blk_map
            BY <1>2, <2>1, <2>2 DEF BOnReceiveProposal, vars
        <3> QED BY <1>1, <3>1, SendMoves DEF ChannelsMove
    <2>3. CASE ~ AlreadyHandled(r, b)
        <3>1. Update(r, b, ht) /\ Broadcast(r, b)
            BY <1>2, <2>1, <2>3 DEF BOnReceiveProposal, OnReceiveProposal
        <3>2. \A q \in Replica \ {r} : ht_blk_map'[q] = ht_blk_map[q]
            BY <3>1, UpdateRange DEF NetInv, CoreInv, TypeOK
        <3> QED BY <1>1, <3>1, <3>2, BroadcastMoves DEF ChannelsMove
    <2> QED BY <2>2, <2>3
<1>3. CASE AsyncDeliverBlk(r)
    <2>1. ht_blk_map' = ht_blk_map /\ (chan' = chan \/ \E q, b : Send(r, q, "req", b))
        BY <1>3 DEF AsyncDeliverBlk, vars
    <2>2. ASSUME NEW q, NEW b, Send(r, q, "req", b), NEW p \in Link
          PROVE  chan'[p] = chan[p] \/ \E m : chan'[p] = Append(chan[p], m) /\ m.type # "propose"
        <3>1. PICK m : m = [type |-> "req", blk |-> b]
            OBVIOUS
        <3>2. m.type # "propose" /\ chan' = [chan EXCEPT ![<<r, q>>] = Append(@, m)]
            BY <2>2, <3>1 DEF Send
        <3> QED BY <3>2 DEF NetInv, TablesOK
    <2> QED BY <1>1, <2>1, <2>2, SendMoves DEF ChannelsMove
<1>4. CASE Verify(r) \/ All(r) \/ AllThen(r) \/ BOnDeliverBlk(r) \/ AwaitDelivery(r)
    <2>1. chan' = chan /\ ht_blk_map' = ht_blk_map
        BY <1>4 DEF Verify, All, AllThen, BOnDeliverBlk, OnDeliverBlk, AwaitDelivery, vars
    <2> QED BY <1>1, <2>1, SendMoves DEF ChannelsMove
<1> QED BY <1>2, <1>3, <1>4 DEF HandlerStep

\* The message handlers.
LEMMA MessageMoves ==
    ASSUME NetInv, Grows, NEW r \in Replica, NEW s \in Replica \ {r}, HandleMessage(s, r)
    PROVE  ChannelsMove
<1>1. PICK p, q : p = <<s, r>> /\ q = <<r, s>>
    OBVIOUS
<1>2. PICK b : b = Head(chan[p]).blk
    OBVIOUS
<1>3. /\ p \in Link /\ q \in Link /\ p # q /\ p[2] = r /\ DOMAIN chan = Link /\ DOMAIN storage = Replica
      /\ ht_blk_map' = ht_blk_map
    BY <1>1, MessageOwn DEF Link, NetInv, TablesOK
<1>4. CASE ProposeHandler(s, r) \/ RespBlkHandler(s, r)
    <2>1. /\ chan[p] # <<>> /\ chan' = [chan EXCEPT ![p] = Tail(@)]
          /\ storage' = [storage EXCEPT ![r] = @ \cup {b}]
        BY <1>1, <1>2, <1>4 DEF ProposeHandler, RespBlkHandler, Receives
    <2>2. StorageGrows /\ b \in storage'[r]
        BY <1>3, <2>1 DEF StorageGrows
    <2>3. \A l \in Link : chan'[l] = chan[l] \/ (l = p /\ Takes(p))
        BY <1>3, <2>1 DEF Takes
    <2> QED BY <1>2, <1>3, <2>2, <2>3, SendMoves DEF ChannelsMove
<1>5. CASE ReqBlkHandler(s, r)
    <2>1. PICK m : m = [type |-> "resp", blk |-> b]
        OBVIOUS
    <2>2. /\ chan[p] # <<>> /\ chan' = [chan EXCEPT ![p] = Tail(@), ![q] = Append(@, m)]
          /\ storage' = storage /\ b \in storage[r]
        BY <1>1, <1>2, <1>5, <2>1 DEF ReqBlkHandler, Receives
    <2>3. \A l \in Link : \/ chan'[l] = chan[l]
                          \/ l = p /\ Takes(p)
                          \/ chan'[l] = Append(chan[l], m) /\ m.type # "propose"
        BY <1>3, <2>1, <2>2 DEF Takes
    <2>4. StorageGrows
        BY <2>2 DEF StorageGrows
    <2> QED BY <1>2, <1>3, <2>2, <2>3, <2>4, SendMoves DEF ChannelsMove
<1> QED BY <1>4, <1>5 DEF HandleMessage

\* on_propose.
LEMMA ProposeMoves ==
    ASSUME NetInv, Grows, NEW r \in Replica, NEW h \in Hash, BPropose(r, h)
    PROVE  ChannelsMove
<1>1. PICK ht : Update(r, h, ht)
    BY DEF BPropose, OnPropose
<1>2. Broadcast(r, h) /\ storage' = [storage EXCEPT ![r] = @ \cup {h}]
    BY DEF BPropose
<1>3. StorageGrows
    BY <1>2 DEF StorageGrows, NetInv, TablesOK
<1>4. \A q \in Replica \ {r} : ht_blk_map'[q] = ht_blk_map[q]
    BY <1>1, UpdateRange DEF NetInv, CoreInv, TypeOK
<1> QED BY <1>1, <1>2, <1>3, <1>4, BroadcastMoves DEF ChannelsMove

\* The timeout of a fetch.
LEMMA TimeoutMoves ==
    ASSUME NetInv, Grows, NEW r \in Replica, NEW b \in Hash, FetchTimeout(r, b)
    PROVE  ChannelsMove
<1>1. PICK m, to : m = [type |-> "req", blk |-> b] /\ to = fetching[r][b].peers
    OBVIOUS
<1>2. /\ chan' = [p \in Link |-> IF p[1] = r /\ p[2] \in to THEN Append(chan[p], m) ELSE chan[p]]
      /\ storage' = storage /\ ht_blk_map' = ht_blk_map
    BY <1>1 DEF FetchTimeout, vars
<1>3. StorageGrows /\ m.type # "propose"
    BY <1>1, <1>2 DEF StorageGrows
<1>4. \A p \in Link : chan'[p] = chan[p] \/ (chan'[p] = Append(chan[p], m) /\ m.type # "propose")
    BY <1>2, <1>3
<1> QED BY <1>2, <1>3, <1>4, SendMoves DEF ChannelsMove

\* A connection breaks, the others rest.
LEMMA LoseMoves ==
    ASSUME NetInv, Grows, NEW r \in Replica, NEW s \in Replica \ {r}, Lose(s, r)
    PROVE  /\ StorageGrows
           /\ \A p \in Link : FilesOnly(p[1], {}) /\ IF p = <<s, r>> THEN Takes(p) ELSE chan'[p] = chan[p]
           /\ <<s, r>> \in Link
<1>1. PICK l : l = <<s, r>>
    OBVIOUS
<1>2. /\ chan[l] # <<>> /\ chan' = [chan EXCEPT ![l] = Tail(@)] /\ storage' = storage
      /\ ht_blk_map' = ht_blk_map
    BY <1>1 DEF Lose, vars
<1>3. l \in Link /\ DOMAIN chan = Link
    BY <1>1 DEF Link, NetInv, TablesOK
<1>4. StorageGrows
    BY <1>2 DEF StorageGrows
<1>5. \A p \in Link : IF p = l THEN Takes(p) ELSE chan'[p] = chan[p]
    BY <1>2, <1>3 DEF Takes
<1>6. \A p \in Link : FilesOnly(p[1], {})
    BY <1>2, SameFiles DEF Link
<1> QED BY <1>1, <1>3, <1>4, <1>5, <1>6

\* Every step but a loss moves the connections that way.
LEMMA StepMoves ==
    ASSUME NetInv, Grows, [BNext]_bvars
    PROVE  ChannelsMove \/ \E r \in Replica : \E s \in Replica \ {r} : Lose(s, r)
<1>1. ASSUME UNCHANGED <<chan, storage, ht_blk_map>> PROVE ChannelsMove
    BY <1>1, SendMoves DEF ChannelsMove, StorageGrows
<1>2. ASSUME NEW r \in Replica, HandlerStep(r) PROVE ChannelsMove
    BY <1>2, HandlerMoves
<1>3. ASSUME NEW r \in Replica, NEW s \in Replica \ {r}, HandleMessage(s, r) PROVE ChannelsMove
    BY <1>3, MessageMoves
<1>4. ASSUME NEW r \in Replica, NEW b \in Hash, BPropose(r, b) PROVE ChannelsMove
    BY <1>4, ProposeMoves
<1>5. ASSUME NEW r \in Replica, NEW b \in Hash, FetchTimeout(r, b) PROVE ChannelsMove
    BY <1>5, TimeoutMoves
<1>6. ASSUME NEW r \in Replica, BProposeNullParent(r) \/ Impeach(r) PROVE ChannelsMove
    BY <1>1, <1>6 DEF BProposeNullParent, OnProposeNullParent, Impeach, baseVars, vars
<1>7. ASSUME NEW r \in Replica, NEW b \in Hash, BCommitTimerCb(r, b) PROVE ChannelsMove
    BY <1>1, <1>7 DEF BCommitTimerCb, CommitTimerCb, baseVars
<1>8. CASE UNCHANGED bvars
    BY <1>1, <1>8 DEF bvars, vars, baseVars
<1> QED BY <1>2, <1>3, <1>4, <1>5, <1>6, <1>7, <1>8 DEF BNext

-----------------------------------------------------------------------------
(* What a connection brings.                                                *)

\* What is taken off a connection is what it will not bring any more.
LEMMA ReachesButHead ==
    ASSUME NetInv, NEW p \in Link, Takes(p), StorageGrows,
           NEW b, b # Head(chan[p]).blk \/ b \in storage'[p[2]],
           NEW n \in 1..Len(chan[p]), Reaches(p, b, n + 1)
    PROVE  Reaches(p, b, n)'
<1>1. PICK s, t : s = chan[p] /\ t = chan'[p]
    OBVIOUS
<1>2. s \in Seq(Message) /\ s # <<>> /\ t = Tail(s)
    BY <1>1 DEF NetInv, ChannelsOK, Takes
<1>3. CASE b \in storage[p[2]] \/ b \in storage'[p[2]]
    BY <1>3 DEF Reaches, StorageGrows, Link
<1>4. CASE Sent(p, b, n + 1) /\ b # Head(s).blk
    <2>1. PICK i \in 1..n : s[i].type = "propose" /\ s[i].blk = b
        BY <1>1, <1>4 DEF Sent
    <2>2. i # 1
        <3>1. s[1] = Head(s)
            BY <1>2
        <3> QED BY <1>4, <2>1, <3>1
    <2>3. i - 1 \in 1..(n - 1)
        BY <2>2
    <2>4. i - 1 \in DOMAIN t
        BY <1>1, <1>2, <2>2, HeadTailProperties
    <2>5. t[i - 1] = s[i]
        BY <1>2, <2>4, HeadTailProperties
    <2> QED BY <1>1, <2>1, <2>3, <2>5 DEF Reaches, Sent
<1> QED BY <1>1, <1>3, <1>4 DEF Reaches

\* A connection that moves brings what it brought; one that breaks, but for the message that is
\* lost with it.
LEMMA BringsKept ==
    ASSUME NetInv, Grows, StorageGrows, NEW p \in Link, NEW lost, Brings(p, lost), NEW more,
           \/ ChannelMoves(p) /\ more = {}
           \/ Takes(p) /\ FilesOnly(p[1], {}) /\ Head(chan[p]).blk \in more
    PROVE  Brings(p, lost \cup more)'
<1>1. PICK s, t : s = chan[p] /\ t = chan'[p]
    OBVIOUS
<1>2. s \in Seq(Message) /\ Len(s) \in Nat /\ storage[p[2]] \subseteq storage'[p[2]]
    BY <1>1 DEF NetInv, ChannelsOK, StorageGrows, Link
<1>3. SUFFICES ASSUME NEW b \in Known' \ {Genesis}, AlreadyHandled(p[1], b)', b \notin lost \cup more
               PROVE  Reaches(p, b, Len(t) + 1)'
    BY <1>1 DEF Brings
<1>4. ASSUME b \in Known, AlreadyHandled(p[1], b) PROVE Reaches(p, b, Len(s) + 1)
    BY <1>1, <1>3, <1>4 DEF Brings
<1>5. CASE t = s /\ FilesOnly(p[1], {})
    <2>1. Reaches(p, b, Len(s) + 1)
        BY <1>3, <1>4, <1>5 DEF FilesOnly
    <2>2. Len(s) + 1 \in 1..(Len(s) + 1)
        BY <1>2
    <2> QED BY <1>1, <1>2, <1>5, <2>1, <2>2, ReachesLater
<1>6. CASE Takes(p) /\ FilesOnly(p[1], {}) /\ (Head(s).blk \in storage'[p[2]] \/ Head(s).blk \in more)
    <2>1. Reaches(p, b, Len(s) + 1)
        BY <1>3, <1>4, <1>6 DEF FilesOnly
    <2>2. Len(s) = Len(t) + 1 /\ Len(s) \in 1..Len(s)
        BY <1>1, <1>2, <1>6, HeadTailProperties DEF Takes
    <2>3. b # Head(s).blk \/ b \in storage'[p[2]]
        BY <1>3, <1>6
    <2> QED BY <1>1, <1>6, <2>1, <2>2, <2>3, ReachesButHead
<1>7. ASSUME NEW m, t = Append(s, m), FilesOnly(p[1], Carries(m))
      PROVE  Reaches(p, b, Len(t) + 1)'
    <2>1. Len(t) = Len(s) + 1 /\ t[Len(t)] = m
        BY <1>2, <1>7
    <2>2. CASE b \in Known /\ AlreadyHandled(p[1], b)
        <3>1. Reaches(p, b, Len(s) + 1)
            BY <1>4, <2>2
        <3>2. Len(s) + 1 \in 1..(Len(s) + 1)
            BY <1>2
        <3>3. Reaches(p, b, Len(s) + 1)'
            BY <1>1, <1>2, <1>7, <3>1, <3>2, ReachesLater
        <3>4. 1..((Len(s) + 1) - 1) \subseteq 1..((Len(t) + 1) - 1)
            BY <1>2, <2>1
        <3> QED BY <3>3, <3>4 DEF Reaches, Sent
    <2>3. CASE b \in Carries(m)
        <3>1. m.type = "propose" /\ m.blk = b
            BY <2>3 DEF Carries
        <3>2. Len(t) \in 1..((Len(t) + 1) - 1)
            BY <1>2, <2>1
        <3> QED BY <1>1, <2>1, <3>1, <3>2 DEF Reaches, Sent
    <2> QED BY <1>3, <1>7, <2>2, <2>3 DEF FilesOnly
<1> QED BY <1>1, <1>5, <1>6, <1>7 DEF ChannelMoves

\* All connections bring what they brought while none of them breaks.
LEMMA AllBring ==
    ASSUME NetInv, Grows, ChannelsMove, NEW p \in Link, NEW lost, Brings(p, lost)
    PROVE  Brings(p, lost)'
<1>1. PICK more : more = {}
    OBVIOUS
<1>2. Brings(p, lost \cup more)'
    BY <1>1, BringsKept DEF ChannelsMove
<1>3. lost \cup more = lost
    BY <1>1
<1> QED BY <1>2, <1>3

\* Genesis need not be brought.
LEMMA BringsParents ==
    ASSUME NetInv, NEW p \in Link, Brings(p, {}), NEW c \in Known, AlreadyHandled(p[1], c)
    PROVE  Reaches(p, c, Len(chan[p]) + 1)
<1>1. Genesis \in storage[p[2]]
    BY DEF Link, NetInv, CoreInv, BlocksOK, TypeOK, ReplicaOK, StoredOK
<1> QED BY <1>1 DEF Brings, Reaches

-----------------------------------------------------------------------------
(* What is fetched.                                                         *)

\* What r has or is about to get.
Awaits(r) == storage[r] \cup DOMAIN fetching[r]

\* Nobody forgets what it waits for.
AwaitsGrow == \A q \in Replica : Awaits(q) \subseteq Awaits(q)'

\* Only on_fetch_blk ends a fetch, and it has the block.
LEMMA StepAwaits ==
    ASSUME NetInv, Grows, [BNext]_bvars
    PROVE  AwaitsGrow
<1>1. StorageGrows /\ DOMAIN fetching = Replica /\ DOMAIN storage = Replica
    BY StepMoves, LoseMoves DEF ChannelsMove, NetInv, TablesOK
<1>2. ASSUME \A q \in Replica : DOMAIN fetching[q] \subseteq Awaits(q)' PROVE AwaitsGrow
    BY <1>1, <1>2 DEF AwaitsGrow, Awaits, StorageGrows
<1>3. fetching' = fetching => AwaitsGrow
    BY <1>2 DEF Awaits
<1>4. ASSUME NEW r \in Replica, AsyncDeliverBlk(r) PROVE AwaitsGrow
    <2>1. fetching' = fetching \/ \E b, e : fetching' = [fetching EXCEPT ![r] = Put(@, b, e)]
        BY <1>4 DEF AsyncDeliverBlk
    <2>2. ASSUME NEW b, NEW e, fetching' = [fetching EXCEPT ![r] = Put(@, b, e)],
                 NEW q \in Replica, NEW x \in DOMAIN fetching[q]
          PROVE  x \in Awaits(q)'
        BY <1>1, <2>2 DEF Awaits, Put
    <2> QED BY <1>2, <1>3, <2>1, <2>2
<1>5. ASSUME NEW r \in Replica, HandlerStep(r), ~ AsyncDeliverBlk(r) PROVE fetching' = fetching
    BY <1>5 DEF HandlerStep, Verify, All, AllThen, BOnDeliverBlk, AwaitDelivery, BOnReceiveProposal
<1>6. ASSUME NEW r \in Replica, NEW s \in Replica \ {r}, RespBlkHandler(s, r) PROVE AwaitsGrow
    <2>1. PICK b : b = Head(chan[<<s, r>>]).blk
        OBVIOUS
    <2>2. /\ storage' = [storage EXCEPT ![r] = @ \cup {b}]
          /\ fetching' = [fetching EXCEPT ![r] = Erase(@, b)]
        BY <1>6, <2>1 DEF RespBlkHandler
    <2>3. ASSUME NEW q \in Replica, NEW x \in DOMAIN fetching[q] PROVE x \in Awaits(q)'
        BY <1>1, <2>2, <2>3 DEF Awaits, Erase
    <2> QED BY <1>2, <2>3
<1>7. ASSUME NEW r \in Replica, NEW s \in Replica \ {r},
             ProposeHandler(s, r) \/ ReqBlkHandler(s, r) \/ Lose(s, r)
      PROVE  fetching' = fetching
    BY <1>7 DEF ProposeHandler, ReqBlkHandler, Lose
<1>8. ASSUME NEW r \in Replica,
             \/ BProposeNullParent(r)
             \/ Impeach(r)
             \/ \E b \in Hash : BPropose(r, b) \/ BCommitTimerCb(r, b) \/ FetchTimeout(r, b)
      PROVE  fetching' = fetching
    BY <1>8 DEF BProposeNullParent, Impeach, BPropose, BCommitTimerCb, FetchTimeout, baseVars
<1>9. CASE UNCHANGED bvars
    BY <1>3, <1>9 DEF bvars, baseVars
<1> QED BY <1>3, <1>4, <1>5, <1>6, <1>7, <1>8, <1>9 DEF BNext, HandleMessage

\* The replica that has asked, when m is on p.
Asker(p, m) == p[IF m.type = "req" THEN 1 ELSE 2]

\* Something is sent that is awaited, or something is taken.
LEMMA ExpectedKept ==
    ASSUME NetInv, AwaitsGrow, NEW p \in Link, Expected(p),
           \/ chan'[p] = chan[p]
           \/ Takes(p)
           \/ \E m : /\ chan'[p] = Append(chan[p], m)
                     /\ m.type # "propose" => m.blk \in Awaits(Asker(p, m))'
    PROVE  Expected(p)'
<1>1. PICK s, t : s = chan[p] /\ t = chan'[p]
    OBVIOUS
<1>2. s \in Seq(Message) /\ p[1] \in Replica /\ p[2] \in Replica
    BY <1>1 DEF NetInv, ChannelsOK, Link
<1>3. ASSUME NEW i \in DOMAIN s, s[i].type # "propose" PROVE s[i].blk \in Awaits(Asker(p, s[i]))'
    <2>1. s[i].blk \in Awaits(Asker(p, s[i]))
        BY <1>1, <1>3 DEF Expected, Awaits, Asker
    <2>2. Asker(p, s[i]) \in Replica
        BY <1>2 DEF Asker
    <2> QED BY <2>1, <2>2 DEF AwaitsGrow
<1>4. SUFFICES ASSUME NEW i \in DOMAIN t, t[i].type # "propose"
               PROVE  t[i].blk \in Awaits(Asker(p, t[i]))'
    BY <1>1 DEF Expected, Awaits, Asker
<1>5. CASE t = s
    BY <1>3, <1>4, <1>5
<1>6. CASE s # <<>> /\ t = Tail(s)
    <2>1. i + 1 \in DOMAIN s /\ t[i] = s[i + 1]
        BY <1>2, <1>4, <1>6, HeadTailProperties
    <2> QED BY <1>3, <1>4, <2>1
<1>7. ASSUME NEW m, t = Append(s, m), m.type # "propose" => m.blk \in Awaits(Asker(p, m))'
      PROVE  t[i].blk \in Awaits(Asker(p, t[i]))'
    <2>1. (i \in DOMAIN s /\ t[i] = s[i]) \/ t[i] = m
        BY <1>2, <1>4, <1>7
    <2> QED BY <1>3, <1>4, <1>7, <2>1
<1> QED BY <1>1, <1>5, <1>6, <1>7 DEF Takes

\* Every connection carries what is expected.
LEMMA ExpectedStep ==
    ASSUME NetInv, Grows, [BNext]_bvars, \A p \in Link : Expected(p)
    PROVE  \A p \in Link : Expected(p)'
<1>1. AwaitsGrow
    BY StepAwaits
<1>2. DOMAIN chan = Link /\ DOMAIN fetching = Replica
    BY DEF NetInv, TablesOK
<1>3. CASE chan' = chan
    BY <1>1, <1>3, ExpectedKept
<1>4. ASSUME NEW r \in Replica, NEW b, Broadcast(r, b), NEW p \in Link PROVE Expected(p)'
    <2>1. PICK m : m = [type |-> "propose", blk |-> b]
        OBVIOUS
    <2>2. chan'[p] = chan[p] \/ chan'[p] = Append(chan[p], m)
        BY <1>4, <2>1 DEF Broadcast
    <2>3. m.type = "propose"
        BY <2>1
    <2> QED BY <1>1, <2>2, <2>3, ExpectedKept
<1>5. ASSUME NEW r \in Replica, AsyncDeliverBlk(r), NEW p \in Link PROVE Expected(p)'
    <2>1. PICK b, q : b = Top(r).blk /\ q = Top(r).peer
        OBVIOUS
    <2>2. \/ chan' = chan
          \/ Send(r, q, "req", b) /\ \E e : fetching' = [fetching EXCEPT ![r] = Put(@, b, e)]
        BY <1>5, <2>1 DEF AsyncDeliverBlk
    <2>3. ASSUME NEW e, Send(r, q, "req", b), fetching' = [fetching EXCEPT ![r] = Put(@, b, e)]
          PROVE  Expected(p)'
        <3>1. PICK m : m = [type |-> "req", blk |-> b]
            OBVIOUS
        <3>2. m.type = "req" /\ m.blk = b /\ chan' = [chan EXCEPT ![<<r, q>>] = Append(@, m)]
            BY <2>3, <3>1 DEF Send
        <3>3. b \in Awaits(r)'
            BY <1>2, <2>3 DEF Awaits, Put
        <3>4. chan'[p] = chan[p] \/ (p[1] = r /\ chan'[p] = Append(chan[p], m))
            BY <1>2, <3>2
        <3> QED BY <1>1, <3>2, <3>3, <3>4, ExpectedKept DEF Asker
    <2> QED BY <1>3, <2>2, <2>3
<1>6. ASSUME NEW r \in Replica, HandlerStep(r), ~ AsyncDeliverBlk(r)
      PROVE  chan' = chan \/ \E b : Broadcast(r, b)
    BY <1>6 DEF HandlerStep, Verify, All, AllThen, BOnDeliverBlk, AwaitDelivery, BOnReceiveProposal
<1>7. ASSUME NEW r \in Replica, NEW s \in Replica \ {r},
             ProposeHandler(s, r) \/ RespBlkHandler(s, r) \/ Lose(s, r), NEW p \in Link
      PROVE  Expected(p)'
    <2>1. chan[<<s, r>>] # <<>> /\ chan' = [chan EXCEPT ![<<s, r>>] = Tail(@)]
        BY <1>7 DEF ProposeHandler, RespBlkHandler, Lose, Receives
    <2>2. chan'[p] = chan[p] \/ Takes(p)
        BY <1>2, <2>1 DEF Takes
    <2> QED BY <1>1, <2>2, ExpectedKept
<1>8. ASSUME NEW r \in Replica, NEW s \in Replica \ {r}, ReqBlkHandler(s, r), NEW p \in Link
      PROVE  Expected(p)'
    <2>1. PICK l, b, m : l = <<s, r>> /\ b = Head(chan[l]).blk /\ m = [type |-> "resp", blk |-> b]
        OBVIOUS
    <2>2. /\ chan[l] # <<>> /\ Head(chan[l]).type = "req" /\ m.type = "resp" /\ m.blk = b
          /\ chan' = [chan EXCEPT ![l] = Tail(@), ![<<r, s>>] = Append(@, m)]
        BY <1>8, <2>1 DEF ReqBlkHandler, Receives
    <2>3. l \in Link /\ l[1] = s /\ l[2] = r /\ l # <<r, s>>
        BY <2>1 DEF Link
    <2>4. b \in Awaits(s)
        <3>1. chan[l] \in Seq(Message)
            BY <2>3 DEF NetInv, ChannelsOK
        <3>2. 1 \in DOMAIN chan[l] /\ chan[l][1] = Head(chan[l])
            BY <2>2, <3>1
        <3> QED BY <2>1, <2>2, <2>3, <3>2 DEF Expected, Awaits
    <2>5. b \in Awaits(s)'
        BY <1>1, <2>4 DEF AwaitsGrow
    <2>6. \/ chan'[p] = chan[p]
          \/ Takes(p)
          \/ p[2] = s /\ chan'[p] = Append(chan[p], m)
        <3>1. PICK k : k = <<r, s>>
            OBVIOUS
        <3>2. chan' = [chan EXCEPT ![l] = Tail(@), ![k] = Append(@, m)] /\ k # l /\ k[2] = s
            BY <2>2, <2>3, <3>1
        <3>3. CASE p = l
            BY <1>2, <2>2, <3>2, <3>3 DEF Takes
        <3>4. CASE p = k
            BY <1>2, <3>2, <3>4
        <3>5. CASE p # l /\ p # k
            BY <1>2, <3>2, <3>5
        <3> QED BY <3>3, <3>4, <3>5
    <2> QED BY <1>1, <2>2, <2>5, <2>6, ExpectedKept DEF Asker
<1>9. ASSUME NEW r \in Replica, NEW b \in Hash, FetchTimeout(r, b), NEW p \in Link
      PROVE  Expected(p)'
    <2>1. PICK m, to : m = [type |-> "req", blk |-> b] /\ to = fetching[r][b].peers
        OBVIOUS
    <2>2. /\ chan' = [q \in Link |-> IF q[1] = r /\ q[2] \in to THEN Append(chan[q], m) ELSE chan[q]]
          /\ b \in DOMAIN fetching[r] /\ m.type = "req" /\ m.blk = b
        BY <1>9, <2>1 DEF FetchTimeout
    <2>3. b \in Awaits(r)'
        BY <1>1, <2>2 DEF Awaits, AwaitsGrow
    <2>4. chan'[p] = chan[p] \/ (p[1] = r /\ chan'[p] = Append(chan[p], m))
        BY <2>2
    <2> QED BY <1>1, <2>2, <2>3, <2>4, ExpectedKept DEF Asker
<1>10. ASSUME NEW r \in Replica, NEW b \in Hash, BPropose(r, b), NEW p \in Link PROVE Expected(p)'
    BY <1>4, <1>10 DEF BPropose
<1>11. ASSUME NEW r \in Replica,
             \/ BProposeNullParent(r)
             \/ Impeach(r)
             \/ \E b \in Hash : BCommitTimerCb(r, b)
      PROVE  chan' = chan
    BY <1>11 DEF BProposeNullParent, Impeach, BCommitTimerCb, baseVars
<1>12. CASE UNCHANGED bvars
    BY <1>3, <1>12 DEF bvars, baseVars
<1> QED BY <1>3, <1>4, <1>5, <1>6, <1>7, <1>8, <1>9, <1>10, <1>11, <1>12 DEF BNext, HandleMessage

\* Every call returns after making some calls, unless it ends the process.
LEMMA HandlerCalls ==
    ASSUME NetInv, NEW r \in Replica, HandlerStep(r)
    PROVE  \/ aborted'[r]
           \/ /\ stack[r] # <<>>
              /\ \E calls \in Seq(Call) : Then(r, calls)
              /\ Top(r).op = "verify" => Top(r).blk \in signed[r]
<1>1. PICK b, p : b = Top(r).blk /\ p = Top(r).peer
    OBVIOUS
<1>2. PICK op \in Op : Running(r, op)
    <2>1. \/ Running(r, "async_deliver") \/ Running(r, "verify") \/ Running(r, "all")
          \/ Running(r, "all_then") \/ Running(r, "on_deliver") \/ Running(r, "await_delivery")
          \/ Running(r, "on_receive_proposal")
        BY DEF HandlerStep, AsyncDeliverBlk, Verify, All, AllThen, BOnDeliverBlk, AwaitDelivery,
               BOnReceiveProposal
    <2> QED BY <2>1 DEF Op
<1>3. stack[r] # <<>> /\ b \in Known /\ b \in Hash /\ p \in Replica /\ Top(r).op = op
    BY <1>1, <1>2, TopFacts
<1>4. <<>> \in Seq(Call) /\ \A o \in Op : Invoke(o, b, p) \in Seq(Call)
    <2>1. <<>> \in Seq(Call)
        OBVIOUS
    <2>2. ASSUME NEW o \in Op PROVE Invoke(o, b, p) \in Seq(Call)
        BY <1>3, <2>2, InvokeFacts
    <2> QED BY <2>1, <2>2
<1>5. CASE Verify(r)
    <2>1. Top(r).op = "verify"
        BY <1>5, TopFacts DEF Verify
    <2>2. CASE b \in signed[r]
        <3>1. Then(r, VerifyCalls(b, p))
            BY <1>1, <1>5, <2>2 DEF Verify, VerifyCalls
        <3>2. VerifyCalls(b, p) \in Seq(Call)
            <4>1. b \in delivered[p] /\ p # r /\ b \in storage[r]
                BY <1>1, <1>5, TopFacts DEF Verify
            <4> QED BY <1>3, <4>1, VerifyCallsFacts
        <3> QED BY <1>1, <1>3, <2>2, <3>1, <3>2
    <2>3. CASE b \notin signed[r]
        BY <1>1, <1>5, <2>3 DEF Verify, NetInv, TablesOK
    <2> QED BY <2>2, <2>3
<1>6. CASE AsyncDeliverBlk(r)
    <2>1. Then(r, <<>>) \/ Then(r, Invoke("verify", b, p))
        BY <1>1, <1>6 DEF AsyncDeliverBlk
    <2>2. Top(r).op # "verify"
        BY <1>6, TopFacts DEF AsyncDeliverBlk
    <2> QED BY <1>3, <1>4, <2>1, <2>2 DEF Op
<1>7. CASE All(r)
    <2>1. Then(r, <<>>) \/ Then(r, Invoke("on_deliver", b, p))
        BY <1>1, <1>7 DEF All
    <2>2. Top(r).op # "verify"
        BY <1>7, TopFacts DEF All
    <2> QED BY <1>3, <1>4, <2>1, <2>2 DEF Op
<1>8. CASE AllThen(r)
    <2>1. Then(r, <<>>) \/ Then(r, Invoke("on_deliver", b, p))
        BY <1>1, <1>8 DEF AllThen
    <2>2. Top(r).op # "verify"
        BY <1>8, TopFacts DEF AllThen
    <2> QED BY <1>3, <1>4, <2>1, <2>2 DEF Op
<1>9. CASE BOnDeliverBlk(r)
    <2>1. Then(r, <<>>) \/ (b \in DOMAIN waiting[r] /\ Then(r, waiting[r][b]))
        BY <1>1, <1>9 DEF BOnDeliverBlk
    <2>2. b \in DOMAIN waiting[r] => waiting[r][b] \in Seq(Call)
        BY DEF NetInv, ReplicaOK, WaitingOK
    <2>3. Top(r).op # "verify"
        BY <1>9, TopFacts DEF BOnDeliverBlk
    <2> QED BY <1>3, <1>4, <2>1, <2>2, <2>3
<1>10. CASE AwaitDelivery(r)
    <2>1. Then(r, <<>>) \/ Then(r, Invoke("on_receive_proposal", b, p))
        BY <1>1, <1>10 DEF AwaitDelivery
    <2>2. Top(r).op # "verify"
        BY <1>10, TopFacts DEF AwaitDelivery
    <2> QED BY <1>3, <1>4, <2>1, <2>2 DEF Op
<1>11. CASE BOnReceiveProposal(r)
    <2>1. Then(r, <<>>)
        BY <1>11 DEF BOnReceiveProposal
    <2>2. Top(r).op # "verify"
        BY <1>11, TopFacts DEF BOnReceiveProposal
    <2> QED BY <1>3, <1>4, <2>1, <2>2
<1> QED BY <1>5, <1>6, <1>7, <1>8, <1>9, <1>10, <1>11 DEF HandlerStep

\* b was proposed to r or is about to stop it.
SignedOrStops(r, b) == b \in signed[r] \/ Has(stack[r], "verify", b)

\* The calls of a handler store nothing, and verify stops at what is not signed,
LEMMA HandlerUnsigned ==
    ASSUME NetInv, Grows, NEW r \in Replica, HandlerStep(r), UnsignedStops(r)
    PROVE  UnsignedStops(r)'
<1>1. storage' = storage /\ signed' = signed
    BY HandlerFlow DEF Flows
<1>2. CASE aborted'[r]
    BY <1>2 DEF UnsignedStops
<1>3. ASSUME ~ aborted'[r], NEW b \in storage[r] \ {Genesis} PROVE SignedOrStops(r, b)'
    <2>1. ~ aborted[r]
        BY DEF HandlerStep, AsyncDeliverBlk, Verify, All, AllThen, BOnDeliverBlk, AwaitDelivery,
               BOnReceiveProposal, Running, Up
    <2>2. SignedOrStops(r, b)
        BY <1>3, <2>1 DEF UnsignedStops, SignedOrStops
    <2>3. PICK calls \in Seq(Call) : Then(r, calls)
        BY <1>3, HandlerCalls
    <2>4. stack[r] # <<>> /\ (Top(r).op = "verify" => Top(r).blk \in signed[r])
        BY <1>3, HandlerCalls
    <2>5. Has(stack[r], "verify", b) => Has(stack'[r], "verify", b) \/ b \in signed[r]
        BY <2>3, <2>4, HasThen
    <2> QED BY <1>1, <2>2, <2>5 DEF SignedOrStops
<1> QED BY <1>1, <1>2, <1>3 DEF UnsignedStops, SignedOrStops

\* a proposal stores its block with its signature, an answer continues with verify,
LEMMA MessageUnsigned ==
    ASSUME NetInv, Grows, NEW r \in Replica, NEW s \in Replica \ {r}, HandleMessage(s, r),
           UnsignedStops(r), \A p \in Link : Expected(p)
    PROVE  UnsignedStops(r)'
<1>1. PICK p, b : p = <<s, r>> /\ b = Head(chan[p]).blk
    OBVIOUS
<1>2. PICK type : Receives(s, r, type) /\ type \in {"propose", "req", "resp"}
    BY DEF HandleMessage, ProposeHandler, ReqBlkHandler, RespBlkHandler
<1>3. stack[r] = <<>> /\ b \in Hash /\ b \in Known /\ p \in Link /\ chan[p] # <<>>
    BY <1>1, <1>2, ReceivedFacts
<1>4. ~ aborted[r] /\ \A x : ~ Has(stack[r], "verify", x)
    BY <1>2, <1>3, HasNone DEF Receives, Idle, Up
<1>5. storage[r] \ {Genesis} \subseteq signed[r]
    BY <1>4 DEF UnsignedStops
<1>6. CASE ProposeHandler(s, r)
    <2>1. /\ storage' = [storage EXCEPT ![r] = @ \cup {b}]
          /\ signed' = IF b \in storage[r] THEN signed ELSE [signed EXCEPT ![r] = @ \cup {b}]
        BY <1>1, <1>6 DEF ProposeHandler
    <2>2. storage'[r] \ {Genesis} \subseteq signed'[r]
        BY <1>5, <2>1 DEF NetInv, TablesOK
    <2> QED BY <2>2 DEF UnsignedStops
<1>7. CASE ReqBlkHandler(s, r)
    <2>1. storage' = storage /\ signed' = signed
        BY <1>7 DEF ReqBlkHandler
    <2> QED BY <1>5, <2>1 DEF UnsignedStops
<1>8. CASE RespBlkHandler(s, r)
    <2>1. /\ storage' = [storage EXCEPT ![r] = @ \cup {b}] /\ signed' = signed
          /\ stack' = [stack EXCEPT ![r] = Fetch(r, b).then]
          /\ Head(chan[p]).type = "resp"
        BY <1>1, <1>8 DEF RespBlkHandler, Receives
    <2>2. ASSUME b \notin storage[r] PROVE Has(stack'[r], "verify", b)
        <3>1. b \in DOMAIN fetching[r]
            <4>1. chan[p] \in Seq(Message)
                BY <1>3 DEF NetInv, ChannelsOK
            <4>2. 1 \in DOMAIN chan[p] /\ chan[p][1] = Head(chan[p])
                BY <1>3, <4>1
            <4>3. p[2] = r
                BY <1>1
            <4> QED BY <1>1, <1>3, <2>1, <2>2, <4>2, <4>3 DEF Expected
        <3>2. PICK q \in Replica : Fetch(r, b).then = Invoke("verify", b, q)
            BY <3>1 DEF Fetch, NetInv, ReplicaOK, FetchingOK
        <3>3. stack'[r] = Invoke("verify", b, q)
            BY <2>1, <3>2 DEF NetInv, TablesOK
        <3>4. Has(Invoke("verify", b, q), "verify", b)
            BY <1>3, HasOne DEF Op
        <3> QED BY <3>3, <3>4
    <2>3. storage'[r] = storage[r] \cup {b}
        BY <2>1 DEF NetInv, TablesOK
    <2> QED BY <1>5, <2>1, <2>2, <2>3 DEF UnsignedStops
<1> QED BY <1>6, <1>7, <1>8 DEF HandleMessage

\* and nothing else stores a block without a signature.
LEMMA UnsignedStep ==
    ASSUME NetInv, Grows, [BNext]_bvars, \A r \in Replica : UnsignedStops(r),
           \A p \in Link : Expected(p)
    PROVE  \A r \in Replica : UnsignedStops(r)'
<1>1. StaysDead /\ TablesOK
    BY NobodyComesBack DEF NetInv
<1>2. ASSUME NEW q \in Replica, stack'[q] = stack[q],
             \/ storage'[q] = storage[q] /\ signed'[q] = signed[q]
             \/ \E h : storage'[q] = storage[q] \cup {h} /\ signed'[q] = signed[q] \cup {h}
      PROVE  UnsignedStops(q)'
    BY <1>1, <1>2 DEF UnsignedStops, StaysDead
<1>3. ASSUME NEW r \in Replica, Own(r), UnsignedStops(r)' PROVE \A q \in Replica : UnsignedStops(q)'
    BY <1>2, <1>3 DEF Own
<1>4. CASE UNCHANGED <<storage, signed, stack>>
    BY <1>2, <1>4
<1>5. ASSUME NEW r \in Replica, HandlerStep(r) PROVE \A q \in Replica : UnsignedStops(q)'
    BY <1>3, <1>5, HandlerOwn, HandlerUnsigned
<1>6. ASSUME NEW r \in Replica, NEW s \in Replica \ {r}, HandleMessage(s, r)
      PROVE  \A q \in Replica : UnsignedStops(q)'
    BY <1>3, <1>6, MessageOwn, MessageUnsigned
<1>7. ASSUME NEW r \in Replica, NEW h \in Hash, BPropose(r, h)
      PROVE  \A q \in Replica : UnsignedStops(q)'
    <2>1. /\ storage' = [storage EXCEPT ![r] = @ \cup {h}] /\ stack' = stack
          /\ signed' = [signed EXCEPT ![r] = @ \cup {h}]
        BY <1>7 DEF BPropose
    <2>2. UnsignedStops(r)'
        BY <1>1, <1>2, <2>1 DEF TablesOK
    <2> QED BY <1>3, <1>7, <2>2, ProposeOwn
<1>8. ASSUME NEW r \in Replica,
             \/ BProposeNullParent(r)
             \/ Impeach(r)
             \/ \E b \in Hash : BCommitTimerCb(r, b) \/ FetchTimeout(r, b)
             \/ \E s \in Replica \ {r} : Lose(s, r)
      PROVE  UNCHANGED <<storage, signed, stack>>
    BY <1>8 DEF BProposeNullParent, Impeach, BCommitTimerCb, FetchTimeout, Lose, baseVars
<1>9. CASE UNCHANGED bvars
    BY <1>4, <1>9 DEF bvars, baseVars
<1> QED BY <1>4, <1>5, <1>6, <1>7, <1>8, <1>9 DEF BNext

-----------------------------------------------------------------------------
(* The chain.                                                               *)

\* Ancestors are lower.
LEMMA AncestorsLower ==
    ASSUME CoreInv, FirstInv, NEW b \in Known, NEW c \in Range(Parents(b))
    PROVE  c \in Known /\ Height(c) < Height(b)
<1>1. c \in Known /\ c # b
    BY NotOwnAncestor DEF AncestorsBelow
<1>2. Height(b) \in Nat /\ Height(c) \in Nat
    BY <1>1 DEF CoreInv, TypeOK, Block, Height
<1>3. Height(b) < Height(c) => FALSE
    <2>1. PICK i \in DOMAIN Parents(b) : c = Parents(b)[i]
        BY DEF Range
    <2>2. PICK mp, n, k : mp = ht_blk_map[FirstProposer] /\ n = Height(b) /\ k = n - i
        OBVIOUS
    <2>3. i \in 1..n /\ c = mp[k] /\ FirstProposer \in Replica
        BY <2>1, <2>2, FirstIsReplica DEF FirstInv, FirstParents
    <2>4. n \in DOMAIN mp /\ DOMAIN mp = 0..Height(b_mark[FirstProposer])
        BY <2>2 DEF FirstInv, FirstFiledAll, FirstContiguous, AlreadyHandled, HasHeight
    <2>5. Height(b_mark[FirstProposer]) \in Nat
        BY <2>3 DEF CoreInv, TypeOK, Block, Height
    <2>6. k \in DOMAIN mp /\ k < n
        BY <1>2, <2>2, <2>3, <2>4, <2>5
    <2>7. Height(c) = k
        BY <2>2, <2>3, <2>6 DEF CoreInv, MapOK
    <2> QED BY <1>2, <2>2, <2>6, <2>7
<1>4. Height(b) = Height(c) => FALSE
    BY <1>1, OneBlockPerHeight
<1> QED BY <1>1, <1>2, <1>3, <1>4

-----------------------------------------------------------------------------
(* The replicas that have fetched nothing.                                  *)

\* verify finds the signatures.
LEMMA SoundVerifies ==
    ASSUME NetInv, NEW r \in Replica, Sound(r), Verify(r)
    PROVE  aborted' = aborted
<1>1. PICK b : b = Top(r).blk
    OBVIOUS
<1>2. Running(r, "verify")
    BY DEF Verify
<1>3. b \in storage[r] /\ b \in Hash
    BY <1>1, <1>2, TopFacts
<1>4. b \notin delivered[r]
    BY <1>1, <1>2, <1>3, TopTokens
<1>5. Genesis \in delivered[r]
    BY DEF NetInv, CoreInv, BlocksOK, TypeOK
<1>6. b \in signed[r]
    BY <1>3, <1>4, <1>5 DEF Sound
<1> QED BY <1>1, <1>6 DEF Verify

\* Only an answer brings a block without a signature.
LEMMA SoundStep ==
    ASSUME NetInv, Grows, [BNext]_bvars, NEW q \in Replica, Sound(q),
           \A s \in Replica \ {q} : ~ RespBlkHandler(s, q)
    PROVE  Sound(q)'
<1>1. TablesOK
    BY DEF NetInv
<1>2. ASSUME aborted'[q] = aborted[q],
             \/ storage'[q] = storage[q] /\ signed'[q] = signed[q]
             \/ \E h : storage'[q] = storage[q] \cup {h} /\ signed'[q] = signed[q] \cup {h}
      PROVE  Sound(q)'
    BY <1>2 DEF Sound
<1>3. ASSUME NEW r \in Replica, HandlerStep(r) PROVE Sound(q)'
    <2>1. storage' = storage /\ signed' = signed
        BY <1>3, HandlerFlow DEF Flows
    <2>2. ASSUME Verify(r) PROVE aborted'[q] = aborted[q]
        <3>1. CASE r = q
            BY <2>2, <3>1, SoundVerifies
        <3>2. CASE r # q
            BY <1>1, <2>2, <3>2 DEF Verify, TablesOK
        <3> QED BY <3>1, <3>2
    <2>3. ~ Verify(r) => aborted' = aborted
        BY <1>3 DEF HandlerStep, AsyncDeliverBlk, All, AllThen, BOnDeliverBlk, AwaitDelivery,
                    BOnReceiveProposal
    <2> QED BY <1>2, <2>1, <2>2, <2>3
<1>4. ASSUME NEW r \in Replica, NEW h \in Hash, BPropose(r, h) PROVE Sound(q)'
    <2>1. /\ storage' = [storage EXCEPT ![r] = @ \cup {h}]
          /\ signed' = [signed EXCEPT ![r] = @ \cup {h}] /\ aborted' = aborted
        BY <1>4 DEF BPropose
    <2> QED BY <1>1, <1>2, <2>1 DEF TablesOK
<1>5. ASSUME NEW r \in Replica, NEW s \in Replica \ {r}, ProposeHandler(s, r) PROVE Sound(q)'
    <2>1. PICK b : b = Head(chan[<<s, r>>]).blk
        OBVIOUS
    <2>2. /\ storage' = [storage EXCEPT ![r] = @ \cup {b}] /\ aborted' = aborted
          /\ signed' = IF b \in storage[r] THEN signed ELSE [signed EXCEPT ![r] = @ \cup {b}]
        BY <1>5, <2>1 DEF ProposeHandler
    <2>3. CASE b \in storage[r]
        <3>1. storage'[q] = storage[q]
            BY <1>1, <2>2, <2>3 DEF TablesOK
        <3> QED BY <1>2, <2>2, <2>3, <3>1
    <2>4. CASE b \notin storage[r]
        BY <1>1, <1>2, <2>2, <2>4 DEF TablesOK
    <2> QED BY <2>3, <2>4
<1>6. ASSUME NEW r \in Replica, NEW s \in Replica \ {r}, RespBlkHandler(s, r) PROVE Sound(q)'
    <2>1. r # q
        BY <1>6
    <2>2. storage'[q] = storage[q] /\ signed'[q] = signed[q] /\ aborted' = aborted
        BY <1>1, <1>6, <2>1 DEF RespBlkHandler, TablesOK
    <2> QED BY <1>2, <2>2
<1>7. ASSUME UNCHANGED <<storage, signed, aborted>> PROVE Sound(q)'
    BY <1>2, <1>7
<1>8. ASSUME NEW r \in Replica,
             \/ BProposeNullParent(r)
             \/ Impeach(r)
             \/ \E b \in Hash : BCommitTimerCb(r, b) \/ FetchTimeout(r, b)
             \/ \E s \in Replica \ {r} : Lose(s, r) \/ ReqBlkHandler(s, r)
      PROVE  UNCHANGED <<storage, signed, aborted>>
    BY <1>8 DEF BProposeNullParent, Impeach, BCommitTimerCb, FetchTimeout, Lose, ReqBlkHandler,
                baseVars
<1>9. CASE UNCHANGED bvars
    BY <1>7, <1>9 DEF bvars, baseVars
<1> QED BY <1>3, <1>4, <1>5, <1>6, <1>7, <1>8, <1>9 DEF BNext, HandleMessage

-----------------------------------------------------------------------------
(* One connection while one replica misses a block.                         *)

\* What may be added to p: a request of d, an answer to d, a proposal after the ancestors of
\* its block.
MayFollow(p, d, m) ==
    /\ m.type = "req" => p[1] = d
    /\ p[2] # d => /\ m.type # "resp"
                   /\ m.type = "propose" =>
                         \A c \in Range(Parents(m.blk))' : Reaches(p, c, Len(chan[p]) + 1)

\* A proposal stays behind the ancestors of its block.
LEMMA OrderedKept ==
    ASSUME NetInv, Grows, StorageGrows, NEW p \in Link, Ordered(p),
           \/ chan'[p] = chan[p]
           \/ Takes(p) /\ Head(chan[p]).blk \in storage'[p[2]]
           \/ \E m : /\ chan'[p] = Append(chan[p], m) /\ m.type # "resp"
                     /\ m.type = "propose" =>
                           \A c \in Range(Parents(m.blk))' : Reaches(p, c, Len(chan[p]) + 1)
    PROVE  Ordered(p)'
<1>1. PICK s, t : s = chan[p] /\ t = chan'[p]
    OBVIOUS
<1>2. /\ s \in Seq(Message) /\ Len(s) \in Nat /\ DOMAIN s = 1..Len(s)
      /\ storage[p[2]] \subseteq storage'[p[2]]
    BY <1>1 DEF NetInv, ChannelsOK, StorageGrows, Link
<1>3. ASSUME NEW i \in DOMAIN s
      PROVE  /\ s[i].type # "resp"
             /\ s[i].type = "propose" => \A b \in Range(Parents(s[i].blk))' : Reaches(p, b, i)
    <2>1. Parents(s[i].blk)' = Parents(s[i].blk)
        BY <1>1, <1>3, MessageStays
    <2> QED BY <1>1, <1>3, <2>1 DEF Ordered
<1>4. SUFFICES ASSUME NEW i \in DOMAIN t
               PROVE  /\ t[i].type # "resp"
                      /\ t[i].type = "propose" =>
                            \A b \in Range(Parents(t[i].blk))' : Reaches(p, b, i)'
    BY <1>1 DEF Ordered
<1>5. ASSUME t = s \/ \E m : t = Append(s, m), NEW b, NEW n \in 1..(Len(s) + 1), Reaches(p, b, n)
      PROVE  Reaches(p, b, n)'
    BY <1>1, <1>2, <1>5, ReachesLater
<1>6. CASE t = s
    <2>1. i \in 1..(Len(s) + 1)
        BY <1>2, <1>4, <1>6
    <2> QED BY <1>3, <1>4, <1>5, <1>6, <2>1
<1>7. CASE Takes(p) /\ Head(s).blk \in storage'[p[2]]
    <2>1. t = Tail(s) /\ s # <<>>
        BY <1>1, <1>7 DEF Takes
    <2>2. i + 1 \in DOMAIN s /\ t[i] = s[i + 1] /\ i \in 1..Len(s)
        BY <1>2, <1>4, <2>1, HeadTailProperties
    <2>3. ASSUME NEW b, Reaches(p, b, i + 1) PROVE Reaches(p, b, i)'
        BY <1>1, <1>7, <2>1, <2>2, <2>3, ReachesAfterTail, <1>2
    <2> QED BY <1>3, <2>2, <2>3
<1>8. ASSUME NEW m, t = Append(s, m), m.type # "resp",
             m.type = "propose" => \A c \in Range(Parents(m.blk))' : Reaches(p, c, Len(s) + 1)
      PROVE  /\ t[i].type # "resp"
             /\ t[i].type = "propose" => \A b \in Range(Parents(t[i].blk))' : Reaches(p, b, i)'
    <2>1. (i \in DOMAIN s /\ t[i] = s[i]) \/ (i = Len(s) + 1 /\ t[i] = m)
        BY <1>2, <1>4, <1>8
    <2>2. i \in 1..(Len(s) + 1)
        BY <1>2, <2>1
    <2>3. ASSUME NEW b, Reaches(p, b, i) PROVE Reaches(p, b, i)'
        BY <1>5, <1>8, <2>2, <2>3
    <2> QED BY <1>3, <1>8, <2>1, <2>3
<1> QED BY <1>1, <1>6, <1>7, <1>8

\* Nobody but d asks or is answered.
LEMMA OnwardKept ==
    ASSUME NetInv, Grows, StorageGrows, NEW d, NEW p \in Link, Onward(p, d),
           \/ chan'[p] = chan[p]
           \/ Takes(p) /\ (p[2] # d => Head(chan[p]).blk \in storage'[p[2]])
           \/ \E m : chan'[p] = Append(chan[p], m) /\ MayFollow(p, d, m)
    PROVE  Onward(p, d)'
<1>1. p[2] # d => Ordered(p)'
    BY OrderedKept DEF Onward, MayFollow
<1>2. chan[p] \in Seq(Message)
    BY DEF NetInv, ChannelsOK
<1>3. ASSUME NEW i \in DOMAIN chan'[p], chan'[p][i].type = "req" PROVE p[1] = d
    <2>1. PICK s, t : s = chan[p] /\ t = chan'[p]
        OBVIOUS
    <2>2. s \in Seq(Message) /\ i \in DOMAIN t /\ t[i].type = "req"
        BY <1>2, <1>3, <2>1
    <2>3. \A j \in DOMAIN s : s[j].type = "req" => p[1] = d
        BY <2>1 DEF Onward
    <2>4. CASE t = s
        BY <2>2, <2>3, <2>4
    <2>5. CASE s # <<>> /\ t = Tail(s)
        <3>1. i + 1 \in DOMAIN s /\ t[i] = s[i + 1]
            BY <2>2, <2>5, HeadTailProperties
        <3> QED BY <2>2, <2>3, <3>1
    <2>6. ASSUME NEW m, t = Append(s, m), m.type = "req" => p[1] = d PROVE p[1] = d
        <3>1. (i \in DOMAIN s /\ t[i] = s[i]) \/ t[i] = m
            BY <2>2, <2>6
        <3> QED BY <2>2, <2>3, <2>6, <3>1
    <2> QED BY <2>1, <2>4, <2>5, <2>6 DEF Takes, MayFollow
<1> QED BY <1>1, <1>3 DEF Onward

\* A replica that files a block after its ancestors sends it after them.
LEMMA BroadcastOnward ==
    ASSUME NetInv, Grows, StorageGrows, NEW d,
           \A p \in Link : Onward(p, d) /\ (p[2] # d => Brings(p, {})),
           NEW r \in Replica, NEW b, Broadcast(r, b),
           \A c \in Range(Parents(b))' : c \in Known /\ AlreadyHandled(r, c)
    PROVE  \A p \in Link : Onward(p, d)'
<1> SUFFICES ASSUME NEW p \in Link PROVE Onward(p, d)'
    OBVIOUS
<1>1. PICK m : m = [type |-> "propose", blk |-> b]
    OBVIOUS
<1>2. CASE p[1] = r
    <2>1. chan'[p] = Append(chan[p], m)
        BY <1>1, <1>2 DEF Broadcast
    <2>2. p[2] # d => \A c \in Range(Parents(b))' : Reaches(p, c, Len(chan[p]) + 1)
        BY <1>2, BringsParents
    <2>3. MayFollow(p, d, m)
        BY <1>1, <2>2 DEF MayFollow
    <2> QED BY <2>1, <2>3, OnwardKept
<1>3. CASE p[1] # r
    <2>1. chan'[p] = chan[p]
        BY <1>3 DEF Broadcast
    <2> QED BY <2>1, OnwardKept
<1> QED BY <1>2, <1>3

\* x is out of reach of d, so d forwards only blocks whose ancestors it has filed.
LEMMA MissingForwards ==
    ASSUME NetInv, FirstInv, AncestorsBelow, NEW r \in Replica, BOnReceiveProposal(r),
           NEW b, b = Top(r).blk, ~ AlreadyHandled(r, b),
           NEW x \in Known, x \notin storage[r], FiledBelow(r, x),
           NEW c \in Range(Parents(b))
    PROVE  c \in Known /\ AlreadyHandled(r, c)
<1>1. b \in Known /\ b \in delivered[r]
    BY TopFacts DEF BOnReceiveProposal
<1>2. x \notin delivered[r]
    BY DEF NetInv, ReplicaOK, StoredOK
<1>3. b # x /\ x \notin Range(Parents(b))
    BY <1>1, <1>2 DEF NetInv, DeliveredClosed
<1>4. b \in Range(Parents(x))
    BY <1>1, <1>3, OneBranch DEF NetInv
<1>5. CalmReplica(r)
    BY <1>4 DEF FiledBelow
<1> QED BY <1>5, ReceiveAfterParents

-----------------------------------------------------------------------------
(* While one replica misses a block.                                        *)

\* What d misses is proposed by nobody but the proposer, who has it; the others are calm, send
\* what they file to each other, and ask for nothing.
Missing(d, x) ==
    /\ Missed(d, x)
    /\ d \in Replica /\ x \in Known \ {Genesis} /\ x \notin storage'[d]
    /\ impeachments = 0
    /\ \A p \in Link : p[2] # d => Brings(p, {})

\* What a step does below and beside it.
LayersBelow == NetInv' /\ FirstInv' /\ Grows /\ Stays /\ StorageGrows /\ AncestorsBelow /\ AncestorsBelow'

\* Nobody else gets an answer,
LEMMA MissingHead ==
    ASSUME NetInv, NEW d, NEW x, Missing(d, x), NEW r \in Replica, NEW s \in Replica \ {r},
           NEW type, Receives(s, r, type), NEW b, Incoming(s, r, b)
    PROVE  /\ type = "resp" => r = d
           /\ type = "req" => s = d
           /\ type = "propose" /\ r # d => Range(Parents(b)) \subseteq storage[r]
<1>1. PICK p, m, t : p = <<s, r>> /\ t = chan[p] /\ m = Head(t)
    OBVIOUS
<1>2. p \in Link /\ p[1] = s /\ p[2] = r /\ t # <<>> /\ m.type = type /\ m.blk = b
    BY <1>1, ReceivedFacts DEF Receives, Incoming
<1>3. t \in Seq(Message)
    BY <1>1, <1>2 DEF NetInv, ChannelsOK
<1>4. 1 \in DOMAIN t /\ t[1] = m
    BY <1>1, <1>2, <1>3
<1>5. Onward(p, d)
    BY <1>2 DEF Missing, Missed
<1>6. type = "req" => s = d
    BY <1>1, <1>2, <1>4, <1>5 DEF Onward
<1>7. ASSUME r # d
      PROVE  type # "resp" /\ (type = "propose" => \A c \in Range(Parents(b)) : Reaches(p, c, 1))
    BY <1>1, <1>2, <1>4, <1>5, <1>7 DEF Onward, Ordered
<1>8. ASSUME NEW c, Reaches(p, c, 1) PROVE c \in storage[r]
    BY <1>2, <1>8 DEF Reaches, Sent
<1> QED BY <1>6, <1>7, <1>8

\* so the others stay calm,
LEMMA OthersCalm ==
    ASSUME Early', NetInv, FirstInv, ProposalInv, LayersBelow, [BNext]_bvars,
           NEW d, NEW x, Missing(d, x), NEW q \in Replica, CalmReplica(q),
           q = d => \A s \in Replica \ {q} : ~ HandleMessage(s, q)
    PROVE  CalmReplica(q)'
<1>1. Grows /\ Stays /\ AncestorsBelow /\ NetInv' /\ FirstInv'
    BY DEF LayersBelow
<1>2. ASSUME NEW r \in Replica \ {q}, Own(r) PROVE CalmReplica(q)'
    BY <1>1, <1>2, OtherCalm DEF Own
<1>3. ASSUME UNCHANGED <<storage, fetching, need, waiting, stack>> PROVE CalmReplica(q)'
    BY <1>1, <1>3, OtherCalm
<1>4. ASSUME NEW r \in Replica, HandlerStep(r) PROVE CalmReplica(q)'
    <2>1. CASE r = q
        BY <1>1, <1>4, <2>1, HandlerReplicaCalm
    <2>2. CASE r # q
        BY <1>2, <1>4, <2>2, HandlerOwn
    <2> QED BY <2>1, <2>2
<1>5. ASSUME NEW r \in Replica, NEW h \in Hash, BPropose(r, h) PROVE CalmReplica(q)'
    <2>1. CASE r = q
        BY <1>1, <1>5, <2>1, FirstProposes, ProposeReplicaCalm
    <2>2. CASE r # q
        BY <1>2, <1>5, <2>2, ProposeOwn
    <2> QED BY <2>1, <2>2
<1>6. ASSUME NEW r \in Replica, NEW s \in Replica \ {r}, HandleMessage(s, r) PROVE CalmReplica(q)'
    <2>1. CASE r # q
        BY <1>2, <1>6, <2>1, MessageOwn
    <2>2. CASE r = q /\ ReqBlkHandler(s, r)
        BY <1>3, <2>2 DEF ReqBlkHandler
    <2>3. CASE r = q /\ RespBlkHandler(s, r)
        <3>1. PICK b : Incoming(s, r, b)
            BY DEF Incoming
        <3>2. Receives(s, r, "resp")
            BY <2>3 DEF RespBlkHandler
        <3> QED BY <1>6, <2>3, <3>1, <3>2, MissingHead
    <2>4. CASE r = q /\ ProposeHandler(s, r)
        <3>1. PICK b : Incoming(s, r, b)
            BY DEF Incoming
        <3>2. Receives(s, r, "propose") /\ r # d
            BY <1>6, <2>4 DEF ProposeHandler
        <3>3. Range(Parents(b)) \subseteq storage[r]
            BY <3>1, <3>2, MissingHead
        <3>4. /\ proposer[r] = FirstProposer
              /\ \A c \in Known \ {Genesis} : blocks[c].proposer = FirstProposer
            BY DEF Missing, ProposalInv
        <3> QED BY <1>1, <2>4, <3>1, <3>3, <3>4, ProposalCalm
    <2> QED BY <1>6, <2>1, <2>2, <2>3, <2>4 DEF HandleMessage
<1>7. ASSUME NEW r \in Replica,
             \/ BProposeNullParent(r)
             \/ Impeach(r)
             \/ \E b \in Hash : BCommitTimerCb(r, b) \/ FetchTimeout(r, b)
             \/ \E s \in Replica \ {r} : Lose(s, r)
      PROVE  UNCHANGED <<storage, fetching, need, waiting, stack>>
    BY <1>7 DEF BProposeNullParent, Impeach, BCommitTimerCb, FetchTimeout, Lose, baseVars
<1>8. CASE UNCHANGED bvars
    BY <1>3, <1>8 DEF bvars, baseVars
<1> QED BY <1>3, <1>4, <1>5, <1>6, <1>7, <1>8 DEF BNext

\* and sound,
LEMMA OthersSound ==
    ASSUME NetInv, LayersBelow, [BNext]_bvars, NEW d, NEW x, Missing(d, x), NEW q \in Replica \ {d}
    PROVE  Sound(q)'
<1>1. ASSUME NEW s \in Replica \ {q}, RespBlkHandler(s, q) PROVE FALSE
    <2>1. PICK b : Incoming(s, q, b)
        BY DEF Incoming
    <2>2. Receives(s, q, "resp")
        BY <1>1 DEF RespBlkHandler
    <2> QED BY <2>1, <2>2, MissingHead
<1>2. Sound(q)
    BY DEF Missing, Missed
<1> QED BY <1>1, <1>2, SoundStep DEF LayersBelow

\* d has, or will have, what it needs to file x,
LEMMA FiledBelowStays ==
    ASSUME Early', NetInv, FirstInv, ProposalInv, LayersBelow, [BNext]_bvars,
           NEW d, NEW x, Missing(d, x)
    PROVE  FiledBelow(d, x)'
<1>1. /\ d \in Replica /\ x \in Known /\ Grows /\ Stays /\ AncestorsBelow
      /\ Range(Parents(x)) \subseteq storage[d] /\ storage[d] \subseteq storage'[d]
    BY DEF LayersBelow, Missing, Missed, FiledBelow, StorageGrows
<1>2. Parents(x)' = Parents(x) /\ \A b \in Range(Parents(x)) : b \in Known
    BY <1>1 DEF Grows, Parents, AncestorsBelow
<1>3. CASE \A b \in Range(Parents(x)) : AlreadyHandled(d, b)
    <2>1. \A b \in Range(Parents(x)) : AlreadyHandled(d, b)'
        BY <1>1, <1>2, <1>3, FiledStays
    <2> QED BY <1>1, <1>2, <2>1 DEF FiledBelow
<1>4. CASE CalmReplica(d) /\ \A s \in Replica \ {d} : ~ HandleMessage(s, d)
    <2>1. CalmReplica(d)'
        BY <1>1, <1>4, OthersCalm
    <2> QED BY <1>1, <1>2, <2>1 DEF FiledBelow
<1>5. ASSUME CalmReplica(d), NEW s \in Replica \ {d}, HandleMessage(s, d)
      PROVE  \A b \in Range(Parents(x)) : AlreadyHandled(d, b)
    <2>1. stack[d] = <<>>
        BY <1>5 DEF HandleMessage, ProposeHandler, ReqBlkHandler, RespBlkHandler, Receives, Idle
    <2> QED BY <1>1, <1>5, <2>1 DEF CalmReplica
<1> QED BY <1>3, <1>4, <1>5 DEF Missing, Missed, FiledBelow

\* and nobody but d asks or is answered.
LEMMA OnwardStays ==
    ASSUME Early', NetInv, FirstInv, ProposalInv, LayersBelow, [BNext]_bvars, NEW d, NEW x, Missing(d, x),
           ChannelsMove
    PROVE  \A p \in Link : Onward(p, d)'
<1>1. /\ Grows /\ StorageGrows /\ AncestorsBelow /\ AncestorsBelow' /\ FirstInv'
      /\ \A p \in Link : Onward(p, d) /\ (p[2] # d => Brings(p, {}))
      /\ \A q \in Replica \ {d} : CalmReplica(q)
      /\ DOMAIN chan = Link /\ d \in Replica /\ DOMAIN storage = Replica
    BY DEF LayersBelow, Missing, Missed, NetInv, TablesOK
<1>2. ASSUME chan' = chan PROVE \A p \in Link : Onward(p, d)'
    BY <1>1, <1>2, OnwardKept
<1>3. ASSUME NEW r \in Replica, BOnReceiveProposal(r) PROVE \A p \in Link : Onward(p, d)'
    <2>1. PICK b : b = Top(r).blk
        OBVIOUS
    <2>2. b \in Known
        BY <1>3, <2>1, TopFacts DEF BOnReceiveProposal
    <2>3. CASE AlreadyHandled(r, b)
        BY <1>2, <1>3, <2>1, <2>3 DEF BOnReceiveProposal
    <2>4. CASE ~ AlreadyHandled(r, b)
        <3>1. Broadcast(r, b)
            BY <1>3, <2>1, <2>4 DEF BOnReceiveProposal
        <3>2. Parents(b)' = Parents(b)
            BY <1>1, <2>2 DEF Grows, Parents
        <3>3. ASSUME NEW c \in Range(Parents(b)) PROVE c \in Known /\ AlreadyHandled(r, c)
            <4>1. CASE r # d
                BY <1>1, <1>3, <2>1, <3>3, <4>1, ReceiveAfterParents
            <4>2. CASE r = d
                <5>1. x \in Known /\ x \notin storage[r] /\ FiledBelow(r, x)
                    BY <1>1, <4>2 DEF Missing, Missed, StorageGrows
                <5> QED BY <1>1, <1>3, <2>1, <2>4, <3>3, <5>1, MissingForwards
            <4> QED BY <4>1, <4>2
        <3> QED BY <1>1, <3>1, <3>2, <3>3, BroadcastOnward
    <2> QED BY <2>3, <2>4
<1>4. ASSUME NEW r \in Replica, HandlerStep(r), ~ BOnReceiveProposal(r)
      PROVE  \A p \in Link : Onward(p, d)'
    <2>1. CASE chan' = chan
        BY <1>2, <2>1
    <2>2. CASE r # d
        <3>1. chan' = chan
            BY <1>1, <1>4, <2>2, HandlerReplicaCalm DEF LayersBelow
        <3> QED BY <1>2, <3>1
    <2>3. CASE r = d /\ AsyncDeliverBlk(r) /\ chan' # chan
        <3>1. PICK q, b : Send(r, q, "req", b)
            BY <2>3 DEF AsyncDeliverBlk
        <3>2. PICK m : m = [type |-> "req", blk |-> b]
            OBVIOUS
        <3>3. m.type = "req" /\ chan' = [chan EXCEPT ![<<r, q>>] = Append(@, m)]
            BY <3>1, <3>2 DEF Send
        <3>4. ASSUME NEW p \in Link PROVE Onward(p, d)'
            <4>1. CASE chan'[p] = chan[p]
                BY <1>1, <4>1, OnwardKept
            <4>2. CASE p = <<r, q>>
                <5>1. chan'[p] = Append(chan[p], m)
                    BY <1>1, <3>3, <4>2
                <5>2. MayFollow(p, d, m)
                    BY <2>3, <3>3, <4>2 DEF MayFollow
                <5> QED BY <1>1, <5>1, <5>2, OnwardKept
            <4> QED BY <1>1, <3>3, <4>1, <4>2
        <3> QED BY <3>4
    <2>4. chan' = chan \/ AsyncDeliverBlk(r)
        BY <1>4 DEF HandlerStep, Verify, All, AllThen, BOnDeliverBlk, AwaitDelivery
    <2> QED BY <2>1, <2>2, <2>3, <2>4
<1>5. ASSUME NEW r \in Replica, NEW h \in Hash, BPropose(r, h) PROVE \A p \in Link : Onward(p, d)'
    <2>1. Broadcast(r, h)
        BY <1>5 DEF BPropose
    <2>2. \A c \in Range(Parents(h))' : c \in Known /\ AlreadyHandled(r, c)
        BY <1>1, <1>5, FirstProposes, ProposeAfterParents
    <2> QED BY <1>1, <2>1, <2>2, BroadcastOnward
<1>6. ASSUME NEW r \in Replica, NEW s \in Replica \ {r}, HandleMessage(s, r)
      PROVE  \A p \in Link : Onward(p, d)'
    <2>1. PICK p, q, b : p = <<s, r>> /\ q = <<r, s>> /\ Incoming(s, r, b)
        BY DEF Incoming
    <2>2. p \in Link /\ q \in Link /\ p # q /\ p[2] = r /\ q[2] = s /\ b = Head(chan[p]).blk
        BY <2>1 DEF Link, Incoming
    <2>3. CASE ProposeHandler(s, r) \/ RespBlkHandler(s, r)
        <3>1. /\ chan[p] # <<>> /\ chan' = [chan EXCEPT ![p] = Tail(@)]
              /\ storage' = [storage EXCEPT ![r] = @ \cup {b}]
            BY <2>1, <2>2, <2>3 DEF ProposeHandler, RespBlkHandler, Receives
        <3>2. b \in storage'[r]
            BY <1>1, <3>1
        <3>3. ASSUME NEW l \in Link PROVE chan'[l] = chan[l] \/ (l = p /\ Takes(l))
            BY <1>1, <3>1 DEF Takes
        <3>4. ASSUME NEW l \in Link PROVE Onward(l, d)'
            BY <1>1, <2>2, <3>2, <3>3, OnwardKept
        <3> QED BY <3>4
    <2>4. CASE ReqBlkHandler(s, r)
        <3>1. PICK m : m = [type |-> "resp", blk |-> b]
            OBVIOUS
        <3>2. /\ chan[p] # <<>> /\ chan' = [chan EXCEPT ![p] = Tail(@), ![q] = Append(@, m)]
              /\ storage' = storage /\ b \in storage[r] /\ Receives(s, r, "req")
            BY <2>1, <2>2, <2>4, <3>1 DEF ReqBlkHandler, Receives
        <3>3. s = d
            BY <2>1, <3>2, MissingHead
        <3>4. ASSUME NEW l \in Link
              PROVE  \/ chan'[l] = chan[l]
                     \/ l = p /\ Takes(l)
                     \/ l = q /\ chan'[l] = Append(chan[l], m)
            BY <1>1, <2>2, <3>2 DEF Takes
        <3>5. MayFollow(q, d, m)
            BY <2>2, <3>1, <3>3 DEF MayFollow
        <3>6. ASSUME NEW l \in Link PROVE Onward(l, d)'
            BY <1>1, <2>2, <3>2, <3>4, <3>5, OnwardKept
        <3> QED BY <3>6
    <2> QED BY <1>6, <2>3, <2>4 DEF HandleMessage
<1>7. ASSUME NEW r \in Replica, NEW b \in Hash, FetchTimeout(r, b) PROVE \A p \in Link : Onward(p, d)'
    <2>1. PICK m, to : m = [type |-> "req", blk |-> b] /\ to = fetching[r][b].peers
        OBVIOUS
    <2>2. /\ chan' = [p \in Link |-> IF p[1] = r /\ p[2] \in to THEN Append(chan[p], m) ELSE chan[p]]
          /\ b \in DOMAIN fetching[r]
        BY <1>7, <2>1 DEF FetchTimeout
    <2>3. r = d
        BY <1>1, <2>2 DEF CalmReplica
    <2>4. ASSUME NEW p \in Link
          PROVE  chan'[p] = chan[p] \/ (chan'[p] = Append(chan[p], m) /\ MayFollow(p, d, m))
        BY <2>1, <2>2, <2>3 DEF MayFollow
    <2>5. ASSUME NEW p \in Link PROVE Onward(p, d)'
        BY <1>1, <2>4, OnwardKept
    <2> QED BY <2>5
<1>8. ASSUME NEW r \in Replica, NEW s \in Replica \ {r}, Lose(s, r)
      PROVE  \A p \in Link : Onward(p, d)'
    <2>1. \A p \in Link : chan'[p] = chan[p] \/ (p = <<s, r>> /\ Takes(p))
        BY <1>8, LoseMoves, <1>1
    <2>2. ASSUME NEW p \in Link, Takes(p) PROVE Head(chan[p]).blk \in storage'[p[2]]
        <3>1. Len(chan'[p]) # Len(chan[p]) + 1 /\ chan'[p] # chan[p]
            <4>1. PICK u, v : u = chan[p] /\ v = chan'[p]
                OBVIOUS
            <4>2. u \in Seq(Message) /\ u # <<>> /\ v = Tail(u)
                BY <2>2, <4>1 DEF NetInv, ChannelsOK, Takes
            <4>3. Len(u) \in Nat /\ Len(u) = Len(v) + 1
                BY <4>2, HeadTailProperties
            <4> QED BY <4>1, <4>3
        <3>2. ASSUME NEW m, chan'[p] = Append(chan[p], m) PROVE FALSE
            <4>1. chan[p] \in Seq(Message)
                BY DEF NetInv, ChannelsOK
            <4> QED BY <3>1, <3>2, <4>1
        <3> QED BY <3>1, <3>2 DEF ChannelsMove, ChannelMoves
    <2>3. ASSUME NEW p \in Link PROVE Onward(p, d)'
        BY <1>1, <2>1, <2>2, OnwardKept
    <2> QED BY <2>3
<1>9. ASSUME NEW r \in Replica,
             \/ BProposeNullParent(r)
             \/ Impeach(r)
             \/ \E b \in Hash : BCommitTimerCb(r, b)
      PROVE  chan' = chan
    BY <1>9 DEF BProposeNullParent, Impeach, BCommitTimerCb, baseVars
<1>10. CASE UNCHANGED bvars
    BY <1>2, <1>10 DEF bvars, baseVars
<1> QED BY <1>2, <1>3, <1>4, <1>5, <1>6, <1>7, <1>8, <1>9, <1>10 DEF BNext

-----------------------------------------------------------------------------
(* Every step.                                                              *)

\* The state below a step.
LEMMA StepKeepsLayers ==
    ASSUME Early', NetInv, FirstInv, ProposalInv, [BNext]_bvars
    PROVE  LayersBelow
<1>1. Grows /\ Stays /\ FirstInv' /\ NetInv'
    BY StepBelow, NetInvStep
<1>2. AncestorsBelow /\ AncestorsBelow'
    <2>1. CoreInv /\ CoreInv'
        BY <1>1 DEF NetInv
    <2>2. (CoreInv /\ FirstInv)' => AncestorsBelow'
        BY NotOwnAncestor, PTL
    <2> QED BY <1>1, <2>1, <2>2, NotOwnAncestor
<1>3. StorageGrows
    BY <1>1, StepMoves, LoseMoves DEF ChannelsMove
<1> QED BY <1>1, <1>2, <1>3 DEF LayersBelow

\* d still misses x after the step.
LEMMA MissedStep ==
    ASSUME Early', NetInv, FirstInv, ProposalInv, LayersBelow, [BNext]_bvars,
           NEW d, NEW x, Missing(d, x), ChannelsMove
    PROVE  Missed(d, x)'
<1>1. FiledBelow(d, x)'
    BY FiledBelowStays
<1>2. ASSUME NEW r \in Replica \ {d} PROVE CalmReplica(r)' /\ Sound(r)'
    <2>1. CalmReplica(r)
        BY DEF Missing, Missed
    <2> QED BY <2>1, OthersCalm, OthersSound
<1>3. \A p \in Link : Onward(p, d)'
    BY OnwardStays
<1> QED BY <1>1, <1>2, <1>3 DEF Missed

\* The first loss takes one proposal from one replica, and everybody is calm.
LEMMA FirstLoss ==
    ASSUME NetInv, FirstInv, CalmInv, LayersBelow, NEW r \in Replica, NEW s \in Replica \ {r}, Lose(s, r),
           losses = 0, impeachments = 0,
           \A p \in Link : Brings(p, {}), \A q \in Replica : Sound(q)
    PROVE  \E l \in Link : \E x \in Known' \ {Genesis} : LostOne(l, x)'
<1>1. PICK l, t, m, x : l = <<s, r>> /\ t = chan[l] /\ m = Head(t) /\ x = m.blk
    OBVIOUS
<1>2. /\ Grows /\ Stays /\ StorageGrows
      /\ \A q \in Replica : CalmReplica(q)
      /\ \A p \in Link : CalmChannel(p)
    BY DEF LayersBelow, CalmInv
<1>3. /\ l \in Link /\ l[2] = r /\ Takes(l) /\ t # <<>>
      /\ \A p \in Link : FilesOnly(p[1], {}) /\ (p # l => chan'[p] = chan[p])
    <2>1. /\ l \in Link /\ Takes(l)
          /\ \A p \in Link : FilesOnly(p[1], {}) /\ (p # l => chan'[p] = chan[p])
        BY <1>1, <1>2, LoseMoves
    <2> QED BY <1>1, <2>1 DEF Takes
<1>4. t \in Seq(Message) /\ m.type = "propose" /\ Range(Parents(x)) \subseteq storage[r]
    BY <1>1, <1>2, <1>3, CalmHead DEF NetInv, ChannelsOK
<1>5. x \in Known \ {Genesis} /\ x \in Known' /\ Parents(x)' = Parents(x)
    <2>1. 1 \in DOMAIN t /\ t[1] = m
        BY <1>1, <1>3, <1>4
    <2>2. x # Genesis
        BY <1>1, <1>3, <1>4, <2>1 DEF NetInv, ChannelsOK, MessageOK
    <2>3. t[1].blk \in Known /\ Parents(t[1].blk)' = Parents(t[1].blk)
        BY <1>1, <1>2, <1>3, <2>1, MessageStays
    <2>4. x \in Known /\ Parents(x)' = Parents(x)
        BY <1>1, <2>1, <2>3
    <2> QED BY <1>2, <2>2, <2>4 DEF Grows
<1>6. UNCHANGED <<storage, signed, aborted, fetching, need, waiting, stack, impeachments>>
    BY DEF Lose
<1>7. ASSUME NEW p \in Link PROVE Brings(p, IF p = l THEN {x} ELSE {})'
    <2>1. PICK none, more : none = {} /\ more = {x}
        OBVIOUS
    <2>2. CASE p = l
        <3>1. Brings(p, none \cup more)'
            BY <1>1, <1>2, <1>3, <2>1, <2>2, BringsKept
        <3>2. none \cup more = {x}
            BY <2>1
        <3> QED BY <2>2, <3>1, <3>2
    <2>3. CASE p # l
        <3>1. ChannelMoves(p)
            BY <1>3, <2>3 DEF ChannelMoves
        <3>2. Brings(p, none \cup none)'
            BY <1>2, <2>1, <3>1, BringsKept
        <3>3. none \cup none = {}
            BY <2>1
        <3> QED BY <2>3, <3>2, <3>3
    <2> QED BY <2>2, <2>3
<1>8. ASSUME NEW q \in Replica PROVE CalmReplica(q)' /\ Sound(q)'
    BY <1>2, <1>6, OtherCalm DEF Sound
<1>9. FiledBelow(r, x)'
    BY <1>4, <1>5, <1>6, <1>8 DEF FiledBelow
<1>10. ASSUME NEW p \in Link PROVE Onward(p, r)'
    <2>1. Onward(p, r)
        BY <1>2 DEF CalmChannel, Onward, Ordered, Reaches
    <2>2. chan'[p] = chan[p] \/ (Takes(p) /\ p[2] = r)
        BY <1>3
    <2> QED BY <1>2, <2>1, <2>2, OnwardKept
<1>11. LostOne(l, x)'
    BY <1>3, <1>7, <1>8, <1>9, <1>10 DEF LostOne, Missed
<1> QED BY <1>3, <1>5, <1>11

\* What becomes of a lost proposal, in every step.
LEMMA FiledInvStep ==
    ASSUME Early', NetInv, FirstInv, ProposalInv, CalmInv, FiledInv, [BNext]_bvars
    PROVE  FiledInv'
<1>1. LayersBelow /\ Grows
    BY StepKeepsLayers DEF LayersBelow
<1>2. (\A r \in Replica : UnsignedStops(r)') /\ (\A p \in Link : Expected(p)')
    BY <1>1, UnsignedStep, ExpectedStep DEF FiledInv
<1>3. /\ losses \in Nat /\ impeachments \in Nat
      /\ \/ losses' = losses
         \/ losses' = losses + 1 /\ \E r \in Replica : \E s \in Replica \ {r} : Lose(s, r)
      /\ impeachments' = impeachments \/ impeachments' = impeachments + 1
    BY <1>1, CountersStep
<1>4. CASE losses' = losses
    <2>1. ChannelsMove
        <3>1. ASSUME NEW r \in Replica, NEW s \in Replica \ {r}, Lose(s, r) PROVE FALSE
            <4>1. losses' = losses + 1
                BY <3>1 DEF Lose
            <4>2. losses + 1 # losses
                BY <1>3
            <4> QED BY <1>4, <4>1, <4>2
        <3> QED BY <1>1, <3>1, StepMoves
    <2>2. ASSUME losses = 0 PROVE \A p \in Link : Brings(p, {})'
        BY <1>1, <2>1, <2>2, AllBring DEF FiledInv
    <2>3. ASSUME losses = 0, impeachments' = 0, NEW r \in Replica PROVE Sound(r)'
        <3>1. impeachments = 0
            BY <1>3, <2>3
        <3>2. ASSUME NEW s \in Replica \ {r}, RespBlkHandler(s, r) PROVE FALSE
            <4>1. PICK p, m : p = <<s, r>> /\ m = Head(chan[p])
                OBVIOUS
            <4>2. chan[p] # <<>> /\ m.type = "resp" /\ p \in Link
                BY <3>2, <4>1 DEF RespBlkHandler, Receives, Link
            <4>3. CalmChannel(p)
                BY <2>3, <3>1, <4>2 DEF CalmInv
            <4> QED BY <4>1, <4>2, <4>3, CalmHead
        <3>3. Sound(r)
            BY <2>3, <3>1 DEF FiledInv
        <3> QED BY <1>1, <3>2, <3>3, SoundStep
    <2>4. ASSUME losses = 1, impeachments' = 0
          PROVE  \E l \in Link : \E x \in Known' \ {Genesis} : LostOne(l, x)'
        <3>1. impeachments = 0
            BY <1>3, <2>4
        <3>2. PICK l \in Link, x \in Known \ {Genesis} : LostOne(l, x)
            BY <2>4, <3>1 DEF FiledInv
        <3>3. ASSUME NEW p \in Link PROVE Brings(p, IF p = l THEN {x} ELSE {})'
            <4>1. PICK lost : lost = IF p = l THEN {x} ELSE {}
                OBVIOUS
            <4>2. Brings(p, lost)
                BY <3>2, <4>1 DEF LostOne
            <4>3. Brings(p, lost)'
                BY <1>1, <2>1, <4>2, AllBring
            <4> QED BY <4>1, <4>3
        <3>4. ASSUME x \notin storage'[l[2]] PROVE Missed(l[2], x)'
            <4>1. PICK d : d = l[2]
                OBVIOUS
            <4>2. d \in Replica /\ x \notin storage[d]
                BY <1>1, <3>4, <4>1 DEF Link, LayersBelow, StorageGrows
            <4>3. Missed(d, x) /\ \A p \in Link : p[2] # d => Brings(p, {})
                BY <3>1, <3>2, <4>1, <4>2 DEF LostOne
            <4>4. Missing(d, x)
                BY <3>1, <3>4, <4>1, <4>2, <4>3 DEF Missing
            <4>5. Missed(d, x)'
                BY <1>1, <2>1, <4>4, MissedStep
            <4> QED BY <4>1, <4>5
        <3>5. x \in Known' \ {Genesis}
            BY <1>1 DEF Grows
        <3>6. LostOne(l, x)'
            BY <3>3, <3>4 DEF LostOne
        <3> QED BY <3>5, <3>6
    <2> QED BY <1>2, <1>4, <2>2, <2>3, <2>4 DEF FiledInv
<1>5. ASSUME losses' = losses + 1, NEW r \in Replica, NEW s \in Replica \ {r}, Lose(s, r)
      PROVE  FiledInv'
    <2>1. losses' # 0
        BY <1>3, <1>5
    <2>2. ASSUME losses' = 1, impeachments' = 0
          PROVE  \E l \in Link : \E x \in Known' \ {Genesis} : LostOne(l, x)'
        <3>1. losses = 0 /\ impeachments = 0
            BY <1>3, <1>5, <2>2
        <3>2. (\A p \in Link : Brings(p, {})) /\ (\A q \in Replica : Sound(q))
            BY <3>1 DEF FiledInv
        <3> QED BY <1>1, <1>5, <3>1, <3>2, FirstLoss
    <2> QED BY <1>2, <2>1, <2>2 DEF FiledInv
<1> QED BY <1>3, <1>4, <1>5

\* When the replicas start nothing has been filed, sent or fetched.
LEMMA InitFiled == BInit => FiledInv
<1> SUFFICES ASSUME BInit PROVE FiledInv
    OBVIOUS
<1>1. /\ Known = {Genesis} /\ losses = 0
      /\ \A p \in Link : chan[p] = <<>>
      /\ \A r \in Replica : storage[r] = {Genesis} /\ ~ aborted[r]
    BY DEF BInit, Init, Known
<1>2. ASSUME NEW r \in Replica PROVE UnsignedStops(r) /\ Sound(r)
    BY <1>1 DEF UnsignedStops, Sound
<1>3. ASSUME NEW p \in Link PROVE Expected(p) /\ Brings(p, {})
    BY <1>1 DEF Expected, Brings
<1> QED BY <1>1, <1>2, <1>3 DEF FiledInv

-----------------------------------------------------------------------------
(* When nothing is under way.                                               *)

\* Of some heights one is the lowest.
LEMMA Lowest ==
    ASSUME NEW S \in SUBSET Nat, S # {}
    PROVE  \E i \in S : \A j \in S : ~ (j < i)
<1>1. PICK below : below = OpToRel(<, Nat)
    OBVIOUS
<1>2. \A j, i \in Nat : j < i => <<j, i>> \in below
    BY <1>1 DEF OpToRel
<1>3. PICK i \in S : \A j \in S : ~ <<j, i>> \in below
    BY <1>1, NatLessThanWellFounded, WFMin
<1> QED BY <1>2, <1>3

\* Where nothing is fetched, the lowest block that waits for its delivery would wait for
\* nothing.
LEMMA RestDelivered ==
    ASSUME NetInv, FirstInv, NEW r \in Replica, Idle(r), DOMAIN fetching[r] = {}
    PROVE  DOMAIN waiting[r] = {}
<1> SUFFICES ASSUME DOMAIN waiting[r] # {} PROVE FALSE
    OBVIOUS
<1>1. DOMAIN waiting[r] \subseteq Known
    BY DEF NetInv, ReplicaOK, WaitingOK
<1>2. \A b \in Known : Height(b) \in Nat
    BY DEF NetInv, CoreInv, TypeOK, Block, Height
<1>3. PICK b \in DOMAIN waiting[r] : \A c \in DOMAIN waiting[r] : ~ (Height(c) < Height(b))
    <2>1. PICK S : S = {Height(c) : c \in DOMAIN waiting[r]}
        OBVIOUS
    <2>2. S \in SUBSET Nat /\ S # {}
        BY <1>1, <1>2, <2>1
    <2>3. PICK i \in S : \A j \in S : ~ (j < i)
        BY <2>2, Lowest
    <2> QED BY <2>1, <2>3
<1>4. /\ b \in DOMAIN need[r]
      /\ Undelivered(r, b) \subseteq DOMAIN waiting[r]
      /\ Cardinality(Undelivered(r, b)) = need[r][b]
    BY <1>3, WaitsOn DEF WaitsForSomething
<1>5. Cardinality(Undelivered(r, b)) # 0
    BY <1>1, <1>4 DEF NetInv, ReplicaOK, CountsParents, CoreInv, TypeOK, Known
<1>6. PICK c \in Undelivered(r, b) : TRUE
    BY <1>5, FS_EmptySet
<1>7. Height(c) < Height(b)
    BY <1>1, <1>6, AncestorsLower DEF Undelivered, NetInv
<1> QED BY <1>3, <1>4, <1>6, <1>7

\* so whatever is stored is filed.
LEMMA RestStored ==
    ASSUME NetInv, FirstInv, ProposalInv, FiledInv, AtRest, impeachments = 0,
           NEW r \in Replica, Up(r), NEW b \in storage[r] \ {Genesis}
    PROVE  AlreadyHandled(r, b)
<1>1. stack[r] = <<>> /\ DOMAIN fetching[r] = {} /\ ~ aborted[r]
    BY DEF AtRest, Up
<1>2. DOMAIN waiting[r] = {}
    BY <1>1, RestDelivered DEF Idle
<1>3. b \in signed[r]
    BY <1>1, HasNone DEF FiledInv, UnsignedStops
<1>4. ~ Pending(r, b)
    BY <1>1, <1>2, HasNone DEF Pending
<1> QED BY <1>3, <1>4 DEF ProposalInv, SignedIsFiled

\* What a connection would bring has come.
LEMMA RestBrought ==
    ASSUME NetInv, AtRest, NEW p \in Link, Up(p[2]), NEW lost, Brings(p, lost),
           NEW b \in Known \ {Genesis}, AlreadyHandled(p[1], b)
    PROVE  b \in lost \/ b \in storage[p[2]]
<1>1. chan[p] = <<>>
    BY DEF AtRest
<1>2. Len(chan[p]) = 0
    BY <1>1
<1> QED BY <1>2 DEF Brings, Reaches, Sent

\* The lost proposal has come from somebody else.
LEMMA RestMissed ==
    ASSUME ThirdReplica, NetInv, FirstInv, ProposalInv, FiledInv, AtRest,
           impeachments = 0, NEW r \in Replica \ {FirstProposer}, Up(r), NEW l, l = <<FirstProposer, r>>,
           NEW x \in Known \ {Genesis}, LostOne(l, x)
    PROVE  x \in storage[r]
<1> SUFFICES ASSUME x \notin storage[r] PROVE FALSE
    OBVIOUS
<1>1. PICK t \in Replica : t \notin {FirstProposer, r}
    BY FirstIsReplica DEF ThirdReplica
<1>2. Up(t)
    BY <1>1 DEF LostOne, Missed, Sound, Up, FirstInv, NeverAborts
<1>3. PICK p, q, none : p = <<FirstProposer, t>> /\ q = <<t, r>> /\ none = {}
    OBVIOUS
<1>4. /\ p \in Link /\ q \in Link /\ p # l /\ q # l
      /\ p[1] = FirstProposer /\ p[2] = t /\ q[1] = t /\ q[2] = r
    BY <1>1, <1>3, FirstIsReplica DEF Link
<1>5. Brings(p, none) /\ Brings(q, none)
    BY <1>3, <1>4 DEF LostOne
<1>6. x \in storage[t]
    BY <1>2, <1>3, <1>4, <1>5, RestBrought DEF FirstInv, FirstFiledAll
<1>7. AlreadyHandled(t, x)
    BY <1>2, <1>6, RestStored
<1> QED BY <1>3, <1>4, <1>5, <1>7, RestBrought

\* so everybody has filed everything.
LEMMA RestFiled ==
    ASSUME ThirdReplica, NetInv, FirstInv, ProposalInv, FiledInv
    PROVE  FiledAtRest
<1> SUFFICES ASSUME AtRest, losses <= 1, impeachments = 0, NEW r \in Replica, Up(r),
                    NEW b \in Known
             PROVE  b \in Range(ht_blk_map[r])
    BY DEF FiledAtRest
<1>1. ASSUME AlreadyHandled(r, b) PROVE b \in Range(ht_blk_map[r])
    BY <1>1 DEF AlreadyHandled, HasHeight, Range
<1>2. CASE b = Genesis
    <2>1. HasHeight(r, Height(b))
        BY <1>2 DEF NetInv, CoreInv, BlocksOK, MapOK
    <2> QED BY <1>1, <2>1, TakenByItself DEF NetInv
<1>3. CASE r = FirstProposer
    BY <1>1, <1>3 DEF FirstInv, FirstFiledAll
<1>4. CASE b # Genesis /\ r # FirstProposer
    <2>1. PICK p, none : p = <<FirstProposer, r>> /\ none = {}
        OBVIOUS
    <2>2. p \in Link /\ p[1] = FirstProposer /\ p[2] = r
        BY <1>4, <2>1, FirstIsReplica DEF Link
    <2>3. AlreadyHandled(FirstProposer, b)
        BY DEF FirstInv, FirstFiledAll
    <2>4. CASE Brings(p, none)
        <3>1. b \in storage[r]
            BY <1>4, <2>1, <2>2, <2>3, <2>4, RestBrought
        <3> QED BY <1>1, <1>4, <3>1, RestStored
    <2>5. CASE losses = 1
        <3>1. PICK l \in Link, x \in Known \ {Genesis} : LostOne(l, x)
            BY <2>5 DEF FiledInv
        <3>2. CASE l # p
            BY <2>1, <2>2, <2>4, <3>1, <3>2 DEF LostOne
        <3>3. CASE l = p
            <4>1. PICK one : one = {x}
                OBVIOUS
            <4>2. Brings(p, one)
                BY <2>2, <3>1, <3>3, <4>1 DEF LostOne
            <4>3. x \in storage[r]
                BY <1>4, <2>1, <3>1, <3>3, RestMissed
            <4>4. b \in storage[r]
                BY <1>4, <2>2, <2>3, <4>1, <4>2, <4>3, RestBrought
            <4> QED BY <1>1, <1>4, <4>4, RestStored
        <3> QED BY <3>2, <3>3
    <2>6. losses = 0 \/ losses = 1
        BY DEF NetInv, TablesOK
    <2> QED BY <2>1, <2>2, <2>4, <2>5, <2>6 DEF FiledInv
<1> QED BY <1>2, <1>3, <1>4

\* With one proposer in force, what was proposed is filed by everybody who runs when nothing
\* is under way, also when a connection lost a proposal: a third replica has forwarded it, or a
\* later proposal has made its receiver fetch it and stop.
THEOREM FilesAllAtRest == ThirdReplica => (BSpec => []FiledAtRest)
<1> SUFFICES ASSUME ThirdReplica PROVE BSpec => []FiledAtRest
    OBVIOUS
<1>1. BInit => NetInv /\ (Early => FirstInv /\ ProposalInv /\ CalmInv /\ FiledInv)
    BY InitNetInv, InitProposal, InitCalm, InitFiled
<1>2. /\ NetInv /\ (Early => FirstInv /\ ProposalInv /\ CalmInv /\ FiledInv)
      /\ [BNext]_bvars
      => (NetInv /\ (Early => FirstInv /\ ProposalInv /\ CalmInv /\ FiledInv))'
    BY NetInvStep, EarlyBefore, CalmInvStep, FiledInvStep
<1>3. NetInv /\ (Early => FirstInv /\ ProposalInv /\ FiledInv) => FiledAtRest
    BY RestFiled DEF FiledAtRest, Early
<1> QED BY <1>1, <1>2, <1>3, PTL DEF BSpec

=============================================================================
