------------------------------ MODULE E2CBase ------------------------------
(***************************************************************************)
(* The protocol with its network: class E2CBase over E2CCore, with the     *)
(* pace maker and the impeachment timer of the application.                *)
(*                                                                         *)
(* A proposal carries one block and the hashes of all its ancestors. A     *)
(* replica that misses an ancestor asks the sender of the proposal for it  *)
(* and chains promises so that a block is delivered when its parents are.  *)
(*                                                                         *)
(* Every replica has one main thread (the event loop that runs the message *)
(* handlers, the fetch timeouts, the impeachment timer and the proposals)  *)
(* and one thread per filed block (the commit timer). A handler runs the   *)
(* callbacks of a promise inside the call that resolves it: here stack[r]  *)
(* holds what is left of the handler, one call per step, so that commit    *)
(* timers and other replicas interleave with it; the next handler starts   *)
(* when it is empty.                                                       *)
(*                                                                         *)
(* Network. The connection between two replicas is a FIFO channel. A       *)
(* message is lost when its connection breaks: at most MaxLoss times.      *)
(***************************************************************************)
EXTENDS E2CCore, FiniteSets

CONSTANTS
    FirstProposer,  \* the fixed proposer of the configuration
    Rotation,       \* Rotation[r]: the replica with the next id
    MaxLoss,        \* bound: messages lost
    MaxRetry,       \* bound: fetch timeouts
    MaxImpeach      \* bound: impeachments

ASSUME FirstProposerAssumption == FirstProposer \in Proposers
ASSUME RotationAssumption == Rotation \in [Replica -> Replica]
ASSUME BoundsAssumption == {MaxLoss, MaxRetry, MaxImpeach} \subseteq Nat

VARIABLES
    proposer,   \* proposer[r]: the proposer in the pace maker of r
    storage,    \* storage[r]: the hashes in blk_cache
    signed,     \* signed[r]: the stored blocks that hold a signature
    fetching,   \* fetching[r]: blk_fetch_waiting, hash -> replicas asked, callbacks
    waiting,    \* waiting[r]: blk_delivery_waiting, hash -> callbacks
    need,       \* need[r]: block -> parents its promise::all still waits for
    stack,      \* stack[r]: the calls the running handler still has to make
    chan,       \* chan[<<s, d>>]: messages from s to d, oldest first
    aborted,    \* aborted[r]: the process of r died in a handler of E2CBase
    losses, retries, impeachments  \* counters of the bounded events

counters == <<losses, retries, impeachments>>

baseVars == <<proposer, storage, signed, fetching, waiting, need, stack, chan,
              aborted, counters>>
bvars == <<vars, baseVars>>

Link == {p \in Replica \X Replica : p[1] # p[2]}

Message == [type : {"propose", "req", "resp"}, blk : Hash]

\* Calls and callbacks, with the block they are about and, where it is passed
\* on, the peer.
Call == [op : {"async_deliver", "verify", "all", "all_then", "on_deliver",
               "await_delivery", "on_receive_proposal"},
         blk : Hash, peer : Replica]

-----------------------------------------------------------------------------

Up(r) == alive[r] /\ ~ aborted[r]

\* The main thread of r is between two handlers.
Idle(r) == Up(r) /\ stack[r] = <<>>

\* The call on top of the stack of r.
Running(r, op) == Up(r) /\ stack[r] # <<>> /\ Head(stack[r]).op = op
Top(r) == Head(stack[r])

\* The running call of r returns after making these calls.
Then(r, calls) == stack' = [stack EXCEPT ![r] = calls \o Tail(@)]

Invoke(op, b, p) == <<[op |-> op, blk |-> b, peer |-> p]>>

Send(s, d, type, b) ==
    chan' = [chan EXCEPT ![<<s, d>>] = Append(@, [type |-> type, blk |-> b])]

\* do_broadcast_proposal: to all peers, which are all replicas but r.
Broadcast(r, b) ==
    chan' = [p \in Link |-> IF p[1] = r
                            THEN Append(chan[p], [type |-> "propose", blk |-> b])
                            ELSE chan[p]]

Undelivered(r, b) == Range(Parents(b)) \ delivered[r]

\* fetch context of b: created without replicas and callbacks.
Fetch(r, b) == IF b \in DOMAIN fetching[r] THEN fetching[r][b]
                                           ELSE [peers |-> {}, then |-> <<>>]

Erase(m, k) == [x \in DOMAIN m \ {k} |-> m[x]]

Empty == [x \in {} |-> <<>>]

\* A message from s is taken off its connection by the main thread of r.
Receives(s, r, type) ==
    /\ Idle(r)
    /\ chan[<<s, r>>] # <<>>
    /\ Head(chan[<<s, r>>]).type = type

-----------------------------------------------------------------------------
(* Faulty variants of the actions below.                                    *)

\* Proposal::unserialize leaves the block out of the storage.
ProposeHandlerNoStore(s, r) ==
    /\ Receives(s, r, "propose")
    /\ LET b == Head(chan[<<s, r>>]).blk IN
       stack' = [stack EXCEPT ![r] =
                    IF blocks[b].proposer # proposer[r] THEN <<>>
                    ELSE Invoke("async_deliver", b, s) \o Invoke("await_delivery", b, s)]
    /\ chan' = [chan EXCEPT ![<<s, r>>] = Tail(@)]
    /\ UNCHANGED <<vars, proposer, storage, signed, fetching, waiting, need, aborted, counters>>

\* propose_handler does not compare the proposer with the pace maker's.
ProposeHandlerAnyProposer(s, r) ==
    /\ Receives(s, r, "propose")
    /\ LET b == Head(chan[<<s, r>>]).blk IN
       /\ storage' = [storage EXCEPT ![r] = @ \cup {b}]
       /\ signed' = IF b \in storage[r] THEN signed
                                        ELSE [signed EXCEPT ![r] = @ \cup {b}]
       /\ stack' = [stack EXCEPT ![r] =
                       Invoke("async_deliver", b, s) \o Invoke("await_delivery", b, s)]
    /\ chan' = [chan EXCEPT ![<<s, r>>] = Tail(@)]
    /\ UNCHANGED <<vars, proposer, fetching, waiting, need, aborted, counters>>

\* async_deliver_blk asks the replica with the next id, whoever sent the block.
AsyncDeliverBlkNext(r) ==
    /\ Running(r, "async_deliver")
    /\ LET b == Top(r).blk
           p == Rotation[r]
           new == b \notin delivered[r] /\ b \notin DOMAIN waiting[r]
       IN  /\ waiting' = IF new THEN [waiting EXCEPT ![r] = Put(@, b, <<>>)] ELSE waiting
           /\ Then(r, IF new /\ b \in storage[r] THEN Invoke("verify", b, p) ELSE <<>>)
           /\ IF new /\ b \notin storage[r]
              THEN /\ fetching' = [fetching EXCEPT ![r] = Put(@, b,
                          [peers |-> Fetch(r, b).peers \cup {p},
                           then |-> Fetch(r, b).then \o Invoke("verify", b, p)])]
                   /\ IF Fetch(r, b).peers = {} THEN Send(r, p, "req", b)
                                                ELSE UNCHANGED chan
              ELSE UNCHANGED <<fetching, chan>>
    /\ UNCHANGED <<vars, proposer, storage, signed, need, aborted, counters>>

\* async_deliver_blk does not wait for the parents.
AllAtOnce(r) ==
    /\ Running(r, "all")
    /\ Then(r, Invoke("on_deliver", Top(r).blk, Top(r).peer))
    /\ UNCHANGED <<vars, proposer, storage, signed, fetching, waiting, need, chan, aborted,
                   counters>>

\* promise::all leaves its counter at zero.
AllThenKeep(r) ==
    /\ Running(r, "all_then")
    /\ LET b == Top(r).blk IN
       /\ need' = [need EXCEPT ![r][b] = @ - 1]
       /\ Then(r, IF need[r][b] = 1 THEN Invoke("on_deliver", b, Top(r).peer) ELSE <<>>)
    /\ UNCHANGED <<vars, proposer, storage, signed, fetching, waiting, chan, aborted, counters>>

\* on_deliver_blk erases the waiting promise without resolving it.
BOnDeliverBlkNoResolve(r) ==
    /\ Running(r, "on_deliver")
    /\ LET b == Top(r).blk IN
       /\ OnDeliverBlk(r, b)
       /\ Then(r, <<>>)
       /\ waiting' = [waiting EXCEPT ![r] = Erase(@, b)]
    /\ UNCHANGED <<proposer, storage, signed, fetching, need, chan, aborted, counters>>

\* The proposal of a block that is not delivered at once is dropped.
AwaitDeliveryNow(r) ==
    /\ Running(r, "await_delivery")
    /\ Then(r, IF Top(r).blk \in delivered[r]
               THEN Invoke("on_receive_proposal", Top(r).blk, Top(r).peer) ELSE <<>>)
    /\ UNCHANGED <<vars, proposer, storage, signed, fetching, waiting, need, chan, aborted,
                   counters>>

\* on_receive_proposal forwards whatever it is given.
BOnReceiveForwardAll(r) ==
    /\ Running(r, "on_receive_proposal")
    /\ LET b == Top(r).blk IN
       /\ IF AlreadyHandled(r, b) THEN UNCHANGED vars ELSE OnReceiveProposal(r, b)
       /\ Broadcast(r, b)
    /\ Then(r, <<>>)
    /\ UNCHANGED <<proposer, storage, signed, fetching, waiting, need, aborted, counters>>

\* on_receive_proposal does not forward.
BOnReceiveSilent(r) ==
    /\ Running(r, "on_receive_proposal")
    /\ LET b == Top(r).blk IN
       IF AlreadyHandled(r, b) THEN UNCHANGED vars ELSE OnReceiveProposal(r, b)
    /\ Then(r, <<>>)
    /\ UNCHANGED <<proposer, storage, signed, fetching, waiting, need, chan, aborted, counters>>

-----------------------------------------------------------------------------

BInit ==
    /\ Init
    /\ proposer = [r \in Replica |-> FirstProposer]
    /\ storage = [r \in Replica |-> {Genesis}]
    /\ signed = [r \in Replica |-> {}]
    /\ fetching = [r \in Replica |-> Empty]
    /\ waiting = [r \in Replica |-> Empty]
    /\ need = [r \in Replica |-> Empty]
    /\ stack = [r \in Replica |-> <<>>]
    /\ chan = [p \in Link |-> <<>>]
    /\ aborted = [r \in Replica |-> FALSE]
    /\ losses = 0 /\ retries = 0 /\ impeachments = 0

\* The handler of cmd_pending: when a block is full and the pace maker names
\* this replica, on_propose(cmds, get_parents()) stores, signs, delivers, files
\* and broadcasts the block.
BPropose(r, h) ==
    /\ Idle(r)
    /\ proposer[r] = r
    /\ OnPropose(r, h)
    /\ storage' = [storage EXCEPT ![r] = @ \cup {h}]
    /\ signed' = [signed EXCEPT ![r] = @ \cup {h}]
    /\ Broadcast(r, h)
    /\ UNCHANGED <<proposer, fetching, waiting, need, stack, aborted, counters>>

BProposeNullParent(r) ==
    /\ Idle(r)
    /\ proposer[r] = r
    /\ OnProposeNullParent(r)
    /\ UNCHANGED baseVars

\* propose_handler: parsing stores the block, with its signature, unless there
\* is an object for it already; only the proposer's blocks go on.
ProposeHandler(s, r) ==
    /\ Receives(s, r, "propose")
    /\ LET b == Head(chan[<<s, r>>]).blk IN
       /\ storage' = [storage EXCEPT ![r] = @ \cup {b}]
       /\ signed' = IF b \in storage[r] THEN signed
                                        ELSE [signed EXCEPT ![r] = @ \cup {b}]
       /\ stack' = [stack EXCEPT ![r] =
                       IF blocks[b].proposer # proposer[r] THEN <<>>
                       ELSE Invoke("async_deliver", b, s) \o Invoke("await_delivery", b, s)]
    /\ chan' = [chan EXCEPT ![<<s, r>>] = Tail(@)]
    /\ UNCHANGED <<vars, proposer, fetching, waiting, need, aborted, counters>>

\* async_deliver_blk up to the callback of async_fetch_blk.
AsyncDeliverBlk(r) ==
    /\ Running(r, "async_deliver")
    /\ LET b == Top(r).blk
           p == Top(r).peer
           new == b \notin delivered[r] /\ b \notin DOMAIN waiting[r]
       IN  /\ waiting' = IF new THEN [waiting EXCEPT ![r] = Put(@, b, <<>>)] ELSE waiting
           /\ Then(r, IF new /\ b \in storage[r] THEN Invoke("verify", b, p) ELSE <<>>)
           /\ IF new /\ b \notin storage[r]
              THEN /\ fetching' = [fetching EXCEPT ![r] = Put(@, b,
                          [peers |-> Fetch(r, b).peers \cup {p},
                           then |-> Fetch(r, b).then \o Invoke("verify", b, p)])]
                   /\ IF Fetch(r, b).peers = {} THEN Send(r, p, "req", b)
                                                ELSE UNCHANGED chan
              ELSE UNCHANGED <<fetching, chan>>
    /\ UNCHANGED <<vars, proposer, storage, signed, need, aborted, counters>>

\* The callback of async_fetch_blk: verify the block, then ask for the delivery
\* of every parent. A block that was parsed from a response has no signature
\* object and verify reads through the null pointer.
Verify(r) ==
    /\ Running(r, "verify")
    /\ LET b == Top(r).blk
           p == Top(r).peer
           ps == Parents(b)
       IN  IF b \in signed[r]
           THEN /\ Then(r, [i \in DOMAIN ps |-> [op |-> "async_deliver", blk |-> ps[i],
                                                 peer |-> p]]
                           \o Invoke("all", b, p))
                /\ UNCHANGED aborted
           ELSE /\ aborted' = [aborted EXCEPT ![r] = TRUE]
                /\ UNCHANGED stack
    /\ UNCHANGED <<vars, proposer, storage, signed, fetching, waiting, need, chan, counters>>

\* promise::all over the parents: one callback per parent not delivered yet.
All(r) ==
    /\ Running(r, "all")
    /\ LET b == Top(r).blk
           p == Top(r).peer
           ps == Undelivered(r, b)
       IN  IF ps = {}
           THEN /\ Then(r, Invoke("on_deliver", b, p))
                /\ UNCHANGED <<waiting, need>>
           ELSE /\ Then(r, <<>>)
                /\ need' = [need EXCEPT ![r] = Put(@, b, Cardinality(ps))]
                /\ waiting' = [waiting EXCEPT ![r] =
                       [x \in DOMAIN @ |-> IF x \in ps THEN @[x] \o Invoke("all_then", b, p)
                                                       ELSE @[x]]]
    /\ UNCHANGED <<vars, proposer, storage, signed, fetching, chan, aborted, counters>>

\* One parent of b is delivered; the last one runs the callback of promise::all.
AllThen(r) ==
    /\ Running(r, "all_then")
    /\ LET b == Top(r).blk IN
       IF need[r][b] = 1
       THEN /\ need' = [need EXCEPT ![r] = Erase(@, b)]
            /\ Then(r, Invoke("on_deliver", b, Top(r).peer))
       ELSE /\ need' = [need EXCEPT ![r][b] = @ - 1]
            /\ Then(r, <<>>)
    /\ UNCHANGED <<vars, proposer, storage, signed, fetching, waiting, chan, aborted, counters>>

\* E2CBase::on_deliver_blk: deliver, then run and erase the callbacks.
BOnDeliverBlk(r) ==
    /\ Running(r, "on_deliver")
    /\ LET b == Top(r).blk IN
       /\ OnDeliverBlk(r, b)
       /\ Then(r, IF b \in DOMAIN waiting[r] THEN waiting[r][b] ELSE <<>>)
       /\ waiting' = [waiting EXCEPT ![r] = Erase(@, b)]
    /\ UNCHANGED <<proposer, storage, signed, fetching, need, chan, aborted, counters>>

\* The end of propose_handler: on_receive_proposal is called at once when the
\* block is delivered, else by the promise of its delivery.
AwaitDelivery(r) ==
    /\ Running(r, "await_delivery")
    /\ LET b == Top(r).blk
           then == Invoke("on_receive_proposal", b, Top(r).peer)
       IN  IF b \in delivered[r]
           THEN Then(r, then) /\ UNCHANGED waiting
           ELSE /\ Then(r, <<>>)
                /\ waiting' = [waiting EXCEPT ![r][b] = @ \o then]
    /\ UNCHANGED <<vars, proposer, storage, signed, fetching, need, chan, aborted, counters>>

\* on_receive_proposal: a block that is on file is discarded, any other block is
\* forwarded to all peers, an equivocating one included.
BOnReceiveProposal(r) ==
    /\ Running(r, "on_receive_proposal")
    /\ LET b == Top(r).blk IN
       IF AlreadyHandled(r, b)
       THEN UNCHANGED <<vars, chan>>
       ELSE OnReceiveProposal(r, b) /\ Broadcast(r, b)
    /\ Then(r, <<>>)
    /\ UNCHANGED <<proposer, storage, signed, fetching, waiting, need, aborted, counters>>

\* req_blk_handler: answer with the block. A request for a block that is not
\* stored would wait for somebody else's fetch of it: RequestsServable says that
\* there is none.
ReqBlkHandler(s, r) ==
    /\ Receives(s, r, "req")
    /\ LET b == Head(chan[<<s, r>>]).blk IN
       /\ b \in storage[r]
       /\ chan' = [chan EXCEPT ![<<s, r>>] = Tail(@),
                               ![<<r, s>>] = Append(@, [type |-> "resp", blk |-> b])]
    /\ UNCHANGED <<vars, proposer, storage, signed, fetching, waiting, need, stack, aborted,
                   counters>>

\* resp_blk_handler and on_fetch_blk: parsing stores the block, without a
\* signature, unless there is an object for it already; then the callbacks run.
RespBlkHandler(s, r) ==
    /\ Receives(s, r, "resp")
    /\ LET b == Head(chan[<<s, r>>]).blk IN
       /\ storage' = [storage EXCEPT ![r] = @ \cup {b}]
       /\ stack' = [stack EXCEPT ![r] = Fetch(r, b).then]
       /\ fetching' = [fetching EXCEPT ![r] = Erase(@, b)]
    /\ chan' = [chan EXCEPT ![<<s, r>>] = Tail(@)]
    /\ UNCHANGED <<vars, proposer, signed, waiting, need, aborted, counters>>

\* FetchContext::timeout_cb asks all the replicas it knows of again.
FetchTimeout(r, b) ==
    /\ Idle(r)
    /\ b \in DOMAIN fetching[r]
    /\ retries < MaxRetry
    /\ retries' = retries + 1
    /\ chan' = [p \in Link |-> IF p[1] = r /\ p[2] \in fetching[r][b].peers
                               THEN Append(chan[p], [type |-> "req", blk |-> b])
                               ELSE chan[p]]
    /\ UNCHANGED <<vars, proposer, storage, signed, fetching, waiting, need, stack,
                   aborted, losses, impeachments>>

\* A commit thread.
BCommitTimerCb(r, b) ==
    /\ ~ aborted[r]
    /\ CommitTimerCb(r, b)
    /\ UNCHANGED baseVars

\* The impeachment timer of the application: armed by the first decision and
\* again whenever it fires. It moves the pace maker of this replica only.
Impeach(r) ==
    /\ Idle(r)
    /\ executed[r] # <<>>
    /\ impeachments < MaxImpeach
    /\ impeachments' = impeachments + 1
    /\ proposer' = [proposer EXCEPT ![r] = Rotation[@]]
    /\ UNCHANGED <<vars, storage, signed, fetching, waiting, need, stack, chan, aborted,
                   losses, retries>>

\* A connection breaks while a message is on it.
Lose(s, d) ==
    /\ chan[<<s, d>>] # <<>>
    /\ losses < MaxLoss
    /\ losses' = losses + 1
    /\ chan' = [chan EXCEPT ![<<s, d>>] = Tail(@)]
    /\ UNCHANGED <<vars, proposer, storage, signed, fetching, waiting, need, stack,
                   aborted, retries, impeachments>>

\* The main thread goes on with its handler.
HandlerStep(r) ==
    \/ AsyncDeliverBlk(r)
    \/ Verify(r)
    \/ All(r)
    \/ AllThen(r)
    \/ BOnDeliverBlk(r)
    \/ AwaitDelivery(r)
    \/ BOnReceiveProposal(r)

\* The main thread takes a message.
HandleMessage(s, r) ==
    \/ ProposeHandler(s, r)
    \/ ReqBlkHandler(s, r)
    \/ RespBlkHandler(s, r)

BNext ==
    \E r \in Replica :
        \/ HandlerStep(r)
        \/ BProposeNullParent(r)
        \/ Impeach(r)
        \/ \E b \in Hash : \/ BPropose(r, b)
                           \/ BCommitTimerCb(r, b)
                           \/ FetchTimeout(r, b)
        \/ \E s \in Replica \ {r} : HandleMessage(s, r) \/ Lose(s, r)

BSpec == BInit /\ [][BNext]_bvars

-----------------------------------------------------------------------------
(* Properties.                                                              *)

Callbacks == Seq(Call)

\* The types of the network layer, with what its tables say of each other: what
\* is signed or delivered is stored, a promise::all waits for a parent at least.
BTypeOK ==
    /\ proposer \in [Replica -> Replica]
    /\ aborted \in [Replica -> BOOLEAN]
    /\ \A r \in Replica :
          /\ storage[r] \subseteq Known
          /\ signed[r] \cup delivered[r] \subseteq storage[r]
          /\ DOMAIN fetching[r] \subseteq Known
          /\ \A b \in DOMAIN fetching[r] : /\ fetching[r][b].peers \subseteq Replica \ {r}
                                           /\ fetching[r][b].then \in Callbacks
          /\ DOMAIN waiting[r] \subseteq Known
          /\ \A b \in DOMAIN waiting[r] : waiting[r][b] \in Callbacks
          /\ need[r] \in [DOMAIN need[r] -> Nat \ {0}]
          /\ DOMAIN need[r] \subseteq DOMAIN waiting[r]
          /\ stack[r] \in Callbacks
    /\ \A p \in Link : chan[p] \in Seq(Message)
    /\ {losses, retries, impeachments} \subseteq Nat

\* The assertion of E2CBase::on_deliver_blk, "all parents must be delivered", and
\* the result it ignores: no block is delivered twice.
DeliveryAsserted ==
    \A r \in Replica :
        Running(r, "on_deliver") =>
            LET b == Top(r).blk IN
            /\ Range(Parents(b)) \subseteq delivered[r]
            /\ b \notin delivered[r]

\* No wake-up is lost: between two handlers a delivery waits either for a fetch
\* that is under way or for undelivered parents that wait in their turn, as many
\* as its promise::all still counts.
WaitsForSomething ==
    \A r \in Replica : Idle(r) =>
        \A b \in DOMAIN waiting[r] :
            \/ b \in DOMAIN fetching[r]
            \/ /\ b \in DOMAIN need[r]
               /\ Undelivered(r, b) \subseteq DOMAIN waiting[r]
               /\ Cardinality(Undelivered(r, b)) = need[r][b]

\* Whoever is asked for a block has it: a replica forwards a block only when it
\* has all its ancestors, so the fetch is answered and never passed on.
RequestsServable ==
    \A p \in Link : \A i \in DOMAIN chan[p] :
        chan[p][i].type = "req" => chan[p][i].blk \in storage[p[2]]

\* Every connection carries the blocks of a chain in the order of the chain: with
\* one proposer in force nothing is fetched as long as no message is lost.
NothingToFetch ==
    losses = 0 /\ impeachments = 0 => \A r \in Replica : DOMAIN fetching[r] = {}

\* With one proposer in force, the callbacks of a handler may file a block
\* before its parent, but no gap below b_mark outlives the handler.
NoGapAtRest ==
    impeachments = 0 => \A r \in Replica : Idle(r) => NoNullParent(r)

\* "Forward proposal only if receiving for the first time": no connection holds
\* the same proposal twice.
ForwardedOnce ==
    \A p \in Link : \A i, j \in DOMAIN chan[p] :
        chan[p][i].type = "propose" /\ chan[p][i] = chan[p][j] => i = j

\* "Ensure the correct proposer is proposing": a replica files no block of a proposer
\* to whom its own pace maker has not come yet. It may file one of a proposer it has
\* left: the check is made when the proposal comes, and its parents may be fetched.
FiledFromPast ==
    \A r \in Replica : \E n \in 0..impeachments : \E view \in [0..n -> Replica] :
        /\ view[0] = FirstProposer /\ view[n] = proposer[r]
        /\ \A i \in 1..n : view[i] = Rotation[view[i - 1]]
        /\ \A b \in Range(ht_blk_map[r]) \ {Genesis} : blocks[b].proposer \in Range(view)

\* Nothing is under way: no message, no handler, no fetch.
AtRest ==
    /\ \A p \in Link : Up(p[2]) => chan[p] = <<>>
    /\ \A r \in Replica : Up(r) => stack[r] = <<>> /\ DOMAIN fetching[r] = {}

\* Whatever is proposed is filed by every replica (and decided then, see
\* FiledIsDecided of E2CCore), also when a connection lost it: somebody else
\* forwards it. A replica may die instead, see DeliveredWhenFetched.
FiledAtRest ==
    AtRest /\ losses <= 1 /\ impeachments = 0 =>
        \A r \in Replica : Up(r) => Known \subseteq Range(ht_blk_map[r])

-----------------------------------------------------------------------------
(* What comments in the code say and the code does not do.                  *)

\* "Returns a promise resolved when Block is delivered (i.e. prefix is fetched)":
\* no promise of a delivery is pending when the block and its prefix are stored.
DeliveredWhenFetched ==
    \A r \in Replica : stack[r] = <<>> \/ aborted[r] =>
        \A b \in DOMAIN waiting[r] : ~ {b} \cup Range(Parents(b)) \subseteq storage[r]

=============================================================================
