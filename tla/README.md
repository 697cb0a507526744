# Verification of libe2c-cpp

libe2c is a library for synchronous state-machine replication that tolerates
Byzantine faults of up to half of the replicas: one proposer broadcasts blocks of
commands, every replica that gets a block files it, forwards it once, waits for two
message delays (2δ) and then decides it. This directory holds TLA+ models of the
library and of the replica and client programs that come with it, TLC runs over
small instances of them, and TLAPS proofs of most of what the runs check, for all
instances. Source paths below are relative to the repository.

Contents: 1 the system, 2 its components, 3 the modules, 4 the runs, 5 the proofs,
6 disagreements with the code's comments, 7 what is not modelled, 8 the plan.

## 1. The system

    client program ──commands──▶ every replica: exec_command ──▶ cmd_pending queue
         ▲                                                            │ proposer only
         │                                                            ▼
         │                                              cmd_pending_buffer, blk_size
         │                                                            │ beat, on_propose
         │                 E2CBase  ◀──proposals, requests, blocks──▶ other replicas
         │                    │ async_deliver_blk, on_receive_proposal
         │                    ▼
         │                 E2CCore: ht_blk_map, b_mark, commit threads (2δ)
         │                    │ do_consensus, do_decide
         └────responses───────┘ state_machine_execute ──▶ impeachment timer ──▶ pace maker

A replica is one process. Its main thread runs an event loop with the message
handlers, the fetch timeouts, the impeachment timer and the handler of the queue of
pending commands; requests of clients are taken in by a second event loop and
answered by a third; and every filed block has a thread of its own with an event
loop that does nothing but wait for the commit timer of the block
(`src/consensus.cpp:139-144`). Nothing is written to disk.

What makes it hard:

- **Interleaving.** Commit threads decide blocks while the main thread receives,
  delivers and proposes others, and while it registers the callbacks that a decision
  runs. A message handler goes through chains of promises, whose callbacks run inside
  the call that resolves them and may resolve others.
- **Order.** Proposals, fetched blocks, commit timers and answers arrive in orders
  that differ from the order of the chain.
- **Loss and failure.** Connections break, a proposer may stop in the middle of a
  broadcast, a client may be killed and run again.
- **Time.** A decision is safe only because two delays have passed; a proposer is
  replaced only because a time has passed; each replica measures both by itself.

## 2. Components

| Component | State | Operations | Correct when | Module |
|---|---|---|---|---|
| **E2CCore** (`src/consensus.cpp`, `consensus.h`) | `ht_blk_map`, `b_mark`, `tails`, commit timers, `delivered` and `decision` of blocks | `on_propose`, `on_deliver_blk`, `on_receive_proposal`, `update`, `commit_timer_cb` | one block per height is filed, for ever; what is filed is decided once, by its own timer; with one proposer all decisions lie on one chain and no replica meets a gap | `E2CCore` |
| **E2CBase** (`src/e2c.cpp`, `e2c.h`) | `blk_fetch_waiting`, `blk_delivery_waiting`, connections | `propose_handler`, `req_blk_handler`, `resp_blk_handler`, `async_fetch_blk`, `async_deliver_blk`, `on_fetch_blk`, `on_deliver_blk`, broadcasts | a block is delivered after its parents; no delivery is forgotten; a request goes to someone who can answer; a lost message delays nobody for ever | `E2CBase` |
| **Block, EntityStorage** (`entity.h`, `entity.cpp`) | `blk_cache`, signature of a block | `add_blk`, `verify` | what is needed of a block is there when it is used | `E2CBase` |
| **PaceMaker** (`liveness.h`) | `proposer` | `beat`, `impeach`, `get_proposer` | a block is filed only if it comes from the proposer in force | `E2CBase`, `E2CApp` |
| **Timers** (`consensus.cpp`, `programs/application.cpp`) | commit timers, `impeach_timer` | `reset_imp_timer`, callbacks | two delays are enough; a proposer that works is not impeached, one that falls silent is | `E2CSync` |
| **Replica program** (`programs/application.cpp`, `e2c.cpp`) | `cmd_pending`, `cmd_pending_buffer`, `decision_waiting` | `client_request_cmd_handler`, `exec_command`, handler of `cmd_pending`, `do_decide` | a command is proposed once and loses its callback nowhere; what is submitted is executed | `CommandPool`, `E2CApp` |
| **Client program** (`programs/client.cpp`) | `waiting`, `cnt` | `try_send`, `client_resp_cmd_handler` | an acknowledged command was executed by a correct replica; a sent command is acknowledged | `CommandPool` |
| **Promises** (`promise.hpp`) | state and callbacks of a promise, counters of `all` | `resolve`, `reject`, `then`, `fail`, `all`, `race` | an outcome never changes; a callback runs once, and runs | `Promise` |
| **VeriPool** (`task.h`) | `in_queue`, `out_queue`, `pms` | `verify`, the workers, the handler of `out_queue`, the destructor | every task is in one place and its promise is resolved once, with the right value | `VeriPool` |
| **Quorum certificate** (`crypto.cpp`, `crypto.h`) | `sigs`, `rids` | `add_part`, `verify`, `verify` on a pool | a certificate that verifies is signed by a majority; both verifications agree | `VeriPool` |
| Key generation, options, configuration, statistics | – | – | – | not modelled |

`PROJECT.json` lists the components with what is left out of each, and about 40
hazards, each at the line where it would bite and with the properties that watch it.

## 3. The modules

    ReplicatedLog ◁── E2CCoreLog ── E2CCore ◁── E2CBase ◁── E2CSync
                                     │   △
                                     │   └── E2CApp ──▷ CommandPool
    Promise (alone)    VeriPool (alone)

An arrow points from the module that extends or implements another to that other one.
Proofs are in the modules `...Proofs`, one for each of these, and `E2CProposalProofs` for
what E2CBase promises about proposals. Each opens with its inductive invariants, part by part.
The modules `MC...` hold the instances that TLC checks.

**E2CCore.** All replicas in one module, one function of replicas for every field of
the class. A block is its hash, a model value; `blocks` holds what the protocol reads
of it (proposer, height, parents), so hashes do not collide and a block is what its
proposer made it. `OnPropose`, `OnDeliverBlk`, `OnReceiveProposal` and
`CommitTimerCb` are the four entry points; `Update` is `update`, `GetParents`
collects the parents down to `b0` as `get_parents` does, and `OnProposeNullParent` is
the null pointer that `operator[]` of the map hands it where a height was never
filed: the process ends. A block is delivered and received only as the comments at
the declarations ask (`consensus.h:70-90`), in any order otherwise, and a commit timer
fires at any time: the caller, the network and the clock are below this module.
Two details of the source that the model simply follows: the comment in `update`
"first check if we have already received the parent" (`consensus.cpp:89`) has no code
to it, and `b_comm`, "last executed block" (`consensus.h:28`), is never written.

**ReplicatedLog** is the abstract specification: one log that grows at its end, from
which every replica executes each entry at most once, in no promised order.
**E2CCoreLog** has the refinement mapping: with one proposer the log is what the
proposer has on file, `FiledLog == [i \in 1..Height(b_mark[Leader]) |->
ht_blk_map[Leader][i]]`, and `executed` is what was handed to `do_decide`.

**E2CBase** extends E2CCore by the tables of `E2CBase` and by connections. Its
actions are the handlers. A handler that runs callbacks makes many calls; `stack[r]`
holds those it still has to make and every call is a step, so that commit threads and
other replicas come in between, but the next handler waits for the end of this one.
Every step that touches the protocol is conjoined with the E2CCore action of the same
name (`BOnDeliverBlk` with `OnDeliverBlk` and so on). A promise is represented by what
its callbacks are: `waiting[r][b]` for `blk_delivery_waiting`, `fetching[r][b]` for
`blk_fetch_waiting`, `need[r][b]` for the counter of `promise::all`; that promises
behave so is the subject of module Promise. After its verification a block asks for the
delivery of all its parents, delivered or not (`src/e2c.cpp:167-168`), and then waits for
those that are missing. The pace maker is `proposer`, and
`Impeach` the callback of the impeachment timer. Connections are FIFO (salticidae over
TCP); `Lose` is the loss of a message with its connection.

**E2CSync** puts the actions of E2CBase on a clock. Each leaves a stamp: messages must
arrive by `due`, `filed_at` is when a commit timer was armed, `impeach_due` when the
impeachment timer goes off. The clock moves only if nothing is overdue
(`NothingOverdue`), so computation takes no time and timers are exact. `Crash` stops
a replica for good and cuts off what it sent last, on each connection elsewhere.

**CommandPool** is the way of a command: client, request, queue, buffer, block,
decision, answer. The part between block and decision is what ReplicatedLog promises:
every replica executes each block once, at any time, in any order. A callback in
`decision_waiting` is a map from commands, `done` counts the commands of each block a
replica has executed (`do_decide` is called for one after the other, on the commit thread
of the block), an answer carries the decision that the
replica program puts into it, and `epoch` tells a client process from the one before.

**E2CApp** joins the parts into the replica program. It extends E2CCore, gives every block
its commands (`cmds`) and every replica its pace maker (`proposer`), queue, buffer and
callbacks, and counts in `ran` what `do_decide` has executed. The handler of `cmd_pending`
is split by what it comes to: `HandleAsFollower`, `HandleAndBuffer`, `HandleAndPropose`
(conjoined with `OnPropose`), `HandleAndAbort` (with `OnProposeNullParent`); all begin
with `BeginPending`. Networking is left to E2CCore's nondeterminism, which E2CBase
implements. With `AImpeach` the replicas' pace makers come apart. CommandPool is the
abstract specification: under `Pool == INSTANCE CommandPool WITH log <- FiledCmds, done
<- FiledRan` its log is what the first proposer has on file and its counters are what was
executed of that, and up to the first impeachment every step of the program is a step of
CommandPool or none (`PoolUntilImpeached`). Beyond it CommandPool is no description any
more, because two proposers fill blocks.

**VeriPool** models the pool of `task.h` with the certificates that call it. A task is the
address it is allocated at, and addresses are used again, so that a task freed too early
would be mistaken for another. A worker is in its event loop or in a turn of its handler,
with the task it has taken and the rest of its burst; `in_wake` and `out_wake` stand for the
event that salticidae's queues raise. `expect` is kept of every verification: what
`verify(config)` would have returned at that moment. The program constructs such a pool
(`src/e2c.cpp:306-323`) but `Block::verify` checks the signature on the main thread
(`src/entity.cpp:62-71`), and no protocol step makes a quorum certificate; this module is
therefore composed with no other.

**Promise** models `promise.hpp` as the build compiles it, with callbacks run by
recursion. `stack` is the call stack of the thread, with a frame for each loop over a
vector of callbacks and for each callback of the user, which may call anything again,
so that reentrant calls are behaviours of the model.

The definitions that follow "Faulty variants" in a module are not part of its
specification. Each is an action or an operator with one mistake built in, and shows
of one property that it can fail; `PROJECT.json` says which one is put in the place of
what.

## 4. The runs

| Run | Question | Bounds |
|---|---|---|
| `core_leader` | With one proposer: one chain of decisions (`OneChain`), whole parent lists, no abort, and is it a `ReplicatedLog`? | 3 replicas, 3 blocks, symmetric |
| `core_any` | With two proposers, who then equivocate: do the tables of a replica agree (`HighestFiled`, `FiledIsPendingOrDecided`), and is the first block of a height decided, once (`ExecutedOnce`), in the end (`FiledIsDecided`)? | 2 replicas, 3 blocks |
| `core_ancestors` | Does a timer commit the ancestors? (no) | 2 replicas, 2 blocks |
| `base_loss` | Deliveries, fetches and forwarding with lost messages | 3 replicas, 3 blocks, 2 losses, 1 fetch timeout |
| `base_impeach` | With every interleaving inside handlers and with rotating proposers: does a replica file only blocks of proposers its own pace maker has come to (`FiledFromPast`)? | 2 replicas, 3 blocks, 2 losses, 1 timeout, 4 impeachments, symmetric |
| `base_fetched` | Is a fetched block delivered? (no) | 2 replicas, 2 blocks, 1 loss |
| `cmd` | Is a command acknowledged and executed in the end, also if the client is killed and run again? | 3 replicas, 1 command, blocks of 1, 1 restart |
| `app` | Does the program implement CommandPool until the first impeachment (`PoolUntilImpeached`), is nothing lost, doubled (`NoneLost`) or left undone (`SubmittedIsDecided`)? What holds after it? | 2 replicas that both propose, 2 blocks of 2, 4 commands, window 2, 1 impeachment |
| `promise_calls` | Do outcomes stay, does every callback run once and none under a growing vector? | 4 promises, lists of 2, four forms of `then` and `fail` |
| `sync_delta` | Are 2δ enough, if the proposer may stop in a broadcast? Are decisions in time (`DecidedInTime`), a silent proposer impeached in time (`ImpeachedInTime`) and a busy one not (`ImpeachedForSilence`)? | 3 replicas, 2 blocks, δ = 2, delay 1, time 9, 1 crash |
| `sync_agree` | Do replicas agree after impeachments? (no) | 2 replicas, 3 blocks, δ = delay = 1, time 9 |
| `veri` | Is every task where one thread finds it (`TaskInOnePlace`), does the promise get what `verify` would have returned (`AsyncAsSync`), is a quorum a majority, is every verification answered? | 4 replicas, 2 workers, 4 addresses, bursts of 2, 2 calls |

Why the bounds are enough to meet the interesting cases. Three blocks are a chain in
which a middle block can be missing, late, or decided last, and with two proposers two
blocks meet at one height with another above or below. Two losses lose a block and
what would have made up for it, or a fetch and its answer. Three replicas are needed
for a forwarder that is neither proposer nor receiver, and for f = 1 in `nfaulty`.
A window of two with blocks of two lets commands of one block be sent in different
bursts, and four commands make two blocks, the second of which may be proposed by another
replica after the impeachment. In `cmd` one command is enough, because its properties
speak of a command at a time: two client processes send it, and it waits, is answered early,
missed or executed at each replica. Two workers and bursts of two with four tasks let a
worker end its burst with tasks left while the other one is idle; four replicas are the
fewest for which `nfaulty` is not 0. `SizeMod` and `Uint32Mod` (65536 and 256) stand for
the widths of `size_t` and `uint32_t`, and keep their order.
Four promises make a chain in which a callback returns a promise that is
taken over while an `all` over two waits for it. Nine ticks are a block at 0, another
one, and two timers of 2δ = 4 with a tick to overrun them; a crash in the first broadcast still leaves the time in
which the others have to decide.

Reductions, all in the MC modules. `NetSpec` (in `base_loss`, `base_fetched`) leaves
commit timers out and lets a handler run to its end: a commit timer writes nothing
that delivering, filing or sending reads, impeachments are bounded by 0 there, and a
step of a handler touches only the tables of its replica and appends to its own
channels, so it commutes with the steps of the others. `base_impeach` has no such
reduction. `SCallSpec` (in `sync_agree`) only restricts: what it reaches is reachable.
`MCSpec` of MCE2CApp takes fresh hashes in order, which are alike; `MCSpec` of MCVeriPool
adds signatures in the order of the ids, the replicas being alike, and at most one that is
invalid, so that verification fails for it alone. `CalmSpec` (in `sync_delta`) ends with the first
impeachment, because its properties speak of the time up to it, and only the first
proposer stops: a replica that does not propose owes nobody anything that another one
does not also send, as long as the proposer runs. Symmetry sets are fresh hashes, and
replicas that no constant and no definition tells apart; runs with liveness use none.

`CHECK_DEADLOCK FALSE` stands in every configuration because every model ends: the
hashes, commands, promises or ticks are used up, and then a replica has nothing to do.
That nothing is forgotten when it ends is what `FiledIsDecided`, `WaitsForSomething`,
`FiledAtRest`, `ConsistentAtRest`, `SubmittedIsDecided` and `VerificationAnswered` are for.

Fairness. `FairSpec` of E2CCore asks weak fairness of each armed commit timer: its
thread does nothing but wait for it and nobody disarms it. `CFairSpec` of CommandPool
asks it of each thread and connection by itself (delivery of requests, the queue's
handler, the commit thread of a block, delivery of answers): each is a thread that
blocks on its queue or a TCP connection. Nothing asks the client to be restarted.
`AFairness` of E2CApp asks less: a process that has something to do does some of it. A
replica has finitely much to do for finitely many commands, so this is enough.
`VFairness` of VeriPool asks it of every worker thread and of the handler of `out_queue`.
No fairness is asked of the impeachment timer, except by the clock of E2CSync.

## 5. The proofs

TLAPS checks, for every value of the constants that the assumptions of the modules allow.
The assumptions are few: for E2CCore `ProposersAssumption`, proposers are replicas, and
`GenesisAssumption`, `b0` has a hash; for the modules over it that the first proposer may
propose, that `Rotation` is a function of replicas, that bounds are numbers; for the modules
that count replicas that there are finitely many; for Promise that the bounds are positive and
that `Handlers` are forms that `then` and `fail` have.

Each main theorem follows one pattern: an inductive invariant, one lemma per action
that preserves it, and the property derived from the invariant.

**Any proposers.** `CoreInvariant`: `CoreInv` is an inductive invariant. It joins
`TypeOK`, `BlocksOK` and `MapOK` (a block in the map is at its own height, `b0` at 0),
`HighestFiled`, `FiledIsPendingOrDecided` and `ExecutedOnce`. The conjuncts need each
other: that a timer finds its own block (`TimerFindsItsBlock`) follows from
`FiledIsPendingOrDecided` and `MapOK`, and this is why a decision is made once and
why a block that lost its height is never decided. From it: `TypeCorrect`,
`FilingExact`, `ExecutesOnce`, `MarkIsHighest`, and the action property
`FirstBlockStays`, which no run repeats. One lemma per action carries the invariant
(`ProposeStep`, `DeliverStep`, `ReceiveStep`, `CommitStep`, `NullParentStep`), over
`FileStep` for `update`, which two of them share.

**One proposer.** `LeaderInv` adds that the proposer has filed every block there is,
without a gap, and that the parents of a block are what the proposer has on file
below it. From it: `NoAbort`, `DecisionsOnOneChain`, `ParentsChain`, and `RefinesLog`:
the initial state maps to an empty log, a proposal appends to it, a commit timer
executes an entry that was not executed, and all other steps stutter.

**Network, uses the core.** `NetworkUsesCore`: with losses, fetches, deaths and rotation of
the proposer, every step of E2CBase is a step of E2CCore or leaves it alone
(`BStepIsCoreStep`); so the contract at the declarations of E2CCore is kept by its
caller, and `NetworkExecutesOnce` follows.

**Network, deliveries.** `NetInvariant`: `NetInv` is inductive, whatever is
lost, fetched, proposed or impeached. Its heart are two counts. `OneToken`: for each block that
waits for its delivery there is exactly one call on the stack, one fetch, or one `promise::all`
that will see it through, and for any other block none; so nothing is delivered twice and
nothing is forgotten. `CountsParents`: the counter of an `all` is the number of parents that are
not delivered plus the number of callbacks of delivered parents that are still on the stack, and
every undelivered parent holds one callback. Around these, `Ready` says what a call on the stack
may rely on, by what the calls above it will have done (`Promised`), and `MessageOK` that a
block is sent by, and asked of, those who have delivered it. From it: `NetworkTypes`,
`DeliversInOrder` (the assertion that a delivered block has its parents), `NoWakeUpLost`,
`FetchesServable`.

**Network, proposals.** `FilesPastProposers`, for any rotation: `PastInv` adds that what is about
to be filed, too, comes from a proposer on the path of the replica's pace maker, and that what is
past its verification holds a signature, so that it came in a proposal and was checked.

What remains is about the time in which one replica proposes: no other one may
(`SingleProposer`), or no pace maker has been moved yet (`Early` is either). In it every step is
one of E2CCore with the first proposer as the only one, which is an instance of the core's
proofs (`First == INSTANCE E2CCoreProofs WITH Proposers <- {FirstProposer}`; `FirstStep`), so
`LeaderInv` holds for it (`FirstInv`) whoever may propose later. `ProposalInvariant`: a replica
sends on only what it has filed, and a proposal that was parsed is filed or about to be, until
the pace makers move. From it: `NetworkOneChain`, `GapsClosedAtRest`, and `ForwardsOnce`, which
alone keeps `SingleProposer` as its hypothesis, because what it says is about all times.

If moreover nothing is lost, `CalmInv`: every connection carries a chain in its order, so the
parents of what comes are there or are ahead of it on the same connection, and no handler is
about more than one block; from it `FetchesNothing`. Its hypothesis needs both counters to be
0: after a rotation a replica may drop a block as wrongly proposed, get it by a later proposal,
and forward a child of it only, which makes others fetch (TLC shows this with three replicas).

`FilesAllAtRest` is about what becomes of one lost proposal. `FiledInv` says that a
connection brings its receiver all that its sender has filed, but for the lost block (`Brings`).
While the receiver misses that block, it files nothing above it and so sends on nothing that
others could miss: they stay as calm as without a loss, ask nothing, and send the
block to it (`Missed`, `Onward`). What was fetched and not proposed stops its replica when it is
verified (`UnsignedStops`), and what is asked for or answered is awaited (`Expected`). At rest,
then, no delivery waits, since the lowest block that waits would have its parents; what is
stored is filed; and the third replica has brought the lost block. With two replicas
nobody makes up for a loss, hence the hypothesis `ThirdReplica`.

**Time.** `TimedUsesCore`, `TimedExecutesOnce`: so it is with clocks and crashes. `TimeInv`
says what the stamps say of each other until the first impeachment, on top of `NetInv` and
`FirstInv`. Nobody files before the proposer (`AfterProposer`); what a running replica has
filed, every other one files within `Delay`, or the time for it is not over (`ReachesInTime`),
because it was forwarded with that filing and connections keep order; a decision comes 2δ
after the filing and resets the impeachment timer (`DecidedAfter`). From it: `CommitsSafely`, provided `Delay < 2 * Delta`:
with a delay of exactly 2δ a commit timer and the last message may be due at the same instant;
the code's δ is meant to be at least the delay, which gives more. `DecidesInTime`,
`ImpeachesInTime` and `ImpeachesForSilence` need no relation of the two.

**Commands.** `PoolInvariant`: `PoolInv` is inductive. Until a client is run
again (`epoch = 0`) every command is, at each replica, in one place of request, queue, callback,
answer, read (`OnePlace`), what is in or past an answer is executed, and the client's count of a
command is covered by the replicas whose answer it has read (`Served`); and a command that has left
the proposer's queue is at one place of the buffer or of one block (`TakenOnce`). From it:
`PoolTypes`, `AcksAreExecuted`, `ProposesOnce`, and for all epochs `ProposerCanAnswer`.

**Replica program.** `AppUsesCore`, `AppExecutesOnce`: the core's promises hold under the command
queue and whatever the pace makers name. `AppServesPool`: the program implements
CommandPool until the first impeachment, for any number of replicas, proposers and commands, any
block size and any window. The proof needs `AppInv` (a hash that no block has
yet has no commands and none was executed of it; the pace makers agree until somebody
is impeached) and, until that moment, `LeaderInv` of E2CCore with the first proposer as the only
one (`One == INSTANCE E2CCoreProofs WITH Proposers <- {FirstProposer}`; `OneInv`): a proposal
appends to the mapped log (`ProposeFiles`), `do_decide` of a block
counts up the entry at its height and no other (`DecideExecutes`), a command that does not
fill a block changes the buffer only (`QueueWithoutBlock`), and everything else leaves
the log alone (`FileUntouched`). What holds after impeachments, too, takes CommandPool's
invariant apart: `ServedInv` is its part about answers, for the commands executed here, which
makes `AppAcksExecuted`; `FillInv` is `TakenOnce` for the blocks of each replica by itself, which
makes `AppProposesOnce`; `PlaceInv` is all of it until the first impeachment, which makes
`AppLosesNone`.

**Promises.** `PromiseInvariant`: `PromiseInv` is inductive, for any number of promises, any
lists, and any nesting of callbacks. The stack is looked at from the bottom (`FrameAt`), so that a
call at the top does not move the frames under it. A promise is iterated over only when it is
settled, and by one loop (`LoopsOnce`); `Passed` says which of its callbacks that loop has called.
A `then` has at most one callback on each side, and when it has run or is being called the
loop is past it (`ThenOnce`). The counter of an `all` is at least the number of callbacks still
due to it, on file or on the stack (`CountsDown`), so it never goes below zero. From it:
`PromiseTypes`, `OutcomeStays`, `ThenCallsOnce` and `VectorsAreStable`.

That no wake-up is lost (`RestsConsistent`) needs to know what is still to happen while calls are
nested, which `RestInv` says (`RestInvariant`). A settled promise that has callbacks on file
has its loop on the stack (`LoopRuns`). Each promise of a link has one settler: the link, or,
for a `then` whose callback returned a promise, the link that follows that promise, and never the
callers (`Settlers`). Callbacks are called with the outcome of a promise of the list, and are on
file as long as one is pending (`CallsFrom`). The outcome of a link is there, or a callback
that brings it about is on file, being called, or its code runs (`PassesOn`, `HandsOn`); the
counter of an `all` is exact until something is rejected (`Collects`). At rest the stack is
empty: nothing is on file for a settled promise, so the outcome is there.

**Verification.** `VeriInv` is inductive: `VTypeOK`, `TaskInOnePlace`, and `ResultsAddUp`,
that the results so far and the tasks still out come to what was expected. From it:
`TasksAreFound`, `AsyncVerifies`. `VerifiesByMajority` rests on the arithmetic of
`nfaulty`, whose subtraction does not wrap round from two replicas up.

Only model-checked is what needs fairness (`FiledIsDecided`, `AckedUnlessMissed`,
`AckedGetsExecuted`, `SubmittedIsDecided`, `VerificationAnswered`), which is out of the
prover's reach, and what the runs of section 6 refute. Every other invariant and action property
of a run is a theorem.

## 6. Where code and comments disagree

- `core_ancestors`: the loop of `commit_timer_cb` never moves to a lower height, so a
  timer decides its block and not the ancestors (`consensus.cpp:210-212`).
- `base_fetched`: a fetched block has no signature object and verifying it dereferences
  a null pointer (`entity.cpp:67`). For this reason the properties of E2CBase about
  fetches are about replicas that are up; what a fetch would do afterwards is reached
  through blocks that a proposal brought in the meantime.
- `sync_agree`: after impeachments two replicas propose at one height and decide
  differently without any failure (`consensus.cpp:206`).

Smaller things met on the way, modelled as they are:

- The impeachment timer is first armed by the first decision, so a proposer from whom
  nothing ever comes is not impeached (`programs/application.cpp:104-106`, against
  `liveness.h:43`).
- A replica that has a command waiting already answers a repeated one at once with
  decision 0 and the client counts this (`e2c.cpp:387`, `client.cpp:87-101`). After a
  restart of the client an acknowledgement therefore no longer means executed, only that it
  will be: `AckedIsExecuted` is checked without restarts, `AckedGetsExecuted` with one.
- A replica that decides a command before it has taken the client's request from its
  queue registers a callback nobody calls. If too many do, the client never hears of
  the command (`AckedUnlessMissed`).
- After impeachments a command may be left out by every replica, because each asks its own
  pace maker when it takes the command from its queue, or be executed twice, because two
  replicas proposed it one after the other (`e2c.cpp:389`). What remains is
  `ProposedOnceByEach`.
- A block that lost its height is forwarded at every receipt, and not at the first alone
  (`consensus.cpp:195`): `ForwardedOnce` is checked with one proposer.
- For a single replica `nfaulty` wraps round (`e2c.cpp:370`): `QuorumIsMajority` is stated
  from two replicas up.
- The pool of verification threads gets no work (`entity.cpp:62-71`).
- A block is proposed only when the buffer is full: a window smaller than `blk_size`
  stops client and proposer for good. The runs keep the window at least as large.

## 7. Not modelled

Bytes: encoding, hashing, keys, secp256k1 (a signature is valid or not). Unsynchronised access to shared containers (the
maps of E2CCore between main and commit threads, the impeachment timer), which is below
the grain of an action. Restart of a replica. Replicas that lie, beyond honest
equivocation by two proposers. `prune` and `async_wait_proposal`, which nobody calls.
Statistics, options, keys, TLS.

## 8. Plan

Done, in this order: E2CCore with its proofs and ReplicatedLog; E2CBase over it;
CommandPool; Promise; E2CSync; VeriPool with its proofs; E2CApp, its refinement of
CommandPool and the proof of it; the inductive invariants of E2CBase, E2CSync, CommandPool,
E2CApp and Promise with their proofs; `FiledAtRest`; and the theorems about the time up to the
first impeachment for any number of proposers.

Left: a proposer that is started again from nothing, and fetch timeouts in time, in E2CSync; the
network under the program: E2CApp over E2CBase instead of E2CCore.
