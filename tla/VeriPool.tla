------------------------------ MODULE VeriPool ------------------------------
(***************************************************************************)
(* Verification of signatures on threads of their own (class VeriPool) and *)
(* the quorum certificate that uses it (QuorumCertSecp256k1).              *)
(*                                                                         *)
(* The main thread collects signatures in a quorum certificate and asks    *)
(* for its verification: one task per signer goes through in_queue to the  *)
(* workers and comes back, with its result, through out_queue, whose       *)
(* handler on the main thread resolves the promise of the task. pms keeps  *)
(* a task alive in between, under its address.                             *)
(*                                                                         *)
(* Abstractions.                                                           *)
(*  - There is one certificate. Of a signature it matters whether it is    *)
(*    valid: made over obj_hash with the key of its signer.                *)
(*  - A queue hands out its elements in some order and wakes a handler     *)
(*    when there are new ones; a handler that returns true is called again *)
(*    (salticidae). One of the workers takes a wake-up.                    *)
(*  - promise::all of the tasks, and the function after it, are what they  *)
(*    come to: the conjunction of the results, once all have arrived.      *)
(***************************************************************************)
EXTENDS Integers, FiniteSets, Functions

CONSTANTS
    ReplicaID,   \* the replicas of ReplicaConfig
    Worker,      \* the threads of the pool
    Address,     \* where tasks are allocated; bounds the tasks alive at a time
    BurstSize,   \* burst_size
    MaxCall,     \* bound: verifications asked for
    SizeMod,     \* how many values size_t has
    Uint32Mod    \* how many values uint32_t has

ASSUME VeriAssumption ==
    /\ IsFiniteSet(ReplicaID) /\ ReplicaID # {}
    /\ BurstSize \in Nat \ {0} /\ MaxCall \in Nat
    /\ {SizeMod, Uint32Mod} \subseteq Nat \ {0}
    /\ Cardinality(ReplicaID) < Uint32Mod /\ Uint32Mod < SizeMod

VARIABLES
    sigs,        \* the certificate: signer -> whether its signature is valid
    rids,        \* its set of signers
    msg,         \* address -> whether the signature in the task is valid
    result,      \* address -> the field result; FALSE until it is written, as msg is
                 \* where there is no task
    pms,         \* address -> the call whose promise the task resolves
    in_queue,
    in_wake,     \* a worker is to be woken up for in_queue
    worker,      \* the worker: in its event loop, in a turn of its handler, gone
    out_queue,
    out_wake,    \* the main thread is to be woken up for out_queue
    calls,       \* the verifications: tasks not back yet, results so far
    destroyed    \* the main thread is in the destructor of the pool

veriVars == <<sigs, rids, msg, result, pms, in_queue, in_wake, worker, out_queue,
              out_wake, calls, destroyed>>

Calls == 1..MaxCall

NotAsked == [asked |-> FALSE, expect |-> FALSE, open |-> {}, ok |-> FALSE]

\* A worker's event loop; a turn of its handler, with cnt and the task it has taken.
Loop == [at |-> "loop", cnt |-> 0, task |-> {}]
Turn(cnt, task) == [at |-> "turn", cnt |-> cnt, task |-> task]
Gone == [at |-> "gone", cnt |-> 0, task |-> {}]

-----------------------------------------------------------------------------
(* Faulty variants.                                                         *)

\* start() takes the peers for all the replicas that may be faulty.
NFaultyPeers(n) == n % SizeMod

\* The task reads its signature when it is verified, from the certificate.
WorkerVerifyLate(w) ==
    /\ worker[w].at = "turn" /\ worker[w].task # {}
    /\ LET a == CHOOSE a \in worker[w].task : TRUE IN
       /\ result' = [result EXCEPT ![a] = \A r \in rids : sigs[r]]
       /\ out_queue' = out_queue \cup {a}
    /\ out_wake' = TRUE
    /\ IF worker[w].cnt = 1
       THEN worker' = [worker EXCEPT ![w] = Loop] /\ in_wake' = TRUE
       ELSE worker' = [worker EXCEPT ![w] = Turn(@.cnt - 1, {})] /\ UNCHANGED in_wake
    /\ UNCHANGED <<sigs, rids, msg, pms, in_queue, calls, destroyed>>

\* A worker that has done a burst returns false.
WorkerVerifyRests(w) ==
    /\ worker[w].at = "turn" /\ worker[w].task # {}
    /\ LET a == CHOOSE a \in worker[w].task : TRUE IN
       /\ result' = [result EXCEPT ![a] = msg[a]]
       /\ out_queue' = out_queue \cup {a}
    /\ out_wake' = TRUE
    /\ IF worker[w].cnt = 1
       THEN worker' = [worker EXCEPT ![w] = Loop]
       ELSE worker' = [worker EXCEPT ![w] = Turn(@.cnt - 1, {})]
    /\ UNCHANGED <<sigs, rids, msg, pms, in_queue, in_wake, calls, destroyed>>

\* A worker looks at the queue and takes from it later.
WorkerTakePeek(w, a) ==
    /\ worker[w].at = "turn" /\ worker[w].task = {}
    /\ a \in in_queue
    /\ worker' = [worker EXCEPT ![w].task = {a}]
    /\ UNCHANGED <<sigs, rids, msg, result, pms, in_queue, in_wake, out_queue, out_wake,
                   calls, destroyed>>

-----------------------------------------------------------------------------

\* start() counts peers without this replica in a size_t and stores a uint32_t.
NFaultyOfPeers(n) == (((n - 1) % SizeMod) \div 2) % Uint32Mod

\* on_init
NMajority == (Cardinality(ReplicaID) - NFaultyOfPeers(Cardinality(ReplicaID) - 1)) % SizeMod

VInit ==
    /\ sigs = [rid \in {} |-> FALSE]
    /\ rids = {}
    /\ msg = [a \in Address |-> FALSE]
    /\ result = [a \in Address |-> FALSE]
    /\ pms = [a \in {} |-> 0]
    /\ in_queue = {} /\ in_wake = FALSE
    /\ worker = [w \in Worker |-> Loop]
    /\ out_queue = {} /\ out_wake = FALSE
    /\ calls = [i \in Calls |-> NotAsked]
    /\ destroyed = FALSE

\* add_part, for the hash of the certificate: unordered_map::insert keeps what there is.
\* (For another hash it throws before it changes anything.)
AddPart(rid, valid) ==
    /\ ~ destroyed
    /\ rid \notin rids
    /\ sigs' = [r \in DOMAIN sigs \cup {rid} |-> IF r = rid THEN valid ELSE sigs[r]]
    /\ rids' = rids \cup {rid}
    /\ UNCHANGED <<msg, result, pms, in_queue, in_wake, worker, out_queue, out_wake, calls,
                   destroyed>>

\* verify(config), on the thread that calls it.
VerifySync ==
    /\ Cardinality(DOMAIN sigs) >= NMajority
    /\ \A rid \in rids : sigs[rid]

\* VeriPool::verify for the tasks of call i: the signature of rid is copied into the
\* task at[rid].
Enqueue(i, expect, signature, at) ==
    LET new == Range(at) IN
    /\ msg' = [a \in Address |->
                  IF a \in new THEN \E rid \in DOMAIN at : at[rid] = a /\ signature[rid]
                               ELSE msg[a]]
    /\ pms' = [a \in DOMAIN pms \cup new |-> IF a \in new THEN i ELSE pms[a]]
    /\ in_queue' = in_queue \cup new
    /\ in_wake' = TRUE
    /\ calls' = [calls EXCEPT ![i] =
                    [asked |-> TRUE, expect |-> expect, open |-> new, ok |-> TRUE]]
    /\ UNCHANGED <<sigs, rids, result, worker, out_queue, out_wake, destroyed>>

\* Where new tasks go: addresses that are in use by no other.
Placements(S) == Injection(S, Address \ DOMAIN pms)

NextCall(i) == ~ calls[i].asked /\ \A j \in 1..(i - 1) : calls[j].asked

\* QuorumCert::verify(config, vpool)
VerifyQuorum(i) ==
    /\ ~ destroyed
    /\ NextCall(i)
    /\ IF Cardinality(DOMAIN sigs) < NMajority
       THEN /\ calls' = [calls EXCEPT ![i] =
                            [asked |-> TRUE, expect |-> VerifySync, open |-> {}, ok |-> FALSE]]
            /\ UNCHANGED <<sigs, rids, msg, result, pms, in_queue, in_wake, worker, out_queue,
                           out_wake, destroyed>>
       ELSE /\ Placements(rids) # {}
            /\ Enqueue(i, VerifySync, sigs, CHOOSE at \in Placements(rids) : TRUE)

\* PartCert::verify(pubkey, vpool)
VerifyPart(i, rid, valid) ==
    /\ ~ destroyed
    /\ NextCall(i)
    /\ Placements({rid}) # {}
    /\ Enqueue(i, valid, [r \in {rid} |-> valid], CHOOSE at \in Placements({rid}) : TRUE)

\* A worker's event loop calls the handler of in_queue.
WorkerWake(w) ==
    /\ worker[w].at = "loop"
    /\ in_wake
    /\ in_wake' = FALSE
    /\ worker' = [worker EXCEPT ![w] = Turn(BurstSize, {})]
    /\ UNCHANGED <<sigs, rids, msg, result, pms, in_queue, out_queue, out_wake, calls, destroyed>>

\* q.try_dequeue(task)
WorkerTake(w, a) ==
    /\ worker[w].at = "turn" /\ worker[w].task = {}
    /\ a \in in_queue
    /\ in_queue' = in_queue \ {a}
    /\ worker' = [worker EXCEPT ![w].task = {a}]
    /\ UNCHANGED <<sigs, rids, msg, result, pms, in_wake, out_queue, out_wake, calls, destroyed>>

\* There is nothing to dequeue: return false.
WorkerRest(w) ==
    /\ worker[w].at = "turn" /\ worker[w].task = {}
    /\ in_queue = {}
    /\ worker' = [worker EXCEPT ![w] = Loop]
    /\ UNCHANGED <<sigs, rids, msg, result, pms, in_queue, in_wake, out_queue, out_wake, calls,
                   destroyed>>

\* task->verify(), the answer, and return true at the end of a burst.
WorkerVerify(w) ==
    /\ worker[w].at = "turn" /\ worker[w].task # {}
    /\ LET a == CHOOSE a \in worker[w].task : TRUE IN
       /\ result' = [result EXCEPT ![a] = msg[a]]
       /\ out_queue' = out_queue \cup {a}
    /\ out_wake' = TRUE
    /\ IF worker[w].cnt = 1
       THEN worker' = [worker EXCEPT ![w] = Loop] /\ in_wake' = TRUE
       ELSE worker' = [worker EXCEPT ![w] = Turn(@.cnt - 1, {})] /\ UNCHANGED in_wake
    /\ UNCHANGED <<sigs, rids, msg, pms, in_queue, calls, destroyed>>

\* A turn of the handler of out_queue: at most a burst of results, each resolved and its
\* task freed. What the workers put in meanwhile is left to the turn it asks for.
OutHandler(S) ==
    /\ ~ destroyed
    /\ out_wake
    /\ S \subseteq out_queue
    /\ Cardinality(S) = BurstSize \/ (S = out_queue /\ Cardinality(S) < BurstSize)
    /\ out_wake' = (Cardinality(S) = BurstSize)
    /\ out_queue' = out_queue \ S
    /\ calls' = [i \in Calls |->
                    LET back == {a \in S : pms[a] = i} IN
                    [calls[i] EXCEPT !.open = @ \ back,
                                     !.ok = @ /\ \A a \in back : result[a]]]
    /\ pms' = Restrict(pms, DOMAIN pms \ S)
    /\ msg' = [a \in Address |-> a \notin S /\ msg[a]]
    /\ result' = [a \in Address |-> a \notin S /\ result[a]]
    /\ UNCHANGED <<sigs, rids, in_queue, in_wake, worker, destroyed>>

\* ~VeriPool asks the workers to stop and waits for them.
Destroy ==
    /\ ~ destroyed
    /\ destroyed' = TRUE
    /\ UNCHANGED <<sigs, rids, msg, result, pms, in_queue, in_wake, worker, out_queue, out_wake,
                   calls>>

\* The event loop of a worker gets the call that stops it.
WorkerStop(w) ==
    /\ destroyed
    /\ worker[w].at = "loop"
    /\ worker' = [worker EXCEPT ![w] = Gone]
    /\ UNCHANGED <<sigs, rids, msg, result, pms, in_queue, in_wake, out_queue, out_wake, calls,
                   destroyed>>

WorkerStep(w) ==
    \/ WorkerWake(w)
    \/ \E a \in Address : WorkerTake(w, a)
    \/ WorkerRest(w)
    \/ WorkerVerify(w)

VNext ==
    \/ \E rid \in ReplicaID, valid \in BOOLEAN : AddPart(rid, valid)
    \/ \E i \in Calls : VerifyQuorum(i)
    \/ \E i \in Calls, rid \in ReplicaID, valid \in BOOLEAN : VerifyPart(i, rid, valid)
    \/ \E w \in Worker : WorkerStep(w)
    \/ \E S \in SUBSET Address : OutHandler(S)
    \/ Destroy
    \/ \E w \in Worker : WorkerStop(w)

VSpec == VInit /\ [][VNext]_veriVars

\* The workers and the main thread run their event loops.
VFairness ==
    /\ \A w \in Worker : WF_veriVars(WorkerStep(w)) /\ WF_veriVars(WorkerStop(w))
    /\ WF_veriVars(\E S \in SUBSET Address : OutHandler(S))

VFairSpec == VSpec /\ VFairness

-----------------------------------------------------------------------------
(* Properties.                                                              *)

CallType == [asked : BOOLEAN, expect : BOOLEAN, open : SUBSET Address, ok : BOOLEAN]

WorkerType == [at : {"loop", "turn", "gone"}, cnt : 0..BurstSize, task : SUBSET Address]

\* A worker has at most one task, and in a turn only, with some of its burst left.
WorkersOK ==
    /\ worker \in [Worker -> WorkerType]
    /\ \A w \in Worker :
          \/ worker[w].at = "turn" /\ worker[w].cnt > 0
          \/ worker[w].at # "turn" /\ worker[w].task = {}
    /\ \A w \in Worker : \A a, b \in worker[w].task : a = b

VTypeOK ==
    /\ rids \subseteq ReplicaID
    /\ sigs \in [rids -> BOOLEAN]
    /\ msg \in [Address -> BOOLEAN] /\ result \in [Address -> BOOLEAN]
    /\ DOMAIN pms \subseteq Address /\ pms \in [DOMAIN pms -> Calls]
    /\ in_queue \subseteq Address /\ out_queue \subseteq Address
    /\ {in_wake, out_wake, destroyed} \subseteq BOOLEAN
    /\ WorkersOK
    /\ calls \in [Calls -> CallType]

Busy(w) == worker[w].task

OnePlace ==
    /\ DOMAIN pms = in_queue \cup out_queue \cup UNION {Busy(w) : w \in Worker}
    /\ in_queue \cap out_queue = {}
    /\ \A w \in Worker : Busy(w) \cap (in_queue \cup out_queue) = {}
    /\ \A w, x \in Worker : w # x => Busy(w) \cap Busy(x) = {}

\* A task is where exactly one thread will find it next: in in_queue, in the hands of a
\* worker or in out_queue; and as long as it is somewhere its entry in pms is there, for
\* an open call. So the handler of out_queue finds every task it gets, no task is
\* resolved twice, and a task that is freed is in nobody's hands.
TaskInOnePlace ==
    /\ OnePlace
    /\ \A i \in Calls : calls[i].open = {a \in DOMAIN pms : pms[a] = i}

\* The promise of a verification gets the value that verify(config) would have returned
\* when it was asked for, whatever is added to the certificate meanwhile.
AsyncAsSync ==
    \A i \in Calls : calls[i].asked /\ calls[i].open = {} => calls[i].ok = calls[i].expect

AddsUp(call) == call.expect <=> (call.ok /\ \A a \in call.open : msg[a])

\* What AsyncAsSync rests on: what is still to come decides between the results so far
\* and the value expected.
ResultsAddUp ==
    /\ \A a \in out_queue : result[a] = msg[a]
    /\ \A i \in Calls : IF calls[i].asked THEN AddsUp(calls[i]) ELSE calls[i].open = {}

VeriInv == VTypeOK /\ TaskInOnePlace /\ ResultsAddUp

\* The signers whose signature is valid.
ValidSigners == {rid \in rids : sigs[rid]}

\* A certificate that verifies is signed by more than half of the replicas, so that two
\* certificates share a signer.
QuorumIsMajority ==
    VerifySync /\ Cardinality(ReplicaID) > 1 => 2 * Cardinality(ValidSigners) > Cardinality(ReplicaID)

\* Every verification is answered, unless the pool is destroyed first.
VerificationAnswered ==
    \A i \in Calls : calls[i].asked ~> (calls[i].open = {} \/ destroyed)

=============================================================================
