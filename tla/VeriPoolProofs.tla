--------------------------- MODULE VeriPoolProofs ---------------------------
(***************************************************************************)
(* For any number of replicas, workers and tasks: the promise of an        *)
(* asynchronous verification gets the value of the synchronous one, and a  *)
(* certificate that verifies is signed by a majority.                      *)
(***************************************************************************)
EXTENDS VeriPool, TLAPS, FiniteSetTheorems

LEMMA InitVeriInv == VInit => VeriInv
<1> SUFFICES ASSUME VInit PROVE VeriInv
    OBVIOUS
<1>1. VTypeOK
    <2>1. WorkersOK
        BY VeriAssumption DEF VInit, WorkersOK, WorkerType, Loop
    <2>2. calls \in [Calls -> CallType]
        BY DEF VInit, NotAsked, CallType
    <2>3. pms \in [DOMAIN pms -> Calls] /\ DOMAIN pms = {}
        BY DEF VInit
    <2> QED BY <2>1, <2>2, <2>3 DEF VInit, VTypeOK
<1>2. TaskInOnePlace
    BY DEF VInit, TaskInOnePlace, OnePlace, Busy, Loop, NotAsked
<1>3. ResultsAddUp
    BY DEF VInit, ResultsAddUp, NotAsked
<1> QED BY <1>1, <1>2, <1>3 DEF VeriInv

LEMMA AddPartStep ==
    ASSUME VeriInv, NEW rid \in ReplicaID, NEW valid \in BOOLEAN, AddPart(rid, valid)
    PROVE  VeriInv'
<1>1. VTypeOK'
    BY DEF VeriInv, AddPart, VTypeOK, WorkersOK
<1>2. TaskInOnePlace'
    BY DEF VeriInv, AddPart, TaskInOnePlace, OnePlace, Busy
<1>3. ResultsAddUp'
    BY DEF VeriInv, AddPart, ResultsAddUp, AddsUp
<1> QED BY <1>1, <1>2, <1>3 DEF VeriInv

\* Tasks for call i, at addresses that are free.
LEMMA EnqueueStep ==
    ASSUME VeriInv, NEW i \in Calls, NEW expect \in BOOLEAN, NEW S,
           NEW signature \in [S -> BOOLEAN], NEW at \in Placements(S),
           expect <=> (\A rid \in S : signature[rid]),
           ~ calls[i].asked, Enqueue(i, expect, signature, at)
    PROVE  VeriInv'
<1> DEFINE new == Range(at)
<1> USE DEF VeriInv
<1>1. /\ at \in [S -> Address \ DOMAIN pms]
      /\ \A x, y \in S : at[x] = at[y] => x = y
    BY DEF Placements, Injection, IsInjective
<1>2. new \subseteq Address /\ new \cap DOMAIN pms = {}
    BY <1>1 DEF Range
<1>3. VTypeOK'
    <2>1. pms' \in [DOMAIN pms' -> Calls] /\ DOMAIN pms' \subseteq Address
        BY <1>2 DEF Enqueue, VTypeOK
    <2>2. msg' \in [Address -> BOOLEAN]
        BY <1>1 DEF Enqueue, VTypeOK
    <2>3. calls' \in [Calls -> CallType]
        <3>1. [asked |-> TRUE, expect |-> expect, open |-> new, ok |-> TRUE] \in CallType
            BY <1>2 DEF CallType
        <3> QED BY <3>1 DEF Enqueue, VTypeOK
    <2>4. WorkersOK'
        BY DEF Enqueue, VTypeOK, WorkersOK
    <2> QED BY <2>1, <2>2, <2>3, <2>4, <1>2 DEF Enqueue, VTypeOK
<1>4. TaskInOnePlace'
    <2>1. \A j \in Calls : calls'[j].open = {a \in DOMAIN pms' : pms'[a] = j}
        <3> SUFFICES ASSUME NEW j \in Calls
                     PROVE  calls'[j].open = {a \in DOMAIN pms' : pms'[a] = j}
            OBVIOUS
        <3>1. calls[j].open = {a \in DOMAIN pms : pms[a] = j}
            BY DEF TaskInOnePlace
        <3>2. CASE j = i
            <4>1. calls[i].open = {}
                BY DEF ResultsAddUp
            <4> QED BY <3>1, <3>2, <4>1, <1>2 DEF Enqueue, VTypeOK
        <3>3. CASE j # i
            BY <3>1, <3>3, <1>2 DEF Enqueue, VTypeOK
        <3> QED BY <3>2, <3>3
    <2>2. \A w \in Worker : Busy(w) \subseteq DOMAIN pms /\ Busy(w)' = Busy(w)
        BY DEF TaskInOnePlace, OnePlace, Enqueue, Busy
    <2>3. OnePlace'
        BY <2>2, <1>2 DEF TaskInOnePlace, OnePlace, Enqueue
    <2> QED BY <2>1, <2>3 DEF TaskInOnePlace
<1>5. ResultsAddUp'
    <2>1. \A a \in out_queue : a \notin new
        BY <1>2 DEF TaskInOnePlace, OnePlace
    <2>2. \A rid \in S : at[rid] \in new /\ msg'[at[rid]] = signature[rid]
        BY <1>1, <1>2 DEF Range, Enqueue
    <2>3. \A a \in new : \E rid \in S : a = at[rid]
        BY <1>1 DEF Range
    <2>4. expect <=> (\A a \in new : msg'[a])
        BY <2>2, <2>3
    <2>5. \A j \in Calls : j # i => calls'[j] = calls[j] /\ \A a \in calls[j].open : a \notin new
        BY <1>2 DEF Enqueue, TaskInOnePlace, VTypeOK
    <2>6. \A a \in Address \ new : msg'[a] = msg[a]
        BY DEF Enqueue
    <2>7. calls'[i] = [asked |-> TRUE, expect |-> expect, open |-> new, ok |-> TRUE]
        BY DEF Enqueue, VTypeOK
    <2>8. \A a \in out_queue' : result'[a] = msg'[a]
        BY <2>1, <2>6 DEF Enqueue, ResultsAddUp, VTypeOK
    <2>9. ASSUME NEW j \in Calls
          PROVE  IF calls'[j].asked THEN AddsUp(calls[j])' ELSE calls'[j].open = {}
        <3>1. CASE j = i
            <4>1. calls'[j].asked /\ calls'[j].expect = expect /\ calls'[j].ok = TRUE
                  /\ calls'[j].open = new
                BY <3>1, <2>7
            <4> QED BY <4>1, <2>4 DEF AddsUp
        <3>2. CASE j # i
            <4>1. calls'[j] = calls[j] /\ \A a \in calls[j].open : msg'[a] = msg[a]
                BY <2>5, <2>6, <3>2 DEF VTypeOK, CallType
            <4> QED BY <4>1 DEF ResultsAddUp, AddsUp
        <3> QED BY <3>1, <3>2
    <2> QED BY <2>8, <2>9 DEF ResultsAddUp, AddsUp
<1> QED BY <1>3, <1>4, <1>5

LEMMA NMajorityType == NMajority \in Nat /\ Cardinality(ReplicaID) \in Nat
<1>1. Cardinality(ReplicaID) \in Nat
    BY VeriAssumption, FS_CardinalityType
<1>2. \A n \in Int : NFaultyOfPeers(n) \in Nat
    BY VeriAssumption DEF NFaultyOfPeers
<1>3. NFaultyOfPeers(Cardinality(ReplicaID) - 1) \in Nat
    BY <1>1, <1>2
<1> HIDE DEF NFaultyOfPeers
<1> QED BY <1>1, <1>3, VeriAssumption DEF NMajority

LEMMA SignersFinite == VTypeOK => IsFiniteSet(rids) /\ DOMAIN sigs = rids
BY VeriAssumption, FS_Subset DEF VTypeOK

LEMMA VerifyStep ==
    ASSUME VeriInv, NEW i \in Calls,
           VerifyQuorum(i) \/ \E rid \in ReplicaID, valid \in BOOLEAN : VerifyPart(i, rid, valid)
    PROVE  VeriInv'
<1>1. CASE VerifyQuorum(i) /\ Cardinality(DOMAIN sigs) < NMajority
    <2>1. ~ VerifySync
        BY <1>1, NMajorityType, SignersFinite, FS_CardinalityType DEF VerifySync, VeriInv, VTypeOK
    <2>2. calls[i].open = {} /\ ~ calls[i].asked
        BY <1>1 DEF VeriInv, ResultsAddUp, VerifyQuorum, NextCall
    <2> DEFINE call == [asked |-> TRUE, expect |-> FALSE, open |-> {}, ok |-> FALSE]
    <2>6. /\ calls' = [calls EXCEPT ![i] = call]
          /\ UNCHANGED <<sigs, rids, msg, result, pms, in_queue, in_wake, worker, out_queue,
                         out_wake, destroyed>>
        BY <1>1, <2>1 DEF VerifyQuorum
    <2>3. VTypeOK'
        BY <2>6 DEF VeriInv, VTypeOK, WorkersOK, CallType
    <2>4. TaskInOnePlace'
        BY <2>6, <2>2 DEF VeriInv, VTypeOK, TaskInOnePlace, OnePlace, Busy
    <2>5. ResultsAddUp'
        BY <2>6, <2>2 DEF VeriInv, VTypeOK, ResultsAddUp, AddsUp
    <2> QED BY <2>3, <2>4, <2>5 DEF VeriInv
<1>2. CASE VerifyQuorum(i) /\ ~ (Cardinality(DOMAIN sigs) < NMajority)
    <2> DEFINE at == CHOOSE at \in Placements(rids) : TRUE
    <2>1. at \in Placements(rids) /\ Enqueue(i, VerifySync, sigs, at) /\ ~ calls[i].asked
        BY <1>2 DEF VerifyQuorum, NextCall
    <2>2. VerifySync \in BOOLEAN /\ (VerifySync <=> \A rid \in rids : sigs[rid])
        BY <1>2, NMajorityType, SignersFinite, FS_CardinalityType DEF VerifySync, VeriInv, VTypeOK
    <2>3. sigs \in [rids -> BOOLEAN]
        BY DEF VeriInv, VTypeOK
    <2> HIDE DEF at
    <2> QED BY <2>1, <2>2, <2>3, EnqueueStep
<1>3. ASSUME NEW rid \in ReplicaID, NEW valid \in BOOLEAN, VerifyPart(i, rid, valid)
      PROVE  VeriInv'
    <2> DEFINE at == CHOOSE at \in Placements({rid}) : TRUE
               sig == [r \in {rid} |-> valid]
    <2>1. at \in Placements({rid}) /\ Enqueue(i, valid, sig, at) /\ ~ calls[i].asked
        BY <1>3 DEF VerifyPart, NextCall
    <2>2. sig \in [{rid} -> BOOLEAN] /\ (valid <=> \A r \in {rid} : sig[r])
        OBVIOUS
    <2> HIDE DEF at, sig
    <2> QED BY <2>1, <2>2, EnqueueStep
<1> QED BY <1>1, <1>2, <1>3

\* Steps of a worker move a task on, or none.
LEMMA WorkerStepOK ==
    ASSUME VeriInv, NEW w \in Worker, WorkerStep(w) \/ WorkerStop(w)
    PROVE  VeriInv'
<1> USE DEF VeriInv
<1>1. /\ worker \in [Worker -> WorkerType]
      /\ UNCHANGED <<sigs, rids, msg, pms, calls, destroyed>>
    BY DEF VTypeOK, WorkersOK, WorkerStep, WorkerWake, WorkerTake, WorkerRest, WorkerVerify,
           WorkerStop
<1>2. ASSUME UNCHANGED <<in_queue, out_queue, result, out_wake>>, in_wake' \in BOOLEAN,
             NEW now \in WorkerType, worker' = [worker EXCEPT ![w] = now],
             now.task = {}, worker[w].task = {}, now.at = "turn" => now.cnt > 0
      PROVE  VeriInv'
    <2>1. \A x \in Worker : Busy(x)' = Busy(x)
        BY <1>1, <1>2 DEF Busy
    <2>2. WorkersOK'
        BY <1>1, <1>2 DEF VTypeOK, WorkersOK
    <2>3. VTypeOK'
        BY <1>1, <1>2, <2>2 DEF VTypeOK
    <2>4. TaskInOnePlace'
        BY <1>1, <1>2, <2>1 DEF TaskInOnePlace, OnePlace
    <2>5. ResultsAddUp'
        BY <1>1, <1>2 DEF ResultsAddUp, AddsUp
    <2> QED BY <2>3, <2>4, <2>5
<1>3. CASE WorkerWake(w)
    <2>1. Turn(BurstSize, {}) \in WorkerType
        BY VeriAssumption DEF Turn, WorkerType
    <2>2. worker[w].task = {}
        BY <1>3 DEF WorkerWake, VTypeOK, WorkersOK
    <2>3. Turn(BurstSize, {}).task = {} /\ Turn(BurstSize, {}).cnt > 0
        BY VeriAssumption DEF Turn
    <2> QED BY <1>2, <1>3, <2>1, <2>2, <2>3 DEF WorkerWake
<1>4. CASE WorkerRest(w) \/ WorkerStop(w)
    <2>1. Loop \in WorkerType /\ Gone \in WorkerType
        BY VeriAssumption DEF Loop, Gone, WorkerType
    <2>2. worker[w].task = {} /\ in_wake \in BOOLEAN
        BY <1>4 DEF WorkerRest, WorkerStop, VTypeOK, WorkersOK
    <2> QED BY <1>2, <1>4, <2>1, <2>2 DEF WorkerRest, WorkerStop, Loop, Gone
<1>5. ASSUME NEW a \in Address, WorkerTake(w, a) PROVE VeriInv'
    <2>1. /\ worker' = [worker EXCEPT ![w].task = {a}]
          /\ in_queue' = in_queue \ {a} /\ a \in in_queue
          /\ UNCHANGED <<result, in_wake, out_queue, out_wake>>
          /\ worker[w].at = "turn" /\ worker[w].task = {}
        BY <1>5 DEF WorkerTake
    <2>2. /\ Busy(w)' = {a} /\ Busy(w) = {}
          /\ \A x \in Worker \ {w} : Busy(x)' = Busy(x)
        BY <1>1, <2>1 DEF Busy, WorkerType
    <2>3. WorkersOK'
        BY <1>1, <2>1 DEF VTypeOK, WorkersOK, WorkerType
    <2>4. VTypeOK'
        BY <1>1, <2>1, <2>3 DEF VTypeOK
    <2>5. TaskInOnePlace'
        BY <1>1, <2>1, <2>2 DEF TaskInOnePlace, OnePlace
    <2>6. ResultsAddUp'
        BY <1>1, <2>1 DEF ResultsAddUp, AddsUp
    <2> QED BY <2>4, <2>5, <2>6
<1>6. CASE WorkerVerify(w)
    <2> DEFINE a == CHOOSE a \in worker[w].task : TRUE
               now == IF worker[w].cnt = 1 THEN Loop ELSE Turn(worker[w].cnt - 1, {})
    <2>1. a \in Address /\ worker[w].task = {a}
        BY <1>1, <1>6 DEF WorkerVerify, WorkerType, VTypeOK, WorkersOK
    <2>2. /\ result' = [result EXCEPT ![a] = msg[a]]
          /\ out_queue' = out_queue \cup {a}
          /\ worker' = [worker EXCEPT ![w] = now]
          /\ UNCHANGED in_queue
        BY <1>6 DEF WorkerVerify
    <2>3. in_wake' \in BOOLEAN /\ out_wake' \in BOOLEAN
        BY <1>6 DEF WorkerVerify, VTypeOK
    <2>4. now \in WorkerType /\ now.task = {} /\ (now.at = "turn" => now.cnt > 0)
        <3>1. worker[w].cnt \in 1..BurstSize
            BY <1>1, <1>6 DEF WorkerVerify, WorkerType, VTypeOK, WorkersOK
        <3> QED BY <3>1, VeriAssumption DEF Loop, Turn, WorkerType
    <2> HIDE DEF a, now
    <2>5. /\ Busy(w)' = {} /\ Busy(w) = {a}
          /\ \A x \in Worker \ {w} : Busy(x)' = Busy(x)
        BY <1>1, <2>1, <2>2, <2>4 DEF Busy
    <2>6. WorkersOK'
        BY <1>1, <2>2, <2>4 DEF VTypeOK, WorkersOK
    <2>7. VTypeOK'
        BY <1>1, <2>1, <2>2, <2>3, <2>6 DEF VTypeOK
    <2>8. TaskInOnePlace'
        BY <1>1, <2>2, <2>5 DEF TaskInOnePlace, OnePlace
    <2>9. ResultsAddUp'
        BY <1>1, <2>1, <2>2 DEF ResultsAddUp, AddsUp, VTypeOK
    <2> QED BY <2>7, <2>8, <2>9
<1> QED BY <1>3, <1>4, <1>5, <1>6 DEF WorkerStep

\* Results that come back are taken off what is open and added to what has come.
LEMMA OutHandlerStep ==
    ASSUME VeriInv, NEW S \in SUBSET Address, OutHandler(S)
    PROVE  VeriInv'
<1> USE DEF VeriInv
<1> DEFINE back(i) == {a \in S : pms[a] = i}
           call(i) == [calls[i] EXCEPT !.open = @ \ back(i),
                                       !.ok = @ /\ \A a \in back(i) : result[a]]
<1>1. /\ S \subseteq out_queue
      /\ out_queue' = out_queue \ S
      /\ calls' = [i \in Calls |-> call(i)]
      /\ pms' = [a \in DOMAIN pms \ S |-> pms[a]]
      /\ msg' = [a \in Address |-> a \notin S /\ msg[a]]
      /\ result' = [a \in Address |-> a \notin S /\ result[a]]
      /\ out_wake' \in BOOLEAN
      /\ UNCHANGED <<sigs, rids, in_queue, in_wake, worker, destroyed>>
    BY DEF OutHandler, Restrict
<1>2. \A i \in Calls : /\ call(i).asked = calls[i].asked
                       /\ call(i).expect = calls[i].expect
                       /\ call(i).open = calls[i].open \ back(i)
                       /\ call(i).ok <=> (calls[i].ok /\ \A a \in back(i) : result[a])
                       /\ call(i) \in CallType
    BY DEF VTypeOK, CallType
<1> HIDE DEF call
<1>3. \A i \in Calls : back(i) = calls[i].open \cap S
    BY <1>1 DEF TaskInOnePlace, OnePlace
<1>4. VTypeOK'
    <2>1. WorkersOK'
        BY <1>1 DEF VTypeOK, WorkersOK
    <2>2. calls' \in [Calls -> CallType]
        BY <1>1, <1>2
    <2>3. pms' \in [DOMAIN pms' -> Calls] /\ DOMAIN pms' \subseteq Address
        BY <1>1 DEF VTypeOK
    <2>4. msg' \in [Address -> BOOLEAN] /\ result' \in [Address -> BOOLEAN]
        BY <1>1
    <2> QED BY <1>1, <2>1, <2>2, <2>3, <2>4 DEF VTypeOK
<1>5. TaskInOnePlace'
    <2>1. OnePlace'
        BY <1>1 DEF TaskInOnePlace, OnePlace, Busy
    <2>2. \A i \in Calls : calls'[i].open = {a \in DOMAIN pms' : pms'[a] = i}
        BY <1>1, <1>2, <1>3 DEF TaskInOnePlace
    <2> QED BY <2>1, <2>2 DEF TaskInOnePlace
<1>6. ResultsAddUp'
    <2>1. \A a \in out_queue' : result'[a] = msg'[a]
        BY <1>1 DEF ResultsAddUp, VTypeOK
    <2>2. ASSUME NEW i \in Calls
          PROVE  IF calls'[i].asked THEN AddsUp(calls[i])' ELSE calls'[i].open = {}
        <3>1. \A a \in back(i) : result[a] = msg[a]
            BY <1>1 DEF ResultsAddUp
        <3>2. \A a \in calls[i].open \ back(i) : msg'[a] = msg[a]
            BY <1>1, <1>3 DEF VTypeOK, CallType
        <3>3. calls[i].open = back(i) \cup (calls[i].open \ back(i))
            BY <1>3
        <3>4. CASE ~ calls[i].asked
            BY <1>1, <1>2, <3>4 DEF ResultsAddUp
        <3>5. CASE calls[i].asked
            <4>1. calls[i].expect <=> (calls[i].ok /\ \A a \in calls[i].open : msg[a])
                BY <3>5 DEF ResultsAddUp, AddsUp
            <4>2. calls'[i].expect <=> (calls'[i].ok /\ \A a \in calls'[i].open : msg'[a])
                <5>1. calls'[i] = call(i)
                    BY <1>1
                <5>2. calls'[i].expect = calls[i].expect /\ calls'[i].open = calls[i].open \ back(i)
                    BY <5>1, <1>2
                <5>3. calls'[i].ok <=> (calls[i].ok /\ \A a \in back(i) : msg[a])
                    BY <5>1, <1>2, <3>1
                <5> HIDE DEF back
                <5> QED BY <5>2, <5>3, <3>2, <3>3, <4>1
            <4> QED BY <1>1, <1>2, <3>5, <4>2 DEF AddsUp
        <3> QED BY <3>4, <3>5
    <2> QED BY <2>1, <2>2 DEF ResultsAddUp, AddsUp
<1> QED BY <1>4, <1>5, <1>6

LEMMA VeriInvStep == VeriInv /\ [VNext]_veriVars => VeriInv'
<1> SUFFICES ASSUME VeriInv, [VNext]_veriVars PROVE VeriInv'
    OBVIOUS
<1>1. CASE UNCHANGED veriVars
    BY <1>1 DEF veriVars, VeriInv, VTypeOK, WorkersOK, TaskInOnePlace, OnePlace, Busy,
                ResultsAddUp, AddsUp
<1>2. CASE Destroy
    BY <1>2 DEF Destroy, VeriInv, VTypeOK, WorkersOK, TaskInOnePlace, OnePlace, Busy,
                ResultsAddUp, AddsUp
<1> QED BY <1>1, <1>2, AddPartStep, VerifyStep, WorkerStepOK, OutHandlerStep DEF VNext

\* Every task is in one place and has its entry in pms when its result arrives
\* (task.h:45-47).
THEOREM TasksAreFound == VSpec => []TaskInOnePlace
BY InitVeriInv, VeriInvStep, PTL DEF VSpec, VeriInv

\* verify(config, vpool) answers what verify(config) does (crypto.cpp:29-64).
THEOREM AsyncVerifies == VSpec => []AsyncAsSync
<1>1. VeriInv => AsyncAsSync
    BY DEF VeriInv, VTypeOK, CallType, ResultsAddUp, AddsUp, AsyncAsSync
<1> QED BY <1>1, InitVeriInv, VeriInvStep, PTL DEF VSpec

\* From the number of peers to a majority of the replicas (e2c.cpp:370,
\* consensus.cpp:201-204).
THEOREM VerifiesByMajority == VSpec => []QuorumIsMajority
<1>1. VeriInv => QuorumIsMajority
    <2> SUFFICES ASSUME VeriInv, VerifySync, Cardinality(ReplicaID) > 1
                 PROVE  2 * Cardinality(ValidSigners) > Cardinality(ReplicaID)
        BY DEF QuorumIsMajority
    <2> DEFINE n == Cardinality(ReplicaID)
    <2>1. ValidSigners = DOMAIN sigs
        BY SignersFinite DEF VeriInv, VerifySync, ValidSigners
    <2>2. Cardinality(DOMAIN sigs) \in Nat
        BY SignersFinite, FS_CardinalityType DEF VeriInv
    <2>3. n \in Nat /\ n > 1 /\ n < Uint32Mod /\ Uint32Mod < SizeMod
        BY NMajorityType, VeriAssumption
    <2>4. NFaultyOfPeers(n - 1) = (n - 2) \div 2
        BY <2>3, VeriAssumption DEF NFaultyOfPeers
    <2>5. 2 * NMajority > n
        BY <2>3, <2>4, VeriAssumption DEF NMajority
    <2> QED BY <2>1, <2>2, <2>3, <2>5, NMajorityType DEF VerifySync
<1> QED BY <1>1, InitVeriInv, VeriInvStep, PTL DEF VSpec

=============================================================================
