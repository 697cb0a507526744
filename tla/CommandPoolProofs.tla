------------------------- MODULE CommandPoolProofs -------------------------
(***************************************************************************)
(* A command is in one place at a time between the client and its answer,  *)
(* and in one place of the blocks. The first part, about the answers, does *)
(* not look at the log, so that module E2CAppProofs can use it for a       *)
(* program that changes its proposer.                                      *)
(***************************************************************************)
EXTENDS CommandPool, TLAPS, FiniteSetTheorems, SequenceTheorems

-----------------------------------------------------------------------------
(* The inductive invariant.                                                 *)

\* What the requests and what the answers of a sequence are about.
Asks(s) == [i \in DOMAIN s |-> s[i][1]]
Answers(s) == [i \in DOMAIN s |-> s[i].cmd]

\* The places a command can be in, on its way to r and back.
Requested(r) == Range(Asks(reqs[r]))
Queued(r) == Range(Asks(cmd_pending[r]))
Waits(r) == DOMAIN decision_waiting[r]
Answered(r) == Range(Answers(resps[r]))

Sent == 0..(cnt - 1)
Request == Cmd \X (0..epoch)
Response == [cmd : Cmd, decision : 0..1, epoch : 0..epoch]

ClientOK ==
    /\ epoch \in 0..MaxRestart /\ cnt \in 0..MaxIter
    /\ DOMAIN confirmed \cup acked \subseteq Sent
    /\ Cardinality(DOMAIN confirmed) <= MaxAsync
    /\ \A c \in DOMAIN confirmed : confirmed[c] \in 0..nfaulty

QueuesOK ==
    /\ DOMAIN reqs = Replica /\ DOMAIN cmd_pending = Replica
    /\ DOMAIN decision_waiting = Replica /\ DOMAIN resps = Replica
    /\ \A r \in Replica : /\ reqs[r] \in Seq(Request) /\ cmd_pending[r] \in Seq(Request)
                          /\ Waits(r) \subseteq Cmd
                          /\ decision_waiting[r] \in [Waits(r) -> 0..epoch]
                          /\ resps[r] \in Seq(Response)

-----------------------------------------------------------------------------
(* The answers. E[r] stands for the commands that r has executed.           *)

\* A command is in one place at most.
OnePlace(r) ==
    /\ IsInjective(Asks(reqs[r])) /\ IsInjective(Asks(cmd_pending[r]))
    /\ IsInjective(Answers(resps[r]))
    /\ Requested(r) \cap Queued(r) = {} /\ Waits(r) \cap Answered(r) = {}
    /\ (Requested(r) \cup Queued(r)) \cap (Waits(r) \cup Answered(r)) = {}
    /\ Requested(r) \cup Queued(r) \cup Waits(r) \cup Answered(r) \subseteq Sent

\* r has answered c and the client has read it.
Read(r, c) == c \in Sent \ (Requested(r) \cup Queued(r) \cup Waits(r) \cup Answered(r))
ReadOf(c) == {r \in Replica : Read(r, c)}

\* What is answered is executed; the client counts what it reads.
Served(E) ==
    /\ \A r \in Replica : /\ OnePlace(r)
                          /\ Answered(r) \subseteq E[r]
                          /\ \A c \in Sent : Read(r, c) => c \in E[r]
    /\ \A c \in DOMAIN confirmed : confirmed[c] <= Cardinality(ReadOf(c))
    /\ \A c \in acked : Cardinality(ReadOf(c)) > nfaulty

\* A turn of the handler of cmd_pending, apart from the block.
Registers(r) ==
    /\ cmd_pending[r] # <<>>
    /\ LET c == Head(cmd_pending[r])[1]
           from == Head(cmd_pending[r])[2]
       IN  IF c \in Waits(r)
           THEN Answer(r, c, 0, from) /\ UNCHANGED decision_waiting
           ELSE /\ decision_waiting' = [decision_waiting EXCEPT ![r] =
                       [x \in DOMAIN @ \cup {c} |-> IF x = c THEN from ELSE @[x]]]
                /\ UNCHANGED resps
    /\ cmd_pending' = [cmd_pending EXCEPT ![r] = Tail(@)]
    /\ UNCHANGED <<clientVars, reqs>>

\* The callback of c, if there is one.
CallsBack(r, c) ==
    /\ IF c \in Waits(r)
       THEN /\ Answer(r, c, 1, decision_waiting[r][c])
            /\ decision_waiting' = [decision_waiting EXCEPT ![r] = Drop(@, c)]
       ELSE UNCHANGED <<resps, decision_waiting>>
    /\ UNCHANGED <<clientVars, cmd_pending, reqs>>

-----------------------------------------------------------------------------
(* The blocks.                                                              *)

BlocksOK ==
    /\ DOMAIN buffer = Replica /\ DOMAIN done = Replica
    /\ \A r \in Replica : buffer[r] \in Seq(Cmd) /\ Len(buffer[r]) < BlkSize
    /\ log \in Seq(Seq(Cmd))
    /\ \A i \in DOMAIN log : Len(log[i]) = BlkSize
    /\ \A r \in Replica : /\ done[r] \in Seq(Nat) /\ Len(done[r]) = Len(log)
                          /\ \A i \in DOMAIN log : done[r][i] <= BlkSize

InLog(c) == \E i \in DOMAIN log : \E k \in 1..BlkSize : log[i][k] = c

\* The commands that have left the queue of r.
Left(r) == Sent \ (Requested(r) \cup Queued(r))

\* A command that has left the queue of the proposer is in one place of its buffer or of
\* one block.
TakenOnce ==
    /\ \A i, j \in DOMAIN log : \A k, l \in 1..BlkSize : log[i][k] = log[j][l] => i = j /\ k = l
    /\ IsInjective(buffer[Proposer])
    /\ \A c \in Range(buffer[Proposer]) : ~ InLog(c)
    /\ \A c : InLog(c) \/ c \in Range(buffer[Proposer]) <=> c \in Left(Proposer)

PoolInv ==
    /\ ClientOK
    /\ QueuesOK
    /\ BlocksOK
    /\ ProposerAnswers
    /\ epoch = 0 => /\ Served([r \in Replica |-> Executed(r)])
                    /\ TakenOnce

-----------------------------------------------------------------------------
(* Sequences and what is named in them.                                     *)

\* The names without the first one,
LEMMA DropFirst ==
    ASSUME NEW n \in Nat, NEW f, NEW g, DOMAIN f = 1..(n + 1), DOMAIN g = 1..n,
           \A i \in 1..n : g[i] = f[i + 1], IsInjective(f)
    PROVE  IsInjective(g) /\ Range(g) = Range(f) \ {f[1]}
<1>1. \A i \in 1..n : i + 1 \in 1..(n + 1) /\ i + 1 # 1
    OBVIOUS
<1>2. \A j \in 1..(n + 1) : j = 1 \/ (j - 1 \in 1..n /\ (j - 1) + 1 = j)
    OBVIOUS
<1>3. 1 \in 1..(n + 1)
    OBVIOUS
<1>4. \A i, j \in 1..n : i + 1 = j + 1 => i = j
    OBVIOUS
<1>5. IsInjective(g)
    BY <1>1, <1>4 DEF IsInjective
<1>6. ASSUME NEW x \in Range(g) PROVE x \in Range(f) \ {f[1]}
    <2>1. PICK i \in 1..n : x = g[i]
        BY DEF Range
    <2>2. x = f[i + 1] /\ i + 1 \in 1..(n + 1) /\ i + 1 # 1
        BY <1>1, <2>1
    <2> QED BY <1>3, <2>2 DEF Range, IsInjective
<1>7. ASSUME NEW x \in Range(f) \ {f[1]} PROVE x \in Range(g)
    <2>1. PICK j \in 1..(n + 1) : x = f[j]
        BY DEF Range
    <2>2. j # 1
        BY <2>1
    <2>3. PICK i : i = j - 1
        OBVIOUS
    <2>4. i \in 1..n /\ i + 1 = j
        BY <1>2, <2>2, <2>3
    <2>5. g[i] = x
        BY <2>1, <2>4
    <2> QED BY <2>4, <2>5 DEF Range
<1> QED BY <1>5, <1>6, <1>7

\* and with one more at the end.
LEMMA AddLast ==
    ASSUME NEW n \in Nat, NEW f, NEW g, DOMAIN f = 1..n, DOMAIN g = 1..(n + 1),
           \A i \in 1..n : g[i] = f[i]
    PROVE  /\ Range(g) = Range(f) \cup {g[n + 1]}
           /\ IsInjective(f) /\ g[n + 1] \notin Range(f) => IsInjective(g)
<1>1. /\ \A i \in 1..n : i \in 1..(n + 1) /\ i # n + 1
      /\ \A j \in 1..(n + 1) : j \in 1..n \/ j = n + 1
      /\ n + 1 \in 1..(n + 1)
    OBVIOUS
<1> QED BY <1>1 DEF Range, IsInjective

\* A request is taken from a sequence,
LEMMA TakeRequest ==
    ASSUME NEW S, NEW s \in Seq(S), s # <<>>, NEW t, t = Tail(s), IsInjective(Asks(s))
    PROVE  /\ t \in Seq(S) /\ Head(s) \in S /\ Head(s)[1] \in Range(Asks(s))
           /\ IsInjective(Asks(t)) /\ Range(Asks(t)) = Range(Asks(s)) \ {Head(s)[1]}
<1>1. PICK n : n = Len(t)
    OBVIOUS
<1>2. /\ t \in Seq(S) /\ Head(s) \in S /\ n \in Nat /\ Len(s) = n + 1 /\ DOMAIN s = 1..(n + 1)
      /\ DOMAIN t = 1..n /\ \A i \in 1..n : t[i] = s[i + 1]
      /\ Head(s) = s[1]
    BY <1>1, HeadTailProperties
<1>3. PICK f, g : f = Asks(s) /\ g = Asks(t)
    OBVIOUS
<1>4. /\ DOMAIN f = 1..(n + 1) /\ DOMAIN g = 1..n
      /\ \A i \in 1..n : i + 1 \in 1..(n + 1)
      /\ f[1] = s[1][1]
    BY <1>2, <1>3 DEF Asks
<1>5. IsInjective(f) /\ \A i \in 1..n : g[i] = f[i + 1]
    BY <1>2, <1>3, <1>4 DEF Asks
<1>6. IsInjective(g) /\ Range(g) = Range(f) \ {f[1]}
    <2>1. n \in Nat
        BY <1>2
    <2> QED BY <1>4, <1>5, <2>1, DropFirst
<1>7. f[1] \in Range(f)
    BY <1>2, <1>4 DEF Range
<1> QED BY <1>2, <1>3, <1>4, <1>6, <1>7

\* and so is an answer.
LEMMA TakeAnswer ==
    ASSUME NEW S, NEW s \in Seq(S), s # <<>>, NEW t, t = Tail(s), IsInjective(Answers(s))
    PROVE  /\ t \in Seq(S) /\ Head(s) \in S /\ Head(s).cmd \in Range(Answers(s))
           /\ IsInjective(Answers(t)) /\ Range(Answers(t)) = Range(Answers(s)) \ {Head(s).cmd}
<1>1. PICK n : n = Len(t)
    OBVIOUS
<1>2. /\ t \in Seq(S) /\ Head(s) \in S /\ n \in Nat /\ Len(s) = n + 1 /\ DOMAIN s = 1..(n + 1)
      /\ DOMAIN t = 1..n /\ \A i \in 1..n : t[i] = s[i + 1]
      /\ Head(s) = s[1]
    BY <1>1, HeadTailProperties
<1>3. PICK f, g : f = Answers(s) /\ g = Answers(t)
    OBVIOUS
<1>4. /\ DOMAIN f = 1..(n + 1) /\ DOMAIN g = 1..n
      /\ \A i \in 1..n : i + 1 \in 1..(n + 1)
      /\ f[1] = s[1].cmd
    BY <1>2, <1>3 DEF Answers
<1>5. IsInjective(f) /\ \A i \in 1..n : g[i] = f[i + 1]
    BY <1>2, <1>3, <1>4 DEF Answers
<1>6. IsInjective(g) /\ Range(g) = Range(f) \ {f[1]}
    <2>1. n \in Nat
        BY <1>2
    <2> QED BY <1>4, <1>5, <2>1, DropFirst
<1>7. f[1] \in Range(f)
    BY <1>2, <1>4 DEF Range
<1> QED BY <1>2, <1>3, <1>4, <1>6, <1>7

\* A request, an answer or a command is added.
Extends(t, s, x) == t = Append(s, x)

LEMMA AddRequest ==
    ASSUME NEW S, NEW s \in Seq(S), NEW x \in S, NEW t, Extends(t, s, x)
    PROVE  /\ t \in Seq(S) /\ Range(Asks(t)) = Range(Asks(s)) \cup {x[1]}
           /\ IsInjective(Asks(s)) /\ x[1] \notin Range(Asks(s)) => IsInjective(Asks(t))
<1>1. PICK n : n = Len(s)
    OBVIOUS
<1>2. /\ t \in Seq(S) /\ n \in Nat /\ DOMAIN s = 1..n /\ DOMAIN t = 1..(n + 1)
      /\ t[n + 1] = x /\ \A i \in 1..n : t[i] = s[i]
    <2>1. t = Append(s, x)
        BY DEF Extends
    <2>2. /\ Append(s, x) \in Seq(S) /\ Len(Append(s, x)) = Len(s) + 1
          /\ \A i \in 1..Len(s) : Append(s, x)[i] = s[i]
          /\ Append(s, x)[Len(s) + 1] = x
        BY AppendProperties
    <2>3. Len(s) \in Nat /\ DOMAIN s = 1..Len(s) /\ DOMAIN t = 1..Len(t)
        BY <2>1, <2>2
    <2> QED BY <1>1, <2>1, <2>2, <2>3
<1>3. PICK f, g : f = Asks(s) /\ g = Asks(t)
    OBVIOUS
<1>4. /\ DOMAIN f = 1..n /\ DOMAIN g = 1..(n + 1) /\ \A i \in 1..n : i \in 1..(n + 1)
      /\ n + 1 \in 1..(n + 1)
    BY <1>2, <1>3 DEF Asks
<1>5. g[n + 1] = x[1] /\ \A i \in 1..n : g[i] = f[i]
    BY <1>2, <1>3, <1>4 DEF Asks
<1>6. /\ Range(g) = Range(f) \cup {g[n + 1]}
      /\ IsInjective(f) /\ g[n + 1] \notin Range(f) => IsInjective(g)
    <2>1. n \in Nat /\ DOMAIN f = 1..n /\ DOMAIN g = 1..(n + 1) /\ \A i \in 1..n : g[i] = f[i]
        BY <1>2, <1>4, <1>5
    <2> QED BY <2>1, AddLast
<1> QED BY <1>2, <1>3, <1>5, <1>6

LEMMA AddAnswer ==
    ASSUME NEW S, NEW s \in Seq(S), NEW x \in S, NEW t, Extends(t, s, x)
    PROVE  /\ t \in Seq(S) /\ Range(Answers(t)) = Range(Answers(s)) \cup {x.cmd}
           /\ IsInjective(Answers(s)) /\ x.cmd \notin Range(Answers(s)) => IsInjective(Answers(t))
<1>1. PICK n : n = Len(s)
    OBVIOUS
<1>2. /\ t \in Seq(S) /\ n \in Nat /\ DOMAIN s = 1..n /\ DOMAIN t = 1..(n + 1)
      /\ t[n + 1] = x /\ \A i \in 1..n : t[i] = s[i]
    <2>1. t = Append(s, x)
        BY DEF Extends
    <2>2. /\ Append(s, x) \in Seq(S) /\ Len(Append(s, x)) = Len(s) + 1
          /\ \A i \in 1..Len(s) : Append(s, x)[i] = s[i]
          /\ Append(s, x)[Len(s) + 1] = x
        BY AppendProperties
    <2>3. Len(s) \in Nat /\ DOMAIN s = 1..Len(s) /\ DOMAIN t = 1..Len(t)
        BY <2>1, <2>2
    <2> QED BY <1>1, <2>1, <2>2, <2>3
<1>3. PICK f, g : f = Answers(s) /\ g = Answers(t)
    OBVIOUS
<1>4. /\ DOMAIN f = 1..n /\ DOMAIN g = 1..(n + 1) /\ \A i \in 1..n : i \in 1..(n + 1)
      /\ n + 1 \in 1..(n + 1)
    BY <1>2, <1>3 DEF Answers
<1>5. g[n + 1] = x.cmd /\ \A i \in 1..n : g[i] = f[i]
    BY <1>2, <1>3, <1>4 DEF Answers
<1>6. /\ Range(g) = Range(f) \cup {g[n + 1]}
      /\ IsInjective(f) /\ g[n + 1] \notin Range(f) => IsInjective(g)
    <2>1. n \in Nat /\ DOMAIN f = 1..n /\ DOMAIN g = 1..(n + 1) /\ \A i \in 1..n : g[i] = f[i]
        BY <1>2, <1>4, <1>5
    <2> QED BY <2>1, AddLast
<1> QED BY <1>2, <1>3, <1>5, <1>6

\* The requests of a burst are added.
Bursts(t, s, from, n, e) == t = s \o [i \in 1..n |-> <<from + i - 1, e>>]

LEMMA AddBurst ==
    ASSUME NEW S, NEW s \in Seq(S), NEW n \in Nat, NEW from \in Nat, NEW e,
           \A c \in from..(from + n - 1) : <<c, e>> \in S,
           NEW t, Bursts(t, s, from, n, e)
    PROVE  /\ t \in Seq(S)
           /\ Range(Asks(t)) = Range(Asks(s)) \cup from..(from + n - 1)
           /\ IsInjective(Asks(s)) /\ Range(Asks(s)) \cap from..(from + n - 1) = {}
                 => IsInjective(Asks(t))
<1>1. PICK u : u = [i \in 1..n |-> <<from + i - 1, e>>]
    OBVIOUS
<1>2. u \in Seq(S) /\ Len(u) = n /\ \A i \in 1..n : u[i] = <<from + i - 1, e>>
    <2>1. \A i \in 1..n : from + i - 1 \in from..(from + n - 1)
        OBVIOUS
    <2>2. u \in [1..n -> S]
        BY <1>1, <2>1
    <2> QED BY <1>1, <2>2
<1>3. PICK k : k = Len(s)
    OBVIOUS
<1>4. /\ k \in Nat /\ DOMAIN s = 1..k
      /\ t \in Seq(S) /\ DOMAIN t = 1..(k + n)
      /\ \A i \in 1..(k + n) : t[i] = IF i <= k THEN s[i] ELSE u[i - k]
    BY <1>1, <1>2, <1>3, ConcatProperties DEF Bursts
<1>5. PICK f, g : f = Asks(s) /\ g = Asks(t)
    OBVIOUS
<1>6. DOMAIN f = 1..k /\ DOMAIN g = 1..(k + n)
    BY <1>4, <1>5 DEF Asks
<1>7. ASSUME NEW i \in 1..k PROVE i \in 1..(k + n) /\ g[i] = f[i]
    <2>1. i \in 1..(k + n) /\ i <= k
        BY <1>4
    <2> QED BY <1>4, <1>5, <2>1 DEF Asks
<1>8. ASSUME NEW j \in 1..n PROVE k + j \in 1..(k + n) /\ g[k + j] = from + j - 1
    <2>1. k + j \in 1..(k + n) /\ ~ k + j <= k /\ (k + j) - k = j
        BY <1>4
    <2>2. t[k + j] = <<from + j - 1, e>>
        BY <1>2, <1>4, <2>1
    <2> QED BY <1>4, <1>5, <2>1, <2>2 DEF Asks
<1>9. ASSUME NEW i \in 1..(k + n)
      PROVE  i \in 1..k \/ \E j \in 1..n : i = k + j
    <2>1. i \in 1..k \/ (i - k \in 1..n /\ i = k + (i - k))
        BY <1>4
    <2> QED BY <2>1
<1>10. ASSUME NEW c \in from..(from + n - 1) PROVE \E j \in 1..n : c = from + j - 1
    <2>1. c - from + 1 \in 1..n /\ c = from + (c - from + 1) - 1
        OBVIOUS
    <2> QED BY <2>1
<1>11. \A j \in 1..n : from + j - 1 \in from..(from + n - 1)
    OBVIOUS
<1>12. Range(g) = Range(f) \cup from..(from + n - 1)
    <2>1. Range(g) \subseteq Range(f) \cup from..(from + n - 1)
        BY <1>6, <1>7, <1>8, <1>9, <1>11 DEF Range
    <2>2. Range(f) \subseteq Range(g)
        BY <1>6, <1>7 DEF Range
    <2>3. ASSUME NEW c \in from..(from + n - 1) PROVE c \in Range(g)
        <3>1. PICK j \in 1..n : c = from + j - 1
            BY <1>10
        <3>2. k + j \in DOMAIN g /\ g[k + j] = c
            BY <1>6, <1>8, <3>1
        <3> QED BY <3>2 DEF Range
    <2> QED BY <2>1, <2>2, <2>3
<1>13. ASSUME IsInjective(f), Range(f) \cap from..(from + n - 1) = {} PROVE IsInjective(g)
    <2> SUFFICES ASSUME NEW i \in 1..(k + n), NEW j \in 1..(k + n), g[i] = g[j] PROVE i = j
        BY <1>6 DEF IsInjective
    <2>1. CASE i \in 1..k /\ j \in 1..k
        BY <1>6, <1>7, <1>13, <2>1 DEF IsInjective
    <2>2. ASSUME NEW x \in 1..k, NEW y \in 1..n PROVE g[x] # g[k + y]
        <3>1. g[x] \in Range(f)
            BY <1>6, <1>7 DEF Range
        <3> QED BY <1>8, <1>11, <1>13, <3>1
    <2>3. ASSUME NEW x \in 1..n, NEW y \in 1..n, g[k + x] = g[k + y] PROVE x = y
        BY <1>8, <2>3
    <2> QED BY <1>9, <2>1, <2>2, <2>3
<1> QED BY <1>4, <1>5, <1>12, <1>13

-----------------------------------------------------------------------------
(* The answers.                                                             *)

LEMMA NfaultyIsNat == nfaulty \in Nat
<1>1. Cardinality(Replica) \in Nat /\ Cardinality(Replica) # 0
    BY ReplicaAssumption, ProposerAssumption, FS_CardinalityType, FS_EmptySet
<1> QED BY <1>1 DEF nfaulty

\* Only the places of r change, and the client rests.
Only(r) ==
    /\ UNCHANGED <<cnt, confirmed, acked>>
    /\ \A q \in Replica \ {r} : /\ reqs'[q] = reqs[q] /\ cmd_pending'[q] = cmd_pending[q]
                                /\ decision_waiting'[q] = decision_waiting[q]
                                /\ resps'[q] = resps[q]

\* Then, if r has still read what it had, everything stays counted.
LEMMA ServedBy ==
    ASSUME ClientOK, NEW E, NEW E2, Served(E), NEW r \in Replica, Only(r), OnePlace(r)',
           \A q \in Replica : E[q] \subseteq E2[q],
           Answered(r)' \subseteq E2[r],
           \A c \in Sent : Read(r, c)' <=> Read(r, c)
    PROVE  Served(E2)'
<1>1. cnt' = cnt /\ confirmed' = confirmed /\ acked' = acked /\ Sent' = Sent
    BY DEF Only, Sent
<1>2. ASSUME NEW q \in Replica, q # r
      PROVE  /\ OnePlace(q)' /\ Answered(q)' = Answered(q) /\ \A c \in Sent : Read(q, c)' <=> Read(q, c)
    <2>1. /\ reqs'[q] = reqs[q] /\ cmd_pending'[q] = cmd_pending[q]
          /\ decision_waiting'[q] = decision_waiting[q] /\ resps'[q] = resps[q]
        BY <1>2 DEF Only
    <2>2. /\ Requested(q)' = Requested(q) /\ Queued(q)' = Queued(q)
          /\ Waits(q)' = Waits(q) /\ Answered(q)' = Answered(q)
        BY <2>1 DEF Requested, Queued, Waits, Answered
    <2>3. OnePlace(q)
        BY DEF Served
    <2>4. OnePlace(q)'
        BY <1>1, <2>1, <2>2, <2>3 DEF OnePlace
    <2> QED BY <1>1, <2>2, <2>4 DEF Read
<1>3. ASSUME NEW q \in Replica
      PROVE  /\ OnePlace(q)' /\ Answered(q)' \subseteq E2[q]
             /\ \A c \in Sent : Read(q, c)' => c \in E2[q]
    <2>1. \A c \in Sent : Read(q, c) => c \in E2[q]
        BY DEF Served
    <2>2. CASE q = r
        BY <2>1, <2>2
    <2>3. CASE q # r
        BY <1>2, <2>1, <2>3 DEF Served
    <2> QED BY <2>2, <2>3
<1>4. ASSUME NEW c \in Sent PROVE ReadOf(c)' = ReadOf(c)
    BY <1>2 DEF ReadOf
<1>5. /\ \A c \in DOMAIN confirmed : confirmed[c] <= Cardinality(ReadOf(c)')
      /\ \A c \in acked : Cardinality(ReadOf(c)') > nfaulty
    BY <1>4 DEF ClientOK, Served
<1> QED BY <1>1, <1>3, <1>5 DEF Served

\* The places of r are apart and hold what was sent: from before to after a step.
LEMMA StillApart ==
    ASSUME NEW r \in Replica, NEW c, OnePlace(r), Sent' = Sent,
           IsInjective(Asks(reqs[r]))', IsInjective(Asks(cmd_pending[r]))', IsInjective(Answers(resps[r]))',
           \/ /\ c \in Requested(r) /\ Requested(r)' = Requested(r) \ {c}
              /\ Queued(r)' = Queued(r) \cup {c} /\ Waits(r)' = Waits(r) /\ Answered(r)' = Answered(r)
           \/ /\ c \in Queued(r) /\ Requested(r)' = Requested(r) /\ Queued(r)' = Queued(r) \ {c}
              /\ Waits(r)' = Waits(r) \cup {c} /\ Answered(r)' = Answered(r)
           \/ /\ c \in Waits(r) /\ Requested(r)' = Requested(r) /\ Queued(r)' = Queued(r)
              /\ Waits(r)' = Waits(r) \ {c} /\ Answered(r)' = Answered(r) \cup {c}
    PROVE  OnePlace(r)' /\ \A x \in Sent : Read(r, x)' <=> Read(r, x)
BY DEF OnePlace, Read

\* client_request_cmd_handler: a request goes to the queue.
RequestMoves(r, c) ==
    /\ Only(r)
    /\ c \in Requested(r) /\ Requested(r)' = Requested(r) \ {c}
    /\ Queued(r)' = Queued(r) \cup {c} /\ Waits(r)' = Waits(r) /\ Answered(r)' = Answered(r)
    /\ IsInjective(Asks(reqs[r]))'
    /\ IsInjective(Answers(resps[r]))'
    /\ IsInjective(Asks(cmd_pending[r])) /\ c \notin Queued(r) => IsInjective(Asks(cmd_pending[r]))'

LEMMA RequestIsMove ==
    ASSUME QueuesOK, NEW r \in Replica, OnePlace(r), ClientRequestCmd(r)
    PROVE  \E c : RequestMoves(r, c)
<1>1. PICK s, t, u, v, x : s = reqs[r] /\ t = reqs'[r] /\ u = cmd_pending[r] /\ v = cmd_pending'[r] /\ x = Head(s)
    OBVIOUS
<1>2. /\ s # <<>> /\ t = Tail(s) /\ v = Append(u, x)
      /\ Only(r) /\ decision_waiting' = decision_waiting /\ resps' = resps
    BY <1>1 DEF ClientRequestCmd, QueuesOK, Only, clientVars
<1>3. s \in Seq(Request) /\ u \in Seq(Request) /\ IsInjective(Asks(s)) /\ IsInjective(Answers(resps[r]))
    BY <1>1 DEF QueuesOK, OnePlace
<1>4. /\ x \in Request /\ x[1] \in Range(Asks(s))
      /\ IsInjective(Asks(t)) /\ Range(Asks(t)) = Range(Asks(s)) \ {x[1]}
    BY <1>1, <1>2, <1>3, TakeRequest
<1>5. /\ Range(Asks(v)) = Range(Asks(u)) \cup {x[1]}
      /\ IsInjective(Asks(u)) /\ x[1] \notin Range(Asks(u)) => IsInjective(Asks(v))
    <2>1. u \in Seq(Request) /\ x \in Request /\ Extends(v, u, x)
        BY <1>2, <1>3, <1>4 DEF Extends
    <2> QED BY <2>1, AddRequest
<1>6. /\ Requested(r) = Range(Asks(s)) /\ Requested(r)' = Range(Asks(t))
      /\ Queued(r) = Range(Asks(u)) /\ Queued(r)' = Range(Asks(v))
    BY <1>1 DEF Requested, Queued
<1>7. Waits(r)' = Waits(r) /\ Answered(r)' = Answered(r) /\ IsInjective(Answers(resps[r]))'
    BY <1>2, <1>3 DEF Waits, Answered
<1>8. IsInjective(Asks(reqs[r]))' /\ (IsInjective(Asks(v)) => IsInjective(Asks(cmd_pending[r]))')
    BY <1>1, <1>4
<1> QED BY <1>1, <1>2, <1>4, <1>5, <1>6, <1>7, <1>8 DEF RequestMoves

LEMMA RequestServes ==
    ASSUME ClientOK, QueuesOK, NEW E, NEW E2, Served(E), \A q \in Replica : E[q] \subseteq E2[q],
           NEW r \in Replica, ClientRequestCmd(r)
    PROVE  Served(E2)'
<1>1. OnePlace(r) /\ Answered(r) \subseteq E[r]
    BY DEF Served
<1>2. PICK c : RequestMoves(r, c)
    BY <1>1, RequestIsMove
<1>3. /\ Only(r) /\ Answered(r)' = Answered(r)
      /\ IsInjective(Asks(reqs[r]))' /\ IsInjective(Asks(cmd_pending[r]))' /\ IsInjective(Answers(resps[r]))'
    BY <1>1, <1>2 DEF RequestMoves, OnePlace
<1>4. OnePlace(r)' /\ \A x \in Sent : Read(r, x)' <=> Read(r, x)
    BY <1>1, <1>2, <1>3, StillApart DEF RequestMoves, Only, Sent
<1> QED BY <1>1, <1>3, <1>4, ServedBy

\* A turn of the handler of cmd_pending: the command waits for its decision.
RegisterMoves(r, c) ==
    /\ Only(r)
    /\ c \in Queued(r) /\ Requested(r)' = Requested(r) /\ Queued(r)' = Queued(r) \ {c}
    /\ Waits(r)' = Waits(r) \cup {c} /\ Answered(r)' = Answered(r)
    /\ IsInjective(Asks(reqs[r]))' /\ IsInjective(Asks(cmd_pending[r]))' /\ IsInjective(Answers(resps[r]))'

LEMMA RegisterIsMove ==
    ASSUME QueuesOK, NEW r \in Replica, OnePlace(r), Registers(r)
    PROVE  RegisterMoves(r, Head(cmd_pending[r])[1])
<1>1. PICK u, v, x, c : u = cmd_pending[r] /\ v = cmd_pending'[r] /\ x = Head(u) /\ c = x[1]
    OBVIOUS
<1>2. /\ u # <<>> /\ v = Tail(u) /\ reqs' = reqs
    BY <1>1 DEF Registers, QueuesOK
<1>3. u \in Seq(Request) /\ IsInjective(Asks(u)) /\ IsInjective(Answers(resps[r])) /\ IsInjective(Asks(reqs[r]))
    BY <1>1 DEF QueuesOK, OnePlace
<1>4. /\ c \in Range(Asks(u))
      /\ IsInjective(Asks(v)) /\ Range(Asks(v)) = Range(Asks(u)) \ {c}
    BY <1>1, <1>2, <1>3, TakeRequest
<1>5. Queued(r) = Range(Asks(u)) /\ Queued(r)' = Range(Asks(v))
    BY <1>1 DEF Queued
<1>6. c \notin Waits(r)
    BY <1>4, <1>5 DEF OnePlace
<1>7. /\ decision_waiting' = [decision_waiting EXCEPT ![r] =
             [y \in DOMAIN @ \cup {c} |-> IF y = c THEN x[2] ELSE @[y]]]
      /\ resps' = resps
    BY <1>1, <1>6 DEF Registers
<1>8. Waits(r)' = Waits(r) \cup {c}
    BY <1>7 DEF Waits, QueuesOK
<1>9. /\ Requested(r)' = Requested(r) /\ Answered(r)' = Answered(r)
      /\ IsInjective(Answers(resps[r]))' /\ IsInjective(Asks(reqs[r]))'
    BY <1>2, <1>3, <1>7 DEF Requested, Answered
<1>10. Only(r)
    BY <1>2, <1>7 DEF Only, Registers, QueuesOK, clientVars
<1>11. IsInjective(Asks(cmd_pending[r]))'
    BY <1>1, <1>4
<1> QED BY <1>1, <1>4, <1>5, <1>8, <1>9, <1>10, <1>11 DEF RegisterMoves

LEMMA RegisterServes ==
    ASSUME ClientOK, QueuesOK, NEW E, NEW E2, Served(E), \A q \in Replica : E[q] \subseteq E2[q],
           NEW r \in Replica, Registers(r)
    PROVE  Served(E2)'
<1>1. OnePlace(r) /\ Answered(r) \subseteq E[r]
    BY DEF Served
<1>2. PICK c : RegisterMoves(r, c)
    BY <1>1, RegisterIsMove
<1>3. OnePlace(r)' /\ \A x \in Sent : Read(r, x)' <=> Read(r, x)
    BY <1>1, <1>2, StillApart DEF RegisterMoves, Only, Sent
<1>4. Only(r) /\ Answered(r)' = Answered(r)
    BY <1>2 DEF RegisterMoves
<1> QED BY <1>1, <1>3, <1>4, ServedBy

\* do_decide calls back: the answer is of a command that is executed.
LEMMA CallbackServes ==
    ASSUME ClientOK, QueuesOK, NEW E, NEW E2, Served(E), \A q \in Replica : E[q] \subseteq E2[q],
           NEW r \in Replica, NEW c, c \in E2[r], CallsBack(r, c)
    PROVE  Served(E2)'
<1>1. OnePlace(r) /\ Answered(r) \subseteq E[r]
    BY DEF Served
<1>2. CASE c \notin Waits(r)
    <2>1. /\ resps' = resps /\ decision_waiting' = decision_waiting
          /\ UNCHANGED <<cnt, confirmed, acked, cmd_pending, reqs>>
        BY <1>2 DEF CallsBack, clientVars
    <2>2. /\ Requested(r)' = Requested(r) /\ Queued(r)' = Queued(r) /\ Sent' = Sent
          /\ Waits(r)' = Waits(r) /\ Answered(r)' = Answered(r)
        BY <2>1 DEF Requested, Queued, Waits, Answered, Sent
    <2>3. OnePlace(r)'
        BY <1>1, <2>1, <2>2 DEF OnePlace
    <2>4. Only(r) /\ \A x \in Sent : Read(r, x)' <=> Read(r, x)
        BY <2>1, <2>2 DEF Only, Read
    <2> QED BY <1>1, <2>2, <2>3, <2>4, ServedBy
<1>3. CASE c \in Waits(r)
    <2>1. PICK s, t, x : /\ s = resps[r] /\ t = resps'[r]
                         /\ x = [cmd |-> c, decision |-> 1, epoch |-> decision_waiting[r][c]]
        OBVIOUS
    <2>2. /\ t = Append(s, x) /\ UNCHANGED <<cnt, confirmed, acked, cmd_pending, reqs>>
          /\ resps' = [resps EXCEPT ![r] = Append(@, x)]
          /\ decision_waiting' = [decision_waiting EXCEPT ![r] = Drop(@, c)]
        BY <1>3, <2>1 DEF CallsBack, Answer, QueuesOK, clientVars
    <2>3. /\ s \in Seq(Response) /\ x \in Response /\ x.cmd = c /\ IsInjective(Answers(s))
        <3>1. c \in Cmd /\ decision_waiting[r][c] \in 0..epoch
            BY <1>3 DEF QueuesOK
        <3>2. x \in Response
            BY <2>1, <3>1 DEF Response
        <3>3. s \in Seq(Response) /\ IsInjective(Answers(s))
            BY <1>1, <2>1 DEF QueuesOK, OnePlace
        <3> QED BY <2>1, <3>2, <3>3
    <2>4. c \notin Answered(r)
        BY <1>1, <1>3 DEF OnePlace
    <2>5. Answered(r) = Range(Answers(s)) /\ Answered(r)' = Range(Answers(t))
        BY <2>1 DEF Answered
    <2>6. Answered(r)' = Answered(r) \cup {c} /\ IsInjective(Answers(t))
        <3>1. s \in Seq(Response) /\ x \in Response /\ Extends(t, s, x)
            BY <2>2, <2>3 DEF Extends
        <3>2. /\ Range(Answers(t)) = Range(Answers(s)) \cup {x.cmd}
              /\ IsInjective(Answers(s)) /\ x.cmd \notin Range(Answers(s)) => IsInjective(Answers(t))
            BY <3>1, AddAnswer
        <3> QED BY <2>3, <2>4, <2>5, <3>2
    <2>7. Waits(r)' = Waits(r) \ {c}
        BY <2>2 DEF Waits, Drop, QueuesOK
    <2>8. /\ Requested(r)' = Requested(r) /\ Queued(r)' = Queued(r) /\ Sent' = Sent
          /\ IsInjective(Asks(reqs[r]))' /\ IsInjective(Asks(cmd_pending[r]))'
        BY <1>1, <2>2 DEF Requested, Queued, Sent, OnePlace
    <2>9. IsInjective(Answers(resps[r]))'
        BY <2>1, <2>6
    <2>10. OnePlace(r)' /\ \A y \in Sent : Read(r, y)' <=> Read(r, y)
        BY <1>1, <1>3, <2>6, <2>7, <2>8, <2>9, StillApart
    <2>11. Only(r)
        BY <2>2 DEF Only, QueuesOK
    <2> QED BY <1>1, <2>6, <2>10, <2>11, ServedBy
<1> QED BY <1>2, <1>3

-----------------------------------------------------------------------------
(* The client reads an answer.                                              *)

\* The commands of a burst are those next to be sent; sending them stays in the window and
\* below max_iter_num.
LEMMA BurstFacts ==
    ASSUME NEW known, IsFiniteSet(known), Cardinality(known) <= MaxAsync, NEW sent \in 0..MaxIter,
           NEW n, n = Cardinality(Burst(known, sent))
    PROVE  /\ n \in Nat /\ Burst(known, sent) = sent..(sent + n - 1)
           /\ sent + n \in 0..MaxIter /\ n <= MaxAsync - Cardinality(known)
           /\ IsFiniteSet(Burst(known, sent))
<1>1. PICK k : k = Cardinality(known)
    OBVIOUS
<1>2. k \in Nat /\ k <= MaxAsync /\ MaxAsync \in Nat /\ MaxIter \in Nat
    BY <1>1, SizesAssumption, FS_CardinalityType
<1>3. PICK m : m = IF MaxAsync - k < MaxIter - sent THEN MaxAsync - k ELSE MaxIter - sent
    OBVIOUS
<1>4. m \in Nat /\ m <= MaxAsync - k /\ sent + m \in 0..MaxIter /\ sent \in Int
    BY <1>2, <1>3
<1>5. Burst(known, sent) = sent..(sent + m - 1)
    BY <1>1, <1>3 DEF Burst
<1>6. IsFiniteSet(sent..(sent + m - 1)) /\ Cardinality(sent..(sent + m - 1)) = m
    <2>1. sent + m - 1 \in Int /\ (sent > sent + m - 1 => m = 0) /\ (sent + m - 1) - sent + 1 = m
        BY <1>4
    <2>2. /\ IsFiniteSet(sent..(sent + m - 1))
          /\ Cardinality(sent..(sent + m - 1)) =
                IF sent > sent + m - 1 THEN 0 ELSE (sent + m - 1) - sent + 1
        BY <1>4, <2>1, FS_Interval
    <2> QED BY <2>1, <2>2
<1> QED BY <1>1, <1>4, <1>5, <1>6

\* client_resp_cmd_handler, when the answer is the last one of f + 1.
LEMMA SendAllFacts ==
    ASSUME QueuesOK, NEW still, IsFiniteSet(DOMAIN still), Cardinality(DOMAIN still) <= MaxAsync,
           NEW sent \in 0..MaxIter, NEW e \in Nat, SendAll(still, sent, e)
    PROVE  /\ cnt' \in sent..MaxIter
           /\ DOMAIN confirmed' = DOMAIN still \cup sent..(cnt' - 1)
           /\ \A c \in DOMAIN confirmed' :
                 confirmed'[c] = IF c \in sent..(cnt' - 1) THEN 0 ELSE still[c]
           /\ Cardinality(DOMAIN confirmed') <= MaxAsync
           /\ DOMAIN reqs' = Replica
           /\ \A r \in Replica : Bursts(reqs'[r], reqs[r], sent, cnt' - sent, e)
<1>1. PICK n : n = Cardinality(Burst(DOMAIN still, sent))
    OBVIOUS
<1>2. /\ n \in Nat /\ Burst(DOMAIN still, sent) = sent..(sent + n - 1)
      /\ sent + n \in 0..MaxIter /\ n <= MaxAsync - Cardinality(DOMAIN still)
      /\ IsFiniteSet(Burst(DOMAIN still, sent))
    BY <1>1, BurstFacts
<1>3. cnt' = sent + n /\ cnt' - sent = n /\ cnt' \in sent..MaxIter
    <2>1. cnt' = sent + n
        BY <1>1 DEF SendAll
    <2> QED BY <1>2, <2>1
<1>4. /\ DOMAIN confirmed' = DOMAIN still \cup sent..(cnt' - 1)
      /\ \A c \in DOMAIN confirmed' :
            confirmed'[c] = IF c \in sent..(cnt' - 1) THEN 0 ELSE still[c]
    BY <1>2, <1>3 DEF SendAll
<1>5. Cardinality(DOMAIN confirmed') <= MaxAsync
    <2>1. PICK B : B = Burst(DOMAIN still, sent)
        OBVIOUS
    <2>2. DOMAIN confirmed' = DOMAIN still \cup B
        BY <2>1 DEF SendAll
    <2>3. IsFiniteSet(B) /\ Cardinality(B) = n
        BY <1>1, <1>2, <2>1
    <2>4. /\ Cardinality(DOMAIN still \cup B) =
                Cardinality(DOMAIN still) + Cardinality(B) - Cardinality(DOMAIN still \cap B)
          /\ IsFiniteSet(DOMAIN still \cap B)
        BY <2>3, FS_Union, FS_Intersection
    <2>5. Cardinality(DOMAIN still \cap B) \in Nat /\ Cardinality(DOMAIN still) \in Nat
        BY <2>4, FS_CardinalityType
    <2>6. MaxAsync \in Nat
        BY SizesAssumption
    <2> QED BY <1>2, <2>2, <2>3, <2>4, <2>5, <2>6
<1>6. /\ DOMAIN reqs' = Replica
      /\ \A r \in Replica : Bursts(reqs'[r], reqs[r], sent, cnt' - sent, e)
    BY <1>1, <1>3 DEF SendAll, Bursts
<1> QED BY <1>3, <1>4, <1>5, <1>6

\* The requests to q after a burst.
LEMMA BurstSent ==
    ASSUME NEW sent \in 0..MaxIter, NEW k \in sent..MaxIter, NEW last \in Nat, NEW e \in 0..last,
           NEW s \in Seq(Cmd \X (0..last)), NEW t, Bursts(t, s, sent, k - sent, e)
    PROVE  /\ t \in Seq(Cmd \X (0..last))
           /\ Range(Asks(t)) = Range(Asks(s)) \cup sent..(k - 1)
           /\ IsInjective(Asks(s)) /\ Range(Asks(s)) \cap sent..(k - 1) = {} => IsInjective(Asks(t))
<1>1. PICK n : n = k - sent
    OBVIOUS
<1>2. n \in Nat /\ sent \in Nat /\ sent + n - 1 = k - 1 /\ MaxIter \in Nat
    BY <1>1, SizesAssumption
<1> DEFINE S == Cmd \X (0..last)
<1>3. \A c \in sent..(sent + n - 1) : <<c, e>> \in S
    BY <1>1, <1>2 DEF Cmd
<1>4. Bursts(t, s, sent, n, e)
    BY <1>1
<1>5. /\ t \in Seq(S)
      /\ Range(Asks(t)) = Range(Asks(s)) \cup sent..(sent + n - 1)
      /\ IsInjective(Asks(s)) /\ Range(Asks(s)) \cap sent..(sent + n - 1) = {} => IsInjective(Asks(t))
    <2>1. n \in Nat /\ sent \in Nat /\ s \in Seq(S)
        BY <1>2
    <2> HIDE DEF S
    <2> QED BY <1>3, <1>4, <2>1, AddBurst
<1> QED BY <1>2, <1>5

\* What the client sends when it reads an answer: nothing or a burst.
Sends ==
    /\ cnt' \in cnt..MaxIter /\ DOMAIN reqs' = Replica
    /\ \A q \in Replica :
          /\ reqs'[q] \in Seq(Request)
          /\ Requested(q)' = Requested(q) \cup cnt..(cnt' - 1)
          /\ IsInjective(Asks(reqs[q])) /\ Requested(q) \cap cnt..(cnt' - 1) = {}
                => IsInjective(Asks(reqs[q]))'

LEMMA ReadSends ==
    ASSUME ClientOK, QueuesOK, NEW r \in Replica, ClientRespCmd(r)
    PROVE  ClientOK' /\ Sends
<1> DEFINE m == Head(resps[r])
           c == m.cmd
           still == Drop(confirmed, c)
<1>1. /\ epoch' = epoch /\ epoch \in 0..MaxRestart /\ MaxRestart \in Nat /\ cnt \in 0..MaxIter
      /\ MaxAsync \in Nat /\ MaxIter \in Nat
    BY RestartAssumption, SizesAssumption DEF ClientOK, ClientRespCmd
<1>2. IsFiniteSet(DOMAIN confirmed) /\ Cardinality(DOMAIN confirmed) <= MaxAsync
    <2>1. IsFiniteSet(0..(cnt - 1))
        BY <1>1, FS_Interval
    <2> QED BY <2>1, FS_Subset DEF ClientOK, Sent
<1>3. ASSUME UNCHANGED <<cnt, reqs>> PROVE Sends
    <2>1. cnt..(cnt' - 1) = {} /\ cnt' \in cnt..MaxIter
        BY <1>1, <1>3
    <2>2. \A q \in Replica : Requested(q)' = Requested(q)
        BY <1>3 DEF Requested
    <2>3. DOMAIN reqs' = Replica /\ \A q \in Replica : reqs'[q] \in Seq(Request)
        BY <1>3 DEF QueuesOK
    <2> QED BY <1>3, <2>1, <2>2, <2>3 DEF Sends
<1>4. CASE UNCHANGED <<cnt, confirmed, acked, reqs>>
    BY <1>1, <1>3, <1>4 DEF ClientOK, Sent
<1>5. ASSUME c \in DOMAIN confirmed, confirmed[c] < nfaulty,
             confirmed' = [confirmed EXCEPT ![c] = @ + 1], UNCHANGED <<cnt, acked, reqs>>
      PROVE  ClientOK' /\ Sends
    <2>1. confirmed[c] \in 0..nfaulty /\ nfaulty \in Nat
        BY <1>5, NfaultyIsNat DEF ClientOK
    <2>2. confirmed[c] + 1 \in 0..nfaulty
        BY <1>5, <2>1
    <2>3. DOMAIN confirmed' = DOMAIN confirmed
        BY <1>5
    <2>4. \A x \in DOMAIN confirmed : confirmed'[x] \in 0..nfaulty
        BY <1>5, <2>2 DEF ClientOK
    <2> QED BY <1>1, <1>3, <1>5, <2>3, <2>4 DEF ClientOK, Sent
<1>6. ASSUME c \in DOMAIN confirmed, acked' = acked \cup {c}, SendAll(still, cnt, epoch)
      PROVE  ClientOK' /\ Sends
    <2>1. DOMAIN still = DOMAIN confirmed \ {c} /\ \A x \in DOMAIN still : still[x] = confirmed[x]
        BY DEF Drop
    <2>2. IsFiniteSet(DOMAIN still) /\ Cardinality(DOMAIN still) <= MaxAsync
        <3>1. IsFiniteSet(DOMAIN still) /\ Cardinality(DOMAIN still) <= Cardinality(DOMAIN confirmed)
            BY <1>2, <2>1, FS_Subset
        <3>2. Cardinality(DOMAIN still) \in Nat /\ Cardinality(DOMAIN confirmed) \in Nat
            BY <1>2, <3>1, FS_CardinalityType
        <3> QED BY <1>1, <1>2, <3>1, <3>2
    <2> HIDE DEF still
    <2>3. /\ cnt' \in cnt..MaxIter
          /\ DOMAIN confirmed' = DOMAIN still \cup cnt..(cnt' - 1)
          /\ \A x \in DOMAIN confirmed' :
                confirmed'[x] = IF x \in cnt..(cnt' - 1) THEN 0 ELSE still[x]
          /\ Cardinality(DOMAIN confirmed') <= MaxAsync
          /\ DOMAIN reqs' = Replica
          /\ \A q \in Replica : Bursts(reqs'[q], reqs[q], cnt, cnt' - cnt, epoch)
        <3>1. epoch \in Nat /\ cnt \in 0..MaxIter
            BY <1>1
        <3> QED BY <1>6, <2>2, <3>1, SendAllFacts
    <2>4. Sent \subseteq Sent' /\ cnt..(cnt' - 1) \subseteq Sent' /\ cnt' \in 0..MaxIter
        <3>1. cnt \in 0..MaxIter /\ cnt' \in cnt..MaxIter /\ MaxIter \in Nat
            BY <1>1, <2>3
        <3>2. PICK j, k : j = cnt /\ k = cnt'
            OBVIOUS
        <3>3. j \in Nat /\ k \in Nat /\ j <= k /\ k <= MaxIter
            BY <3>1, <3>2
        <3>4. /\ \A x \in 0..(j - 1) : x \in 0..(k - 1)
              /\ \A x \in j..(k - 1) : x \in 0..(k - 1)
              /\ k \in 0..MaxIter
            BY <3>1, <3>3
        <3> QED BY <3>2, <3>4 DEF Sent
    <2>5. DOMAIN confirmed' \cup acked' \subseteq Sent'
        BY <1>6, <2>1, <2>3, <2>4 DEF ClientOK
    <2>6. \A x \in DOMAIN confirmed' : confirmed'[x] \in 0..nfaulty
        <3>1. 0 \in 0..nfaulty
            BY NfaultyIsNat
        <3> QED BY <2>1, <2>3, <3>1 DEF ClientOK
    <2>7. Sends
        <3>1. ASSUME NEW q \in Replica
              PROVE  /\ reqs'[q] \in Seq(Request)
                     /\ Range(Asks(reqs'[q])) = Range(Asks(reqs[q])) \cup cnt..(cnt' - 1)
                     /\ IsInjective(Asks(reqs[q])) /\ Range(Asks(reqs[q])) \cap cnt..(cnt' - 1) = {}
                           => IsInjective(Asks(reqs'[q]))
            <4>1. PICK s, t, k : s = reqs[q] /\ t = reqs'[q] /\ k = cnt'
                OBVIOUS
            <4>2. /\ Bursts(t, s, cnt, k - cnt, epoch)
                  /\ s \in Seq(Cmd \X (0..epoch)) /\ cnt \in 0..MaxIter /\ k \in cnt..MaxIter
                  /\ epoch \in Nat /\ epoch \in 0..epoch
                BY <1>1, <2>3, <4>1 DEF QueuesOK, Request
            <4>3. /\ t \in Seq(Cmd \X (0..epoch))
                  /\ Range(Asks(t)) = Range(Asks(s)) \cup cnt..(k - 1)
                  /\ IsInjective(Asks(s)) /\ Range(Asks(s)) \cap cnt..(k - 1) = {} => IsInjective(Asks(t))
                BY <4>2, BurstSent
            <4> QED BY <4>1, <4>3 DEF Request
        <3> QED BY <2>3, <3>1 DEF Sends, Requested
    <2>8. Cardinality(DOMAIN confirmed') <= MaxAsync /\ cnt' \in 0..MaxIter
        BY <2>3, <2>4
    <2> QED BY <1>1, <2>5, <2>6, <2>7, <2>8 DEF ClientOK
<1> QED BY <1>3, <1>4, <1>5, <1>6 DEF ClientRespCmd

\* The answer c of r is taken, and commands are sent.
ReadMoves(r, c) ==
    /\ Sends
    /\ c \in Answered(r) /\ Answered(r)' = Answered(r) \ {c} /\ IsInjective(Answers(resps[r]))'
    /\ \A q \in Replica \ {r} : resps'[q] = resps[q]
    /\ UNCHANGED <<cmd_pending, decision_waiting>>

LEMMA ReadIsMove ==
    ASSUME ClientOK, QueuesOK, NEW r \in Replica, OnePlace(r), ClientRespCmd(r)
    PROVE  ReadMoves(r, Head(resps[r]).cmd)
<1>1. PICK s, t : s = resps[r] /\ t = resps'[r]
    OBVIOUS
<1>2. /\ s # <<>> /\ t = Tail(s) /\ resps' = [resps EXCEPT ![r] = Tail(@)]
      /\ UNCHANGED <<cmd_pending, decision_waiting>>
    BY <1>1 DEF ClientRespCmd, QueuesOK, poolVars
<1>3. s \in Seq(Response) /\ IsInjective(Answers(s))
    BY <1>1 DEF QueuesOK, OnePlace
<1>4. /\ Head(s).cmd \in Range(Answers(s))
      /\ IsInjective(Answers(t)) /\ Range(Answers(t)) = Range(Answers(s)) \ {Head(s).cmd}
    BY <1>2, <1>3, TakeAnswer
<1>5. Answered(r) = Range(Answers(s)) /\ Answered(r)' = Range(Answers(t))
    BY <1>1 DEF Answered
<1>6. IsInjective(Answers(resps[r]))'
    BY <1>1, <1>4
<1> QED BY <1>1, <1>2, <1>4, <1>5, <1>6, ReadSends DEF ReadMoves, QueuesOK

\* Where the commands are then.
LEMMA ReadApart ==
    ASSUME ClientOK, \A q \in Replica : OnePlace(q), NEW r \in Replica, NEW c, ReadMoves(r, c)
    PROVE  /\ Sent \subseteq Sent' /\ c \in Sent /\ ~ Read(r, c) /\ Read(r, c)'
           /\ \A q \in Replica : OnePlace(q)' /\ Answered(q)' \subseteq Answered(q)
           /\ \A q \in Replica : \A x \in Sent' :
                 Read(q, x)' <=> (x \in Sent /\ Read(q, x)) \/ (q = r /\ x = c)
<1>1. PICK j, k : j = cnt /\ k = cnt'
    OBVIOUS
<1>2. j \in Nat /\ k \in Nat /\ j <= k
    <2>1. MaxIter \in Nat /\ cnt \in 0..MaxIter /\ cnt' \in cnt..MaxIter
        BY SizesAssumption DEF ClientOK, ReadMoves, Sends
    <2> QED BY <1>1, <2>1
<1>3. PICK new : new = j..(k - 1)
    OBVIOUS
<1>4. Sent' = Sent \cup new /\ Sent \cap new = {}
    <2>1. 0..(k - 1) = 0..(j - 1) \cup new /\ 0..(j - 1) \cap new = {}
        BY <1>2, <1>3
    <2> QED BY <1>1, <2>1 DEF Sent
<1>5. \A q \in Replica : /\ Requested(q)' = Requested(q) \cup new
                         /\ IsInjective(Asks(reqs[q])) /\ Requested(q) \cap new = {}
                               => IsInjective(Asks(reqs[q]))'
                         /\ Queued(q)' = Queued(q) /\ Waits(q)' = Waits(q)
                         /\ IsInjective(Asks(cmd_pending[q])) => IsInjective(Asks(cmd_pending[q]))'
    BY <1>1, <1>3 DEF ReadMoves, Sends, Queued, Waits
<1>6. ASSUME NEW q \in Replica
      PROVE  /\ Answered(q)' = IF q = r THEN Answered(q) \ {c} ELSE Answered(q)
             /\ IsInjective(Answers(resps[q]))'
    <2>1. CASE q = r
        BY <2>1 DEF ReadMoves
    <2>2. CASE q # r
        <3>1. resps'[q] = resps[q] /\ IsInjective(Answers(resps[q]))
            BY <2>2 DEF ReadMoves, OnePlace
        <3> QED BY <2>2, <3>1 DEF Answered
    <2> QED BY <2>1, <2>2
<1>7. c \in Answered(r)
    BY DEF ReadMoves
<1>8. ASSUME NEW q \in Replica PROVE OnePlace(q)'
    <2>1. OnePlace(q)
        OBVIOUS
    <2>2. Requested(q) \subseteq Sent /\ Queued(q) \subseteq Sent /\ Waits(q) \subseteq Sent
          /\ Answered(q) \subseteq Sent
        BY <2>1 DEF OnePlace
    <2>3. /\ IsInjective(Asks(reqs[q]))' /\ IsInjective(Asks(cmd_pending[q]))'
          /\ IsInjective(Answers(resps[q]))'
        BY <1>4, <1>5, <1>6, <2>1, <2>2 DEF OnePlace
    <2>4. Answered(q)' \subseteq Answered(q)
        BY <1>6
    <2>5. /\ Requested(q) \cap Queued(q) = {} /\ Waits(q) \cap Answered(q) = {}
          /\ (Requested(q) \cup Queued(q)) \cap (Waits(q) \cup Answered(q)) = {}
        BY <2>1 DEF OnePlace
    <2>6. /\ Requested(q)' \cap Queued(q)' = {} /\ Waits(q)' \cap Answered(q)' = {}
          /\ (Requested(q)' \cup Queued(q)') \cap (Waits(q)' \cup Answered(q)') = {}
          /\ Requested(q)' \cup Queued(q)' \cup Waits(q)' \cup Answered(q)' \subseteq Sent'
        BY <1>4, <1>5, <2>2, <2>4, <2>5
    <2> QED BY <2>3, <2>6 DEF OnePlace
<1>9. c \in Sent /\ ~ Read(r, c)
    BY <1>7 DEF OnePlace, Read
<1>10. ASSUME NEW q \in Replica, NEW x \in Sent'
       PROVE  Read(q, x)' <=> (x \in Sent /\ Read(q, x)) \/ (q = r /\ x = c)
    <2>1. x \notin Requested(r) \cup Queued(r) \cup Waits(r) \/ x # c
        BY <1>7 DEF OnePlace
    <2>2. x \in new => x \notin Sent
        BY <1>4
    <2> QED BY <1>4, <1>5, <1>6, <1>7, <1>9, <2>1, <2>2 DEF Read
<1>11. Read(r, c)'
    BY <1>4, <1>9, <1>10
<1> QED BY <1>4, <1>6, <1>8, <1>9, <1>10, <1>11

LEMMA ReadServes ==
    ASSUME ClientOK, QueuesOK, NEW E, NEW E2, Served(E), \A q \in Replica : E[q] \subseteq E2[q],
           NEW r \in Replica, ClientRespCmd(r)
    PROVE  Served(E2)'
<1> DEFINE c == Head(resps[r]).cmd
<1>1. ReadMoves(r, c)
    BY ReadIsMove DEF Served
<1>2. PICK x : x = c
    OBVIOUS
<1>3. /\ Sent \subseteq Sent' /\ x \in Sent /\ ~ Read(r, x) /\ Read(r, x)'
      /\ \A q \in Replica : OnePlace(q)' /\ Answered(q)' \subseteq Answered(q)
      /\ \A q \in Replica : \A y \in Sent' :
            Read(q, y)' <=> (y \in Sent /\ Read(q, y)) \/ (q = r /\ y = x)
    <2>1. \A q \in Replica : OnePlace(q)
        BY DEF Served
    <2> QED BY <1>1, <1>2, <2>1, ReadApart
<1>4. \A q \in Replica : Answered(q)' \subseteq E2[q]
    BY <1>3 DEF Served
<1>5. x \in E2[r]
    BY <1>1, <1>2 DEF ReadMoves, Served
<1>6. \A q \in Replica : \A y \in Sent' : Read(q, y)' => y \in E2[q]
    BY <1>3, <1>5 DEF Served
<1>7. ASSUME NEW y
      PROVE  IsFiniteSet(ReadOf(y)) /\ Cardinality(ReadOf(y)) \in Nat
             /\ IsFiniteSet(ReadOf(y)') /\ Cardinality(ReadOf(y)') \in Nat
    <2>1. ReadOf(y) \subseteq Replica /\ ReadOf(y)' \subseteq Replica
        BY DEF ReadOf
    <2> QED BY <2>1, ReplicaAssumption, FS_Subset, FS_CardinalityType
<1>8. \A y \in Sent : y # x => ReadOf(y)' = ReadOf(y)
    BY <1>3 DEF ReadOf
<1>9. Cardinality(ReadOf(x)') = Cardinality(ReadOf(x)) + 1
    <2>1. ReadOf(x)' = ReadOf(x) \cup {r} /\ r \notin ReadOf(x)
        BY <1>3 DEF ReadOf
    <2> QED BY <1>7, <2>1, FS_AddElement
<1>10. \A y \in Sent : Cardinality(ReadOf(y)) <= Cardinality(ReadOf(y)')
    <2>1. \A y \in Sent : y # x => Cardinality(ReadOf(y)) = Cardinality(ReadOf(y)')
        BY <1>8
    <2> QED BY <1>7, <1>9, <2>1
<1> DEFINE Counted == /\ \A y \in DOMAIN confirmed' : confirmed'[y] <= Cardinality(ReadOf(y)')
                      /\ \A y \in acked' : Cardinality(ReadOf(y)') > nfaulty
<1>11. /\ DOMAIN confirmed \cup acked \subseteq Sent /\ nfaulty \in Nat
       /\ \A y \in DOMAIN confirmed : /\ confirmed[y] \in 0..nfaulty
                                      /\ confirmed[y] <= Cardinality(ReadOf(y)')
       /\ \A y \in acked : Cardinality(ReadOf(y)') > nfaulty
    <2>1. DOMAIN confirmed \cup acked \subseteq Sent /\ nfaulty \in Nat
          /\ \A y \in DOMAIN confirmed : confirmed[y] \in 0..nfaulty
        BY NfaultyIsNat DEF ClientOK
    <2>2. /\ \A y \in DOMAIN confirmed : confirmed[y] <= Cardinality(ReadOf(y))
          /\ \A y \in acked : Cardinality(ReadOf(y)) > nfaulty
        BY DEF Served
    <2>3. /\ \A y \in DOMAIN confirmed : y \in Sent
          /\ \A y \in acked : y \in Sent
        BY <2>1
    <2>4. ASSUME NEW y \in DOMAIN confirmed PROVE confirmed[y] <= Cardinality(ReadOf(y)')
        BY <1>7, <1>10, <2>1, <2>2, <2>3
    <2>5. ASSUME NEW y \in acked PROVE Cardinality(ReadOf(y)') > nfaulty
        BY <1>7, <1>10, <2>1, <2>2, <2>3
    <2> QED BY <2>1, <2>4, <2>5
<1>12. ASSUME UNCHANGED <<cnt, confirmed, acked, reqs>> PROVE Counted
    BY <1>11, <1>12
<1>13. ASSUME x \in DOMAIN confirmed, confirmed' = [confirmed EXCEPT ![x] = @ + 1], acked' = acked
       PROVE  Counted
    <2>1. confirmed[x] <= Cardinality(ReadOf(x)) /\ confirmed[x] \in Nat
        BY <1>11, <1>13 DEF Served
    <2>2. confirmed[x] + 1 <= Cardinality(ReadOf(x)')
        BY <1>7, <1>9, <2>1
    <2>3. DOMAIN confirmed' = DOMAIN confirmed
        BY <1>13
    <2>4. \A y \in DOMAIN confirmed : confirmed'[y] = IF y = x THEN confirmed[x] + 1 ELSE confirmed[y]
        BY <1>13
    <2> QED BY <1>11, <1>13, <2>2, <2>3, <2>4
<1>14. ASSUME x \in DOMAIN confirmed, ~ confirmed[x] < nfaulty,
              acked' = acked \cup {x}, SendAll(Drop(confirmed, x), cnt, epoch)
       PROVE  Counted
    <2>1. confirmed[x] = nfaulty /\ confirmed[x] <= Cardinality(ReadOf(x))
        BY <1>11, <1>14 DEF Served
    <2>2. Cardinality(ReadOf(x)') > nfaulty
        BY <1>7, <1>9, <1>11, <2>1
    <2>3. ASSUME NEW y \in DOMAIN confirmed'
          PROVE  \/ confirmed'[y] = 0
                 \/ y \in DOMAIN confirmed /\ confirmed'[y] = confirmed[y]
        BY <1>14, <2>3 DEF SendAll, Drop
    <2>4. ASSUME NEW y \in DOMAIN confirmed' PROVE confirmed'[y] <= Cardinality(ReadOf(y)')
        <3>1. Cardinality(ReadOf(y)') >= 0
            BY <1>7
        <3> QED BY <1>11, <2>3, <3>1
    <2> QED BY <1>11, <1>14, <2>2, <2>4
<1>15. Counted
    BY <1>2, <1>12, <1>13, <1>14 DEF ClientRespCmd
<1> QED BY <1>3, <1>4, <1>6, <1>15 DEF Served

-----------------------------------------------------------------------------
(* The types of the queues.                                                 *)

\* Those of one replica,
QueueOK(r) ==
    /\ reqs[r] \in Seq(Request) /\ cmd_pending[r] \in Seq(Request)
    /\ Waits(r) \subseteq Cmd /\ decision_waiting[r] \in [Waits(r) -> 0..epoch]
    /\ resps[r] \in Seq(Response)

\* when nothing is done to the others.
LEMMA QueuesBy ==
    ASSUME ClientOK, QueuesOK, NEW r \in Replica, epoch' = epoch, Only(r), QueueOK(r)',
           DOMAIN reqs' = Replica, DOMAIN cmd_pending' = Replica,
           DOMAIN decision_waiting' = Replica, DOMAIN resps' = Replica
    PROVE  ClientOK' /\ QueuesOK'
<1>1. Request' = Request /\ Response' = Response
    BY DEF Request, Response
<1>2. ClientOK'
    BY DEF ClientOK, Only, Sent
<1>3. ASSUME NEW q \in Replica PROVE QueueOK(q)'
    <2>1. CASE q # r
        <3>1. /\ reqs'[q] = reqs[q] /\ cmd_pending'[q] = cmd_pending[q]
              /\ decision_waiting'[q] = decision_waiting[q] /\ resps'[q] = resps[q]
            BY <2>1 DEF Only
        <3>2. Waits(q)' = Waits(q)
            BY <3>1 DEF Waits
        <3>3. QueueOK(q)
            BY DEF QueuesOK, QueueOK
        <3> QED BY <1>1, <3>1, <3>2, <3>3 DEF QueueOK
    <2> QED BY <2>1
<1> QED BY <1>2, <1>3 DEF QueuesOK, QueueOK

LEMMA RequestKeeps ==
    ASSUME ClientOK, QueuesOK, NEW r \in Replica, ClientRequestCmd(r)
    PROVE  ClientOK' /\ QueuesOK'
<1>1. /\ reqs[r] # <<>> /\ reqs' = [reqs EXCEPT ![r] = Tail(@)]
      /\ cmd_pending' = [cmd_pending EXCEPT ![r] = Append(@, Head(reqs[r]))]
      /\ epoch' = epoch /\ UNCHANGED <<cnt, confirmed, acked, decision_waiting, resps>>
    BY DEF ClientRequestCmd, clientVars
<1>2. PICK s, u, x : s = reqs[r] /\ u = cmd_pending[r] /\ x = Head(s)
    OBVIOUS
<1>3. s \in Seq(Request) /\ u \in Seq(Request) /\ s # <<>>
    BY <1>1, <1>2 DEF QueuesOK
<1>4. Tail(s) \in Seq(Request) /\ x \in Request
    BY <1>2, <1>3
<1>5. Append(u, x) \in Seq(Request)
    BY <1>3, <1>4
<1>6. reqs'[r] = Tail(s) /\ cmd_pending'[r] = Append(u, x) /\ Only(r)
    BY <1>1, <1>2 DEF QueuesOK, Only
<1>7. QueueOK(r)'
    BY <1>1, <1>4, <1>5, <1>6 DEF QueueOK, QueuesOK, Request, Response, Waits
<1>8. /\ DOMAIN reqs' = Replica /\ DOMAIN cmd_pending' = Replica
      /\ DOMAIN decision_waiting' = Replica /\ DOMAIN resps' = Replica
    BY <1>1 DEF QueuesOK
<1> QED BY <1>1, <1>6, <1>7, <1>8, QueuesBy

LEMMA RegisterKeeps ==
    ASSUME ClientOK, QueuesOK, NEW r \in Replica, Registers(r)
    PROVE  ClientOK' /\ QueuesOK'
<1>1. PICK u, s, c, e : /\ u = cmd_pending[r] /\ s = resps[r]
                        /\ c = Head(u)[1] /\ e = Head(u)[2]
    OBVIOUS
<1>2. /\ u # <<>> /\ cmd_pending' = [cmd_pending EXCEPT ![r] = Tail(@)]
      /\ epoch' = epoch /\ UNCHANGED <<cnt, confirmed, acked, reqs>>
      /\ \/ /\ resps' = [resps EXCEPT ![r] = Append(@, [cmd |-> c, decision |-> 0, epoch |-> e])]
            /\ decision_waiting' = decision_waiting
         \/ /\ decision_waiting' = [decision_waiting EXCEPT ![r] =
                   [y \in DOMAIN @ \cup {c} |-> IF y = c THEN e ELSE @[y]]]
            /\ resps' = resps
    BY <1>1 DEF Registers, Answer, clientVars
<1>3. u \in Seq(Request) /\ s \in Seq(Response)
    BY <1>1 DEF QueuesOK
<1>4. Tail(u) \in Seq(Request) /\ Head(u) \in Request
    BY <1>2, <1>3
<1>5. c \in Cmd /\ e \in 0..epoch
    BY <1>1, <1>4 DEF Request
<1>6. [cmd |-> c, decision |-> 0, epoch |-> e] \in Response
    BY <1>5 DEF Response
<1>7. cmd_pending'[r] = Tail(u) /\ Only(r)
    BY <1>1, <1>2 DEF QueuesOK, Only
<1>8. resps'[r] \in Seq(Response) /\ DOMAIN resps' = Replica
    <2>1. Append(s, [cmd |-> c, decision |-> 0, epoch |-> e]) \in Seq(Response)
        BY <1>3, <1>6
    <2> QED BY <1>1, <1>2, <1>3, <2>1 DEF QueuesOK
<1>9. /\ Waits(r)' \subseteq Cmd /\ decision_waiting'[r] \in [Waits(r)' -> 0..epoch]
      /\ DOMAIN decision_waiting' = Replica
    <2>1. decision_waiting[r] \in [Waits(r) -> 0..epoch] /\ Waits(r) \subseteq Cmd
        BY DEF QueuesOK
    <2>2. CASE decision_waiting' = decision_waiting
        BY <2>1, <2>2 DEF Waits, QueuesOK
    <2>3. CASE decision_waiting' = [decision_waiting EXCEPT ![r] =
                   [y \in DOMAIN @ \cup {c} |-> IF y = c THEN e ELSE @[y]]]
        <3>1. decision_waiting'[r] = [y \in Waits(r) \cup {c} |-> IF y = c THEN e ELSE decision_waiting[r][y]]
              /\ DOMAIN decision_waiting' = Replica
            BY <2>3 DEF Waits, QueuesOK
        <3>2. Waits(r)' = Waits(r) \cup {c}
            BY <3>1 DEF Waits
        <3> QED BY <1>5, <2>1, <3>1, <3>2
    <2> QED BY <1>2, <2>2, <2>3
<1>10. QueueOK(r)'
    <2>1. reqs'[r] \in Seq(Request) /\ cmd_pending'[r] \in Seq(Request)
        BY <1>2, <1>4, <1>7 DEF QueuesOK
    <2>2. Request' = Request /\ Response' = Response
        BY <1>2 DEF Request, Response
    <2> QED BY <1>2, <1>8, <1>9, <2>1, <2>2 DEF QueueOK
<1>11. DOMAIN reqs' = Replica /\ DOMAIN cmd_pending' = Replica
    BY <1>2 DEF QueuesOK
<1>12. DOMAIN decision_waiting' = Replica /\ DOMAIN resps' = Replica /\ epoch' = epoch
    BY <1>2, <1>8, <1>9
<1> QED BY <1>7, <1>10, <1>11, <1>12, QueuesBy

LEMMA CallbackKeeps ==
    ASSUME ClientOK, QueuesOK, NEW r \in Replica, NEW c, CallsBack(r, c)
    PROVE  ClientOK' /\ QueuesOK'
<1>1. epoch' = epoch /\ UNCHANGED <<cnt, confirmed, acked, cmd_pending, reqs>>
    BY DEF CallsBack, clientVars
<1>2. \/ resps' = resps /\ decision_waiting' = decision_waiting
      \/ /\ c \in Waits(r)
         /\ resps' = [resps EXCEPT ![r] =
                         Append(@, [cmd |-> c, decision |-> 1, epoch |-> decision_waiting[r][c]])]
         /\ decision_waiting' = [decision_waiting EXCEPT ![r] = Drop(@, c)]
    BY DEF CallsBack, Answer
<1>3. decision_waiting[r] \in [Waits(r) -> 0..epoch] /\ Waits(r) \subseteq Cmd /\ resps[r] \in Seq(Response)
    BY DEF QueuesOK
<1>4. DOMAIN resps' = Replica /\ DOMAIN decision_waiting' = Replica
    BY <1>2 DEF QueuesOK
<1>5. Only(r)
    BY <1>1, <1>2 DEF Only, QueuesOK
<1>6. resps'[r] \in Seq(Response)
    <2>1. CASE resps' = resps
        BY <1>3, <2>1
    <2>2. CASE /\ c \in Waits(r)
               /\ resps' = [resps EXCEPT ![r] =
                         Append(@, [cmd |-> c, decision |-> 1, epoch |-> decision_waiting[r][c]])]
        <3>1. [cmd |-> c, decision |-> 1, epoch |-> decision_waiting[r][c]] \in Response
            BY <1>3, <2>2 DEF Response
        <3>2. Append(resps[r], [cmd |-> c, decision |-> 1, epoch |-> decision_waiting[r][c]])
                 \in Seq(Response)
            BY <1>3, <3>1
        <3> QED BY <2>2, <3>2 DEF QueuesOK
    <2> QED BY <1>2, <2>1, <2>2
<1>7. Waits(r)' \subseteq Cmd /\ decision_waiting'[r] \in [Waits(r)' -> 0..epoch]
    <2>1. CASE decision_waiting' = decision_waiting
        BY <1>3, <2>1 DEF Waits
    <2>2. CASE decision_waiting' = [decision_waiting EXCEPT ![r] = Drop(@, c)]
        <3>1. decision_waiting'[r] = [y \in Waits(r) \ {c} |-> decision_waiting[r][y]]
            BY <2>2 DEF Waits, QueuesOK, Drop
        <3>2. Waits(r)' = Waits(r) \ {c}
            BY <3>1 DEF Waits
        <3> QED BY <1>3, <3>1, <3>2
    <2> QED BY <1>2, <2>1, <2>2
<1>8. QueueOK(r)'
    <2>1. reqs'[r] \in Seq(Request) /\ cmd_pending'[r] \in Seq(Request)
        BY <1>1 DEF QueuesOK
    <2>2. Request' = Request /\ Response' = Response
        BY <1>1 DEF Request, Response
    <2> QED BY <1>1, <1>6, <1>7, <2>1, <2>2 DEF QueueOK
<1>9. DOMAIN reqs' = Replica /\ DOMAIN cmd_pending' = Replica
    BY <1>1 DEF QueuesOK
<1> QED BY <1>1, <1>4, <1>5, <1>8, <1>9, QueuesBy

LEMMA ReadKeeps ==
    ASSUME ClientOK, QueuesOK, NEW r \in Replica, ClientRespCmd(r)
    PROVE  ClientOK' /\ QueuesOK'
<1>1. /\ resps[r] # <<>> /\ resps' = [resps EXCEPT ![r] = Tail(@)]
      /\ epoch' = epoch /\ UNCHANGED <<cmd_pending, decision_waiting>>
    BY DEF ClientRespCmd, poolVars
<1>2. ClientOK' /\ Sends
    BY ReadSends
<1>3. DOMAIN resps' = Replica /\ \A q \in Replica : resps'[q] \in Seq(Response)
    <2>1. resps[r] \in Seq(Response) /\ resps[r] # <<>>
        BY <1>1 DEF QueuesOK
    <2>2. Tail(resps[r]) \in Seq(Response)
        BY <2>1
    <2> QED BY <1>1, <2>2 DEF QueuesOK
<1>4. DOMAIN reqs' = Replica /\ \A q \in Replica : reqs'[q] \in Seq(Request)
    BY <1>2 DEF Sends
<1>5. Request' = Request /\ Response' = Response
    BY <1>1 DEF Request, Response
<1>6. /\ DOMAIN cmd_pending' = Replica /\ DOMAIN decision_waiting' = Replica
      /\ \A q \in Replica : /\ cmd_pending'[q] \in Seq(Request) /\ Waits(q)' \subseteq Cmd
                            /\ decision_waiting'[q] \in [Waits(q)' -> 0..epoch]
    BY <1>1 DEF QueuesOK, Waits
<1> QED BY <1>1, <1>2, <1>3, <1>4, <1>5, <1>6 DEF QueuesOK

-----------------------------------------------------------------------------
(* What leaves the queues.                                                  *)

LEMMA OnlyLeaves ==
    ASSUME NEW r \in Replica, Only(r), NEW q \in Replica, q # r
    PROVE  Left(q)' = Left(q)
<1>1. cnt' = cnt /\ reqs'[q] = reqs[q] /\ cmd_pending'[q] = cmd_pending[q]
    BY DEF Only
<1> QED BY <1>1 DEF Left, Sent, Requested, Queued

LEMMA RequestLeaves ==
    ASSUME QueuesOK, NEW r \in Replica, OnePlace(r), ClientRequestCmd(r), NEW q \in Replica
    PROVE  Left(q)' = Left(q)
<1>1. PICK c : RequestMoves(r, c)
    BY RequestIsMove
<1>2. Left(r)' = Left(r)
    BY <1>1 DEF RequestMoves, Left, Only, Sent
<1> QED BY <1>1, <1>2, OnlyLeaves DEF RequestMoves

LEMMA RegisterLeaves ==
    ASSUME QueuesOK, NEW r \in Replica, OnePlace(r), Registers(r), NEW c, c = Head(cmd_pending[r])[1]
    PROVE  /\ c \notin Left(r) /\ Left(r)' = Left(r) \cup {c}
           /\ \A q \in Replica : q # r => Left(q)' = Left(q)
<1>1. RegisterMoves(r, c)
    BY RegisterIsMove
<1>2. c \in Queued(r) /\ c \notin Requested(r) /\ c \in Sent
    BY <1>1 DEF RegisterMoves, OnePlace
<1>3. Left(r)' = Left(r) \cup {c}
    BY <1>1, <1>2 DEF RegisterMoves, Left, Only, Sent
<1> QED BY <1>1, <1>2, <1>3, OnlyLeaves DEF RegisterMoves, Left

LEMMA CallbackLeaves ==
    ASSUME NEW r \in Replica, NEW c, CallsBack(r, c), NEW q \in Replica
    PROVE  Left(q)' = Left(q)
BY DEF CallsBack, clientVars, Left, Sent, Requested, Queued

LEMMA ReadLeaves ==
    ASSUME ClientOK, QueuesOK, \A q \in Replica : OnePlace(q), NEW r \in Replica, ClientRespCmd(r),
           NEW q \in Replica
    PROVE  Left(q)' = Left(q)
<1>1. Sends /\ cmd_pending' = cmd_pending
    BY ReadSends DEF ClientRespCmd, poolVars
<1>2. PICK j, k : j = cnt /\ k = cnt'
    OBVIOUS
<1>3. j \in Nat /\ k \in Nat /\ j <= k
    <2>1. MaxIter \in Nat /\ cnt \in 0..MaxIter /\ cnt' \in cnt..MaxIter
        BY <1>1, SizesAssumption DEF ClientOK, Sends
    <2> QED BY <1>2, <2>1
<1>4. 0..(k - 1) = 0..(j - 1) \cup j..(k - 1) /\ 0..(j - 1) \cap j..(k - 1) = {}
    BY <1>3
<1>5. /\ Requested(q)' = Requested(q) \cup j..(k - 1) /\ Queued(q)' = Queued(q)
      /\ Queued(q) \subseteq Sent
    BY <1>1, <1>2 DEF Sends, Queued, OnePlace
<1> QED BY <1>2, <1>4, <1>5 DEF Left, Sent

-----------------------------------------------------------------------------
(* The blocks.                                                              *)

LEMMA HandleIsRegister ==
    ASSUME NEW r, HandlePending(r)
    PROVE  Registers(r)
BY DEF HandlePending, Registers, Waits

\* What the proposer does with a command: f is its buffer, full or not, with c at the end.
Fills(f) ==
    \/ /\ Len(f) < BlkSize /\ log' = log /\ done' = done
       /\ buffer' = [buffer EXCEPT ![Proposer] = f]
    \/ /\ Len(f) = BlkSize /\ NewBlock(f)
       /\ buffer' = [buffer EXCEPT ![Proposer] = <<>>]

LEMMA HandleFills ==
    ASSUME BlocksOK, NEW c \in Cmd, NEW f, Extends(f, buffer[Proposer], c),
           HandlePending(Proposer), c = Head(cmd_pending[Proposer])[1]
    PROVE  f \in Seq(Cmd) /\ Len(f) \in 1..BlkSize /\ Fills(f)
<1>1. /\ f = Append(buffer[Proposer], c) /\ buffer[Proposer] \in Seq(Cmd)
      /\ Len(buffer[Proposer]) < BlkSize /\ BlkSize \in Nat \ {0}
    BY ProposerAssumption, SizesAssumption DEF Extends, BlocksOK
<1>2. f \in Seq(Cmd) /\ Len(f) \in 1..BlkSize /\ f # <<>>
    BY <1>1
<1>3. \/ /\ Len(f) < BlkSize /\ UNCHANGED <<log, done>>
         /\ buffer' = [buffer EXCEPT ![Proposer] = f]
      \/ /\ ~ Len(f) < BlkSize /\ NewBlock(SubSeq(f, 1, BlkSize))
         /\ buffer' = [buffer EXCEPT ![Proposer] = SubSeq(f, BlkSize + 1, Len(f))]
    BY <1>1 DEF HandlePending
<1>4. ASSUME Len(f) = BlkSize
      PROVE  SubSeq(f, 1, BlkSize) = f /\ SubSeq(f, BlkSize + 1, Len(f)) = <<>>
    BY <1>1, <1>2, <1>4
<1>5. CASE Len(f) < BlkSize
    BY <1>2, <1>3, <1>5 DEF Fills
<1>6. CASE ~ Len(f) < BlkSize
    <2>1. Len(f) = BlkSize
        BY <1>1, <1>2, <1>6
    <2>2. /\ NewBlock(SubSeq(f, 1, BlkSize))
          /\ buffer' = [buffer EXCEPT ![Proposer] = SubSeq(f, BlkSize + 1, Len(f))]
        BY <1>3, <1>6
    <2>3. NewBlock(f) /\ buffer' = [buffer EXCEPT ![Proposer] = <<>>]
        BY <1>4, <2>1, <2>2
    <2> QED BY <1>2, <2>1, <2>3 DEF Fills
<1> QED BY <1>5, <1>6

\* The log with one more block.
LEMMA BlockAdded ==
    ASSUME BlocksOK, NEW f \in Seq(Cmd), NewBlock(f)
    PROVE  /\ Len(log) \in Nat /\ DOMAIN log = 1..Len(log) /\ log' \in Seq(Seq(Cmd))
           /\ Len(log') = Len(log) + 1 /\ DOMAIN log' = 1..(Len(log) + 1)
           /\ log'[Len(log) + 1] = f /\ \A i \in DOMAIN log : i # Len(log) + 1 /\ log'[i] = log[i]
           /\ DOMAIN done' = Replica
           /\ \A r \in Replica : /\ done'[r] \in Seq(Nat) /\ Len(done'[r]) = Len(log')
                                 /\ done'[r][Len(log) + 1] = 0
                                 /\ \A i \in DOMAIN log : done'[r][i] = done[r][i]
<1>1. log \in Seq(Seq(Cmd)) /\ log' = Append(log, f)
    BY DEF BlocksOK, NewBlock
<1>2. /\ Len(log) \in Nat /\ DOMAIN log = 1..Len(log) /\ log' \in Seq(Seq(Cmd))
      /\ Len(log') = Len(log) + 1 /\ DOMAIN log' = 1..(Len(log) + 1)
      /\ log'[Len(log) + 1] = f /\ \A i \in DOMAIN log : i # Len(log) + 1 /\ log'[i] = log[i]
    <2>1. PICK l, m, n : l = log /\ m = log' /\ n = Len(log)
        OBVIOUS
    <2>2. l \in Seq(Seq(Cmd)) /\ m = Append(l, f) /\ n = Len(l)
        BY <1>1, <2>1
    <2>3. /\ n \in Nat /\ DOMAIN l = 1..n /\ m \in Seq(Seq(Cmd)) /\ Len(m) = n + 1
          /\ DOMAIN m = 1..(n + 1) /\ m[n + 1] = f
        BY <2>2
    <2>4. \A i \in 1..n : i # n + 1 /\ m[i] = l[i]
        BY <2>2, <2>3
    <2> QED BY <2>1, <2>3, <2>4
<1>3. ASSUME NEW r \in Replica
      PROVE  /\ done'[r] \in Seq(Nat) /\ Len(done'[r]) = Len(log')
             /\ done'[r][Len(log) + 1] = 0
             /\ \A i \in DOMAIN log : done'[r][i] = done[r][i]
    <2>1. PICK d, e, n : d = done[r] /\ e = done'[r] /\ n = Len(log)
        OBVIOUS
    <2>2. d \in Seq(Nat) /\ Len(d) = n /\ e = Append(d, 0)
        BY <2>1 DEF BlocksOK, NewBlock
    <2>3. /\ e \in Seq(Nat) /\ Len(e) = n + 1 /\ e[n + 1] = 0
          /\ \A i \in 1..n : e[i] = d[i]
        BY <2>2
    <2> QED BY <1>2, <2>1, <2>3
<1>4. DOMAIN done' = Replica
    BY DEF NewBlock
<1> QED BY <1>2, <1>3, <1>4

LEMMA FillsKeeps ==
    ASSUME BlocksOK, NEW f \in Seq(Cmd), Fills(f)
    PROVE  BlocksOK'
<1>1. BlkSize \in Nat \ {0}
    BY SizesAssumption
<1>2. CASE /\ Len(f) < BlkSize /\ log' = log /\ done' = done
           /\ buffer' = [buffer EXCEPT ![Proposer] = f]
    BY <1>2 DEF BlocksOK
<1>3. CASE /\ Len(f) = BlkSize /\ NewBlock(f)
           /\ buffer' = [buffer EXCEPT ![Proposer] = <<>>]
    <2>1. PICK n : n = Len(log)
        OBVIOUS
    <2>2. /\ n \in Nat /\ DOMAIN log = 1..n /\ log' \in Seq(Seq(Cmd))
          /\ Len(log') = n + 1 /\ DOMAIN log' = 1..(n + 1)
          /\ log'[n + 1] = f /\ \A i \in 1..n : log'[i] = log[i]
          /\ DOMAIN done' = Replica
          /\ \A r \in Replica : /\ done'[r] \in Seq(Nat) /\ Len(done'[r]) = Len(log')
                                /\ done'[r][n + 1] = 0
                                /\ \A i \in 1..n : done'[r][i] = done[r][i]
        BY <1>3, <2>1, BlockAdded
    <2>3. \A i \in 1..(n + 1) : i \in 1..n \/ i = n + 1
        BY <2>2
    <2>4. \A i \in DOMAIN log' : Len(log'[i]) = BlkSize
        BY <1>3, <2>2, <2>3 DEF BlocksOK
    <2>5. ASSUME NEW r \in Replica, NEW i \in 1..(n + 1) PROVE done'[r][i] <= BlkSize
        <3>1. CASE i \in 1..n
            BY <2>2, <3>1 DEF BlocksOK
        <3>2. CASE i = n + 1
            <4>1. done'[r][i] = 0
                BY <2>2, <3>2
            <4> QED BY <1>1, <4>1
        <3> QED BY <2>3, <3>1, <3>2
    <2>6. /\ DOMAIN buffer' = Replica
          /\ \A r \in Replica : buffer'[r] \in Seq(Cmd) /\ Len(buffer'[r]) < BlkSize
        <3>1. <<>> \in Seq(Cmd) /\ Len(<<>>) < BlkSize
            BY <1>1
        <3>2. DOMAIN buffer' = Replica
            BY <1>3 DEF BlocksOK
        <3>3. \A r \in Replica : buffer'[r] = IF r = Proposer THEN <<>> ELSE buffer[r]
            BY <1>3 DEF BlocksOK
        <3> QED BY <3>1, <3>2, <3>3 DEF BlocksOK
    <2> QED BY <2>2, <2>4, <2>5, <2>6 DEF BlocksOK
<1> QED BY <1>2, <1>3 DEF Fills

\* A command that has not left the queue before is then in one place.
LEMMA FillsOnce ==
    ASSUME BlocksOK, TakenOnce, NEW c \in Cmd, NEW f, Extends(f, buffer[Proposer], c), Fills(f),
           c \notin Left(Proposer), Left(Proposer)' = Left(Proposer) \cup {c}
    PROVE  TakenOnce'
<1>1. PICK b, n : b = buffer[Proposer] /\ n = Len(b)
    OBVIOUS
<1>2. /\ f = Append(b, c) /\ b \in Seq(Cmd) /\ n \in Nat /\ DOMAIN b = 1..n
      /\ f \in Seq(Cmd) /\ Len(f) = n + 1 /\ DOMAIN f = 1..(n + 1) /\ f[n + 1] = c
      /\ \A i \in 1..n : f[i] = b[i]
    <2>1. f = Append(b, c) /\ b \in Seq(Cmd)
        BY <1>1, ProposerAssumption DEF Extends, BlocksOK
    <2>2. n \in Nat /\ DOMAIN b = 1..n /\ f \in Seq(Cmd) /\ Len(f) = n + 1 /\ DOMAIN f = 1..(n + 1)
        BY <1>1, <2>1
    <2> QED BY <1>1, <2>1, <2>2
<1>3. /\ \A x : InLog(x) \/ x \in Range(b) <=> x \in Left(Proposer)
      /\ IsInjective(b) /\ \A x \in Range(b) : ~ InLog(x)
    BY <1>1 DEF TakenOnce
<1>4. ~ InLog(c) /\ c \notin Range(b)
    BY <1>3
<1>5. Range(f) = Range(b) \cup {c} /\ IsInjective(f)
    <2>1. n \in Nat
        BY <1>2
    <2>2. /\ Range(f) = Range(b) \cup {f[n + 1]}
          /\ IsInjective(b) /\ f[n + 1] \notin Range(b) => IsInjective(f)
        BY <1>2, <2>1, AddLast
    <2> QED BY <1>2, <1>3, <1>4, <2>2
<1>6. Proposer \in Replica /\ DOMAIN buffer = Replica
    BY ProposerAssumption DEF BlocksOK
<1>7. CASE /\ Len(f) < BlkSize /\ log' = log /\ done' = done
           /\ buffer' = [buffer EXCEPT ![Proposer] = f]
    <2>1. buffer'[Proposer] = f /\ \A x : InLog(x)' <=> InLog(x)
        BY <1>6, <1>7 DEF InLog
    <2>2. \A i, j \in DOMAIN log' : \A k, l \in 1..BlkSize : log'[i][k] = log'[j][l] => i = j /\ k = l
        BY <1>7 DEF TakenOnce
    <2>3. \A x \in Range(f) : ~ InLog(x)
        BY <1>3, <1>4, <1>5
    <2>4. \A x : InLog(x) \/ x \in Range(f) <=> x \in Left(Proposer)'
        BY <1>3, <1>5
    <2> QED BY <1>5, <2>1, <2>2, <2>3, <2>4 DEF TakenOnce
<1>8. CASE /\ Len(f) = BlkSize /\ NewBlock(f)
           /\ buffer' = [buffer EXCEPT ![Proposer] = <<>>]
    <2>1. PICK m : m = Len(log) + 1
        OBVIOUS
    <2>2. /\ log'[m] = f /\ \A i \in DOMAIN log : i # m /\ log'[i] = log[i]
          /\ \A i \in DOMAIN log' : i \in DOMAIN log \/ i = m
          /\ m \in DOMAIN log' /\ \A i \in DOMAIN log : i \in DOMAIN log'
        <3>1. /\ Len(log) \in Nat /\ DOMAIN log = 1..Len(log)
              /\ DOMAIN log' = 1..(Len(log) + 1)
              /\ log'[Len(log) + 1] = f /\ \A i \in DOMAIN log : i # Len(log) + 1 /\ log'[i] = log[i]
            BY <1>2, <1>8, BlockAdded
        <3> QED BY <2>1, <3>1
    <2>3. DOMAIN f = 1..BlkSize
        BY <1>2, <1>8
    <2>4. \A x : InLog(x)' <=> InLog(x) \/ x \in Range(f)
        <3>1. ASSUME NEW x, InLog(x)' PROVE InLog(x) \/ x \in Range(f)
            <4>1. PICK i \in DOMAIN log', k \in 1..BlkSize : log'[i][k] = x
                BY <3>1 DEF InLog
            <4> QED BY <2>2, <2>3, <4>1 DEF InLog, Range
        <3>2. ASSUME NEW x, InLog(x) PROVE InLog(x)'
            <4>1. PICK i \in DOMAIN log, k \in 1..BlkSize : log[i][k] = x
                BY <3>2 DEF InLog
            <4> QED BY <2>2, <4>1 DEF InLog
        <3>3. ASSUME NEW x \in Range(f) PROVE InLog(x)'
            <4>1. PICK k \in 1..BlkSize : f[k] = x
                BY <2>3 DEF Range
            <4> QED BY <2>2, <4>1 DEF InLog
        <3> QED BY <3>1, <3>2, <3>3
    <2>5. buffer'[Proposer] = <<>> /\ Range(<<>>) = {} /\ IsInjective(<<>>)
        BY <1>6, <1>8 DEF Range, IsInjective
    <2>6. ASSUME NEW i \in DOMAIN log', NEW j \in DOMAIN log',
                 NEW k \in 1..BlkSize, NEW l \in 1..BlkSize, log'[i][k] = log'[j][l]
          PROVE  i = j /\ k = l
        <3>1. ASSUME NEW h \in DOMAIN log, NEW x \in 1..BlkSize, NEW y \in 1..BlkSize
              PROVE  log[h][x] # f[y]
            <4>1. InLog(log[h][x]) /\ f[y] \in Range(f)
                BY <2>3 DEF InLog, Range
            <4> QED BY <1>3, <1>4, <1>5, <4>1
        <3>2. CASE i \in DOMAIN log /\ j \in DOMAIN log
            BY <2>2, <2>6, <3>2 DEF TakenOnce
        <3>3. CASE i = m /\ j = m
            BY <1>5, <2>2, <2>3, <2>6, <3>3 DEF IsInjective
        <3> QED BY <2>2, <2>6, <3>1, <3>2, <3>3
    <2>7. \A x : InLog(x)' <=> x \in Left(Proposer)'
        BY <1>3, <1>5, <2>4
    <2> QED BY <2>5, <2>6, <2>7 DEF TakenOnce
<1> QED BY <1>7, <1>8 DEF Fills

\* The blocks of the log and the buffer of the proposer rest.
LEMMA TakenRests ==
    ASSUME TakenOnce, log' = log, buffer'[Proposer] = buffer[Proposer], Left(Proposer)' = Left(Proposer)
    PROVE  TakenOnce'
BY DEF TakenOnce, InLog

\* The proposer can answer the command that it took, as it can the others.
LEMMA FillsAnswers ==
    ASSUME BlocksOK, ProposerAnswers, NEW c \in Cmd, NEW f \in Seq(Cmd),
           Extends(f, buffer[Proposer], c), Fills(f), Waits(Proposer)' \subseteq Waits(Proposer) \cup {c}
    PROVE  ProposerAnswers'
<1>1. PICK b, n : b = buffer[Proposer] /\ n = Len(b)
    OBVIOUS
<1>2. /\ f = Append(b, c) /\ b \in Seq(Cmd) /\ n \in Nat /\ DOMAIN b = 1..n
      /\ Len(f) = n + 1 /\ DOMAIN f = 1..(n + 1) /\ f[n + 1] = c
      /\ \A i \in 1..n : f[i] = b[i]
    <2>1. f = Append(b, c) /\ b \in Seq(Cmd)
        BY <1>1, ProposerAssumption DEF Extends, BlocksOK
    <2>2. n \in Nat /\ DOMAIN b = 1..n /\ Len(f) = n + 1 /\ DOMAIN f = 1..(n + 1)
        BY <1>1, <2>1
    <2> QED BY <1>1, <2>1, <2>2
<1>3. Range(f) = Range(b) \cup {c}
    <2>1. n \in Nat
        BY <1>2
    <2>2. /\ Range(f) = Range(b) \cup {f[n + 1]}
          /\ IsInjective(b) /\ f[n + 1] \notin Range(b) => IsInjective(f)
        BY <1>2, <2>1, AddLast
    <2> QED BY <1>2, <2>2
<1>4. \A x \in Waits(Proposer)' : \/ x \in Range(f)
                                  \/ \E i \in DOMAIN log : \E k \in (done[Proposer][i] + 1)..BlkSize : log[i][k] = x
    BY <1>1, <1>3 DEF ProposerAnswers, Waits
<1>5. Proposer \in Replica /\ DOMAIN buffer = Replica
    BY ProposerAssumption DEF BlocksOK
<1>6. CASE /\ Len(f) < BlkSize /\ log' = log /\ done' = done
           /\ buffer' = [buffer EXCEPT ![Proposer] = f]
    BY <1>4, <1>5, <1>6 DEF ProposerAnswers, Waits
<1>7. CASE /\ Len(f) = BlkSize /\ NewBlock(f)
    <2>1. PICK m : m = Len(log) + 1
        OBVIOUS
    <2>2. /\ log'[m] = f /\ m \in DOMAIN log' /\ done'[Proposer][m] = 0
          /\ \A i \in DOMAIN log : /\ i \in DOMAIN log' /\ log'[i] = log[i]
                                   /\ done'[Proposer][i] = done[Proposer][i]
        <3>1. /\ Len(log) \in Nat /\ DOMAIN log = 1..Len(log)
              /\ DOMAIN log' = 1..(Len(log) + 1)
              /\ log'[Len(log) + 1] = f /\ \A i \in DOMAIN log : log'[i] = log[i]
              /\ \A r \in Replica : /\ done'[r][Len(log) + 1] = 0
                                    /\ \A i \in DOMAIN log : done'[r][i] = done[r][i]
            BY <1>7, BlockAdded
        <3> QED BY <1>5, <2>1, <3>1
    <2>3. DOMAIN f = 1..BlkSize /\ 1..BlkSize = (done'[Proposer][m] + 1)..BlkSize
        BY <1>2, <1>7, <2>2
    <2>4. ASSUME NEW x \in Waits(Proposer)'
          PROVE  \E i \in DOMAIN log' : \E k \in (done'[Proposer][i] + 1)..BlkSize : log'[i][k] = x
        <3>1. ASSUME x \in Range(f)
              PROVE  \E k \in (done'[Proposer][m] + 1)..BlkSize : log'[m][k] = x
            BY <2>2, <2>3, <3>1 DEF Range
        <3>2. ASSUME NEW i \in DOMAIN log, NEW k \in (done[Proposer][i] + 1)..BlkSize, log[i][k] = x
              PROVE  i \in DOMAIN log' /\ k \in (done'[Proposer][i] + 1)..BlkSize /\ log'[i][k] = x
            BY <2>2, <3>2
        <3> QED BY <1>4, <2>2, <3>1, <3>2
    <2> QED BY <2>4 DEF ProposerAnswers, Waits
<1> QED BY <1>6, <1>7 DEF Fills

\* do_decide of one command of a block.
LEMMA DecideIsCallback ==
    ASSUME BlocksOK, NEW r \in Replica, NEW i, DoDecide(r, i)
    PROVE  /\ i \in DOMAIN log /\ done[r][i] \in Nat /\ done[r][i] + 1 \in 1..BlkSize
           /\ log[i][done[r][i] + 1] \in Cmd
           /\ CallsBack(r, log[i][done[r][i] + 1])
           /\ log' = log /\ buffer' = buffer /\ done' = [done EXCEPT ![r][i] = @ + 1]
<1>1. /\ i \in DOMAIN log /\ done[r][i] < Len(log[i])
      /\ log' = log /\ buffer' = buffer /\ done' = [done EXCEPT ![r][i] = @ + 1]
    BY DEF DoDecide
<1>2. Len(log[i]) = BlkSize /\ BlkSize \in Nat /\ log[i] \in Seq(Cmd)
    BY <1>1, SizesAssumption DEF BlocksOK
<1>3. done[r] \in Seq(Nat) /\ Len(done[r]) = Len(log) /\ log \in Seq(Seq(Cmd))
    BY DEF BlocksOK
<1>4. done[r][i] \in Nat
    BY <1>1, <1>3
<1>5. done[r][i] + 1 \in 1..BlkSize
    BY <1>1, <1>2, <1>4
<1>6. log[i][done[r][i] + 1] \in Cmd
    BY <1>2, <1>5
<1>7. CallsBack(r, log[i][done[r][i] + 1])
    BY DEF DoDecide, CallsBack, Waits
<1> QED BY <1>1, <1>4, <1>5, <1>6, <1>7

LEMMA DecideKeeps ==
    ASSUME BlocksOK, NEW r \in Replica, NEW i, DoDecide(r, i)
    PROVE  BlocksOK'
<1>1. PICK d, n, k : d = done[r] /\ n = Len(log) /\ k = done[r][i]
    OBVIOUS
<1>2. /\ i \in DOMAIN log /\ k \in Nat /\ k + 1 \in 1..BlkSize
      /\ log' = log /\ buffer' = buffer /\ done' = [done EXCEPT ![r][i] = @ + 1]
    BY <1>1, DecideIsCallback
<1>3. d \in Seq(Nat) /\ Len(d) = n /\ log \in Seq(Seq(Cmd)) /\ DOMAIN done = Replica
    BY <1>1 DEF BlocksOK
<1>4. i \in DOMAIN d /\ DOMAIN log = DOMAIN d
    BY <1>1, <1>2, <1>3
<1>5. PICK e : e = [d EXCEPT ![i] = k + 1]
    OBVIOUS
<1>6. e \in Seq(Nat) /\ Len(e) = n /\ \A j \in DOMAIN log : e[j] = IF j = i THEN k + 1 ELSE d[j]
    BY <1>2, <1>3, <1>4, <1>5
<1>7. ASSUME NEW j \in DOMAIN log PROVE e[j] <= BlkSize
    <2>1. d[j] <= BlkSize /\ k + 1 <= BlkSize
        BY <1>1, <1>2 DEF BlocksOK
    <2> QED BY <1>6, <2>1
<1>8. DOMAIN done' = Replica /\ \A q \in Replica : done'[q] = IF q = r THEN e ELSE done[q]
    BY <1>1, <1>2, <1>3, <1>5
<1>9. \A q \in Replica : /\ done'[q] \in Seq(Nat) /\ Len(done'[q]) = Len(log)
                         /\ \A j \in DOMAIN log : done'[q][j] <= BlkSize
    BY <1>1, <1>6, <1>7, <1>8 DEF BlocksOK
<1> QED BY <1>2, <1>8, <1>9 DEF BlocksOK

LEMMA DecideAnswers ==
    ASSUME BlocksOK, QueuesOK, ProposerAnswers, NEW r \in Replica, NEW i, DoDecide(r, i)
    PROVE  ProposerAnswers'
<1>1. PICK k, c : k = done[r][i] /\ c = log[i][k + 1]
    OBVIOUS
<1>2. /\ i \in DOMAIN log /\ k \in Nat /\ k + 1 \in 1..BlkSize /\ CallsBack(r, c)
      /\ log' = log /\ buffer' = buffer /\ done' = [done EXCEPT ![r][i] = @ + 1]
    BY <1>1, DecideIsCallback
<1>3. Proposer \in Replica /\ DOMAIN done = Replica /\ DOMAIN decision_waiting = Replica
      /\ DOMAIN done[r] = DOMAIN log
    <2>1. done[r] \in Seq(Nat) /\ Len(done[r]) = Len(log) /\ log \in Seq(Seq(Cmd))
        BY DEF BlocksOK
    <2> QED BY <2>1, ProposerAssumption DEF BlocksOK, QueuesOK
<1>4. Waits(r)' = Waits(r) \ {c}
    BY <1>2, <1>3 DEF CallsBack, Waits, Drop
<1>5. \A q \in Replica : q # r => Waits(q)' = Waits(q) /\ done'[q] = done[q]
    BY <1>2, <1>3 DEF CallsBack, Waits
<1>6. \A j \in DOMAIN log : done'[r][j] = IF j = i THEN k + 1 ELSE done[r][j]
    BY <1>1, <1>2, <1>3
<1>7. ASSUME NEW x \in Waits(Proposer)', NEW j \in DOMAIN log, NEW l \in (done[Proposer][j] + 1)..BlkSize,
             log[j][l] = x
      PROVE  l \in (done'[Proposer][j] + 1)..BlkSize
    <2>1. CASE Proposer # r
        BY <1>3, <1>5, <2>1
    <2>2. CASE Proposer = r /\ j # i
        BY <1>6, <2>2
    <2>3. CASE Proposer = r /\ j = i
        <3>1. l \in (k + 1)..BlkSize
            BY <1>1, <2>3
        <3>2. l # k + 1
            BY <1>1, <1>4, <1>7, <2>3
        <3>3. l \in (k + 1 + 1)..BlkSize
            BY <1>2, <3>1, <3>2
        <3> QED BY <1>6, <2>3, <3>3
    <2> QED BY <2>1, <2>2, <2>3
<1>8. Waits(Proposer)' \subseteq Waits(Proposer)
    BY <1>3, <1>4, <1>5
<1> QED BY <1>2, <1>7, <1>8 DEF ProposerAnswers, Waits

\* What is executed stays executed.
LEMMA ExecutedStays ==
    ASSUME BlocksOK, NEW q \in Replica,
           \/ log' = log /\ done' = done
           \/ \E f \in Seq(Cmd) : NewBlock(f)
           \/ \E r \in Replica : \E i : DoDecide(r, i)
    PROVE  Executed(q) \subseteq Executed(q)'
<1>1. ASSUME \A i \in DOMAIN log : /\ i \in DOMAIN log' /\ log'[i] = log[i]
                                   /\ \A k \in 1..done[q][i] : k \in 1..done'[q][i]
      PROVE  Executed(q) \subseteq Executed(q)'
    BY <1>1 DEF Executed
<1>2. CASE log' = log /\ done' = done
    BY <1>1, <1>2
<1>3. ASSUME NEW f \in Seq(Cmd), NewBlock(f) PROVE Executed(q) \subseteq Executed(q)'
    <2>1. /\ Len(log) \in Nat /\ DOMAIN log = 1..Len(log)
          /\ DOMAIN log' = 1..(Len(log) + 1)
          /\ \A i \in DOMAIN log : log'[i] = log[i]
          /\ \A i \in DOMAIN log : done'[q][i] = done[q][i]
        BY <1>3, BlockAdded
    <2> QED BY <1>1, <2>1
<1>4. ASSUME NEW r \in Replica, NEW i, DoDecide(r, i) PROVE Executed(q) \subseteq Executed(q)'
    <2>1. /\ done[r][i] \in Nat /\ log' = log /\ done' = [done EXCEPT ![r][i] = @ + 1]
        BY <1>4, DecideIsCallback
    <2>2. ASSUME NEW j \in DOMAIN log, NEW k \in 1..done[q][j] PROVE k \in 1..done'[q][j]
        <3>1. done'[q][j] = done[q][j] \/ (q = r /\ j = i /\ done'[q][j] = done[q][j] + 1)
            BY <2>1 DEF BlocksOK
        <3> QED BY <2>1, <3>1
    <2> QED BY <1>1, <2>1, <2>2
<1> QED BY <1>2, <1>3, <1>4

-----------------------------------------------------------------------------
(* The invariant.                                                           *)

LEMMA InitPoolInv == CInit => PoolInv
<1> SUFFICES ASSUME CInit PROVE PoolInv
    OBVIOUS
<1>1. PICK n : n = Cardinality(Burst({}, 0))
    OBVIOUS
<1>2. /\ n \in 0..MaxIter /\ n <= MaxAsync /\ Burst({}, 0) = 0..(n - 1) /\ IsFiniteSet(0..(n - 1))
      /\ MaxIter \in Nat /\ BlkSize \in Nat \ {0}
    <2>1. IsFiniteSet({}) /\ Cardinality({}) = 0
        BY FS_EmptySet
    <2>2. Cardinality({}) <= MaxAsync /\ 0 \in 0..MaxIter /\ MaxAsync \in Nat /\ MaxIter \in Nat
          /\ BlkSize \in Nat \ {0}
        BY <2>1, SizesAssumption
    <2>3. /\ n \in Nat /\ Burst({}, 0) = 0..(0 + n - 1)
          /\ 0 + n \in 0..MaxIter /\ n <= MaxAsync - Cardinality({})
          /\ IsFiniteSet(Burst({}, 0))
        BY <1>1, <2>1, <2>2, BurstFacts
    <2>4. 0 + n - 1 = n - 1 /\ 0 + n = n /\ MaxAsync - 0 = MaxAsync
        BY <2>2, <2>3
    <2> QED BY <2>1, <2>2, <2>3, <2>4
<1>3. cnt = n /\ epoch = 0 /\ acked = {} /\ confirmed = [c \in 0..(n - 1) |-> 0] /\ Sent = 0..(n - 1)
    BY <1>1, <1>2 DEF CInit, Sent
<1>4. ClientOK
    <2>1. Cardinality(0..(n - 1)) = n
        BY <1>1, <1>2
    <2>2. 0 \in 0..nfaulty /\ 0 \in 0..MaxRestart
        BY NfaultyIsNat, RestartAssumption
    <2> QED BY <1>2, <1>3, <2>1, <2>2 DEF ClientOK
<1>5. ASSUME NEW r \in Replica
      PROVE  /\ reqs[r] \in Seq(Request) /\ IsInjective(Asks(reqs[r])) /\ Requested(r) = Sent
             /\ cmd_pending[r] = <<>> /\ resps[r] = <<>>
             /\ decision_waiting[r] = [c \in {} |-> 0]
             /\ Queued(r) = {} /\ Answered(r) = {} /\ Waits(r) = {}
    <2>1. PICK s : s = reqs[r]
        OBVIOUS
    <2>2. s = [i \in 1..n |-> <<i - 1, 0>>]
        BY <1>1, <2>1 DEF CInit
    <2>3. \A i \in 1..n : <<i - 1, 0>> \in Request /\ i - 1 \in 0..(n - 1)
        BY <1>2, <1>3 DEF Request, Cmd
    <2>4. s \in Seq(Request)
        <3>1. s \in [1..n -> Request]
            BY <2>2, <2>3
        <3> QED BY <1>2, <3>1
    <2>5. DOMAIN Asks(s) = 1..n /\ \A i \in 1..n : Asks(s)[i] = i - 1
        BY <2>2 DEF Asks
    <2>6. IsInjective(Asks(s))
        BY <1>2, <2>5 DEF IsInjective
    <2>7. Range(Asks(s)) = 0..(n - 1)
        <3>1. \A c \in 0..(n - 1) : c + 1 \in 1..n /\ (c + 1) - 1 = c
            BY <1>2
        <3>2. \A c \in 0..(n - 1) : c \in Range(Asks(s))
            <4> SUFFICES ASSUME NEW c \in 0..(n - 1) PROVE c \in Range(Asks(s))
                OBVIOUS
            <4>1. c + 1 \in DOMAIN Asks(s) /\ Asks(s)[c + 1] = c
                BY <2>5, <3>1
            <4> QED BY <4>1 DEF Range
        <3>3. \A c \in Range(Asks(s)) : c \in 0..(n - 1)
            BY <2>3, <2>5 DEF Range
        <3> QED BY <3>2, <3>3
    <2>8. cmd_pending[r] = <<>> /\ resps[r] = <<>> /\ decision_waiting[r] = [c \in {} |-> 0]
        BY DEF CInit
    <2>9. Queued(r) = {} /\ Answered(r) = {} /\ Waits(r) = {}
        BY <2>8 DEF Queued, Answered, Waits, Asks, Answers, Range
    <2> QED BY <1>3, <2>1, <2>4, <2>6, <2>7, <2>8, <2>9 DEF Requested
<1>6. QueuesOK
    <2>1. DOMAIN reqs = Replica /\ DOMAIN cmd_pending = Replica
          /\ DOMAIN decision_waiting = Replica /\ DOMAIN resps = Replica
        BY DEF CInit
    <2>2. <<>> \in Seq(Request) /\ <<>> \in Seq(Response)
        OBVIOUS
    <2>3. ASSUME NEW r \in Replica
          PROVE  Waits(r) \subseteq Cmd /\ decision_waiting[r] \in [Waits(r) -> 0..epoch]
        BY <1>5
    <2> QED BY <1>5, <2>1, <2>2, <2>3 DEF QueuesOK
<1>7. /\ log = <<>> /\ \A r \in Replica : done[r] = <<>> /\ buffer[r] = <<>>
      /\ DOMAIN buffer = Replica /\ DOMAIN done = Replica
    BY DEF CInit
<1>8. BlocksOK
    <2>1. <<>> \in Seq(Cmd) /\ <<>> \in Seq(Nat) /\ Len(<<>>) = 0 /\ 0 < BlkSize
        BY <1>2
    <2>2. log \in Seq(Seq(Cmd)) /\ DOMAIN log = {} /\ Len(log) = 0
        BY <1>7
    <2> QED BY <1>7, <2>1, <2>2 DEF BlocksOK
<1>9. Proposer \in Replica
    BY ProposerAssumption
<1>10. ProposerAnswers
    BY <1>5, <1>9 DEF ProposerAnswers, Waits
<1>11. \A c : ~ InLog(c) /\ c \notin Range(buffer[Proposer])
    BY <1>7, <1>9 DEF InLog, Range
<1>12. TakenOnce
    <2>1. IsInjective(buffer[Proposer])
        BY <1>7, <1>9 DEF IsInjective
    <2>2. Left(Proposer) = {}
        BY <1>5, <1>9 DEF Left
    <2>3. DOMAIN log = {}
        BY <1>7
    <2> QED BY <1>11, <2>1, <2>2, <2>3 DEF TakenOnce
<1>13. \A E : Served(E)
    <2>1. ASSUME NEW r \in Replica PROVE OnePlace(r) /\ \A c \in Sent : ~ Read(r, c)
        <3>1. IsInjective(Asks(<<>>)) /\ IsInjective(Answers(<<>>))
            BY DEF IsInjective, Asks, Answers
        <3> QED BY <1>5, <3>1 DEF OnePlace, Read
    <2>2. \A c \in DOMAIN confirmed : confirmed[c] <= Cardinality(ReadOf(c))
        <3> SUFFICES ASSUME NEW c \in DOMAIN confirmed PROVE 0 <= Cardinality(ReadOf(c))
            BY <1>3
        <3>1. ReadOf(c) \subseteq Replica
            BY DEF ReadOf
        <3>2. Cardinality(ReadOf(c)) \in Nat
            BY <3>1, ReplicaAssumption, FS_Subset, FS_CardinalityType
        <3> QED BY <3>2
    <2> QED BY <1>3, <1>5, <2>1, <2>2 DEF Served
<1> QED BY <1>4, <1>6, <1>8, <1>10, <1>12, <1>13 DEF PoolInv

\* The client starts again, with nothing but its address changed.
LEMMA RestartKeeps ==
    ASSUME ClientOK, QueuesOK, ClientRestart
    PROVE  ClientOK' /\ QueuesOK' /\ epoch' # 0
<1>1. /\ epoch \in 0..MaxRestart /\ epoch < MaxRestart /\ epoch' = epoch + 1 /\ acked' = {}
      /\ UNCHANGED <<cmd_pending, decision_waiting, resps>> /\ MaxRestart \in Nat
      /\ MaxAsync \in Nat /\ MaxIter \in Nat
    BY RestartAssumption, SizesAssumption DEF ClientRestart, ClientOK, poolVars
<1>2. epoch' \in 0..MaxRestart /\ epoch' # 0 /\ epoch + 1 \in Nat /\ epoch \in Nat
    BY <1>1
<1>3. PICK still : still = [c \in {} |-> 0]
    OBVIOUS
<1>4. DOMAIN still = {} /\ SendAll(still, 0, epoch + 1)
    BY <1>3 DEF ClientRestart
<1>5. /\ cnt' \in 0..MaxIter
      /\ DOMAIN confirmed' = DOMAIN still \cup 0..(cnt' - 1)
      /\ \A c \in DOMAIN confirmed' : confirmed'[c] = IF c \in 0..(cnt' - 1) THEN 0 ELSE still[c]
      /\ Cardinality(DOMAIN confirmed') <= MaxAsync
      /\ DOMAIN reqs' = Replica
      /\ \A r \in Replica : Bursts(reqs'[r], reqs[r], 0, cnt' - 0, epoch + 1)
    <2>1. IsFiniteSet(DOMAIN still) /\ Cardinality(DOMAIN still) <= MaxAsync
        <3>1. IsFiniteSet({}) /\ Cardinality({}) = 0
            BY FS_EmptySet
        <3> QED BY <1>1, <1>4, <3>1
    <2>2. 0 \in 0..MaxIter
        BY <1>1
    <2> QED BY <1>2, <1>4, <2>1, <2>2, SendAllFacts
<1>6. ClientOK'
    <2>1. DOMAIN confirmed' = Sent' /\ \A c \in DOMAIN confirmed' : confirmed'[c] = 0
        BY <1>4, <1>5 DEF Sent
    <2>2. 0 \in 0..nfaulty
        BY NfaultyIsNat
    <2> QED BY <1>1, <1>2, <1>5, <2>1, <2>2 DEF ClientOK
<1>7. \A x \in 0..epoch : x \in 0..epoch'
    BY <1>1
<1>8. \A s : /\ s \in Seq(Request) => s \in Seq(Request')
             /\ s \in Seq(Response) => s \in Seq(Response')
    <2>1. Request \subseteq Request' /\ Response \subseteq Response'
        BY <1>7 DEF Request, Response
    <2> QED BY <2>1
<1>9. ASSUME NEW r \in Replica PROVE reqs'[r] \in Seq(Request')
    <2>1. PICK s, t, k, e : s = reqs[r] /\ t = reqs'[r] /\ k = cnt' /\ e = epoch'
        OBVIOUS
    <2>2. /\ s \in Seq(Cmd \X (0..e)) /\ 0 \in 0..MaxIter /\ k \in 0..MaxIter
          /\ e \in Nat /\ e \in 0..e /\ Bursts(t, s, 0, k - 0, e)
        <3>1. s \in Seq(Request')
            BY <1>8, <2>1 DEF QueuesOK
        <3> QED BY <1>1, <1>2, <1>5, <2>1, <3>1 DEF Request
    <2>3. t \in Seq(Cmd \X (0..e))
        BY <2>2, BurstSent
    <2> QED BY <2>1, <2>3 DEF Request
<1>10. /\ DOMAIN cmd_pending' = Replica /\ DOMAIN decision_waiting' = Replica /\ DOMAIN resps' = Replica
       /\ \A r \in Replica : /\ cmd_pending'[r] \in Seq(Request') /\ Waits(r)' \subseteq Cmd
                             /\ decision_waiting'[r] \in [Waits(r)' -> 0..epoch']
                             /\ resps'[r] \in Seq(Response')
    <2>1. ASSUME NEW r \in Replica
          PROVE  Waits(r)' \subseteq Cmd /\ decision_waiting'[r] \in [Waits(r)' -> 0..epoch']
        <3>1. Waits(r)' = Waits(r) /\ decision_waiting'[r] = decision_waiting[r]
            BY <1>1 DEF Waits
        <3>2. decision_waiting[r] \in [Waits(r) -> 0..epoch] /\ Waits(r) \subseteq Cmd
            BY DEF QueuesOK
        <3> QED BY <1>7, <3>1, <3>2
    <2> QED BY <1>1, <1>8, <2>1 DEF QueuesOK
<1>11. QueuesOK'
    BY <1>5, <1>9, <1>10 DEF QueuesOK
<1> QED BY <1>2, <1>6, <1>11

\* One step, in the order of the actions.
LEMMA PoolInvStep == PoolInv /\ [CNext]_cvars => PoolInv'
<1> SUFFICES ASSUME PoolInv, [CNext]_cvars PROVE PoolInv'
    OBVIOUS
<1>1. ClientOK /\ QueuesOK /\ BlocksOK /\ ProposerAnswers /\ Proposer \in Replica
    BY ProposerAssumption DEF PoolInv
<1>2. PICK E, E2 : /\ E = [r \in Replica |-> Executed(r)]
                   /\ E2 = [r \in Replica |-> Executed(r)']
    OBVIOUS
<1>3. ASSUME Served(E2)', TakenOnce', ClientOK', QueuesOK', BlocksOK', ProposerAnswers'
      PROVE  PoolInv'
    <2>1. \A r \in Replica : E2[r] = Executed(r)'
        BY <1>2
    <2>2. Served([r \in Replica |-> Executed(r)])'
        BY <1>3, <2>1 DEF Served
    <2> QED BY <1>3, <2>2 DEF PoolInv
<1>4. ASSUME ClientOK', QueuesOK', BlocksOK', ProposerAnswers', epoch' # 0 PROVE PoolInv'
    BY <1>4 DEF PoolInv
<1>5. ASSUME epoch = 0
      PROVE  Served(E) /\ TakenOnce /\ (\A r \in Replica : OnePlace(r)) /\ OnePlace(Proposer)
    BY <1>1, <1>2, <1>5 DEF PoolInv, Served
<1>6. ASSUME \A q \in Replica : Executed(q) \subseteq Executed(q)' PROVE \A q \in Replica : E[q] \subseteq E2[q]
    BY <1>2, <1>6
<1>7. ASSUME log' = log, done' = done, buffer' = buffer
      PROVE  BlocksOK' /\ \A q \in Replica : E[q] \subseteq E2[q]
    <2>1. BlocksOK'
        BY <1>1, <1>7 DEF BlocksOK
    <2>2. \A q \in Replica : Executed(q) \subseteq Executed(q)'
        BY <1>1, <1>7, ExecutedStays
    <2> QED BY <1>6, <2>1, <2>2
<1>8. ASSUME log' = log, done' = done, buffer' = buffer, decision_waiting' = decision_waiting
      PROVE  ProposerAnswers'
    BY <1>1, <1>8 DEF ProposerAnswers
<1>9. CASE UNCHANGED cvars
    <2>1. UNCHANGED <<epoch, cnt, confirmed, acked, cmd_pending, buffer, decision_waiting, reqs, log, done, resps>>
        BY <1>9 DEF cvars, clientVars, poolVars
    <2>2. Sent' = Sent /\ Request' = Request /\ Response' = Response
          /\ \A r \in Replica : /\ Requested(r)' = Requested(r) /\ Queued(r)' = Queued(r)
                                /\ Waits(r)' = Waits(r) /\ Answered(r)' = Answered(r)
        BY <2>1 DEF Sent, Request, Response, Requested, Queued, Waits, Answered
    <2>3. ClientOK' /\ QueuesOK'
        BY <1>1, <2>1, <2>2 DEF ClientOK, QueuesOK
    <2>4. BlocksOK' /\ ProposerAnswers' /\ \A q \in Replica : E[q] \subseteq E2[q]
        BY <1>7, <1>8, <2>1
    <2>5. ASSUME epoch = 0 PROVE Served(E2)' /\ TakenOnce'
        <3>1. /\ \A r \in Replica : OnePlace(r)' /\ \A c : Read(r, c)' <=> Read(r, c)
              /\ Left(Proposer)' = Left(Proposer)
            BY <1>1, <1>5, <2>1, <2>2, <2>5 DEF OnePlace, Read, Left
        <3>2. \A c : ReadOf(c)' = ReadOf(c)
            BY <3>1 DEF ReadOf
        <3>3. Served(E2)'
            BY <1>5, <2>1, <2>2, <2>4, <2>5, <3>1, <3>2 DEF Served
        <3> QED BY <1>5, <2>1, <2>5, <3>1, <3>3, TakenRests
    <2> QED BY <1>3, <1>4, <2>1, <2>3, <2>4, <2>5
<1>10. CASE ClientRestart
    <2>1. UNCHANGED <<cmd_pending, buffer, decision_waiting, log, done, resps>>
        BY <1>10 DEF ClientRestart, poolVars
    <2>2. ClientOK' /\ QueuesOK' /\ epoch' # 0
        BY <1>1, <1>10, RestartKeeps
    <2> QED BY <1>4, <1>7, <1>8, <2>1, <2>2
<1>11. ASSUME NEW r \in Replica, ClientRequestCmd(r) PROVE PoolInv'
    <2>1. UNCHANGED <<epoch, buffer, decision_waiting, log, done>>
        BY <1>11 DEF ClientRequestCmd, clientVars
    <2>2. ClientOK' /\ QueuesOK' /\ BlocksOK' /\ ProposerAnswers'
        BY <1>1, <1>7, <1>8, <1>11, <2>1, RequestKeeps
    <2>3. ASSUME epoch = 0 PROVE Served(E2)' /\ TakenOnce'
        <3>1. Served(E2)'
            BY <1>1, <1>5, <1>7, <1>11, <2>1, <2>3, RequestServes
        <3>2. Left(Proposer)' = Left(Proposer)
            BY <1>1, <1>5, <1>11, <2>3, RequestLeaves
        <3> QED BY <1>5, <2>1, <2>3, <3>1, <3>2, TakenRests
    <2> QED BY <1>3, <1>4, <2>1, <2>2, <2>3
<1>12. ASSUME NEW r \in Replica, ClientRespCmd(r) PROVE PoolInv'
    <2>1. UNCHANGED <<epoch, buffer, decision_waiting, log, done>>
        BY <1>12 DEF ClientRespCmd, poolVars
    <2>2. ClientOK' /\ QueuesOK' /\ BlocksOK' /\ ProposerAnswers'
        BY <1>1, <1>7, <1>8, <1>12, <2>1, ReadKeeps
    <2>3. ASSUME epoch = 0 PROVE Served(E2)' /\ TakenOnce'
        <3>1. Served(E2)'
            BY <1>1, <1>5, <1>7, <1>12, <2>1, <2>3, ReadServes
        <3>2. Left(Proposer)' = Left(Proposer)
            BY <1>1, <1>5, <1>12, <2>3, ReadLeaves
        <3> QED BY <1>5, <2>1, <2>3, <3>1, <3>2, TakenRests
    <2> QED BY <1>3, <1>4, <2>1, <2>2, <2>3
<1>13. ASSUME NEW r \in Replica, NEW i, DoDecide(r, i) PROVE PoolInv'
    <2>1. PICK c : c = log[i][done[r][i] + 1]
        OBVIOUS
    <2>2. /\ i \in DOMAIN log /\ done[r][i] \in Nat /\ done[r][i] + 1 \in 1..BlkSize /\ c \in Cmd
          /\ CallsBack(r, c) /\ log' = log /\ buffer' = buffer /\ done' = [done EXCEPT ![r][i] = @ + 1]
        BY <1>1, <1>13, <2>1, DecideIsCallback
    <2>3. ClientOK' /\ QueuesOK'
        BY <1>1, <2>2, CallbackKeeps
    <2>4. BlocksOK' /\ ProposerAnswers'
        BY <1>1, <1>13, DecideKeeps, DecideAnswers
    <2>5. \A q \in Replica : E[q] \subseteq E2[q]
        <3>1. \A q \in Replica : Executed(q) \subseteq Executed(q)'
            BY <1>1, <1>13, ExecutedStays
        <3> QED BY <1>6, <3>1
    <2>6. c \in E2[r]
        <3>1. done'[r][i] = done[r][i] + 1
            <4>1. done[r] \in Seq(Nat) /\ Len(done[r]) = Len(log) /\ log \in Seq(Seq(Cmd)) /\ DOMAIN done = Replica
                BY <1>1 DEF BlocksOK
            <4>2. i \in DOMAIN done[r] /\ r \in DOMAIN done
                BY <2>2, <4>1
            <4> QED BY <2>2, <4>2
        <3>2. done[r][i] + 1 \in 1..done'[r][i]
            BY <2>2, <3>1
        <3>3. c \in Executed(r)'
            BY <2>1, <2>2, <3>2 DEF Executed
        <3> QED BY <1>2, <3>3
    <2>7. epoch' = epoch
        BY <2>2 DEF CallsBack, clientVars
    <2>8. ASSUME epoch = 0 PROVE Served(E2)' /\ TakenOnce'
        <3>1. Served(E)
            BY <1>5, <2>8
        <3>2. Served(E2)'
            BY <1>1, <2>2, <2>5, <2>6, <3>1, CallbackServes
        <3>3. Left(Proposer)' = Left(Proposer)
            BY <1>1, <2>2, CallbackLeaves
        <3> QED BY <1>5, <2>2, <2>8, <3>2, <3>3, TakenRests
    <2> QED BY <1>3, <1>4, <2>3, <2>4, <2>7, <2>8
<1>14. ASSUME NEW r \in Replica, HandlePending(r) PROVE PoolInv'
    <2>1. Registers(r)
        BY <1>14, HandleIsRegister
    <2>2. ClientOK' /\ QueuesOK' /\ epoch' = epoch
        BY <1>1, <2>1, RegisterKeeps DEF Registers, clientVars
    <2>3. ASSUME epoch = 0, \A q \in Replica : E[q] \subseteq E2[q] PROVE Served(E2)'
        <3>1. Served(E)
            BY <1>5, <2>3
        <3> QED BY <1>1, <2>1, <2>3, <3>1, RegisterServes
    <2>4. CASE r # Proposer
        <3>1. UNCHANGED <<buffer, log, done>>
            BY <1>14, <2>4 DEF HandlePending
        <3>2. ProposerAnswers'
            <4>1. decision_waiting'[Proposer] = decision_waiting[Proposer]
                BY <1>1, <2>1, <2>4 DEF Registers, QueuesOK
            <4> QED BY <1>1, <3>1, <4>1 DEF ProposerAnswers
        <3>3. ASSUME epoch = 0 PROVE TakenOnce'
            <4>1. PICK c : c = Head(cmd_pending[r])[1]
                OBVIOUS
            <4>2. Left(Proposer)' = Left(Proposer)
                <5>1. OnePlace(r)
                    BY <1>5, <3>3
                <5> QED BY <1>1, <2>1, <2>4, <4>1, <5>1, RegisterLeaves
            <4> QED BY <1>5, <3>1, <3>3, <4>2, TakenRests
        <3> QED BY <1>3, <1>4, <1>7, <2>2, <2>3, <3>1, <3>2, <3>3
    <2>5. CASE r = Proposer
        <3>1. PICK c, f : c = Head(cmd_pending[Proposer])[1] /\ Extends(f, buffer[Proposer], c)
            BY DEF Extends
        <3>2. c \in Cmd
            <4>1. cmd_pending[Proposer] \in Seq(Request) /\ cmd_pending[Proposer] # <<>>
                BY <1>1, <2>1, <2>5 DEF Registers, QueuesOK
            <4>2. Head(cmd_pending[Proposer]) \in Request
                BY <4>1
            <4> QED BY <3>1, <4>2 DEF Request
        <3>3. f \in Seq(Cmd) /\ Len(f) \in 1..BlkSize /\ Fills(f)
            BY <1>1, <1>14, <2>5, <3>1, <3>2, HandleFills
        <3>4. BlocksOK'
            BY <1>1, <3>3, FillsKeeps
        <3>5. Waits(Proposer)' \subseteq Waits(Proposer) \cup {c}
            BY <1>1, <2>1, <2>5, <3>1 DEF Registers, Waits, QueuesOK
        <3>6. ProposerAnswers'
            BY <1>1, <3>1, <3>2, <3>3, <3>5, FillsAnswers
        <3>7. \A q \in Replica : E[q] \subseteq E2[q]
            <4>1. \A q \in Replica : Executed(q) \subseteq Executed(q)'
                BY <1>1, <3>3, ExecutedStays DEF Fills
            <4> QED BY <1>6, <4>1
        <3>8. ASSUME epoch = 0 PROVE TakenOnce'
            <4>1. c \notin Left(Proposer) /\ Left(Proposer)' = Left(Proposer) \cup {c}
                <5>1. OnePlace(Proposer)
                    BY <1>5, <3>8
                <5> QED BY <1>1, <2>1, <2>5, <3>1, <5>1, RegisterLeaves
            <4>2. TakenOnce
                BY <1>5, <3>8
            <4> QED BY <1>1, <3>1, <3>2, <3>3, <4>1, <4>2, FillsOnce
        <3> QED BY <1>3, <1>4, <2>2, <2>3, <3>4, <3>6, <3>7, <3>8
    <2> QED BY <2>4, <2>5
<1> QED BY <1>9, <1>10, <1>11, <1>12, <1>13, <1>14 DEF CNext

THEOREM PoolInvariant == CSpec => []PoolInv
BY InitPoolInv, PoolInvStep, PTL DEF CSpec

\* Requests, answers, queues and blocks hold commands of the client, the window and the
\* block size are kept to (client.cpp:70-101, e2c.cpp:338-411).
THEOREM PoolTypes == CSpec => []CTypeOK
<1>1. PoolInv => CTypeOK
    <2> SUFFICES ASSUME PoolInv PROVE CTypeOK
        OBVIOUS
    <2>1. ClientOK /\ QueuesOK /\ BlocksOK
        BY DEF PoolInv
    <2>2. Sent \subseteq Cmd
        <3>1. cnt \in 0..MaxIter /\ MaxIter \in Nat
            BY <2>1, SizesAssumption DEF ClientOK
        <3>2. \A c \in 0..(cnt - 1) : c \in 0..(MaxIter - 1)
            BY <3>1
        <3> QED BY <3>2 DEF Sent, Cmd
    <2>3. ASSUME NEW r \in Replica
          PROVE  /\ {reqs[r], cmd_pending[r]} \subseteq Seq(Cmd \X (0..epoch))
                 /\ buffer[r] \in Seq(Cmd) /\ Len(buffer[r]) < BlkSize
                 /\ decision_waiting[r] \in [DOMAIN decision_waiting[r] -> 0..epoch]
                 /\ DOMAIN decision_waiting[r] \subseteq Cmd
                 /\ resps[r] \in Seq([cmd : Cmd, decision : 0..1, epoch : 0..epoch])
        BY <2>1 DEF QueuesOK, BlocksOK, Request, Response, Waits
    <2> QED BY <2>1, <2>2, <2>3 DEF CTypeOK, ClientOK, BlocksOK
<1> QED BY <1>1, PoolInvariant, PTL

\* While the client is not restarted, what it acknowledges more replicas than may be faulty
\* have executed (client.cpp:87-101).
THEOREM AcksAreExecuted == CSpec => []AckedIsExecuted
<1>1. PoolInv => AckedIsExecuted
    <2> SUFFICES ASSUME PoolInv, epoch = 0, NEW c \in acked
                 PROVE  Cardinality({r \in Replica : c \in Executed(r)}) > nfaulty
        BY DEF AckedIsExecuted
    <2>1. PICK E : E = [r \in Replica |-> Executed(r)]
        OBVIOUS
    <2>2. Served(E) /\ c \in Sent /\ nfaulty \in Nat
        BY <2>1, NfaultyIsNat DEF PoolInv, ClientOK
    <2>3. Cardinality(ReadOf(c)) > nfaulty
        BY <2>2 DEF Served
    <2>4. ReadOf(c) \subseteq {r \in Replica : c \in Executed(r)}
        BY <2>1, <2>2 DEF ReadOf, Served
    <2>5. IsFiniteSet({r \in Replica : c \in Executed(r)})
        BY ReplicaAssumption, FS_Subset
    <2>6. Cardinality(ReadOf(c)) <= Cardinality({r \in Replica : c \in Executed(r)})
        BY <2>4, <2>5, FS_Subset
    <2>7. /\ Cardinality(ReadOf(c)) \in Nat
          /\ Cardinality({r \in Replica : c \in Executed(r)}) \in Nat
        BY <2>4, <2>5, FS_Subset, FS_CardinalityType
    <2> QED BY <2>2, <2>3, <2>6, <2>7
<1> QED BY <1>1, PoolInvariant, PTL

LEMMA PoolInvProposesOnce == PoolInv => ProposedOnce
<1> SUFFICES ASSUME PoolInv, epoch = 0
             PROVE  /\ \A s, t \in Slots : CmdAt(s) = CmdAt(t) => s = t
                    /\ {CmdAt(s) : s \in Slots} =
                          {c \in 0..(cnt - 1) :
                              \A i \in DOMAIN reqs[Proposer] : reqs[Proposer][i][1] # c} \
                          {cmd_pending[Proposer][i][1] : i \in DOMAIN cmd_pending[Proposer]}
    BY DEF ProposedOnce
<1>1. TakenOnce
    BY DEF PoolInv
<1>2. PICK b : b = buffer[Proposer]
    OBVIOUS
<1>3. ASSUME NEW s \in Slots
      PROVE  \/ \E i \in DOMAIN log, k \in 1..BlkSize : s = <<"log", i, k>> /\ CmdAt(s) = log[i][k]
             \/ \E k \in DOMAIN b : s = <<"buffer", 0, k>> /\ CmdAt(s) = b[k]
    <2>1. ASSUME NEW i \in DOMAIN log, NEW k \in 1..BlkSize, s = <<"log", i, k>>
          PROVE  CmdAt(s) = log[i][k]
        BY <2>1 DEF CmdAt
    <2>2. ASSUME NEW k \in DOMAIN b, s = <<"buffer", 0, k>>
          PROVE  CmdAt(s) = b[k]
        BY <1>2, <2>2 DEF CmdAt
    <2>3. \/ \E i \in DOMAIN log, k \in 1..BlkSize : s = <<"log", i, k>>
          \/ \E k \in DOMAIN b : s = <<"buffer", 0, k>>
        BY <1>2 DEF Slots
    <2> QED BY <2>1, <2>2, <2>3
<1>4. \A i \in DOMAIN log : \A k \in 1..BlkSize : InLog(log[i][k])
    BY DEF InLog
<1>5. \A k \in DOMAIN b : b[k] \in Range(b) /\ ~ InLog(b[k])
    BY <1>1, <1>2 DEF Range, TakenOnce
<1>6. ASSUME NEW s \in Slots, NEW t \in Slots, CmdAt(s) = CmdAt(t) PROVE s = t
    <2>1. ASSUME NEW i \in DOMAIN log, NEW k \in 1..BlkSize, NEW j \in DOMAIN log, NEW l \in 1..BlkSize,
                 log[i][k] = log[j][l]
          PROVE  i = j /\ k = l
        BY <1>1, <2>1 DEF TakenOnce
    <2>2. ASSUME NEW k \in DOMAIN b, NEW l \in DOMAIN b, b[k] = b[l] PROVE k = l
        BY <1>1, <1>2, <2>2 DEF TakenOnce, IsInjective
    <2> QED BY <1>3, <1>4, <1>5, <1>6, <2>1, <2>2
<1>7. \A c : (\E s \in Slots : CmdAt(s) = c) <=> InLog(c) \/ c \in Range(b)
    <2>1. ASSUME NEW c, NEW s \in Slots, CmdAt(s) = c PROVE InLog(c) \/ c \in Range(b)
        BY <1>3, <1>4, <1>5, <2>1
    <2>2. ASSUME NEW c, InLog(c) PROVE \E s \in Slots : CmdAt(s) = c
        <3>1. PICK i \in DOMAIN log, k \in 1..BlkSize : log[i][k] = c
            BY <2>2 DEF InLog
        <3>2. <<"log", i, k>> \in Slots /\ CmdAt(<<"log", i, k>>) = c
            BY <3>1 DEF Slots, CmdAt
        <3> QED BY <3>2
    <2>3. ASSUME NEW c \in Range(b) PROVE \E s \in Slots : CmdAt(s) = c
        <3>1. PICK k \in DOMAIN b : b[k] = c
            BY DEF Range
        <3>2. <<"buffer", 0, k>> \in Slots
            BY <1>2 DEF Slots
        <3>3. CmdAt(<<"buffer", 0, k>>) = c
            BY <1>2, <3>1 DEF CmdAt
        <3> QED BY <3>2, <3>3
    <2> QED BY <2>1, <2>2, <2>3
<1>8. \A c : InLog(c) \/ c \in Range(b) <=> c \in Left(Proposer)
    BY <1>1, <1>2 DEF TakenOnce
<1>9. Left(Proposer) =
         {c \in 0..(cnt - 1) :
             \A i \in DOMAIN reqs[Proposer] : reqs[Proposer][i][1] # c} \
         {cmd_pending[Proposer][i][1] : i \in DOMAIN cmd_pending[Proposer]}
    <2>1. \A s, c : c \in Range(Asks(s)) <=> \E i \in DOMAIN s : s[i][1] = c
        BY DEF Range, Asks
    <2> QED BY <2>1 DEF Left, Sent, Requested, Queued
<1> QED BY <1>6, <1>7, <1>8, <1>9

\* A command is proposed once, and between the queue of the proposer, its buffer and its
\* blocks none is lost (e2c.cpp:378-411).
THEOREM ProposesOnce == CSpec => []ProposedOnce
BY PoolInvProposesOnce, PoolInvariant, PTL

\* The proposer never decides a command whose callback it has still to register: what waits
\* there for an answer is in the buffer or in a block of which it has still to execute it
\* (e2c.cpp:338-411).
THEOREM ProposerCanAnswer == CSpec => []ProposerAnswers
<1>1. PoolInv => ProposerAnswers
    BY DEF PoolInv
<1> QED BY <1>1, PoolInvariant, PTL

=============================================================================
