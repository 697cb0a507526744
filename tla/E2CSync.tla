------------------------------ MODULE E2CSync ------------------------------
(***************************************************************************)
(* The network layer in time. The protocol is synchronous: a message takes *)
(* at most Delay, the clocks of the replicas run alike, and both timers of *)
(* a replica are set to 2 * delta: the commit timer of a block when it is  *)
(* filed, the impeachment timer at every decision and every impeachment.   *)
(*                                                                         *)
(* The actions are those of E2CBase. Each is made to leave a stamp: the    *)
(* time by which a message it sent arrives, the time at which a block it   *)
(* filed was filed, the time at which the impeachment timer goes off. Time *)
(* passes only while nothing is overdue. What a replica computes takes no  *)
(* time, and what happens at one time happens in any order.                *)
(*                                                                         *)
(* Messages are not lost, but a replica may stop for good. What it sent    *)
(* last is then cut off, on every connection at another place.             *)
(***************************************************************************)
EXTENDS E2CBase

CONSTANTS
    Delta,      \* get_delta()
    Delay,      \* how long a message takes at most
    MaxTime,    \* bound: the end of time
    MaxCrash    \* bound: replicas that stop

ASSUME TimesAssumption == /\ {Delta, Delay, MaxTime, MaxCrash} \subseteq Nat
                          /\ Delta > 0

VARIABLES
    now,
    due,          \* due[p][i]: when message i of connection p arrives at the latest
    filed_at,     \* filed_at[r]: block -> when update armed its commit timer
    impeach_due,  \* impeach_due[r]: when impeach_timer goes off, -1 if not armed
    crashes       \* counter of the bounded event

timeVars == <<now, due, filed_at, impeach_due, crashes>>
svars == <<bvars, timeVars>>

-----------------------------------------------------------------------------

\* The time by which a message arrives: a connection grows by one message, loses its
\* first one, or stays.
StampMessages ==
    due' = [p \in Link |->
               IF Len(chan'[p]) > Len(chan[p]) THEN Append(due[p], now + Delay)
               ELSE IF Len(chan'[p]) < Len(chan[p]) THEN Tail(due[p])
               ELSE due[p]]

\* The time at which the commit timer of a block is armed.
StampFiled ==
    filed_at' = [r \in Replica |->
                    LET new == commit_timer'[r] \ commit_timer[r] IN
                    [b \in DOMAIN filed_at[r] \cup new |->
                        IF b \in new THEN now ELSE filed_at[r][b]]]

-----------------------------------------------------------------------------
(* Faulty variants.                                                         *)

\* The commit timer is set to 3 * delta.
CommitDueLate(r, b) == filed_at[r][b] + 3 * Delta

\* The impeachment timer is not added anew by a decision.
StampDeaf(reset) ==
    /\ StampMessages /\ StampFiled
    /\ impeach_due' = [r \in Replica |-> IF r \in reset /\ impeach_due[r] <= now THEN now + 2 * Delta
                                         ELSE impeach_due[r]]
    /\ UNCHANGED <<now, crashes>>

\* A decision restarts the impeachment timer and does not start it.
StampRestart(reset) ==
    /\ StampMessages /\ StampFiled
    /\ impeach_due' = [r \in Replica |-> IF r \in reset /\ impeach_due[r] # -1 THEN now + 2 * Delta
                                         ELSE impeach_due[r]]
    /\ UNCHANGED <<now, crashes>>

-----------------------------------------------------------------------------

\* commit_timer.add(2 * delta)
CommitDue(r, b) == filed_at[r][b] + 2 * Delta

\* The stamps of a step of E2CBase: impeach_timer is added anew by `reset`.
Stamp(reset) ==
    /\ StampMessages /\ StampFiled
    /\ impeach_due' = [r \in Replica |-> IF r \in reset THEN now + 2 * Delta
                                         ELSE impeach_due[r]]
    /\ UNCHANGED <<now, crashes>>

-----------------------------------------------------------------------------

SInit ==
    /\ BInit
    /\ now = 0
    /\ due = [p \in Link |-> <<>>]
    /\ filed_at = [r \in Replica |-> Empty]
    /\ impeach_due = [r \in Replica |-> -1]
    /\ crashes = 0

SHandlerStep(r) == HandlerStep(r) /\ Stamp({})

SPropose(r, h) == BPropose(r, h) /\ Stamp({})

SProposeNullParent(r) == BProposeNullParent(r) /\ Stamp({})

SHandleMessage(s, r) == HandleMessage(s, r) /\ Stamp({})

\* The commit timer goes off; state_machine_execute resets the impeachment timer.
SCommitTimerCb(r, b) ==
    /\ b \in commit_timer[r] /\ CommitDue(r, b) <= now
    /\ BCommitTimerCb(r, b)
    /\ Stamp(IF executed'[r] # executed[r] THEN {r} ELSE {})

\* The impeachment timer goes off and is added again.
SImpeach(r) ==
    /\ impeach_due[r] \in 0..now
    /\ Impeach(r)
    /\ Stamp({r})

\* A replica stops: of what it has sent, connection p delivers the first kept[p].
Crash(r, kept) ==
    /\ Up(r)
    /\ crashes < MaxCrash
    /\ crashes' = crashes + 1
    /\ aborted' = [aborted EXCEPT ![r] = TRUE]
    /\ \A q \in Replica \ {r} : kept[q] <= Len(chan[<<r, q>>])
    /\ chan' = [p \in Link |-> IF p[1] = r THEN SubSeq(chan[p], 1, kept[p[2]]) ELSE chan[p]]
    /\ due' = [p \in Link |-> IF p[1] = r THEN SubSeq(due[p], 1, kept[p[2]]) ELSE due[p]]
    /\ UNCHANGED <<vars, proposer, storage, signed, fetching, waiting, need, stack, counters,
                   now, filed_at, impeach_due>>

\* Nothing of what a running replica has to do now is left undone.
NothingOverdue ==
    \A r \in Replica : Up(r) =>
        /\ stack[r] = <<>>
        /\ \A s \in Replica \ {r} : \A i \in DOMAIN due[<<s, r>>] : due[<<s, r>>][i] > now
        /\ \A b \in commit_timer[r] : CommitDue(r, b) > now
        /\ impeach_due[r] \notin 0..now

Tick ==
    /\ now < MaxTime
    /\ NothingOverdue
    /\ now' = now + 1
    /\ UNCHANGED <<bvars, due, filed_at, impeach_due, crashes>>

SNext ==
    \/ Tick
    \/ \E r \in Replica :
          \/ SHandlerStep(r)
          \/ SProposeNullParent(r)
          \/ SImpeach(r)
          \/ \E b \in Hash : SPropose(r, b) \/ SCommitTimerCb(r, b)
          \/ \E s \in Replica \ {r} : SHandleMessage(s, r)
          \/ \E kept \in [Replica \ {r} -> 0..(2 * Cardinality(Hash))] : Crash(r, kept)

SSpec == SInit /\ [][SNext]_svars

-----------------------------------------------------------------------------
(* Properties.                                                              *)

FiledBy(r) == Range(ht_blk_map[r])

\* "2\delta has passed. It is safe to commit now": when a replica decides a block
\* every replica that runs has it on file, though its proposer may have stopped in
\* the middle of its broadcast; as long as nobody has been impeached.
SafeToCommit ==
    impeachments = 0 =>
        \A r, q \in Replica : Up(q) => decision[r] \subseteq FiledBy(q)

\* When a replica that runs has filed a block, all that run have decided it by the
\* time a message takes plus 2 delta.
DecidedInTime ==
    impeachments = 0 =>
        \A r, q \in Replica : Up(r) /\ Up(q) =>
            \A b \in DOMAIN filed_at[r] :
                now > filed_at[r][b] + Delay + 2 * Delta => b \in decision[q]

\* "If 2\delta has passed and no progress has been made, then impeach the leader":
\* the first impeachment of a proposer that runs comes after a time without blocks.
\* A block that it had filed then would have been decided, and the timer reset.
ImpeachedForSilence ==
    [][impeachments = 0 /\ impeachments' = 1 /\ Up(FirstProposer) =>
          \A b \in DOMAIN filed_at[FirstProposer] :
              ~ (/\ now - 4 * Delta < filed_at[FirstProposer][b]
                 /\ filed_at[FirstProposer][b] + Delay + 2 * Delta < now)]_svars

\* "If 2\delta has passed and no progress has been made": once a replica has filed a block it
\* does not put up with a silent proposer for longer than its two timers, one after the other:
\* it, or somebody before it, impeaches. Before its first block no timer is armed.
ImpeachedInTime ==
    impeachments = 0 =>
        \A r \in Replica : Up(r) /\ DOMAIN filed_at[r] # {} =>
            \E b \in DOMAIN filed_at[r] : now <= filed_at[r][b] + 4 * Delta

-----------------------------------------------------------------------------
(* What comments in the code say and the code does not do.                  *)

\* "It is safe to commit now": two replicas do not decide differently at a height.
Agreement ==
    \A r, q \in Replica : \A b \in decision[r], c \in decision[q] :
        Height(b) = Height(c) => b = c

=============================================================================
