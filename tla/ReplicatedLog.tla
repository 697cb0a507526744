--------------------------- MODULE ReplicatedLog ---------------------------
(***************************************************************************)
(* What E2CCore promises its user while one replica proposes: there is one *)
(* log, entries are only appended to it, and every replica executes each   *)
(* entry of the log at most once. The order of execution is NOT promised:  *)
(* every entry has a timer of its own and the timers are not ordered.      *)
(***************************************************************************)
EXTENDS Integers, Sequences, Functions

CONSTANTS Replica, Entry

VARIABLES
    log,       \* the entries proposed, oldest first
    executed   \* executed[r]: what replica r has executed, in its own order

logVars == <<log, executed>>

LogInit ==
    /\ log = <<>>
    /\ executed = [r \in Replica |-> <<>>]

Propose(e) ==
    /\ e \notin Range(log)
    /\ log' = Append(log, e)
    /\ UNCHANGED executed

Execute(r, e) ==
    /\ e \in Range(log) \ Range(executed[r])
    /\ executed' = [executed EXCEPT ![r] = Append(@, e)]
    /\ UNCHANGED log

LogNext ==
    \E e \in Entry : \/ Propose(e)
                     \/ \E r \in Replica : Execute(r, e)

LogSpec == LogInit /\ [][LogNext]_logVars

=============================================================================
