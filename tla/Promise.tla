------------------------------ MODULE Promise ------------------------------
(***************************************************************************)
(* The promises the network layer is written with (promise.hpp, without    *)
(* cppromise_use_stack_free, as the build compiles it).                     *)
(*                                                                         *)
(* A call of resolve or reject runs the callbacks before it returns; a     *)
(* callback runs code of the caller's, which may call anything again, and  *)
(* a then on a settled promise runs its callback at once. The stack of the *)
(* one thread is therefore part of the state. What callbacks compute is    *)
(* left out: only when they run and what they settle is kept, and so is    *)
(* the lifetime of promises, which the handles of the callers hold.        *)
(*                                                                         *)
(* then, fail, all, race and the then by which a promise takes over the    *)
(* outcome of another one (cps_transform) are links from promises to npm,  *)
(* the promise they return; a callback is a link in the lists of a promise.*)
(***************************************************************************)
EXTENDS Integers, Sequences, FiniteSets, Functions

CONSTANTS
    MaxPromise,   \* bound: promises made
    MaxList,      \* bound: length of the list given to all and race
    Handlers      \* bound: the forms of then and fail that are called

ASSUME BoundsAssumption == {MaxPromise, MaxList} \subseteq Nat \ {0}

VARIABLES
    state,      \* state[p], promises are numbered as they are made
    callbacks,  \* callbacks[p][side]: fulfilled_callbacks, rejected_callbacks
    links,      \* what the calls of then, fail, all and race set up
    left,       \* left[l]: *size of the callbacks of all
    stack,      \* calls under way, the innermost first
    known,      \* promises the callers hold
    owned,      \* promises the callers made themselves and may settle
    ran         \* history, ran[l]: sides of l whose code was run

pvars == <<state, callbacks, links, left, stack, known, owned, ran>>

Side == {"fulfilled", "rejected"}

\* What a callback does: hand the outcome on to npm, count (all), or run code that
\* returns something plain or a promise.
OnThen == [Side -> {"pass", "plain", "promise"}] \ {[s \in Side |-> "pass"]}
ASSUME HandlersAssumption == Handlers \subseteq OnThen
OnAll == [fulfilled |-> "count", rejected |-> "pass"]
OnRace == [s \in Side |-> "pass"]

Link(kind, from, npm, on) == [kind |-> kind, from |-> from, npm |-> npm, on |-> on]

NoCallbacks == [s \in Side |-> <<>>]

\* The caller's code runs: outside of all callbacks, or in one.
AtCode == IF stack = <<>> THEN TRUE ELSE Head(stack).frame = "code"

Top(frame) == stack # <<>> /\ Head(stack).frame = frame

New(outcome) == /\ Len(state) < MaxPromise
                /\ state' = Append(state, outcome)
npm == Len(state) + 1
link == Len(links) + 1

\* add_on_fulfilled and add_on_rejected, k times, for promises that are pending.
Added(cbs, l, times) ==
    [p \in DOMAIN cbs |->
        [s \in Side |-> cbs[p][s] \o [i \in 1..(IF state[p] = "pending" THEN times[p] ELSE 0) |-> l]]]

Times(list) == [p \in DOMAIN state |-> Cardinality({i \in DOMAIN list : list[i] = p})]

-----------------------------------------------------------------------------
(* Faulty variants.                                                         *)

\* Settles whatever the state is.
SettleAgain(p, side, rest) ==
    /\ state' = [state EXCEPT ![p] = side]
    /\ stack' = <<[frame |-> "loop", p |-> p, k |-> 1]>> \o rest

\* Sets the state and forgets the callbacks.
SettleQuiet(p, side, rest) ==
    /\ state' = [state EXCEPT ![p] = IF @ = "pending" THEN side ELSE @]
    /\ stack' = rest

\* Calls back at once, and files the callback too.
ThenAlways(p, on) ==
    /\ AtCode /\ p \in known /\ New("pending")
    /\ links' = Append(links, Link("then", <<p>>, npm, on))
    /\ left' = Append(left, 0) /\ ran' = Append(ran, <<>>)
    /\ callbacks' = Append([callbacks EXCEPT ![p] = [s \in Side |-> Append(@[s], link)]],
                           NoCallbacks)
    /\ IF state[p] = "pending"
       THEN known' = known \cup {npm} /\ UNCHANGED stack
       ELSE /\ stack' = <<[frame |-> "call", l |-> link, side |-> state[p]],
                          [frame |-> "give", p |-> npm]>> \o stack
            /\ UNCHANGED known
    /\ UNCHANGED owned

\* The counter starts one too low.
AllOneLess(list) ==
    /\ AtCode /\ Range(list) \subseteq known
    /\ New(IF \E i \in DOMAIN list : state[list[i]] = "rejected" THEN "rejected"
           ELSE IF \A i \in DOMAIN list : state[list[i]] = "fulfilled" THEN "fulfilled"
           ELSE "pending")
    /\ links' = Append(links, Link("all", list, npm, OnAll))
    /\ left' = Append(left, Cardinality({i \in DOMAIN list : state[list[i]] # "fulfilled"}) - 1)
    /\ callbacks' = Append(Added(callbacks, link, Times(list)), NoCallbacks)
    /\ ran' = Append(ran, <<>>)
    /\ known' = known \cup {npm}
    /\ UNCHANGED <<stack, owned>>

-----------------------------------------------------------------------------

PInit ==
    /\ state = <<>> /\ callbacks = <<>> /\ links = <<>> /\ left = <<>> /\ ran = <<>>
    /\ stack = <<>>
    /\ known = {} /\ owned = {}

\* resolve and reject with trigger_fulfill and trigger_reject, called by the code
\* that `rest` of the stack returns to: the state is set before any callback runs.
Settle(p, side, rest) ==
    IF state[p] # "pending" THEN stack' = rest /\ UNCHANGED state
    ELSE /\ state' = [state EXCEPT ![p] = side]
         /\ stack' = <<[frame |-> "loop", p |-> p, k |-> 1]>> \o rest

\* promise_t([](promise_t &){...}): the caller keeps it to settle it some day.
Make ==
    /\ AtCode /\ New("pending")
    /\ callbacks' = Append(callbacks, NoCallbacks)
    /\ known' = known \cup {npm} /\ owned' = owned \cup {npm}
    /\ UNCHANGED <<links, left, stack, ran>>

ResolveOrReject(p, side) ==
    /\ AtCode /\ p \in owned
    /\ Settle(p, side, stack)
    /\ UNCHANGED <<callbacks, links, left, known, owned, ran>>

\* then and fail: fail passes a result on, then with one argument a reason.
Then(p, on) ==
    /\ AtCode /\ p \in known /\ New("pending")
    /\ links' = Append(links, Link("then", <<p>>, npm, on))
    /\ left' = Append(left, 0) /\ ran' = Append(ran, <<>>)
    /\ callbacks' = Append(Added(callbacks, link, Times(<<p>>)), NoCallbacks)
    /\ IF state[p] = "pending"
       THEN known' = known \cup {npm} /\ UNCHANGED stack
       ELSE /\ stack' = <<[frame |-> "call", l |-> link, side |-> state[p]],
                          [frame |-> "give", p |-> npm]>> \o stack
            /\ UNCHANGED known
    /\ UNCHANGED owned

\* The promise of a then that has called back at once is returned to the caller.
Give ==
    /\ Top("give")
    /\ known' = known \cup {Head(stack).p}
    /\ stack' = Tail(stack)
    /\ UNCHANGED <<state, callbacks, links, left, owned, ran>>

\* all, for a list that is not empty. Callbacks of settled promises run here.
All(list) ==
    /\ AtCode /\ Range(list) \subseteq known
    /\ New(IF \E i \in DOMAIN list : state[list[i]] = "rejected" THEN "rejected"
           ELSE IF \A i \in DOMAIN list : state[list[i]] = "fulfilled" THEN "fulfilled"
           ELSE "pending")
    /\ links' = Append(links, Link("all", list, npm, OnAll))
    /\ left' = Append(left, Cardinality({i \in DOMAIN list : state[list[i]] # "fulfilled"}))
    /\ callbacks' = Append(Added(callbacks, link, Times(list)), NoCallbacks)
    /\ ran' = Append(ran, <<>>)
    /\ known' = known \cup {npm}
    /\ UNCHANGED <<stack, owned>>

\* race: the first promise of the list that is settled decides at once.
Race(list) ==
    LET settled == {i \in DOMAIN list : state[list[i]] # "pending"} IN
    /\ AtCode /\ Range(list) \subseteq known
    /\ New(IF settled = {} THEN "pending"
           ELSE state[list[CHOOSE i \in settled : \A j \in settled : i <= j]])
    /\ links' = Append(links, Link("race", list, npm, OnRace))
    /\ left' = Append(left, 0) /\ ran' = Append(ran, <<>>)
    /\ callbacks' = Append(Added(callbacks, link, Times(list)), NoCallbacks)
    /\ known' = known \cup {npm}
    /\ UNCHANGED <<stack, owned>>

\* The loop over the callbacks: the next call, or the end of the loop.
Loop ==
    /\ Top("loop")
    /\ LET p == Head(stack).p
           k == Head(stack).k
           side == state[p]
       IN  IF k \in DOMAIN callbacks[p][side]
           THEN /\ stack' = <<[frame |-> "call", l |-> callbacks[p][side][k], side |-> side],
                              [frame |-> "loop", p |-> p, k |-> k + 1]>> \o Tail(stack)
                /\ UNCHANGED callbacks
           ELSE /\ callbacks' = [callbacks EXCEPT ![p][side] = <<>>]
                /\ stack' = Tail(stack)
    /\ UNCHANGED <<state, links, left, known, owned, ran>>

\* A callback is called.
Call ==
    /\ Top("call")
    /\ LET l == Head(stack).l
           side == Head(stack).side
           does == links[l].on[side]
       IN  \/ /\ does = "pass"
              /\ Settle(links[l].npm, side, Tail(stack))
              /\ UNCHANGED <<left, ran>>
           \/ /\ does = "count"
              /\ left' = [left EXCEPT ![l] = @ - 1]
              /\ IF left[l] = 1 THEN Settle(links[l].npm, side, Tail(stack))
                 ELSE stack' = Tail(stack) /\ UNCHANGED state
              /\ UNCHANGED ran
           \/ /\ does \in {"plain", "promise"}
              /\ ran' = [ran EXCEPT ![l] = Append(@, side)]
              /\ stack' = <<[frame |-> "code", l |-> l, side |-> side]>> \o Tail(stack)
              /\ UNCHANGED <<state, left>>
    /\ UNCHANGED <<callbacks, links, known, owned>>

\* The code of a callback returns nothing or a value: npm gets the same side, after
\* a rejection too.
ReturnPlain ==
    /\ Top("code")
    /\ LET l == Head(stack).l
           side == Head(stack).side
       IN  /\ links[l].on[side] = "plain"
           /\ Settle(links[l].npm, side, Tail(stack))
    /\ UNCHANGED <<callbacks, links, left, known, owned, ran>>

\* It returns a promise q, whose outcome npm takes over (cps_transform).
ReturnPromise(q) ==
    /\ Top("code") /\ q \in known
    /\ LET l == Head(stack).l
           side == Head(stack).side
       IN  /\ links[l].on[side] = "promise"
           /\ links' = Append(links, Link("follow", <<q>>, links[l].npm, OnRace))
           /\ callbacks' = Added(callbacks, link, Times(<<q>>))
           /\ IF state[q] = "pending" THEN stack' = Tail(stack) /\ UNCHANGED state
              ELSE Settle(links[l].npm, state[q], Tail(stack))
    /\ left' = Append(left, 0) /\ ran' = Append(ran, <<>>)
    /\ UNCHANGED <<known, owned>>

Lists == UNION {[1..n -> DOMAIN state] : n \in 1..MaxList}

PNext ==
    \/ Make
    \/ \E p \in DOMAIN state, side \in Side : ResolveOrReject(p, side)
    \/ \E p \in DOMAIN state, on \in Handlers : Then(p, on)
    \/ \E list \in Lists : All(list) \/ Race(list)
    \/ Give
    \/ Loop
    \/ Call
    \/ ReturnPlain
    \/ \E q \in DOMAIN state : ReturnPromise(q)

PSpec == PInit /\ [][PNext]_pvars

-----------------------------------------------------------------------------
(* Properties.                                                              *)

PTypeOK ==
    /\ state \in Seq(Side \cup {"pending"}) /\ Len(state) <= MaxPromise
    /\ DOMAIN callbacks = DOMAIN state
    /\ \A p \in DOMAIN callbacks : \A s \in Side : callbacks[p][s] \in Seq(DOMAIN links)
    /\ \A l \in DOMAIN links :
          /\ Range(links[l].from) \cup {links[l].npm} \subseteq DOMAIN state
          /\ left[l] \in 0..MaxList
          /\ ran[l] \in Seq(Side)
    /\ owned \subseteq known /\ known \subseteq DOMAIN state

\* A promise that is settled keeps its outcome, however deep in callbacks of its
\* own the next resolve or reject is called.
SettlesOnce ==
    [][\A p \in DOMAIN state : state[p] # "pending" => state'[p] = state[p]]_pvars

Iterating(p) == \E i \in DOMAIN stack : stack[i].frame = "loop" /\ stack[i].p = p

\* trigger_fulfill and trigger_reject iterate over a vector while callbacks run that
\* may call then on the same promise: the vector must not grow under the loop.
IterationStable ==
    [][\A p \in DOMAIN state :
          Iterating(p) /\ Iterating(p)' => callbacks'[p][state[p]] = callbacks[p][state[p]]]_pvars

\* Of the two callbacks of a then at most one runs, once, on the side its promise
\* was settled.
CalledOnce ==
    \A l \in DOMAIN links :
        ran[l] # <<>> => ran[l] = <<state[links[l].from[1]]>>

\* What the outcome of a link must be when no call is under way.
Consistent(l) ==
    LET from == links[l].from
        out == state[links[l].npm]
        in == state[from[1]]
    IN  CASE links[l].kind = "follow" -> out = in
          [] links[l].kind = "all" ->
                /\ (out = "rejected") <=> (\E i \in DOMAIN from : state[from[i]] = "rejected")
                /\ (out = "fulfilled") <=> (\A i \in DOMAIN from : state[from[i]] = "fulfilled")
          [] links[l].kind = "race" ->
                IF \A i \in DOMAIN from : state[from[i]] = "pending" THEN out = "pending"
                ELSE \E i \in DOMAIN from : state[from[i]] = out /\ out # "pending"
          [] links[l].kind = "then" /\ in = "pending" -> out = "pending" /\ ran[l] = <<>>
          [] OTHER ->
                CASE links[l].on[in] = "pass" -> out = in /\ ran[l] = <<>>
                  [] links[l].on[in] = "plain" -> out = in /\ ran[l] = <<in>>
                  [] OTHER -> /\ ran[l] = <<in>>
                              /\ \E f \in DOMAIN links : /\ links[f].kind = "follow"
                                                         /\ links[f].npm = links[l].npm

\* No wake-up is lost: at rest the promises are as their links say, whatever the
\* callbacks did while they ran.
ConsistentAtRest == stack = <<>> => \A l \in DOMAIN links : Consistent(l)

=============================================================================
