--------------------------- MODULE PromiseProofs ---------------------------
(***************************************************************************)
(* For any number of promises and any forms of then and fail: a settled    *)
(* promise keeps its outcome, a callback is called once at most, no vector *)
(* of callbacks grows under the loop that calls them, and no wake-up is    *)
(* lost: at rest every promise is as its sources say.                      *)
(***************************************************************************)
EXTENDS Promise, TLAPS, FiniteSetTheorems, SequenceTheorems, WellFoundedInduction

-----------------------------------------------------------------------------
(* The inductive invariant.                                                 *)

Does == {"pass", "plain", "promise", "count"}

LinkType ==
    [kind : {"then", "all", "race", "follow"}, from : Seq(DOMAIN state), npm : DOMAIN state,
     on : [Side -> Does]]

FrameType ==
    [frame : {"loop"}, p : DOMAIN state, k : Nat \ {0}] \cup
    [frame : {"call", "code"}, l : DOMAIN links, side : Side] \cup
    [frame : {"give"}, p : DOMAIN state]

LinkOK(l) ==
    /\ links[l].from # <<>>
    /\ links[l].kind = "then" => links[l].on \in OnThen
    /\ links[l].kind = "all" => links[l].on = OnAll
    /\ links[l].kind \in {"race", "follow"} => links[l].on = OnRace

Shape ==
    /\ state \in Seq(Side \cup {"pending"}) /\ Len(state) <= MaxPromise
    /\ callbacks \in Seq([Side -> Seq(DOMAIN links)]) /\ Len(callbacks) = Len(state)
    /\ links \in Seq(LinkType) /\ \A l \in DOMAIN links : LinkOK(l)
    /\ left \in Seq(Int) /\ Len(left) = Len(links)
    /\ ran \in Seq(Seq(Side)) /\ Len(ran) = Len(links)
    /\ stack \in Seq(FrameType)
    /\ owned \subseteq known /\ known \subseteq DOMAIN state

\* The stack from the bottom upwards.
Depth == Len(stack)
FrameAt(d) == stack[Depth + 1 - d]

LoopAt(d, p) == FrameAt(d).frame = "loop" /\ FrameAt(d).p = p
CallAt(d, l) == FrameAt(d).frame = "call" /\ FrameAt(d).l = l

\* A promise is iterated over when it is settled, and by one loop at a time.
LoopsOnce ==
    /\ \A d \in 1..Depth : FrameAt(d).frame = "loop" => state[FrameAt(d).p] # "pending"
    /\ \A d, e \in 1..Depth :
          FrameAt(d).frame = "loop" /\ LoopAt(e, FrameAt(d).p) => d = e

\* The loop over the callbacks of p has called the one at j.
Passed(p, side, j) ==
    state[p] = side /\ \E d \in 1..Depth : LoopAt(d, p) /\ j < FrameAt(d).k

\* Where link l is called back from.
FiledAt(l, p, side) == {j \in DOMAIN callbacks[p][side] : callbacks[p][side][j] = l}

\* A then has one callback on each side, of its own promise. It is called once: when the call
\* is under way or has happened, the loop is past it.
Called(l) == ran[l] # <<>> \/ \E d \in 1..Depth : CallAt(d, l)

ThenOnce(l) ==
    LET p == links[l].from[1] IN
    /\ \A q \in DOMAIN state, s \in Side : FiledAt(l, q, s) # {} => q = p
    /\ \A s \in Side : \A i, j \in FiledAt(l, p, s) : i = j
    /\ \A d \in 1..Depth : CallAt(d, l) => FrameAt(d).side = state[p] /\ ran[l] = <<>>
    /\ \A d, e \in 1..Depth : CallAt(d, l) /\ CallAt(e, l) => d = e
    /\ ran[l] # <<>> => ran[l] = <<state[p]>> /\ state[p] # "pending"
    /\ Called(l) => \A j \in FiledAt(l, p, state[p]) : Passed(p, state[p], j)

\* What all is still to count: callbacks that are filed, and calls under way.
DueFiled(l) ==
    UNION {{<<p, j>> : j \in {i \in FiledAt(l, p, "fulfilled") : ~ Passed(p, "fulfilled", i)}} :
              p \in DOMAIN state}
DueCalls(l) == {d \in 1..Depth : CallAt(d, l) /\ FrameAt(d).side = "fulfilled"}
Due(l) == DueFiled(l) \cup ({0} \X DueCalls(l))

CountsDown(l) ==
    left[l] <= MaxList /\ IsFiniteSet(Due(l)) /\ Cardinality(Due(l)) <= left[l]

\* Only all counts, and only the callbacks of then run code of the callers.
LinkInv(l) ==
    /\ links[l].kind = "then" => ThenOnce(l)
    /\ links[l].kind = "all" => CountsDown(l)
    /\ links[l].kind # "all" => left[l] = 0
    /\ links[l].kind # "then" => ran[l] = <<>>

PromiseInv ==
    /\ Shape
    /\ LoopsOnce
    /\ \A l \in DOMAIN links : LinkInv(l)

-----------------------------------------------------------------------------
(* What links do while calls are under way, until everything is at rest.    *)

CodeAt(d, l) == FrameAt(d).frame = "code" /\ FrameAt(d).l = l

\* The loop over the callbacks that a settled promise still has is on the stack.
LoopRuns ==
    \A p \in DOMAIN state :
        state[p] # "pending" /\ callbacks[p][state[p]] # <<>> => \E d \in 1..Depth : LoopAt(d, p)

\* The callbacks of l that are filed with p and not called yet, and those that will be for the
\* outcome of p, or are under way.
Unpassed(l, p, side) == {j \in FiledAt(l, p, side) : ~ Passed(p, side, j)}
Awaits(l, p) ==
    \/ Unpassed(l, p, state[p]) # {}
    \/ \E d \in 1..Depth : CallAt(d, l) /\ FrameAt(d).side = state[p]

\* Another link follows what the callback of l returned.
Followed(l) ==
    \E f \in DOMAIN links : links[f].kind = "follow" /\ links[f].npm = links[l].npm

InCode(l) == \E d \in 1..Depth : CodeAt(d, l)
Runs(l, side) == links[l].on[side] \in {"plain", "promise"}

\* The then whose outcome f hands on has returned a promise.
Follows(f, l) ==
    /\ links[l].kind = "then" /\ links[l].npm = links[f].npm
    /\ ran[l] # <<>> /\ ~ InCode(l)
    /\ links[l].on[state[links[l].from[1]]] = "promise"

\* Nobody else settles the promise of a link.
Settlers ==
    /\ \A l \in DOMAIN links : links[l].npm \notin owned
    /\ \A l, m \in DOMAIN links :
          /\ links[l].npm = links[m].npm
          /\ links[l].kind = "follow" <=> links[m].kind = "follow"
          => l = m
    /\ \A f \in DOMAIN links :
          links[f].kind = "follow" => \E l \in DOMAIN links : Follows(f, l)

\* Callbacks are called with the outcome of a promise of the list, and as long as such a
\* promise is pending they are filed with it.
CallsFrom(l) ==
    /\ \A p \in DOMAIN state, s \in Side : Unpassed(l, p, s) # {} => p \in Range(links[l].from)
    /\ \A d \in 1..Depth : CallAt(d, l) =>
          \E p \in Range(links[l].from) : FrameAt(d).side = state[p]
    /\ \A p \in Range(links[l].from) :
          state[p] = "pending" => \A s \in Side : Unpassed(l, p, s) # {}

\* race and follow: the outcome is that of a promise of the list, and if one is settled there
\* is an outcome or there will be.
PassesOn(l) ==
    LET out == state[links[l].npm] IN
    /\ out # "pending" => \E p \in Range(links[l].from) : state[p] = out
    /\ \A p \in Range(links[l].from) :
          state[p] # "pending" => out # "pending" \/ Awaits(l, p)

\* all: as long as nothing is rejected the count is exact.
Collects(l) ==
    LET out == state[links[l].npm] IN
    /\ out = "fulfilled" => \A p \in Range(links[l].from) : state[p] = "fulfilled"
    /\ out = "rejected" => \E p \in Range(links[l].from) : state[p] = "rejected"
    /\ out # "rejected" =>
          /\ left[l] = Cardinality(Due(l))
          /\ \A p \in Range(links[l].from) :
                state[p] = "rejected" => Unpassed(l, p, "fulfilled") # {} /\ Awaits(l, p)
    /\ out = "pending" => left[l] # 0

\* then: its callback has not been called, or its code runs, or it has had its effect.
HandsOn(l) ==
    LET p == links[l].from[1]
        in == state[p]
        out == state[links[l].npm]
        does == links[l].on[in]
    IN  /\ in = "pending" => out = "pending"
        /\ ran[l] # <<>> => Runs(l, in)
        /\ InCode(l) => ran[l] # <<>> /\ out = "pending" /\ ~ Followed(l)
        /\ \A d \in 1..Depth : CodeAt(d, l) =>
              FrameAt(d).side = in /\ \A e \in 1..Depth : CodeAt(e, l) => d = e
        /\ out # "pending" =>
              /\ ~ Awaits(l, p)
              /\ in # "pending" /\ does # "promise" => out = in
              /\ Runs(l, in) => ran[l] # <<>>
        /\ in # "pending" =>
              \/ Awaits(l, p) \/ InCode(l)
              \/ does # "promise" /\ out # "pending"
              \/ does = "promise" /\ ran[l] # <<>> /\ Followed(l)

RestOf(l) ==
    /\ CallsFrom(l)
    /\ links[l].kind \in {"then", "follow"} => links[l].from = <<links[l].from[1]>>
    /\ links[l].kind \in {"race", "follow"} => PassesOn(l)
    /\ links[l].kind = "all" => Collects(l)
    /\ links[l].kind = "then" => HandsOn(l)

RestInv ==
    /\ LoopRuns
    /\ Settlers
    /\ \A l \in DOMAIN links : RestOf(l)

-----------------------------------------------------------------------------
(* The stack.                                                               *)

\* The stack after the step: rest is what is left of it, new is on top.
Rest(rest) ==
    \/ rest = stack
    \/ stack # <<>> /\ rest = Tail(stack)

\* The frames 1..n stay where they are.
Base(n) ==
    /\ n \in 0..Depth /\ Depth' \in Nat /\ n <= Depth'
    /\ \A d \in 1..n : FrameAt(d)' = FrameAt(d)

LEMMA FrameTypes ==
    ASSUME Shape
    PROVE  /\ Depth \in Nat
           /\ \A d \in 1..Depth : FrameAt(d) \in FrameType
           /\ \A i \in 1..Depth : stack[i] = FrameAt(Depth + 1 - i)
           /\ stack # <<>> => Depth > 0 /\ Head(stack) = FrameAt(Depth)
           /\ stack = <<>> <=> Depth = 0
<1>1. stack \in Seq(FrameType)
    BY DEF Shape
<1>2. Depth \in Nat
    BY <1>1 DEF Depth
<1>3. \A d \in 1..Depth : FrameAt(d) \in FrameType
    BY <1>1, ElementOfSeq DEF Depth, FrameAt
<1>4. \A i \in 1..Depth : stack[i] = FrameAt(Depth + 1 - i)
    BY <1>2 DEF FrameAt
<1>5. stack # <<>> => Depth > 0 /\ Head(stack) = FrameAt(Depth)
    BY <1>1, <1>2, EmptySeq DEF Depth, FrameAt
<1>6. stack = <<>> <=> Depth = 0
    BY <1>1, <1>2, <1>5 DEF Depth
<1> QED BY <1>2, <1>3, <1>4, <1>5, <1>6

LEMMA RestFrames ==
    ASSUME Shape, NEW rest, Rest(rest)
    PROVE  /\ rest \in Seq(FrameType)
           /\ Len(rest) = IF rest = stack THEN Depth ELSE Depth - 1
           /\ Len(rest) \in 0..Depth
           /\ \A d \in 1..Len(rest) : rest[Len(rest) + 1 - d] = FrameAt(d)
<1>1. stack \in Seq(FrameType) /\ Depth \in Nat
    BY FrameTypes DEF Shape
<1>2. CASE rest = stack
    BY <1>1, <1>2 DEF Depth, FrameAt
<1>3. CASE stack # <<>> /\ rest = Tail(stack)
    <2>1. /\ rest \in Seq(FrameType) /\ Len(rest) = Depth - 1
          /\ \A i \in 1..Len(rest) : rest[i] = stack[i + 1]
        BY <1>1, <1>3, HeadTailProperties DEF Depth
    <2>2. Depth > 0
        BY <1>3, FrameTypes
    <2>3. \A d \in 1..Len(rest) : rest[Len(rest) + 1 - d] = FrameAt(d)
        BY <1>1, <2>1, <2>2 DEF FrameAt
    <2>4. rest # stack
        BY <1>1, <2>1, <2>2 DEF Depth
    <2> QED BY <1>1, <2>1, <2>2, <2>3, <2>4
<1> QED BY <1>2, <1>3 DEF Rest

LEMMA NothingPushed ==
    ASSUME Shape, NEW rest, Rest(rest), stack' = rest
    PROVE  Base(Len(rest)) /\ Depth' = Len(rest)
<1>1. Depth' = Len(rest) /\ Len(rest) \in 0..Depth /\ Depth \in Nat
    BY RestFrames, FrameTypes DEF Depth
<1>2. \A d \in 1..Len(rest) : FrameAt(d)' = FrameAt(d)
    BY <1>1, RestFrames DEF FrameAt
<1> QED BY <1>1, <1>2 DEF Base

LEMMA OnePushed ==
    ASSUME Shape, NEW rest, Rest(rest), NEW f, stack' = <<f>> \o rest
    PROVE  /\ Base(Len(rest)) /\ Depth' = Len(rest) + 1
           /\ FrameAt(Len(rest) + 1)' = f
<1> DEFINE S == FrameType \cup {f}
<1>1. Len(rest) \in 0..Depth /\ Depth \in Nat /\ rest \in Seq(S) /\ <<f>> \in Seq(S)
    BY RestFrames, FrameTypes, SeqMonotonic
<1> HIDE DEF S
<1>2. /\ Len(stack') = Len(rest) + 1
      /\ \A i \in 1..Len(rest) + 1 : stack'[i] = IF i <= 1 THEN f ELSE rest[i - 1]
    BY <1>1, ConcatProperties
<1>3. Depth' = Len(rest) + 1
    BY <1>2 DEF Depth
<1>4. \A d \in 1..Len(rest) : FrameAt(d)' = FrameAt(d)
    <2> TAKE d \in 1..Len(rest)
    <2>1. FrameAt(d)' = stack'[Len(rest) + 2 - d]
        BY <1>1, <1>3 DEF FrameAt
    <2>2. FrameAt(d)' = rest[Len(rest) + 1 - d]
        BY <1>1, <1>2, <2>1
    <2> QED BY <2>2, RestFrames
<1>5. FrameAt(Len(rest) + 1)' = f
    <2>1. FrameAt(Len(rest) + 1)' = stack'[1]
        BY <1>1, <1>3 DEF FrameAt
    <2> QED BY <1>1, <1>2, <2>1
<1> QED BY <1>1, <1>3, <1>4, <1>5 DEF Base

LEMMA TwoPushed ==
    ASSUME Shape, NEW rest, Rest(rest), NEW f, NEW g, stack' = <<f, g>> \o rest
    PROVE  /\ Base(Len(rest)) /\ Depth' = Len(rest) + 2
           /\ FrameAt(Len(rest) + 1)' = g /\ FrameAt(Len(rest) + 2)' = f
<1> DEFINE S == FrameType \cup {f, g}
<1>1. Len(rest) \in 0..Depth /\ Depth \in Nat /\ rest \in Seq(S) /\ <<f, g>> \in Seq(S)
    BY RestFrames, FrameTypes, SeqMonotonic
<1> HIDE DEF S
<1>2. /\ Len(stack') = Len(rest) + 2
      /\ \A i \in 1..Len(rest) + 2 : stack'[i] = IF i <= 2 THEN <<f, g>>[i] ELSE rest[i - 2]
    BY <1>1, ConcatProperties
<1>3. Depth' = Len(rest) + 2
    BY <1>2 DEF Depth
<1>4. \A d \in 1..Len(rest) : FrameAt(d)' = FrameAt(d)
    <2> TAKE d \in 1..Len(rest)
    <2>1. FrameAt(d)' = stack'[Len(rest) + 3 - d]
        BY <1>1, <1>3 DEF FrameAt
    <2>2. FrameAt(d)' = rest[Len(rest) + 1 - d]
        BY <1>1, <1>2, <2>1
    <2> QED BY <2>2, RestFrames
<1>5. FrameAt(Len(rest) + 1)' = stack'[2] /\ FrameAt(Len(rest) + 2)' = stack'[1]
    BY <1>1, <1>3 DEF FrameAt
<1>6. stack'[2] = g /\ stack'[1] = f
    BY <1>1, <1>2
<1> QED BY <1>1, <1>3, <1>4, <1>5, <1>6 DEF Base

-----------------------------------------------------------------------------
(* What a step leaves alone.                                                *)

\* A settled promise keeps its outcome.
StateKept ==
    /\ state' \in Seq(Side \cup {"pending"}) /\ Len(state) <= Len(state')
    /\ \A p \in DOMAIN state : state[p] # "pending" => state'[p] = state[p]

\* The frame that is popped is no loop, and no call of l is pushed.
Quiet(l) ==
    \E n \in {Depth, Depth - 1} :
        /\ Base(n)
        /\ n = Depth - 1 => FrameAt(Depth).frame # "loop"
        /\ \A d \in (n + 1)..Depth' : ~ CallAt(d, l)'

FiledKept(l) ==
    \A p \in DOMAIN state', side \in Side :
        /\ p \in DOMAIN state => FiledAt(l, p, side)' \subseteq FiledAt(l, p, side)
        /\ p \notin DOMAIN state => FiledAt(l, p, side)' = {}

PassedKept(l) ==
    \A p \in DOMAIN state, side \in Side :
        \A j \in FiledAt(l, p, side)' : Passed(p, side, j) => Passed(p, side, j)'

CallsKept(l) ==
    \A d \in 1..Depth' : CallAt(d, l)' => /\ d \in 1..Depth /\ CallAt(d, l)
                                         /\ FrameAt(d)'.side = FrameAt(d).side

Undisturbed(l) ==
    links'[l] = links[l] /\ FiledKept(l) /\ PassedKept(l) /\ CallsKept(l)

LEMMA QuietStep ==
    ASSUME Shape, StateKept, NEW l, Quiet(l), FiledKept(l), links'[l] = links[l]
    PROVE  Undisturbed(l)
<1>1. PICK n \in {Depth, Depth - 1} :
          /\ Base(n)
          /\ n = Depth - 1 => FrameAt(Depth).frame # "loop"
          /\ \A d \in (n + 1)..Depth' : ~ CallAt(d, l)'
    BY DEF Quiet
<1>2. Depth \in Nat /\ Depth' \in Nat /\ n \in 0..Depth /\ n <= Depth'
    BY <1>1, FrameTypes DEF Base
<1>3. \A d \in 1..n : FrameAt(d)' = FrameAt(d)
    BY <1>1 DEF Base
<1>4. PassedKept(l)
    <2> SUFFICES ASSUME NEW p \in DOMAIN state, NEW side \in Side, NEW j,
                        Passed(p, side, j)
                 PROVE  Passed(p, side, j)'
        BY DEF PassedKept
    <2>1. PICK d \in 1..Depth : LoopAt(d, p) /\ j < FrameAt(d).k
        BY DEF Passed
    <2>2. d \in 1..n
        BY <1>1, <1>2, <2>1 DEF LoopAt
    <2>3. state'[p] = side
        BY DEF Passed, StateKept, Side
    <2>4. d \in 1..Depth' /\ LoopAt(d, p)' /\ j < FrameAt(d)'.k
        BY <1>2, <1>3, <2>1, <2>2 DEF LoopAt
    <2> QED BY <2>3, <2>4 DEF Passed
<1>5. CallsKept(l)
    <2> SUFFICES ASSUME NEW d \in 1..Depth', CallAt(d, l)'
                 PROVE  /\ d \in 1..Depth /\ CallAt(d, l)
                        /\ FrameAt(d)'.side = FrameAt(d).side
        BY DEF CallsKept
    <2>1. d \in 1..n
        BY <1>1, <1>2
    <2> QED BY <1>2, <1>3, <2>1 DEF CallAt
<1> QED BY <1>4, <1>5 DEF Undisturbed

LEMMA LinkTypes ==
    ASSUME Shape, NEW l \in DOMAIN links
    PROVE  /\ links[l] \in LinkType /\ LinkOK(l)
           /\ links[l].from \in Seq(DOMAIN state) /\ links[l].npm \in DOMAIN state
           /\ links[l].from[1] \in DOMAIN state
<1>1. links[l] \in LinkType /\ LinkOK(l)
    BY ElementOfSeq, LenProperties DEF Shape
<1>2. links[l].from \in Seq(DOMAIN state) /\ links[l].npm \in DOMAIN state
    BY <1>1 DEF LinkType
<1>3. links[l].from[1] \in DOMAIN state
    BY <1>1, <1>2, EmptySeq, ElementOfSeq DEF LinkOK
<1> QED BY <1>1, <1>2, <1>3

LEMMA ThenOnceKept ==
    ASSUME Shape, StateKept, NEW l \in DOMAIN links, links[l].kind = "then", ThenOnce(l),
           Undisturbed(l), ran'[l] = ran[l]
    PROVE  ThenOnce(l)'
<1> DEFINE p == links[l].from[1]
<1>1. p \in DOMAIN state /\ links'[l].from[1] = p
    BY LinkTypes DEF Undisturbed
<1>2. PICK P \in DOMAIN state : P = links[l].from[1] /\ P = links'[l].from[1]
    BY <1>1
<1> HIDE DEF p
<1>3. /\ \A q \in DOMAIN state, s \in Side : FiledAt(l, q, s) # {} => q = P
      /\ \A s \in Side : \A i, j \in FiledAt(l, P, s) : i = j
      /\ \A d \in 1..Depth : CallAt(d, l) => FrameAt(d).side = state[P] /\ ran[l] = <<>>
      /\ \A d, e \in 1..Depth : CallAt(d, l) /\ CallAt(e, l) => d = e
      /\ ran[l] # <<>> => ran[l] = <<state[P]>> /\ state[P] # "pending"
      /\ Called(l) => \A j \in FiledAt(l, P, state[P]) : Passed(P, state[P], j)
    BY <1>2 DEF ThenOnce
<1>4. Called(l) => state[P] \in Side /\ state'[P] = state[P]
    <2>1. \A d \in 1..Depth : CallAt(d, l) => FrameAt(d).side \in Side
        BY FrameTypes DEF CallAt, FrameType
    <2>2. state[P] \in Side \cup {"pending"}
        BY <1>2, ElementOfSeq, LenProperties DEF Shape
    <2> QED BY <1>3, <2>1, <2>2 DEF Called, StateKept, Side
<1>5. \A d \in 1..Depth' : CallAt(d, l)' =>
          d \in 1..Depth /\ CallAt(d, l) /\ FrameAt(d)'.side = FrameAt(d).side
    BY DEF Undisturbed, CallsKept
<1>6. Called(l)' => Called(l)
    BY <1>5 DEF Called
<1>7. P \in DOMAIN state' /\ \A s \in Side : FiledAt(l, P, s)' \subseteq FiledAt(l, P, s)
    <2>1. P \in DOMAIN state'
        BY DEF StateKept, Shape
    <2> QED BY <2>1 DEF Undisturbed, FiledKept
<1>8. \A q \in DOMAIN state', s \in Side : FiledAt(l, q, s)' # {} => q = P
    BY <1>3 DEF Undisturbed, FiledKept
<1>9. \A s \in Side : \A i, j \in FiledAt(l, P, s)' : i = j
    BY <1>3, <1>7
<1>10. \A d \in 1..Depth' : CallAt(d, l)' => FrameAt(d)'.side = state'[P] /\ ran'[l] = <<>>
    BY <1>3, <1>4, <1>5 DEF Called
<1>11. \A d, e \in 1..Depth' : CallAt(d, l)' /\ CallAt(e, l)' => d = e
    BY <1>3, <1>5
<1>12. ran'[l] # <<>> => ran'[l] = <<state'[P]>> /\ state'[P] # "pending"
    BY <1>3, <1>4 DEF Called
<1>13. Called(l)' => \A s : s = state'[P] =>
           \A j \in FiledAt(l, P, s)' : Passed(P, s, j)'
    <2> SUFFICES ASSUME Called(l)', NEW s, s = state'[P], NEW j \in FiledAt(l, P, s)'
                 PROVE  Passed(P, s, j)'
        OBVIOUS
    <2>1. s \in Side /\ s = state[P]
        BY <1>4, <1>6
    <2>2. j \in FiledAt(l, P, s)
        BY <1>7, <2>1
    <2>3. Passed(P, s, j)
        BY <1>3, <1>6, <2>1, <2>2
    <2> QED BY <2>1, <2>3 DEF Undisturbed, PassedKept
<1> QED BY <1>2, <1>8, <1>9, <1>10, <1>11, <1>12, <1>13 DEF ThenOnce

LEMMA DueShrinks ==
    ASSUME NEW l, Undisturbed(l)
    PROVE  Due(l)' \subseteq Due(l)
<1>1. DueFiled(l)' \subseteq DueFiled(l)
    <2> SUFFICES ASSUME NEW p \in DOMAIN state', NEW j \in FiledAt(l, p, "fulfilled")',
                        ~ Passed(p, "fulfilled", j)'
                 PROVE  /\ p \in DOMAIN state /\ j \in FiledAt(l, p, "fulfilled")
                        /\ ~ Passed(p, "fulfilled", j)
        BY DEF DueFiled
    <2>1. p \in DOMAIN state /\ j \in FiledAt(l, p, "fulfilled")
        BY DEF Undisturbed, FiledKept, Side
    <2>2. ~ Passed(p, "fulfilled", j)
        BY <2>1 DEF Undisturbed, PassedKept, Side
    <2> QED BY <2>1, <2>2
<1>2. DueCalls(l)' \subseteq DueCalls(l)
    BY DEF Undisturbed, CallsKept, DueCalls
<1> QED BY <1>1, <1>2 DEF Due

LEMMA CountsDownKept ==
    ASSUME Shape, NEW l \in DOMAIN links, CountsDown(l), Undisturbed(l), left'[l] = left[l]
    PROVE  CountsDown(l)'
<1>1. IsFiniteSet(Due(l)) /\ Cardinality(Due(l)) <= left[l] /\ left[l] <= MaxList
    BY DEF CountsDown
<1>2. PICK D : D = Due(l)'
    OBVIOUS
<1>3. IsFiniteSet(D) /\ Cardinality(D) <= Cardinality(Due(l))
    BY <1>1, <1>2, DueShrinks, FS_Subset
<1>4. Cardinality(D) \in Nat /\ Cardinality(Due(l)) \in Nat /\ left[l] \in Int
    <2>1. left[l] \in Int
        BY LenProperties, ElementOfSeq DEF Shape
    <2> QED BY <1>1, <1>3, <2>1, FS_CardinalityType
<1> QED BY <1>1, <1>2, <1>3, <1>4 DEF CountsDown

-----------------------------------------------------------------------------
(* Loops.                                                                   *)

LEMMA LoopsKept ==
    ASSUME Shape, LoopsOnce, StateKept, NEW n \in Nat, Base(n),
           \A d \in (n + 1)..Depth' : FrameAt(d)'.frame # "loop"
    PROVE  LoopsOnce'
<1>1. Depth \in Nat /\ Depth' \in Nat /\ n \in 0..Depth /\ n <= Depth'
    BY FrameTypes DEF Base
<1>2. \A d \in 1..Depth' : FrameAt(d)'.frame = "loop" => d \in 1..Depth /\ FrameAt(d)' = FrameAt(d)
    BY <1>1 DEF Base
<1>3. \A d \in 1..Depth : FrameAt(d).frame = "loop" => FrameAt(d).p \in DOMAIN state
    BY FrameTypes DEF FrameType
<1>4. \A d \in 1..Depth' : FrameAt(d)'.frame = "loop" => state'[FrameAt(d)'.p] # "pending"
    BY <1>2, <1>3 DEF LoopsOnce, StateKept
<1>5. \A d, e \in 1..Depth' :
          FrameAt(d)'.frame = "loop" /\ LoopAt(e, FrameAt(d).p)' => d = e
    BY <1>2 DEF LoopsOnce, LoopAt
<1> QED BY <1>4, <1>5 DEF LoopsOnce

LEMMA LoopPushed ==
    ASSUME Shape, LoopsOnce, StateKept, NEW n \in Nat, Base(n), n < Depth',
           NEW p \in DOMAIN state, state'[p] # "pending",
           LoopAt(n + 1, p)', \A d \in (n + 2)..Depth' : FrameAt(d)'.frame # "loop",
           \A d \in 1..n : ~ LoopAt(d, p)
    PROVE  LoopsOnce'
<1>1. Depth \in Nat /\ Depth' \in Nat /\ n \in 0..Depth /\ n < Depth'
    BY FrameTypes DEF Base
<1>2. \A d \in 1..Depth' : FrameAt(d)'.frame = "loop" => \/ d \in 1..n /\ FrameAt(d)' = FrameAt(d)
                                                         \/ d = n + 1
    BY <1>1 DEF Base
<1>3. \A d \in 1..Depth : FrameAt(d).frame = "loop" => FrameAt(d).p \in DOMAIN state
    BY FrameTypes DEF FrameType
<1>4. \A d \in 1..Depth' : FrameAt(d)'.frame = "loop" => state'[FrameAt(d)'.p] # "pending"
    BY <1>1, <1>2, <1>3 DEF LoopsOnce, StateKept, LoopAt
<1>5. \A d \in 1..n : FrameAt(d).frame = "loop" => FrameAt(d).p # p
    BY DEF LoopAt
<1>6. \A d, e \in 1..Depth' :
          FrameAt(d)'.frame = "loop" /\ LoopAt(e, FrameAt(d).p)' => d = e
    <2> SUFFICES ASSUME NEW d \in 1..Depth', NEW e \in 1..Depth', NEW q, q = FrameAt(d)'.p,
                        LoopAt(d, q)', LoopAt(e, q)'
                 PROVE  d = e
        BY DEF LoopAt
    <2>1. CASE d \in 1..n /\ e \in 1..n
        <3>1. LoopAt(d, q) /\ LoopAt(e, q)
            BY <2>1 DEF Base, LoopAt
        <3> QED BY <1>1, <2>1, <3>1 DEF LoopsOnce, LoopAt
    <2>2. CASE d = n + 1 /\ e \in 1..n
        BY <1>5, <2>2 DEF Base, LoopAt
    <2>3. CASE d \in 1..n /\ e = n + 1
        BY <1>5, <2>3 DEF Base, LoopAt
    <2>4. CASE d = n + 1 /\ e = n + 1
        BY <2>4
    <2> QED BY <1>2, <2>1, <2>2, <2>3, <2>4 DEF LoopAt
<1> QED BY <1>4, <1>6 DEF LoopsOnce

LEMMA FrameTypeGrows ==
    ASSUME DOMAIN state \subseteq DOMAIN state', DOMAIN links \subseteq DOMAIN links'
    PROVE  FrameType \subseteq FrameType'
BY DEF FrameType

LEMMA StackTyped ==
    ASSUME Shape, NEW rest, Rest(rest),
           DOMAIN state \subseteq DOMAIN state', DOMAIN links \subseteq DOMAIN links'
    PROVE  /\ stack' = rest => stack' \in Seq(FrameType)'
           /\ \A f \in FrameType' : stack' = <<f>> \o rest => stack' \in Seq(FrameType)'
           /\ \A f, g \in FrameType' : stack' = <<f, g>> \o rest => stack' \in Seq(FrameType)'
<1>1. PICK F : F = FrameType'
    OBVIOUS
<1>2. rest \in Seq(F)
    BY <1>1, RestFrames, FrameTypeGrows, SeqMonotonic
<1>3. \A f \in F : <<f>> \o rest \in Seq(F)
    BY <1>2, ConcatProperties
<1>4. \A f, g \in F : <<f, g>> \o rest \in Seq(F)
    BY <1>2, ConcatProperties
<1> QED BY <1>1, <1>2, <1>3, <1>4

LEMMA PopStep ==
    ASSUME Shape, LoopsOnce, NEW rest, Rest(rest),
           rest # stack => FrameAt(Depth).frame # "loop",
           stack' = rest, state' = state, DOMAIN links \subseteq DOMAIN links'
    PROVE  /\ StateKept /\ LoopsOnce' /\ \A l : Quiet(l)
           /\ Len(state') = Len(state)
           /\ stack' \in Seq(FrameType)'
           /\ \A d \in 1..Depth' : FrameAt(d)'.frame = "call" => d <= Len(rest)
<1>1. /\ state \in Seq(Side \cup {"pending"}) /\ Len(rest) \in 0..Depth /\ Depth \in Nat
      /\ Len(rest) = IF rest = stack THEN Depth ELSE Depth - 1
    BY RestFrames, FrameTypes DEF Shape
<1>2. Base(Len(rest)) /\ Depth' = Len(rest)
    BY NothingPushed
<1>3. StateKept
    BY <1>1 DEF StateKept
<1>4. \A l : Quiet(l)
    BY <1>1, <1>2 DEF Quiet
<1>5. LoopsOnce'
    BY <1>1, <1>2, <1>3, LoopsKept
<1>6. stack' \in Seq(FrameType)'
    BY StackTyped
<1>7. \A d \in 1..Depth' : d <= Len(rest)
    BY <1>1, <1>2
<1> QED BY <1>3, <1>4, <1>5, <1>6, <1>7

\* What resolve and reject do to the stack, before any callback runs.
LEMMA SettleStep ==
    ASSUME Shape, LoopsOnce, NEW p \in DOMAIN state, NEW side \in Side,
           NEW rest, Rest(rest), rest # stack => FrameAt(Depth).frame # "loop",
           Settle(p, side, rest), DOMAIN links \subseteq DOMAIN links'
    PROVE  /\ StateKept /\ LoopsOnce' /\ \A l : Quiet(l)
           /\ Len(state') = Len(state)
           /\ stack' \in Seq(FrameType)'
           /\ \A d \in 1..Depth' : FrameAt(d)'.frame = "call" => d <= Len(rest)
<1>1. /\ state \in Seq(Side \cup {"pending"}) /\ Len(rest) \in 0..Depth /\ Depth \in Nat
      /\ Len(rest) = IF rest = stack THEN Depth ELSE Depth - 1
    BY RestFrames, FrameTypes DEF Shape
<1>2. CASE state[p] # "pending"
    BY <1>2, PopStep DEF Settle
<1>3. CASE state[p] = "pending"
    <2> DEFINE f == [frame |-> "loop", p |-> p, k |-> 1]
    <2>1. stack' = <<f>> \o rest /\ state' = [state EXCEPT ![p] = side]
        BY <1>3 DEF Settle
    <2>2. Base(Len(rest)) /\ Depth' = Len(rest) + 1 /\ FrameAt(Len(rest) + 1)' = f
        BY <2>1, OnePushed
    <2>3. /\ state' \in Seq(Side \cup {"pending"}) /\ Len(state') = Len(state)
          /\ \A q \in DOMAIN state : state'[q] = IF q = p THEN side ELSE state[q]
          /\ DOMAIN state' = DOMAIN state
        BY <1>1, <2>1, ExceptSeq, LenProperties
    <2>4. StateKept
        BY <1>1, <1>3, <2>3 DEF StateKept
    <2>5. \A l : Quiet(l)
        BY <1>1, <2>2 DEF Quiet, CallAt
    <2>6. LoopsOnce'
        <3>1. LoopAt(Len(rest) + 1, p)' /\ state'[p] # "pending"
            BY <2>2, <2>3 DEF LoopAt, Side
        <3>2. \A d \in 1..Len(rest) : ~ LoopAt(d, p)
            BY <1>1, <1>3 DEF LoopsOnce, LoopAt
        <3> QED BY <1>1, <2>2, <2>4, <3>1, <3>2, LoopPushed
    <2>7. stack' \in Seq(FrameType)'
        <3>1. f \in FrameType'
            BY <2>3 DEF FrameType
        <3> QED BY <2>1, <2>3, <3>1, StackTyped
    <2>8. \A d \in 1..Depth' : FrameAt(d)'.frame = "call" => d <= Len(rest)
        BY <1>1, <2>2
    <2> QED BY <2>3, <2>4, <2>5, <2>6, <2>7, <2>8
<1> QED BY <1>2, <1>3

-----------------------------------------------------------------------------
(* Callbacks that are filed.                                                *)

LEMMA FunctionIsSeq ==
    ASSUME NEW S, NEW n \in Nat, NEW f \in [1..n -> S]
    PROVE  f \in Seq(S) /\ Len(f) = n
OBVIOUS

LEMMA CallbackTypes ==
    ASSUME Shape, NEW p \in DOMAIN state
    PROVE  /\ callbacks[p] \in [Side -> Seq(DOMAIN links)]
           /\ \A s \in Side : /\ callbacks[p][s] \in Seq(DOMAIN links)
                              /\ Len(callbacks[p][s]) \in Nat
                              /\ DOMAIN callbacks[p][s] = 1..Len(callbacks[p][s])
           /\ DOMAIN callbacks = DOMAIN state /\ DOMAIN state = 1..Len(state) /\ Len(state) \in Nat
<1>1. DOMAIN callbacks = DOMAIN state /\ DOMAIN state = 1..Len(state) /\ Len(state) \in Nat
    BY LenProperties DEF Shape
<1>2. callbacks[p] \in [Side -> Seq(DOMAIN links)]
    BY <1>1, LenProperties DEF Shape
<1> QED BY <1>1, <1>2, LenProperties

LEMMA LinkCount ==
    ASSUME Shape
    PROVE  /\ Len(links) \in Nat /\ DOMAIN links = 1..Len(links) /\ link = Len(links) + 1
           /\ link \in Nat /\ link \notin DOMAIN links
BY LenProperties DEF Shape, link

LEMMA TimesType ==
    ASSUME Shape, NEW list \in Seq(DOMAIN state)
    PROVE  Times(list) \in [DOMAIN state -> Nat]
<1>1. IsFiniteSet(DOMAIN list)
    BY LenProperties, FS_Interval
<1>2. \A p : IsFiniteSet({i \in DOMAIN list : list[i] = p})
    BY <1>1, FS_Subset
<1> QED BY <1>2, FS_CardinalityType DEF Times

\* A is the callbacks with l added in the lists of promises that are pending.
AddsTo(A, D, l, times) ==
    /\ A \in Seq([Side -> Seq(D)]) /\ Len(A) = Len(state)
    /\ \A p \in DOMAIN state, s \in Side :
          /\ Len(A[p][s]) = Len(callbacks[p][s])
                               + (IF state[p] = "pending" THEN times[p] ELSE 0)
          /\ \A j \in 1..Len(A[p][s]) :
                A[p][s][j] = IF j <= Len(callbacks[p][s]) THEN callbacks[p][s][j] ELSE l
          /\ state[p] # "pending" => A[p][s] = callbacks[p][s]

LEMMA AddedCallbacks ==
    ASSUME Shape, NEW times \in [DOMAIN state -> Nat], NEW D, DOMAIN links \subseteq D,
           NEW l \in D, NEW A, A = Added(callbacks, l, times)
    PROVE  AddsTo(A, D, l, times)
<1> DEFINE n(p) == IF state[p] = "pending" THEN times[p] ELSE 0
           new(p) == [i \in 1..n(p) |-> l]
<1>1. DOMAIN callbacks = DOMAIN state /\ DOMAIN state = 1..Len(state) /\ Len(state) \in Nat
    BY LenProperties DEF Shape
<1>2. \A p \in DOMAIN state, s \in Side : A[p][s] = callbacks[p][s] \o new(p)
    BY <1>1 DEF Added
<1>3. ASSUME NEW p \in DOMAIN state, NEW s \in Side
      PROVE  /\ A[p][s] \in Seq(D)
             /\ Len(A[p][s]) = Len(callbacks[p][s]) + n(p)
             /\ \A j \in 1..Len(A[p][s]) :
                   A[p][s][j] = IF j <= Len(callbacks[p][s]) THEN callbacks[p][s][j] ELSE l
             /\ n(p) = 0 => A[p][s] = callbacks[p][s]
    <2>1. n(p) \in Nat
        OBVIOUS
    <2> HIDE DEF n
    <2>2. new(p) \in Seq(D) /\ Len(new(p)) = n(p) /\ \A i \in 1..n(p) : new(p)[i] = l
        BY <2>1, FunctionIsSeq
    <2>3. callbacks[p][s] \in Seq(D) /\ Len(callbacks[p][s]) \in Nat
        BY CallbackTypes, SeqMonotonic
    <2>4. n(p) = 0 => new(p) = <<>>
        BY <2>2, EmptySeq
    <2> HIDE DEF new
    <2>5. /\ callbacks[p][s] \o new(p) \in Seq(D)
          /\ Len(callbacks[p][s] \o new(p)) = Len(callbacks[p][s]) + n(p)
          /\ \A j \in 1..Len(callbacks[p][s]) + n(p) : (callbacks[p][s] \o new(p))[j] =
                IF j <= Len(callbacks[p][s]) THEN callbacks[p][s][j]
                ELSE new(p)[j - Len(callbacks[p][s])]
        <3>1. PICK c, w : c = callbacks[p][s] /\ w = new(p)
            OBVIOUS
        <3>2. c \in Seq(D) /\ w \in Seq(D) /\ Len(w) = n(p)
            BY <2>2, <2>3, <3>1
        <3>3. /\ c \o w \in Seq(D) /\ Len(c \o w) = Len(c) + Len(w)
              /\ \A j \in 1..Len(c) + Len(w) :
                    (c \o w)[j] = IF j <= Len(c) THEN c[j] ELSE w[j - Len(c)]
            BY <3>2, ConcatProperties
        <3> QED BY <3>1, <3>2, <3>3
    <2>6. n(p) = 0 => callbacks[p][s] \o new(p) = callbacks[p][s]
        BY <2>3, <2>4, ConcatEmptySeq
    <2>7. \A j \in 1..Len(callbacks[p][s]) + n(p) :
              j > Len(callbacks[p][s]) => new(p)[j - Len(callbacks[p][s])] = l
        BY <2>1, <2>2, <2>3
    <2>8. A[p][s] = callbacks[p][s] \o new(p)
        BY <1>2
    <2> QED BY <2>3, <2>5, <2>6, <2>7, <2>8
<1>4. A \in Seq([Side -> Seq(D)]) /\ Len(A) = Len(state)
    <2>1. A \in [1..Len(state) -> [Side -> Seq(D)]]
        BY <1>1, <1>2, <1>3 DEF Added
    <2> QED BY <1>1, <2>1, FunctionIsSeq
<1> QED BY <1>3, <1>4 DEF AddsTo

\* The step that makes a link files it in the lists of promises that are pending.
FilesLink(new, times) ==
    /\ callbacks' \in Seq([Side -> Seq(DOMAIN links')]) /\ Len(callbacks') = Len(state')
    /\ Len(state) <= Len(state')
    /\ \A p \in DOMAIN state, s \in Side :
          /\ \A l \in DOMAIN links : FiledAt(l, p, s)' = FiledAt(l, p, s)
          /\ FiledAt(new, p, s)' =
                (Len(callbacks[p][s]) + 1)..
                    (Len(callbacks[p][s]) + IF state[p] = "pending" THEN times[p] ELSE 0)
          /\ state[p] # "pending" => callbacks'[p][s] = callbacks[p][s]
    /\ \A p \in DOMAIN state' \ DOMAIN state, s \in Side, l \in DOMAIN links' :
          FiledAt(l, p, s)' = {}

Files(new, times) ==
    \/ /\ Len(state') = Len(state)
       /\ callbacks' = Added(callbacks, new, times)
    \/ /\ Len(state') = Len(state) + 1
       /\ callbacks' = Append(Added(callbacks, new, times), NoCallbacks)

LEMMA FilesStep ==
    ASSUME Shape, NEW times \in [DOMAIN state -> Nat], NEW new, new = link,
           state' \in Seq(Side \cup {"pending"}),
           DOMAIN links' = DOMAIN links \cup {new}, Files(new, times)
    PROVE  FilesLink(new, times)
<1> DEFINE D == DOMAIN links'
<1>1. PICK A : A = Added(callbacks, new, times)
    OBVIOUS
<1>2. /\ Len(state) \in Nat /\ DOMAIN state = 1..Len(state) /\ DOMAIN state' = 1..Len(state')
      /\ Len(links) \in Nat /\ DOMAIN links = 1..Len(links) /\ new = Len(links) + 1
      /\ new \notin DOMAIN links
    BY LinkCount, LenProperties DEF Shape
<1>3. /\ A \in Seq([Side -> Seq(D)]) /\ Len(A) = Len(state)
      /\ \A p \in DOMAIN state, s \in Side :
            /\ Len(A[p][s]) = Len(callbacks[p][s])
                                 + (IF state[p] = "pending" THEN times[p] ELSE 0)
            /\ \A j \in 1..Len(A[p][s]) :
                  A[p][s][j] = IF j <= Len(callbacks[p][s]) THEN callbacks[p][s][j] ELSE new
            /\ state[p] # "pending" => A[p][s] = callbacks[p][s]
    <2>1. PICK E : E = DOMAIN links'
        OBVIOUS
    <2>2. DOMAIN links \subseteq E /\ new \in E
        BY <2>1
    <2>3. AddsTo(A, E, new, times)
        BY <1>1, <2>2, AddedCallbacks
    <2> QED BY <2>1, <2>3 DEF AddsTo
<1>4. NoCallbacks \in [Side -> Seq(D)] /\ \A s \in Side : NoCallbacks[s] = <<>>
    <2>1. <<>> \in Seq(D)
        BY EmptySeq
    <2> QED BY <2>1 DEF NoCallbacks
<1>5. /\ callbacks' \in Seq([Side -> Seq(D)]) /\ Len(callbacks') = Len(state')
      /\ \A p \in DOMAIN state : callbacks'[p] = A[p]
      /\ \A p \in DOMAIN state' \ DOMAIN state : callbacks'[p] = NoCallbacks
    <2> HIDE DEF D
    <2>1. CASE Len(state') = Len(state) /\ callbacks' = A
        BY <1>2, <1>3, <2>1
    <2>2. CASE Len(state') = Len(state) + 1 /\ callbacks' = Append(A, NoCallbacks)
        <3>1. PICK T, c : T = [Side -> Seq(D)] /\ c = NoCallbacks
            OBVIOUS
        <3>2. A \in Seq(T) /\ c \in T /\ Len(A) = Len(state)
            BY <1>3, <1>4, <3>1
        <3>3. /\ Append(A, c) \in Seq(T) /\ Len(Append(A, c)) = Len(A) + 1
              /\ \A i \in 1..Len(A) : Append(A, c)[i] = A[i]
              /\ Append(A, c)[Len(A) + 1] = c
            BY <3>2, AppendProperties
        <3>4. DOMAIN state' \ DOMAIN state = {Len(A) + 1}
            BY <1>2, <2>2, <3>2
        <3> QED BY <1>2, <2>2, <3>1, <3>2, <3>3, <3>4
    <2> QED BY <1>1, <2>1, <2>2 DEF Files
<1>6. ASSUME NEW p \in DOMAIN state, NEW s \in Side
      PROVE  /\ \A l \in DOMAIN links : FiledAt(l, p, s)' = FiledAt(l, p, s)
             /\ FiledAt(new, p, s)' =
                   (Len(callbacks[p][s]) + 1)..
                       (Len(callbacks[p][s]) + IF state[p] = "pending" THEN times[p] ELSE 0)
             /\ state[p] # "pending" => callbacks'[p][s] = callbacks[p][s]
    <2>1. PICK c, a : c = callbacks[p][s] /\ a = callbacks'[p][s]
        OBVIOUS
    <2>2. PICK k \in Nat : k = IF state[p] = "pending" THEN times[p] ELSE 0
        OBVIOUS
    <2>3. /\ c \in Seq(DOMAIN links) /\ Len(c) \in Nat /\ DOMAIN c = 1..Len(c)
          /\ \A j \in DOMAIN c : c[j] \in DOMAIN links
        BY <2>1, CallbackTypes, ElementOfSeq
    <2>4. a = A[p][s] /\ a \in Seq(D)
        <3>1. A[p] \in [Side -> Seq(D)]
            BY <1>2, <1>3, ElementOfSeq
        <3> QED BY <1>5, <2>1, <3>1
    <2>5. /\ Len(a) = Len(c) + k /\ DOMAIN a = 1..Len(a)
          /\ \A j \in 1..Len(a) : a[j] = IF j <= Len(c) THEN c[j] ELSE new
        BY <1>3, <2>1, <2>2, <2>4, LenProperties
    <2>6. \A l \in DOMAIN links : {j \in DOMAIN a : a[j] = l} = {j \in DOMAIN c : c[j] = l}
        <3>1. \A j \in 1..Len(a) : j > Len(c) => a[j] = new
            BY <2>2, <2>3, <2>5
        <3>2. 1..Len(c) \subseteq 1..Len(a) /\ \A j \in 1..Len(c) : a[j] = c[j]
            BY <2>2, <2>3, <2>5
        <3>3. new \notin DOMAIN links
            BY <1>2
        <3>4. ASSUME NEW l \in DOMAIN links, NEW j
              PROVE  j \in DOMAIN a /\ a[j] = l <=> j \in DOMAIN c /\ c[j] = l
            <4>1. ASSUME j \in DOMAIN a, a[j] = l PROVE j \in DOMAIN c /\ c[j] = l
                <5>1. j \in 1..Len(a) /\ j <= Len(c)
                    BY <2>3, <2>5, <3>1, <3>3, <4>1
                <5> QED BY <2>3, <3>2, <4>1, <5>1
            <4>2. ASSUME j \in DOMAIN c, c[j] = l PROVE j \in DOMAIN a /\ a[j] = l
                BY <2>3, <2>5, <3>2, <4>2
            <4> QED BY <4>1, <4>2
        <3> QED BY <3>4
    <2>7. {j \in DOMAIN a : a[j] = new} = (Len(c) + 1)..(Len(c) + k)
        <3>1. \A j \in DOMAIN a : a[j] = new <=> j > Len(c)
            <4>1. \A j \in 1..Len(c) : c[j] # new
                BY <1>2, <2>3
            <4> QED BY <2>2, <2>3, <2>5, <4>1
        <3> QED BY <2>2, <2>3, <2>5, <3>1
    <2>8. state[p] # "pending" => a = c
        BY <1>3, <2>1, <2>4
    <2> QED BY <2>1, <2>2, <2>6, <2>7, <2>8 DEF FiledAt
<1>7. \A p \in DOMAIN state' \ DOMAIN state, s \in Side, l \in DOMAIN links' : FiledAt(l, p, s)' = {}
    BY <1>4, <1>5 DEF FiledAt
<1>8. Len(state) <= Len(state')
    <2>1. Len(state') = Len(state) \/ Len(state') = Len(state) + 1
        BY DEF Files
    <2>2. Len(state) \in Nat
        BY <1>2
    <2> HIDE DEF D
    <2> QED BY <2>1, <2>2
<1> QED BY <1>5, <1>6, <1>7, <1>8 DEF FilesLink

-----------------------------------------------------------------------------
(* What all has to count.                                                   *)

\* Where the callbacks of a list are filed.
AllFiles(list, p, j) ==
    /\ state[p] = "pending"
    /\ Len(callbacks[p]["fulfilled"]) < j
    /\ j <= Len(callbacks[p]["fulfilled"]) + Times(list)[p]

\* One callback is filed for every place in the list that holds a pending promise.
LEMMA FiledForAll ==
    ASSUME Shape, NEW list \in Seq(DOMAIN state), NEW D, NEW W,
           W = {i \in DOMAIN list : state[list[i]] # "fulfilled"},
           \A x \in D : \E p \in DOMAIN state, j \in Nat : x = <<p, j>> /\ AllFiles(list, p, j)
    PROVE  /\ IsFiniteSet(D) /\ IsFiniteSet(W) /\ Cardinality(D) <= Cardinality(W)
           /\ /\ \A i \in W : state[list[i]] = "pending"
              /\ \A p \in DOMAIN state, j \in Nat : AllFiles(list, p, j) => <<p, j>> \in D
              => Cardinality(D) = Cardinality(W)
<1> DEFINE at(p) == {i \in DOMAIN list : list[i] = p}
           b(p) == CHOOSE f : f \in Bijection(1..Cardinality(at(p)), at(p))
           len(p) == Len(callbacks[p]["fulfilled"])
<1>1. IsFiniteSet(DOMAIN list) /\ \A i \in DOMAIN list : list[i] \in DOMAIN state
    <2>1. Len(list) \in Nat /\ DOMAIN list = 1..Len(list)
        BY LenProperties
    <2>2. 1 \in Int /\ Len(list) \in Int
        BY <2>1
    <2>3. IsFiniteSet(1..Len(list))
        BY <2>2, FS_Interval
    <2>4. \A i \in 1..Len(list) : list[i] \in DOMAIN state
        BY ElementOfSeq
    <2> QED BY <2>1, <2>3, <2>4
<1>2. IsFiniteSet(W)
    BY <1>1, FS_Subset
<1>3. ASSUME NEW p \in DOMAIN state
      PROVE  /\ b(p) \in Bijection(1..Cardinality(at(p)), at(p)) /\ Cardinality(at(p)) \in Nat
             /\ Times(list)[p] = Cardinality(at(p)) /\ len(p) \in Nat
    <2>1. IsFiniteSet(at(p))
        BY <1>1, FS_Subset
    <2>2. ExistsBijection(1..Cardinality(at(p)), at(p)) /\ Cardinality(at(p)) \in Nat
        BY <2>1, FS_CardinalityType
    <2>3. len(p) \in Nat
        BY CallbackTypes DEF Side
    <2> QED BY <2>2, <2>3 DEF ExistsBijection, Times
<1> HIDE DEF b
<1>4. ASSUME NEW p \in DOMAIN state
      PROVE  /\ \A k \in 1..Cardinality(at(p)) : b(p)[k] \in DOMAIN list /\ list[b(p)[k]] = p
             /\ \A k, m \in 1..Cardinality(at(p)) : b(p)[k] = b(p)[m] => k = m
             /\ \A i \in DOMAIN list : list[i] = p => \E k \in 1..Cardinality(at(p)) : b(p)[k] = i
    <2>1. PICK g, n, T : g = b(p) /\ n = Cardinality(at(p)) /\ T = at(p)
        OBVIOUS
    <2>2. g \in Bijection(1..n, T)
        BY <1>3, <2>1
    <2>3. g \in [1..n -> T] /\ IsInjective(g)
        BY <2>2 DEF Bijection, Injection
    <2>4. \A k, m \in 1..n : g[k] = g[m] => k = m
        BY <2>3 DEF IsInjective
    <2>5. \A i : i \in T <=> i \in DOMAIN list /\ list[i] = p
        BY <2>1
    <2>6. \A i \in T : \E k \in 1..n : g[k] = i
        BY <2>2 DEF Bijection, Surjection
    <2> QED BY <2>1, <2>3, <2>4, <2>5, <2>6
<1> HIDE DEF at, len
<1> DEFINE f == [x \in D |-> b(x[1])[x[2] - len(x[1])]]
<1>5. ASSUME NEW x \in D
      PROVE  /\ x[1] \in DOMAIN state /\ x = <<x[1], x[2]>> /\ x[2] \in Nat
             /\ state[x[1]] = "pending"
             /\ x[2] - len(x[1]) \in 1..Cardinality(at(x[1]))
    <2>1. PICK p \in DOMAIN state, j \in Nat :
               /\ x = <<p, j>> /\ state[p] = "pending"
               /\ len(p) < j /\ j <= len(p) + Times(list)[p]
        BY DEF len, AllFiles
    <2> QED BY <1>3, <2>1
<1>6. ASSUME NEW x \in D
      PROVE  f[x] \in DOMAIN list /\ list[f[x]] = x[1]
    BY <1>4, <1>5
<1>7. f \in [D -> W]
    <2>1. \A x \in D : f[x] \in W
        BY <1>5, <1>6
    <2> QED BY <2>1
<1>8. ASSUME NEW x \in D, NEW y \in D, f[x] = f[y] PROVE x = y
    <2>1. x[1] = y[1]
        BY <1>6, <1>8
    <2>2. x[2] - len(x[1]) = y[2] - len(x[1])
        <3>1. PICK p \in DOMAIN state : p = x[1]
            BY <1>5
        <3>2. PICK k, m : k = x[2] - len(p) /\ m = y[2] - len(p)
            OBVIOUS
        <3>3. k \in 1..Cardinality(at(p)) /\ m \in 1..Cardinality(at(p))
            BY <1>5, <2>1, <3>1, <3>2
        <3>4. b(p)[k] = b(p)[m]
            BY <1>8, <2>1, <3>1, <3>2
        <3>5. k = m
            BY <1>4, <3>3, <3>4
        <3> QED BY <3>1, <3>2, <3>5
    <2>3. x[2] = y[2]
        BY <1>3, <1>5, <2>2
    <2> QED BY <1>5, <2>1, <2>3
<1>9. ASSUME \A i \in W : state[list[i]] = "pending",
             \A p \in DOMAIN state, j \in Nat : AllFiles(list, p, j) => <<p, j>> \in D,
             NEW i \in W
      PROVE  \E x \in D : f[x] = i
    <2>1. PICK p \in DOMAIN state : p = list[i]
        BY <1>1
    <2>2. PICK k \in 1..Cardinality(at(p)) : b(p)[k] = i
        BY <1>4, <2>1
    <2>3. PICK j : j = len(p) + k
        OBVIOUS
    <2>4. j \in Nat /\ len(p) < j /\ j <= len(p) + Times(list)[p] /\ j - len(p) = k
        BY <1>3, <2>3
    <2>5. AllFiles(list, p, j)
        BY <1>9, <2>1, <2>4 DEF AllFiles, len
    <2>6. <<p, j>> \in D
        BY <1>9, <2>4, <2>5
    <2>7. f[<<p, j>>] = b(p)[j - len(p)]
        BY <2>6
    <2> QED BY <2>2, <2>4, <2>6, <2>7
<1> HIDE DEF f
<1>10. f \in Injection(D, W)
    BY <1>7, <1>8 DEF Injection, IsInjective
<1>11. IsFiniteSet(D) /\ Cardinality(D) <= Cardinality(W)
    BY <1>2, <1>10, FS_Injection
<1>12. ASSUME \A i \in W : state[list[i]] = "pending",
              \A p \in DOMAIN state, j \in Nat : AllFiles(list, p, j) => <<p, j>> \in D
       PROVE  Cardinality(D) = Cardinality(W)
    <2>1. f \in Surjection(D, W)
        BY <1>7, <1>9, <1>12 DEF Surjection
    <2>2. Cardinality(W) <= Cardinality(D)
        BY <1>11, <2>1, FS_Surjection
    <2> QED BY <1>2, <1>11, <2>2, FS_CardinalityType
<1> QED BY <1>2, <1>11, <1>12

LEMMA NewAllCounts ==
    ASSUME Shape, \A p \in DOMAIN state : state'[p] = state[p],
           NEW list \in Seq(DOMAIN state), Len(list) <= MaxList,
           NEW new \in DOMAIN links', new \notin DOMAIN links, FilesLink(new, Times(list)),
           stack' = stack,
           left'[new] = Cardinality({i \in DOMAIN list : state[list[i]] # "fulfilled"})
    PROVE  /\ CountsDown(new)'
           /\ (\A i \in DOMAIN list : state[list[i]] # "rejected") =>
                  left'[new] = Cardinality(Due(new)')
<1> DEFINE W == {i \in DOMAIN list : state[list[i]] # "fulfilled"}
<1>1. PICK D : D = Due(new)'
    OBVIOUS
<1>2. Base(Depth) /\ Depth' = Depth /\ Depth \in Nat
    BY NothingPushed, FrameTypes DEF Rest, Depth
<1>3. \A d \in 1..Depth' : ~ CallAt(d, new)'
    <2>1. \A d \in 1..Depth : FrameAt(d).frame = "call" => FrameAt(d).l \in DOMAIN links
        BY FrameTypes DEF FrameType
    <2> QED BY <1>2, <2>1 DEF Base, CallAt
<1>4. D = DueFiled(new)'
    BY <1>1, <1>3 DEF Due, DueCalls
<1>5. ASSUME NEW p \in DOMAIN state', NEW j
      PROVE  j \in FiledAt(new, p, "fulfilled")' <=>
                 p \in DOMAIN state /\ j \in Nat /\ AllFiles(list, p, j)
    <2>1. "fulfilled" \in Side
        BY DEF Side
    <2>2. p \notin DOMAIN state => FiledAt(new, p, "fulfilled")' = {}
        BY <2>1 DEF FilesLink
    <2>3. ASSUME p \in DOMAIN state
          PROVE  j \in FiledAt(new, p, "fulfilled")' <=> j \in Nat /\ AllFiles(list, p, j)
        <3>1. PICK c \in Nat, t \in Nat : c = Len(callbacks[p]["fulfilled"]) /\ t = Times(list)[p]
            BY <2>1, <2>3, CallbackTypes, TimesType
        <3>2. FiledAt(new, p, "fulfilled")' = (c + 1)..(c + IF state[p] = "pending" THEN t ELSE 0)
            BY <2>1, <2>3, <3>1 DEF FilesLink
        <3>3. AllFiles(list, p, j) <=> state[p] = "pending" /\ c < j /\ j <= c + t
            BY <3>1 DEF AllFiles
        <3>4. CASE state[p] = "pending"
            <4>1. FiledAt(new, p, "fulfilled")' = (c + 1)..(c + t)
                BY <3>2, <3>4
            <4>2. j \in (c + 1)..(c + t) <=> j \in Nat /\ c < j /\ j <= c + t
                OBVIOUS
            <4> QED BY <3>3, <3>4, <4>1, <4>2
        <3>5. CASE state[p] # "pending"
            <4>1. FiledAt(new, p, "fulfilled")' = (c + 1)..(c + 0)
                BY <3>2, <3>5
            <4>2. j \notin (c + 1)..(c + 0)
                OBVIOUS
            <4> QED BY <3>3, <3>5, <4>1, <4>2
        <3> QED BY <3>4, <3>5
    <2> QED BY <2>2, <2>3
<1>6. DOMAIN state \subseteq DOMAIN state'
    BY LenProperties DEF Shape, FilesLink
<1>7. \A x \in D : \E p \in DOMAIN state, j \in Nat : x = <<p, j>> /\ AllFiles(list, p, j)
    <2> TAKE x \in D
    <2>1. PICK p \in DOMAIN state' : \E j \in FiledAt(new, p, "fulfilled")' : x = <<p, j>>
        BY <1>4 DEF DueFiled
    <2>2. PICK j \in FiledAt(new, p, "fulfilled")' : x = <<p, j>>
        BY <2>1
    <2> QED BY <1>5, <2>2
<1>8. \A p \in DOMAIN state, j \in Nat : AllFiles(list, p, j) => <<p, j>> \in D
    <2> SUFFICES ASSUME NEW p \in DOMAIN state, NEW j \in Nat, AllFiles(list, p, j)
                 PROVE  <<p, j>> \in D
        OBVIOUS
    <2>1. p \in DOMAIN state' /\ j \in FiledAt(new, p, "fulfilled")'
        BY <1>5, <1>6
    <2>2. ~ Passed(p, "fulfilled", j)'
        <3>1. state'[p] = "pending"
            BY DEF AllFiles
        <3> QED BY <3>1 DEF Passed
    <2> QED BY <1>4, <2>1, <2>2 DEF DueFiled
<1>9. /\ IsFiniteSet(D) /\ Cardinality(D) <= Cardinality(W)
      /\ (\A i \in W : state[list[i]] = "pending") => Cardinality(D) = Cardinality(W)
    BY <1>7, <1>8, FiledForAll
<1>10. Cardinality(W) <= MaxList
    <2>1. /\ Len(list) \in Nat /\ IsFiniteSet(DOMAIN list)
          /\ Cardinality(DOMAIN list) = Len(list)
        <3>1. Len(list) \in Nat /\ DOMAIN list = 1..Len(list)
            BY LenProperties
        <3>2. IsFiniteSet(1..Len(list)) /\ Cardinality(1..Len(list)) = Len(list)
            <4>1. 1 \in Int /\ Len(list) \in Int
                BY <3>1
            <4>2. /\ IsFiniteSet(1..Len(list))
                  /\ Cardinality(1..Len(list)) = IF 1 > Len(list) THEN 0 ELSE Len(list) - 1 + 1
                BY <4>1, FS_Interval
            <4> QED BY <3>1, <4>2
        <3> QED BY <3>1, <3>2
    <2>2. IsFiniteSet(W) /\ Cardinality(W) <= Cardinality(DOMAIN list)
        BY <2>1, FS_Subset
    <2>3. Cardinality(W) \in Nat
        BY <2>2, FS_CardinalityType
    <2> QED BY <2>1, <2>2, <2>3, BoundsAssumption
<1>11. ASSUME \A i \in DOMAIN list : state[list[i]] # "rejected"
       PROVE  Cardinality(D) = Cardinality(W)
    <2>1. \A i \in DOMAIN list : list[i] \in DOMAIN state
        BY LenProperties, ElementOfSeq
    <2>2. \A i \in DOMAIN list : state[list[i]] \in Side \cup {"pending"}
        BY <2>1, LenProperties, ElementOfSeq DEF Shape
    <2>3. \A i \in W : state[list[i]] = "pending"
        BY <1>11, <2>2 DEF Side
    <2> QED BY <1>9, <2>3
<1> QED BY <1>1, <1>9, <1>10, <1>11 DEF CountsDown

LEMMA LinkInvKept ==
    ASSUME Shape, StateKept, NEW l \in DOMAIN links, LinkInv(l), Undisturbed(l),
           ran'[l] = ran[l], left'[l] = left[l]
    PROVE  LinkInv(l)'
<1>1. links'[l] = links[l]
    BY DEF Undisturbed
<1>2. links[l].kind = "then" => ThenOnce(l)'
    BY ThenOnceKept DEF LinkInv
<1>3. links[l].kind = "all" => CountsDown(l)'
    BY CountsDownKept DEF LinkInv
<1> QED BY <1>1, <1>2, <1>3 DEF LinkInv

-----------------------------------------------------------------------------
(* Steps that make a link.                                                  *)

MakesLink(l, n) ==
    /\ links' = Append(links, l)
    /\ left' = Append(left, n)
    /\ ran' = Append(ran, <<>>)

MadeLink(new, l, n) ==
    /\ new \notin DOMAIN links /\ DOMAIN links' = DOMAIN links \cup {new}
    /\ links'[new] = l /\ left'[new] = n /\ ran'[new] = <<>>
    /\ \A m \in DOMAIN links :
          links'[m] = links[m] /\ left'[m] = left[m] /\ ran'[m] = ran[m]
    /\ left' \in Seq(Int) /\ Len(left') = Len(links')
    /\ ran' \in Seq(Seq(Side)) /\ Len(ran') = Len(links')

LEMMA NewLink ==
    ASSUME Shape, NEW l, NEW n \in Int, MakesLink(l, n), NEW new, new = link
    PROVE  MadeLink(new, l, n)
<1> DEFINE T == LinkType \cup {l}
<1>1. /\ Len(links) \in Nat /\ DOMAIN links = 1..Len(links) /\ new = Len(links) + 1
      /\ links \in Seq(T) /\ l \in T
    BY LinkCount, LenProperties, SeqMonotonic DEF Shape
<1> HIDE DEF T
<1>2. /\ links' \in Seq(T) /\ Len(links') = Len(links) + 1 /\ links'[new] = l
      /\ \A m \in 1..Len(links) : links'[m] = links[m]
    BY <1>1, AppendProperties DEF MakesLink
<1>3. /\ left' \in Seq(Int) /\ Len(left') = Len(links) + 1 /\ left'[new] = n
      /\ \A m \in 1..Len(links) : left'[m] = left[m]
    <2>1. left \in Seq(Int) /\ Len(left) = Len(links)
        BY DEF Shape
    <2> QED BY <1>1, <2>1, AppendProperties DEF MakesLink
<1>4. /\ ran' \in Seq(Seq(Side)) /\ Len(ran') = Len(links) + 1 /\ ran'[new] = <<>>
      /\ \A m \in 1..Len(links) : ran'[m] = ran[m]
    <2>1. PICK R, e : R = Seq(Side) /\ e = <<>>
        OBVIOUS
    <2>2. ran \in Seq(R) /\ Len(ran) = Len(links) /\ e \in R
        BY <2>1, EmptySeq DEF Shape
    <2>3. ran' = Append(ran, e)
        BY <2>1 DEF MakesLink
    <2>4. /\ ran' \in Seq(R) /\ Len(ran') = Len(ran) + 1 /\ ran'[Len(ran) + 1] = e
          /\ \A m \in 1..Len(ran) : ran'[m] = ran[m]
        BY <2>2, <2>3, AppendProperties
    <2> QED BY <1>1, <2>1, <2>2, <2>4
<1>5. DOMAIN links' = 1..Len(links) + 1
    BY <1>1, <1>2, LenProperties
<1> QED BY <1>1, <1>2, <1>3, <1>4, <1>5 DEF MadeLink

LEMMA NewLinkShape ==
    ASSUME Shape, NEW l \in LinkType', NEW n \in Int, MakesLink(l, n),
           NEW new, new = link, LinkOK(new)', NEW times, FilesLink(new, times),
           state' \in Seq(Side \cup {"pending"}), Len(state') <= MaxPromise,
           stack' \in Seq(FrameType)',
           owned' \subseteq known', known' \subseteq DOMAIN state'
    PROVE  Shape'
<1>1. DOMAIN state \subseteq DOMAIN state'
    BY LenProperties DEF Shape, FilesLink
<1>2. LinkType \subseteq LinkType'
    <2>1. \A s \in Seq(DOMAIN state) : s \in Seq(DOMAIN state')
        BY <1>1, SeqMonotonic
    <2> QED BY <1>1, <2>1 DEF LinkType
<1>3. links' \in Seq(LinkType)'
    <2>1. PICK T : T = LinkType'
        OBVIOUS
    <2>2. links \in Seq(T) /\ l \in T
        BY <1>2, <2>1, SeqMonotonic DEF Shape
    <2> QED BY <2>1, <2>2, AppendProperties DEF MakesLink
<1>4. \A m \in DOMAIN links' : LinkOK(m)'
    <2>1. \A m \in DOMAIN links : LinkOK(m)'
        BY NewLink DEF Shape, LinkOK, MadeLink
    <2> QED BY <2>1, NewLink DEF MadeLink
<1>5. callbacks' \in Seq([Side -> Seq(DOMAIN links')]) /\ Len(callbacks') = Len(state')
    BY DEF FilesLink
<1> QED BY <1>3, <1>4, <1>5, NewLink DEF Shape, MadeLink

\* The links that were there before are not disturbed.
LEMMA OldLinksKept ==
    ASSUME PromiseInv, StateKept, NEW l, NEW n \in Int, MakesLink(l, n),
           NEW new, new = link, NEW times, FilesLink(new, times),
           \A m \in DOMAIN links : Quiet(m)
    PROVE  \A m \in DOMAIN links : LinkInv(m)'
<1> TAKE m \in DOMAIN links
<1>1. Shape /\ LinkInv(m)
    BY DEF PromiseInv
<1>2. links'[m] = links[m] /\ left'[m] = left[m] /\ ran'[m] = ran[m] /\ m \in DOMAIN links'
    BY <1>1, NewLink DEF MadeLink
<1>3. FiledKept(m)
    BY <1>2 DEF FilesLink, FiledKept
<1> QED BY <1>1, <1>2, <1>3, QuietStep, LinkInvKept

-----------------------------------------------------------------------------
(* The steps.                                                               *)

LEMMA NewState ==
    ASSUME Shape, NEW outcome \in Side \cup {"pending"}, New(outcome)
    PROVE  /\ StateKept /\ Len(state') = Len(state) + 1 /\ Len(state') <= MaxPromise
           /\ state' \in Seq(Side \cup {"pending"})
           /\ npm \notin DOMAIN state /\ DOMAIN state' = DOMAIN state \cup {npm}
           /\ state'[npm] = outcome
           /\ \A p \in DOMAIN state : state'[p] = state[p]
<1>1. /\ state \in Seq(Side \cup {"pending"}) /\ Len(state) \in Nat
      /\ DOMAIN state = 1..Len(state) /\ npm = Len(state) + 1
    BY LenProperties DEF Shape, npm
<1>2. /\ state' \in Seq(Side \cup {"pending"}) /\ Len(state') = Len(state) + 1
      /\ state'[npm] = outcome /\ \A p \in 1..Len(state) : state'[p] = state[p]
    BY <1>1, AppendProperties DEF New
<1>3. DOMAIN state' = 1..Len(state')
    BY <1>2, LenProperties
<1>4. Len(state') <= MaxPromise
    BY <1>1, <1>2, BoundsAssumption DEF New
<1> QED BY <1>1, <1>2, <1>3, <1>4 DEF StateKept

LEMMA SameStack ==
    ASSUME Shape, LoopsOnce, StateKept, stack' = stack, DOMAIN links \subseteq DOMAIN links'
    PROVE  /\ LoopsOnce' /\ stack' \in Seq(FrameType)' /\ \A l : Quiet(l)
<1>1. Base(Depth) /\ Depth' = Depth /\ Depth \in Nat
    BY NothingPushed, FrameTypes DEF Rest, Depth
<1>2. LoopsOnce'
    BY <1>1, LoopsKept
<1>3. \A l : Quiet(l)
    BY <1>1 DEF Quiet
<1>4. DOMAIN state \subseteq DOMAIN state'
    BY LenProperties DEF Shape, StateKept
<1>5. stack' \in Seq(FrameType)'
    BY <1>4, StackTyped DEF Rest
<1> QED BY <1>2, <1>3, <1>5

LEMMA MakeStep ==
    ASSUME PromiseInv, Make
    PROVE  PromiseInv' /\ StateKept
<1>1. /\ Shape /\ LoopsOnce /\ New("pending") /\ callbacks' = Append(callbacks, NoCallbacks)
      /\ UNCHANGED <<links, left, stack, ran>>
    BY DEF PromiseInv, Make
<1>2. /\ StateKept /\ Len(state') = Len(state) + 1 /\ Len(state') <= MaxPromise
      /\ state' \in Seq(Side \cup {"pending"})
      /\ npm \notin DOMAIN state /\ DOMAIN state' = DOMAIN state \cup {npm}
    BY <1>1, NewState
<1>3. LoopsOnce' /\ stack' \in Seq(FrameType)' /\ \A l : Quiet(l)
    BY <1>1, <1>2, SameStack
<1>4. /\ callbacks' \in Seq([Side -> Seq(DOMAIN links)]) /\ Len(callbacks') = Len(state')
      /\ \A p \in DOMAIN state : callbacks'[p] = callbacks[p]
      /\ \A p \in DOMAIN state' \ DOMAIN state : callbacks'[p] = NoCallbacks
    <2>1. PICK T, c : T = [Side -> Seq(DOMAIN links)] /\ c = NoCallbacks
        OBVIOUS
    <2>2. c \in T
        <3>1. <<>> \in Seq(DOMAIN links)
            BY EmptySeq
        <3> QED BY <2>1, <3>1 DEF NoCallbacks
    <2>3. /\ callbacks \in Seq(T) /\ Len(callbacks) = Len(state) /\ Len(state) \in Nat
          /\ DOMAIN state = 1..Len(state)
        BY <1>1, <2>1, LenProperties DEF Shape
    <2>4. /\ callbacks' \in Seq(T) /\ Len(callbacks') = Len(callbacks) + 1
          /\ callbacks'[Len(callbacks) + 1] = c
          /\ \A p \in 1..Len(callbacks) : callbacks'[p] = callbacks[p]
        BY <1>1, <2>1, <2>2, <2>3, AppendProperties
    <2>5. DOMAIN state' = 1..Len(state')
        BY <1>2, LenProperties
    <2> QED BY <1>2, <2>1, <2>3, <2>4, <2>5
<1>5. Shape'
    <2>1. links' \in Seq(LinkType)' /\ \A l \in DOMAIN links' : LinkOK(l)'
        <3>1. LinkType \subseteq LinkType'
            <4>1. \A s \in Seq(DOMAIN state) : s \in Seq(DOMAIN state')
                BY <1>2, SeqMonotonic
            <4> QED BY <1>2, <4>1 DEF LinkType
        <3>2. PICK T : T = LinkType'
            OBVIOUS
        <3>3. links' \in Seq(T)
            BY <1>1, <3>1, <3>2, SeqMonotonic DEF Shape
        <3> QED BY <1>1, <3>2, <3>3 DEF Shape, LinkOK
    <2>2. owned' \subseteq known' /\ known' \subseteq DOMAIN state'
        BY <1>2 DEF PromiseInv, Shape, Make
    <2> QED BY <1>1, <1>2, <1>3, <1>4, <2>1, <2>2 DEF Shape
<1>6. ASSUME NEW l \in DOMAIN links' PROVE LinkInv(l)'
    <2>1. l \in DOMAIN links /\ LinkInv(l)
        BY <1>1, <1>6 DEF PromiseInv
    <2>2. FiledKept(l)
        BY <1>4 DEF FiledKept, FiledAt, NoCallbacks
    <2> QED BY <1>1, <1>2, <1>3, <2>1, <2>2, QuietStep, LinkInvKept
<1> QED BY <1>2, <1>3, <1>5, <1>6 DEF PromiseInv

LEMMA Smallest ==
    ASSUME NEW S \in SUBSET Nat, S # {}
    PROVE  \E i \in S : \A j \in S : i <= j
<1>1. PICK R : R = OpToRel(<, Nat)
    OBVIOUS
<1>2. \A x, y \in Nat : <<x, y>> \in R <=> x < y
    BY <1>1 DEF OpToRel
<1>3. PICK i \in S : \A j \in S : ~ <<j, i>> \in R
    BY <1>1, NatLessThanWellFounded, WFMin
<1>4. \A j \in S : ~ (j < i)
    BY <1>2, <1>3
<1> QED BY <1>4

\* all and race, which differ in the outcome, in what is counted and in what callbacks do.
LEMMA GatherStep ==
    ASSUME PromiseInv, NEW list \in Seq(DOMAIN state), list # <<>>, Len(list) <= MaxList,
           NEW kind \in {"all", "race"}, NEW outcome \in Side \cup {"pending"}, New(outcome),
           NEW on, on = IF kind = "all" THEN OnAll ELSE OnRace, NEW n,
           n = IF kind = "all"
               THEN Cardinality({i \in DOMAIN list : state[list[i]] # "fulfilled"}) ELSE 0,
           MakesLink(Link(kind, list, npm, on), n),
           callbacks' = Append(Added(callbacks, link, Times(list)), NoCallbacks),
           known' = known \cup {npm}, UNCHANGED <<stack, owned>>
    PROVE  PromiseInv' /\ StateKept
<1>1. PICK new, l : new = link /\ l = Link(kind, list, npm, on)
    OBVIOUS
<1>2. Shape /\ LoopsOnce
    BY DEF PromiseInv
<1>3. n \in Int
    <2>1. IsFiniteSet(DOMAIN list)
        BY LenProperties, FS_Interval
    <2>2. IsFiniteSet({i \in DOMAIN list : state[list[i]] # "fulfilled"})
        BY <2>1, FS_Subset
    <2> QED BY <2>2, FS_CardinalityType
<1>4. /\ StateKept /\ Len(state') = Len(state) + 1 /\ Len(state') <= MaxPromise
      /\ state' \in Seq(Side \cup {"pending"})
      /\ DOMAIN state' = DOMAIN state \cup {npm}
      /\ \A p \in DOMAIN state : state'[p] = state[p]
    BY <1>2, NewState
<1>5. /\ new \notin DOMAIN links /\ DOMAIN links' = DOMAIN links \cup {new}
      /\ links'[new] = l /\ left'[new] = n /\ ran'[new] = <<>>
    <2>1. MakesLink(l, n)
        BY <1>1
    <2>2. MadeLink(new, l, n)
        BY <1>1, <1>2, <1>3, <2>1, NewLink
    <2> QED BY <2>2 DEF MadeLink
<1>6. LoopsOnce' /\ stack' \in Seq(FrameType)' /\ \A m : Quiet(m)
    BY <1>2, <1>4, <1>5, SameStack
<1>7. FilesLink(new, Times(list))
    <2>1. Files(new, Times(list))
        BY <1>1, <1>4 DEF Files
    <2> QED BY <1>1, <1>2, <1>4, <1>5, <2>1, TimesType, FilesStep
<1>8. l \in LinkType' /\ LinkOK(new)'
    <2>1. list \in Seq(DOMAIN state') /\ npm \in DOMAIN state'
        BY <1>4, SeqMonotonic
    <2>2. on \in [Side -> Does]
        BY DEF OnAll, OnRace, Side, Does
    <2>3. l.kind = kind /\ l.from = list /\ l.npm = npm /\ l.on = on
        BY <1>1 DEF Link
    <2>4. l \in LinkType'
        BY <1>1, <2>1, <2>2 DEF LinkType, Link
    <2> QED BY <1>5, <2>3, <2>4 DEF LinkOK
<1>9. owned' \subseteq known' /\ known' \subseteq DOMAIN state'
    BY <1>2, <1>4 DEF Shape
<1>10. MakesLink(l, n)
    BY <1>1
<1>11. Shape'
    BY <1>1, <1>2, <1>3, <1>4, <1>6, <1>7, <1>8, <1>9, <1>10, NewLinkShape
<1>12. \A m \in DOMAIN links : LinkInv(m)'
    BY <1>1, <1>3, <1>4, <1>6, <1>7, <1>10, OldLinksKept
<1>13. LinkInv(new)'
    <2>1. links'[new].kind = kind
        BY <1>1, <1>5 DEF Link
    <2>2. kind = "all" => CountsDown(new)'
        <3>1. stack' = stack
            OBVIOUS
        <3> QED BY <1>2, <1>4, <1>5, <1>7, <3>1, NewAllCounts
    <2> QED BY <1>5, <2>1, <2>2 DEF LinkInv
<1> QED BY <1>4, <1>5, <1>6, <1>11, <1>12, <1>13 DEF PromiseInv

LEMMA ListType ==
    ASSUME Shape, NEW list \in Lists
    PROVE  list \in Seq(DOMAIN state) /\ list # <<>> /\ Len(list) <= MaxList
<1>1. PICK n \in 1..MaxList : list \in [1..n -> DOMAIN state]
    BY DEF Lists
<1>2. list \in Seq(DOMAIN state) /\ Len(list) = n
    BY <1>1, FunctionIsSeq
<1> QED BY <1>1, <1>2, EmptySeq, BoundsAssumption

LEMMA AllStep ==
    ASSUME PromiseInv, NEW list \in Lists, All(list)
    PROVE  PromiseInv' /\ StateKept
<1>1. list \in Seq(DOMAIN state) /\ list # <<>> /\ Len(list) <= MaxList
    BY ListType DEF PromiseInv
<1>2. PICK outcome, n :
          /\ outcome = IF \E i \in DOMAIN list : state[list[i]] = "rejected" THEN "rejected"
                       ELSE IF \A i \in DOMAIN list : state[list[i]] = "fulfilled"
                       THEN "fulfilled" ELSE "pending"
          /\ n = Cardinality({i \in DOMAIN list : state[list[i]] # "fulfilled"})
    OBVIOUS
<1>3. outcome \in Side \cup {"pending"}
    BY <1>2 DEF Side
<1>4. New(outcome)
    BY <1>2 DEF All
<1>5. MakesLink(Link("all", list, npm, OnAll), n)
    BY <1>2 DEF All, MakesLink
<1>6. /\ callbacks' = Append(Added(callbacks, link, Times(list)), NoCallbacks)
      /\ known' = known \cup {npm} /\ UNCHANGED <<stack, owned>>
    BY DEF All
<1> QED BY <1>1, <1>2, <1>3, <1>4, <1>5, <1>6, GatherStep

LEMMA RaceStep ==
    ASSUME PromiseInv, NEW list \in Lists, Race(list)
    PROVE  PromiseInv' /\ StateKept
<1> DEFINE settled == {i \in DOMAIN list : state[list[i]] # "pending"}
           outcome == IF settled = {} THEN "pending"
                      ELSE state[list[CHOOSE i \in settled : \A j \in settled : i <= j]]
<1>1. list \in Seq(DOMAIN state) /\ list # <<>> /\ Len(list) <= MaxList
    BY ListType DEF PromiseInv
<1>2. New(outcome)
    BY DEF Race
<1>3. outcome \in Side \cup {"pending"}
    <2>1. ASSUME settled # {}
          PROVE  (CHOOSE i \in settled : \A j \in settled : i <= j) \in settled
        <3>1. settled \subseteq Nat
            BY <1>1, LenProperties
        <3> HIDE DEF settled
        <3>2. \E i \in settled : \A j \in settled : i <= j
            BY <2>1, <3>1, Smallest
        <3> QED BY <3>2
    <2>2. \A i \in settled : state[list[i]] \in Side \cup {"pending"}
        <3>1. \A i \in DOMAIN list : list[i] \in DOMAIN state
            BY <1>1, LenProperties, ElementOfSeq
        <3> QED BY <3>1, LenProperties, ElementOfSeq DEF PromiseInv, Shape
    <2> QED BY <2>1, <2>2
<1> HIDE DEF settled, outcome
<1>4. MakesLink(Link("race", list, npm, OnRace), 0)
    BY DEF Race, MakesLink
<1>5. /\ callbacks' = Append(Added(callbacks, link, Times(list)), NoCallbacks)
      /\ known' = known \cup {npm} /\ UNCHANGED <<stack, owned>>
    BY DEF Race
<1> QED BY <1>1, <1>2, <1>3, <1>4, <1>5, GatherStep

LEMMA TimesOne ==
    ASSUME Shape, NEW p \in DOMAIN state
    PROVE  /\ Times(<<p>>) \in [DOMAIN state -> Nat]
           /\ \A q \in DOMAIN state : Times(<<p>>)[q] = IF q = p THEN 1 ELSE 0
<1>1. <<p>> \in Seq(DOMAIN state) /\ DOMAIN <<p>> = {1} /\ <<p>>[1] = p
    OBVIOUS
<1>2. \A q : {i \in DOMAIN <<p>> : <<p>>[i] = q} = IF q = p THEN {1} ELSE {}
    BY <1>1
<1>3. Cardinality({1}) = 1 /\ Cardinality({}) = 0
    BY FS_Singleton, FS_EmptySet
<1> QED BY <1>1, <1>2, <1>3, TimesType DEF Times

LEMMA NoCallYet ==
    ASSUME Shape, NEW l, l \notin DOMAIN links
    PROVE  \A d \in 1..Depth : ~ CallAt(d, l)
BY FrameTypes DEF CallAt, FrameType

\* The stack after a then.
LEMMA ThenStack ==
    ASSUME Shape, LoopsOnce, StateKept, NEW p \in DOMAIN state,
           NEW new, new \notin DOMAIN links, DOMAIN links' = DOMAIN links \cup {new},
           NEW q \in DOMAIN state', NEW n, n = Depth,
           IF state[p] = "pending" THEN stack' = stack
           ELSE stack' = <<[frame |-> "call", l |-> new, side |-> state[p]],
                           [frame |-> "give", p |-> q]>> \o stack
    PROVE  /\ LoopsOnce' /\ stack' \in Seq(FrameType)'
           /\ \A m \in DOMAIN links : Quiet(m)
           /\ \A d \in 1..Depth' : CallAt(d, new)' =>
                 d = n + 2 /\ state[p] # "pending" /\ FrameAt(d)'.side = state[p]
<1>1. CASE state[p] = "pending"
    <2>1. stack' = stack
        BY <1>1
    <2>2. Base(Depth) /\ Depth' = Depth
        BY <2>1, NothingPushed DEF Rest, Depth
    <2>3. \A d \in 1..Depth' : ~ CallAt(d, new)'
        BY <2>2, NoCallYet DEF Base, CallAt
    <2> QED BY <2>1, <2>3, SameStack
<1>2. CASE state[p] # "pending"
    <2>1. PICK f, g, rest : /\ f = [frame |-> "call", l |-> new, side |-> state[p]]
                            /\ g = [frame |-> "give", p |-> q] /\ rest = stack
        OBVIOUS
    <2>2. stack' = <<f, g>> \o rest /\ Rest(rest) /\ Len(rest) = Depth /\ Depth \in Nat
        BY <1>2, <2>1, FrameTypes DEF Rest, Depth
    <2>3. /\ Base(n) /\ Depth' = n + 2 /\ FrameAt(n + 1)' = g /\ FrameAt(n + 2)' = f
        BY <2>2, TwoPushed
    <2>4. g.frame = "give" /\ f.frame = "call" /\ f.l = new /\ f.side = state[p]
        BY <2>1
    <2>5. \A d \in (n + 1)..Depth' : d = n + 1 \/ d = n + 2
        BY <2>2, <2>3
    <2>6. LoopsOnce'
        BY <2>2, <2>3, <2>4, <2>5, LoopsKept
    <2>7. \A m \in DOMAIN links : Quiet(m)
        BY <2>2, <2>3, <2>4, <2>5 DEF Quiet, CallAt
    <2>8. \A d \in 1..n : ~ CallAt(d, new)'
        BY <2>2, <2>3, NoCallYet DEF Base, CallAt
    <2>9. \A d \in 1..Depth' : CallAt(d, new)' => d = n + 2 /\ FrameAt(d)'.side = state[p]
        BY <2>2, <2>3, <2>4, <2>5, <2>8 DEF CallAt
    <2>10. stack' \in Seq(FrameType)'
        <3>1. state[p] \in Side
            BY <1>2, LenProperties, ElementOfSeq DEF Shape
        <3>2. f \in FrameType' /\ g \in FrameType'
            BY <2>1, <3>1 DEF FrameType
        <3>3. DOMAIN state \subseteq DOMAIN state'
            BY LenProperties DEF Shape, StateKept
        <3> QED BY <2>2, <3>2, <3>3, StackTyped
    <2> QED BY <1>2, <2>6, <2>7, <2>9, <2>10
<1> QED BY <1>1, <1>2

LEMMA ThenStep ==
    ASSUME PromiseInv, NEW p \in DOMAIN state, NEW on \in Handlers, Then(p, on)
    PROVE  PromiseInv' /\ StateKept
<1>1. PICK new, l, list, q, n :
          /\ new = link /\ list = <<p>> /\ q = npm /\ l = Link("then", list, q, on) /\ n = Depth
    OBVIOUS
<1>2. Shape /\ LoopsOnce /\ "pending" \in Side \cup {"pending"} /\ New("pending")
    BY DEF PromiseInv, Then
<1>3. /\ StateKept /\ Len(state') = Len(state) + 1 /\ Len(state') <= MaxPromise
      /\ state' \in Seq(Side \cup {"pending"})
      /\ q \notin DOMAIN state /\ DOMAIN state' = DOMAIN state \cup {q}
      /\ \A r \in DOMAIN state : state'[r] = state[r]
    BY <1>1, <1>2, NewState
<1>4. MakesLink(l, 0)
    BY <1>1 DEF Then, MakesLink
<1>5. MadeLink(new, l, 0)
    BY <1>1, <1>2, <1>4, NewLink
<1>6. /\ new \notin DOMAIN links /\ DOMAIN links' = DOMAIN links \cup {new}
      /\ links'[new] = l /\ left'[new] = 0 /\ ran'[new] = <<>>
    BY <1>5 DEF MadeLink
<1>7. /\ LoopsOnce' /\ stack' \in Seq(FrameType)'
      /\ \A m \in DOMAIN links : Quiet(m)
      /\ \A d \in 1..Depth' : CallAt(d, new)' =>
            d = n + 2 /\ state[p] # "pending" /\ FrameAt(d)'.side = state[p]
    <2>1. IF state[p] = "pending" THEN stack' = stack
          ELSE stack' = <<[frame |-> "call", l |-> new, side |-> state[p]],
                          [frame |-> "give", p |-> q]>> \o stack
        BY <1>1 DEF Then
    <2> QED BY <1>1, <1>2, <1>3, <1>6, <2>1, ThenStack
<1>8. FilesLink(new, Times(list))
    <2>1. Files(new, Times(list))
        BY <1>1, <1>3 DEF Files, Then
    <2>2. list \in Seq(DOMAIN state)
        BY <1>1
    <2> QED BY <1>1, <1>2, <1>3, <1>6, <2>1, <2>2, TimesType, FilesStep
<1>9. l \in LinkType' /\ LinkOK(new)'
    <2>1. list \in Seq(DOMAIN state') /\ q \in DOMAIN state' /\ list # <<>>
        BY <1>1, <1>3
    <2>2. on \in [Side -> Does] /\ on \in OnThen
        BY HandlersAssumption DEF OnThen, Does
    <2>3. l.kind = "then" /\ l.from = list /\ l.npm = q /\ l.on = on
        BY <1>1 DEF Link
    <2>4. l \in LinkType'
        BY <1>1, <2>1, <2>2 DEF LinkType, Link
    <2> QED BY <1>6, <2>1, <2>2, <2>3, <2>4 DEF LinkOK
<1>10. owned' \subseteq known' /\ known' \subseteq DOMAIN state'
    BY <1>1, <1>2, <1>3 DEF Shape, Then
<1>11. Shape'
    BY <1>1, <1>2, <1>3, <1>4, <1>7, <1>8, <1>9, <1>10, NewLinkShape
<1>12. \A m \in DOMAIN links : LinkInv(m)'
    BY <1>1, <1>3, <1>4, <1>7, <1>8, OldLinksKept
<1>13. LinkInv(new)'
    <2>1. links'[new].kind = "then" /\ links'[new].from[1] = p
        BY <1>1, <1>6 DEF Link
    <2>2. \A r \in DOMAIN state, s \in Side :
              FiledAt(new, r, s)' =
                 IF r = p /\ state[p] = "pending" THEN {Len(callbacks[p][s]) + 1} ELSE {}
        <3> SUFFICES ASSUME NEW r \in DOMAIN state, NEW s \in Side
                     PROVE  FiledAt(new, r, s)' =
                        IF r = p /\ state[p] = "pending" THEN {Len(callbacks[p][s]) + 1} ELSE {}
            OBVIOUS
        <3>1. PICK c \in Nat : c = Len(callbacks[r][s])
            BY <1>2, CallbackTypes
        <3>2. Times(list)[r] = IF r = p THEN 1 ELSE 0
            BY <1>1, <1>2, TimesOne
        <3>3. FiledAt(new, r, s)' = (c + 1)..(c + IF state[r] = "pending" THEN Times(list)[r] ELSE 0)
            BY <1>8, <3>1 DEF FilesLink
        <3>4. CASE r = p /\ state[p] = "pending"
            <4>1. FiledAt(new, r, s)' = (c + 1)..(c + 1)
                BY <3>2, <3>3, <3>4
            <4> QED BY <3>1, <3>4, <4>1
        <3>5. CASE ~ (r = p /\ state[p] = "pending")
            <4>1. FiledAt(new, r, s)' = (c + 1)..(c + 0)
                BY <3>2, <3>3, <3>5
            <4> QED BY <3>1, <3>5, <4>1
        <3> QED BY <3>4, <3>5
    <2>3. \A r \in DOMAIN state', s \in Side : FiledAt(new, r, s)' # {} => r = p
        BY <1>6, <1>8, <2>2 DEF FilesLink
    <2>4. \A s \in Side : \A i, j \in FiledAt(new, p, s)' : i = j
        BY <2>2
    <2>5. state'[p] = state[p]
        BY <1>3
    <2>6. Called(new)' => state[p] # "pending" /\ state[p] \in Side
        <3>1. state[p] \in Side \cup {"pending"}
            BY <1>2, LenProperties, ElementOfSeq DEF Shape
        <3> QED BY <1>6, <1>7, <3>1 DEF Called
    <2>7. Called(new)' => \A s : s = state'[p] => \A j \in FiledAt(new, p, s)' : Passed(p, s, j)'
        BY <2>2, <2>5, <2>6
    <2>8. ThenOnce(new)'
        BY <1>6, <1>7, <2>1, <2>3, <2>4, <2>5, <2>7 DEF ThenOnce
    <2> QED BY <1>6, <2>1, <2>8 DEF LinkInv
<1> QED BY <1>3, <1>6, <1>7, <1>11, <1>12, <1>13 DEF PromiseInv

\* Steps that make nothing and keep the callbacks.
LEMMA PlainShape ==
    ASSUME Shape, state' \in Seq(Side \cup {"pending"}), Len(state') = Len(state),
           stack' \in Seq(FrameType)', UNCHANGED <<callbacks, links, owned>>,
           left' \in Seq(Int), Len(left') = Len(left),
           ran' \in Seq(Seq(Side)), Len(ran') = Len(ran),
           owned \subseteq known', known' \subseteq DOMAIN state
    PROVE  Shape'
<1>1. DOMAIN state' = DOMAIN state
    BY LenProperties DEF Shape
<1>2. LinkType' = LinkType
    BY <1>1 DEF LinkType
<1>3. links' \in Seq(LinkType)' /\ \A l \in DOMAIN links' : LinkOK(l)'
    <2>1. PICK T : T = LinkType /\ T = LinkType'
        BY <1>2
    <2>2. links' \in Seq(T)
        BY <2>1 DEF Shape
    <2> QED BY <2>1, <2>2 DEF Shape, LinkOK
<1> QED BY <1>1, <1>3 DEF Shape

LEMMA PlainLinks ==
    ASSUME PromiseInv, StateKept, Len(state') = Len(state), UNCHANGED <<callbacks, links>>,
           NEW l \in DOMAIN links, Quiet(l)
    PROVE  /\ Undisturbed(l)
           /\ ran'[l] = ran[l] /\ left'[l] = left[l] => LinkInv(l)'
<1>1. Shape /\ LinkInv(l)
    BY DEF PromiseInv
<1>2. DOMAIN state' = DOMAIN state
    BY <1>1, LenProperties DEF Shape, StateKept
<1>3. FiledKept(l)
    BY <1>2 DEF FiledKept, FiledAt
<1> QED BY <1>1, <1>3, QuietStep, LinkInvKept

LEMMA GiveStep ==
    ASSUME PromiseInv, Give
    PROVE  PromiseInv' /\ StateKept
<1>1. /\ Shape /\ LoopsOnce /\ stack # <<>> /\ Head(stack).frame = "give"
      /\ known' = known \cup {Head(stack).p}
      /\ stack' = Tail(stack) /\ UNCHANGED <<state, callbacks, links, left, owned, ran>>
    BY DEF PromiseInv, Give, Top
<1>2. PICK rest, n : rest = Tail(stack) /\ n = Depth
    OBVIOUS
<1>3. /\ Rest(rest) /\ stack' = rest /\ Depth \in Nat /\ Depth > 0
      /\ FrameAt(n).frame = "give" /\ FrameAt(n).p \in DOMAIN state
      /\ Head(stack) = FrameAt(n)
    <2>1. FrameAt(n) \in FrameType /\ Head(stack) = FrameAt(n)
        BY <1>1, <1>2, FrameTypes
    <2> QED BY <1>1, <1>2, <2>1, FrameTypes DEF Rest, FrameType
<1>4. StateKept
    BY <1>1 DEF StateKept, Shape
<1>5. /\ Base(Len(rest)) /\ Depth' = Len(rest) /\ Len(rest) \in {Depth, Depth - 1}
      /\ Len(rest) \in Nat
    BY <1>1, <1>3, NothingPushed, RestFrames
<1>6. LoopsOnce' /\ \A l : Quiet(l)
    BY <1>1, <1>2, <1>3, <1>4, <1>5, LoopsKept DEF Quiet
<1>7. stack' \in Seq(FrameType)'
    BY <1>1, <1>3, StackTyped
<1>8. Shape'
    <2>1. owned \subseteq known' /\ known' \subseteq DOMAIN state
        BY <1>1, <1>3 DEF Shape
    <2>2. /\ state' \in Seq(Side \cup {"pending"}) /\ Len(state') = Len(state)
          /\ left' \in Seq(Int) /\ Len(left') = Len(left)
          /\ ran' \in Seq(Seq(Side)) /\ Len(ran') = Len(ran)
        BY <1>1 DEF Shape
    <2> QED BY <1>1, <1>7, <2>1, <2>2, PlainShape
<1>9. \A l \in DOMAIN links' : LinkInv(l)'
    BY <1>1, <1>4, <1>6, PlainLinks
<1> QED BY <1>4, <1>6, <1>8, <1>9 DEF PromiseInv

LEMMA ResolveOrRejectStep ==
    ASSUME PromiseInv, NEW p \in DOMAIN state, NEW side \in Side, ResolveOrReject(p, side)
    PROVE  PromiseInv' /\ StateKept
<1>1. /\ Shape /\ LoopsOnce
      /\ UNCHANGED <<callbacks, links, left, known, owned, ran>>
    BY DEF PromiseInv, ResolveOrReject
<1>2. PICK rest : rest = stack
    OBVIOUS
<1>3. Settle(p, side, rest) /\ Rest(rest)
    BY <1>2 DEF ResolveOrReject, Rest
<1>4. /\ StateKept /\ LoopsOnce' /\ \A l : Quiet(l)
      /\ Len(state') = Len(state) /\ stack' \in Seq(FrameType)'
    BY <1>1, <1>2, <1>3, SettleStep
<1>5. Shape'
    <2>1. /\ owned \subseteq known' /\ known' \subseteq DOMAIN state
          /\ left' \in Seq(Int) /\ Len(left') = Len(left)
          /\ ran' \in Seq(Seq(Side)) /\ Len(ran') = Len(ran)
        BY <1>1 DEF Shape
    <2> QED BY <1>1, <1>4, <2>1, PlainShape DEF StateKept
<1>6. \A l \in DOMAIN links' : LinkInv(l)'
    BY <1>1, <1>4, PlainLinks
<1> QED BY <1>4, <1>5, <1>6 DEF PromiseInv

LEMMA ReturnPlainStep ==
    ASSUME PromiseInv, ReturnPlain
    PROVE  PromiseInv' /\ StateKept
<1>1. /\ Shape /\ LoopsOnce /\ stack # <<>> /\ Head(stack).frame = "code"
      /\ UNCHANGED <<callbacks, links, left, known, owned, ran>>
    BY DEF PromiseInv, ReturnPlain, Top
<1>2. PICK rest, p, side : /\ rest = Tail(stack) /\ p = links[Head(stack).l].npm
                           /\ side = Head(stack).side
    OBVIOUS
<1>3. Rest(rest) /\ FrameAt(Depth).frame = "code" /\ side \in Side /\ p \in DOMAIN state
    <2>1. Head(stack) \in FrameType /\ Head(stack) = FrameAt(Depth)
        BY <1>1, FrameTypes
    <2>2. Head(stack).l \in DOMAIN links /\ Head(stack).side \in Side
        BY <1>1, <2>1 DEF FrameType
    <2> QED BY <1>1, <1>2, <2>1, <2>2, LinkTypes DEF Rest
<1>4. Settle(p, side, rest)
    BY <1>2 DEF ReturnPlain
<1>5. /\ StateKept /\ LoopsOnce' /\ \A l : Quiet(l)
      /\ Len(state') = Len(state) /\ stack' \in Seq(FrameType)'
    BY <1>1, <1>3, <1>4, SettleStep
<1>6. Shape'
    <2>1. /\ owned \subseteq known' /\ known' \subseteq DOMAIN state
          /\ left' \in Seq(Int) /\ Len(left') = Len(left)
          /\ ran' \in Seq(Seq(Side)) /\ Len(ran') = Len(ran)
        BY <1>1 DEF Shape
    <2> QED BY <1>1, <1>5, <2>1, PlainShape DEF StateKept
<1>7. \A l \in DOMAIN links' : LinkInv(l)'
    BY <1>1, <1>5, PlainLinks
<1> QED BY <1>5, <1>6, <1>7 DEF PromiseInv

\* The frame on top is one of link l, which is popped.
LEMMA TopOfLink ==
    ASSUME Shape, stack # <<>>, Head(stack).frame \in {"call", "code"},
           NEW l, l = Head(stack).l, NEW side, side = Head(stack).side
    PROVE  /\ l \in DOMAIN links /\ side \in Side /\ links[l].npm \in DOMAIN state
           /\ Depth \in Nat /\ Depth > 0 /\ Head(stack) = FrameAt(Depth)
           /\ FrameAt(Depth).l = l /\ FrameAt(Depth).side = side
           /\ FrameAt(Depth).frame = Head(stack).frame
           /\ Rest(Tail(stack)) /\ Tail(stack) # stack /\ Len(Tail(stack)) = Depth - 1
<1>1. Head(stack) \in FrameType /\ Head(stack) = FrameAt(Depth) /\ Depth \in Nat /\ Depth > 0
    BY FrameTypes
<1>2. l \in DOMAIN links /\ side \in Side
    BY <1>1 DEF FrameType
<1>3. Rest(Tail(stack))
    BY DEF Rest
<1>4. Len(Tail(stack)) = Depth - 1
    BY HeadTailProperties DEF Shape, Depth
<1>5. Tail(stack) # stack
    <2> SUFFICES ASSUME Tail(stack) = stack PROVE FALSE
        OBVIOUS
    <2>1. Depth = Len(Tail(stack))
        BY DEF Depth
    <2>2. Depth = Depth - 1
        BY <1>4, <2>1
    <2> QED BY <1>1, <2>2
<1> QED BY <1>1, <1>2, <1>3, <1>4, <1>5, LinkTypes

LEMMA CallPass ==
    ASSUME PromiseInv, NEW l \in DOMAIN links, NEW side \in Side, NEW rest, Rest(rest),
           rest # stack, FrameAt(Depth).frame = "call",
           Settle(links[l].npm, side, rest),
           UNCHANGED <<callbacks, links, left, known, owned, ran>>
    PROVE  PromiseInv' /\ StateKept
<1>1. Shape /\ LoopsOnce
    BY DEF PromiseInv
<1>2. /\ StateKept /\ LoopsOnce' /\ \A m : Quiet(m)
      /\ Len(state') = Len(state) /\ stack' \in Seq(FrameType)'
    BY <1>1, LinkTypes, SettleStep
<1>3. Shape'
    <2>1. /\ owned \subseteq known' /\ known' \subseteq DOMAIN state
          /\ left' \in Seq(Int) /\ Len(left') = Len(left)
          /\ ran' \in Seq(Seq(Side)) /\ Len(ran') = Len(ran)
        BY <1>1 DEF Shape
    <2> QED BY <1>1, <1>2, <2>1, PlainShape DEF StateKept
<1>4. \A m \in DOMAIN links' : LinkInv(m)'
    BY <1>2, PlainLinks
<1> QED BY <1>2, <1>3, <1>4 DEF PromiseInv

LEMMA CallCount ==
    ASSUME PromiseInv, NEW l \in DOMAIN links, NEW side \in Side, NEW rest, Rest(rest),
           rest # stack, CallAt(Depth, l), FrameAt(Depth).side = side,
           links[l].on[side] = "count",
           left' = [left EXCEPT ![l] = @ - 1],
           IF left[l] = 1 THEN Settle(links[l].npm, side, rest)
           ELSE stack' = rest /\ UNCHANGED state,
           UNCHANGED <<callbacks, links, known, owned, ran>>
    PROVE  PromiseInv' /\ StateKept
<1>1. Shape /\ LoopsOnce /\ FrameAt(Depth).frame = "call"
    BY DEF PromiseInv, CallAt
<1>2. /\ StateKept /\ LoopsOnce' /\ \A m : Quiet(m)
      /\ Len(state') = Len(state) /\ stack' \in Seq(FrameType)'
      /\ \A d \in 1..Depth' : FrameAt(d)'.frame = "call" => d <= Len(rest)
    <2>1. CASE left[l] = 1
        BY <1>1, <2>1, LinkTypes, SettleStep
    <2>2. CASE left[l] # 1
        BY <1>1, <2>2, PopStep
    <2> QED BY <2>1, <2>2
<1>3. /\ left' \in Seq(Int) /\ Len(left') = Len(left) /\ left'[l] = left[l] - 1 /\ left[l] \in Int
      /\ \A m \in DOMAIN links : m # l => left'[m] = left[m]
    <2>1. /\ left \in Seq(Int) /\ l \in 1..Len(left) /\ DOMAIN links = 1..Len(left)
          /\ left[l] - 1 \in Int /\ left[l] \in Int
        <3>1. left \in Seq(Int) /\ l \in 1..Len(left) /\ DOMAIN links = 1..Len(left)
            BY <1>1, LenProperties DEF Shape
        <3>2. left[l] \in Int
            BY <3>1, ElementOfSeq
        <3> QED BY <3>1, <3>2
    <2> QED BY <2>1, ExceptSeq
<1>4. Shape'
    <2>1. /\ owned \subseteq known' /\ known' \subseteq DOMAIN state
          /\ ran' \in Seq(Seq(Side)) /\ Len(ran') = Len(ran)
        BY <1>1 DEF Shape
    <2> QED BY <1>1, <1>2, <1>3, <2>1, PlainShape DEF StateKept
<1>5. \A m \in DOMAIN links : m # l => LinkInv(m)'
    BY <1>2, <1>3, PlainLinks
<1>6. links[l].kind = "all" /\ side = "fulfilled"
    BY <1>1, LinkTypes DEF LinkOK, LinkType, OnThen, OnAll, OnRace, Side
<1>7. CountsDown(l)'
    <2>1. PICK D, E, x : D = Due(l)' /\ E = Due(l) /\ x = <<0, Depth>>
        OBVIOUS
    <2>2. D \subseteq E
        BY <1>2, <2>1, PlainLinks, DueShrinks
    <2>3. x \in E
        BY <1>1, <1>6, <2>1, FrameTypes, RestFrames DEF Due, DueCalls
    <2>4. x \notin D
        <3>1. Depth \notin DueCalls(l)'
            <4>1. Len(rest) < Depth /\ Len(rest) \in Nat /\ Depth \in Nat
                BY <1>1, RestFrames, FrameTypes
            <4>2. PICK n : n = Depth
                OBVIOUS
            <4>3. n \notin DueCalls(l)'
                BY <1>2, <4>1, <4>2 DEF DueCalls, CallAt
            <4> QED BY <4>2, <4>3
        <3>2. x \notin DueFiled(l)'
            BY <1>1, <2>1, <1>2, LenProperties DEF DueFiled, StateKept, Shape
        <3> QED BY <2>1, <3>1, <3>2 DEF Due
    <2>5. IsFiniteSet(E) /\ Cardinality(E) <= left[l] /\ left[l] <= MaxList
        BY <1>6, <2>1 DEF PromiseInv, LinkInv, CountsDown
    <2>6. IsFiniteSet(E \ {x}) /\ Cardinality(E \ {x}) = Cardinality(E) - 1
        BY <2>3, <2>5, FS_RemoveElement
    <2>7. IsFiniteSet(D) /\ Cardinality(D) <= Cardinality(E \ {x})
        BY <2>2, <2>4, <2>6, FS_Subset
    <2>8. Cardinality(E) \in Nat /\ Cardinality(D) \in Nat
        BY <2>5, <2>7, FS_CardinalityType
    <2>9. Cardinality(D) <= left'[l] /\ left'[l] <= MaxList
        BY <1>3, <2>5, <2>6, <2>7, <2>8, BoundsAssumption
    <2> QED BY <2>1, <2>7, <2>9 DEF CountsDown
<1>8. LinkInv(l)'
    BY <1>1, <1>6, <1>7 DEF LinkInv, PromiseInv
<1> QED BY <1>2, <1>4, <1>5, <1>8 DEF PromiseInv

LEMMA CallCode ==
    ASSUME PromiseInv, NEW l \in DOMAIN links, NEW side \in Side, NEW rest, Rest(rest),
           rest # stack, CallAt(Depth, l), FrameAt(Depth).side = side,
           links[l].on[side] \in {"plain", "promise"},
           ran' = [ran EXCEPT ![l] = Append(@, side)],
           stack' = <<[frame |-> "code", l |-> l, side |-> side]>> \o rest,
           UNCHANGED <<state, callbacks, links, left, known, owned>>
    PROVE  PromiseInv' /\ StateKept
<1>1. Shape /\ LoopsOnce /\ FrameAt(Depth).frame = "call"
    BY DEF PromiseInv, CallAt
<1>2. PICK f, n : f = [frame |-> "code", l |-> l, side |-> side] /\ n = Len(rest)
    OBVIOUS
<1>3. /\ Base(n) /\ Depth' = n + 1 /\ FrameAt(n + 1)' = f /\ n = Depth - 1
      /\ n \in Nat /\ Depth \in Nat
    BY <1>1, <1>2, OnePushed, RestFrames, FrameTypes
<1>4. StateKept
    BY <1>1 DEF StateKept, Shape
<1>5. \A d \in (n + 1)..Depth' : FrameAt(d)'.frame = "code"
    BY <1>2, <1>3
<1>6. LoopsOnce' /\ \A m : Quiet(m)
    <2>1. LoopsOnce'
        BY <1>1, <1>3, <1>4, <1>5, LoopsKept
    <2>2. \A m : Quiet(m)
        BY <1>1, <1>3, <1>5 DEF Quiet, CallAt
    <2> QED BY <2>1, <2>2
<1>7. stack' \in Seq(FrameType)'
    <2>1. f \in FrameType'
        BY <1>2 DEF FrameType
    <2> QED BY <1>1, <1>2, <2>1, StackTyped
<1>8. /\ links[l].kind = "then" /\ ThenOnce(l)
    <2>1. links[l].kind = "then"
        <3>1. /\ links[l].kind \in {"then", "all", "race", "follow"}
              /\ links[l].kind = "all" => links[l].on = OnAll
              /\ links[l].kind \in {"race", "follow"} => links[l].on = OnRace
            BY <1>1, LinkTypes DEF LinkOK, LinkType
        <3>2. OnAll[side] \in {"count", "pass"} /\ OnRace[side] = "pass"
            BY DEF OnAll, OnRace, Side
        <3> QED BY <3>1, <3>2
    <2> QED BY <2>1 DEF PromiseInv, LinkInv
<1>9. PICK p \in DOMAIN state : p = links[l].from[1]
    BY <1>1, LinkTypes
<1>10. /\ side = state[p] /\ ran[l] = <<>>
       /\ \A d \in 1..Depth : CallAt(d, l) => d = Depth
    BY <1>3, <1>8, <1>9 DEF ThenOnce
<1>11. /\ ran' \in Seq(Seq(Side)) /\ Len(ran') = Len(ran) /\ ran'[l] = <<side>>
       /\ \A m \in DOMAIN links : m # l => ran'[m] = ran[m]
    <2>1. PICK R, e : R = Seq(Side) /\ e = <<side>>
        OBVIOUS
    <2>2. e \in R /\ ran \in Seq(R) /\ l \in 1..Len(ran) /\ DOMAIN links = 1..Len(ran)
        BY <1>1, <2>1, LenProperties DEF Shape
    <2>3. ran' = [ran EXCEPT ![l] = e]
        BY <1>10, <2>1, <2>2
    <2>4. PICK new : new = [ran EXCEPT ![l] = e]
        OBVIOUS
    <2>5. /\ new \in Seq(R) /\ Len(new) = Len(ran)
          /\ \A m \in 1..Len(ran) : new[m] = IF m = l THEN e ELSE ran[m]
        BY <2>2, <2>4, ExceptSeq
    <2> QED BY <2>1, <2>2, <2>3, <2>4, <2>5
<1>12. Shape'
    <2>1. /\ owned \subseteq known' /\ known' \subseteq DOMAIN state
          /\ left' \in Seq(Int) /\ Len(left') = Len(left)
          /\ state' \in Seq(Side \cup {"pending"}) /\ Len(state') = Len(state)
        BY <1>1 DEF Shape
    <2> QED BY <1>1, <1>7, <1>11, <2>1, PlainShape
<1>13. \A m \in DOMAIN links : m # l => LinkInv(m)'
    BY <1>4, <1>6, <1>11, PlainLinks
<1>14. ThenOnce(l)'
    <2>1. Undisturbed(l)
        BY <1>4, <1>6, PlainLinks
    <2>2. \A d \in 1..Depth' : ~ CallAt(d, l)'
        BY <1>3, <1>5, <1>10 DEF Base, CallAt
    <2>3. /\ \A q \in DOMAIN state, s \in Side : FiledAt(l, q, s) # {} => q = p
          /\ \A s \in Side : \A i, j \in FiledAt(l, p, s) : i = j
          /\ \A j \in FiledAt(l, p, side) : Passed(p, side, j)
        BY <1>1, <1>3, <1>8, <1>9, <1>10 DEF ThenOnce, Called
    <2>4. \A q \in DOMAIN state, s \in Side : FiledAt(l, q, s)' = FiledAt(l, q, s)
        BY DEF FiledAt
    <2>5. \A j \in FiledAt(l, p, side)' : Passed(p, side, j)'
        BY <2>1, <2>3, <2>4 DEF Undisturbed, PassedKept
    <2>6. \A s : s = state'[p] => \A j \in FiledAt(l, p, s)' : Passed(p, s, j)'
        BY <1>10, <2>5
    <2>7. \A q \in DOMAIN state', s \in Side : FiledAt(l, q, s)' # {} => q = p
        BY <2>3, <2>4
    <2>8. \A s \in Side : \A i, j \in FiledAt(l, p, s)' : i = j
        BY <2>3, <2>4
    <2>9. links'[l].from[1] = p /\ ran'[l] = <<state'[p]>> /\ state'[p] # "pending"
        BY <1>9, <1>10, <1>11 DEF Side
    <2> QED BY <2>2, <2>6, <2>7, <2>8, <2>9 DEF ThenOnce
<1>15. LinkInv(l)'
    BY <1>8, <1>14 DEF LinkInv, PromiseInv
<1> QED BY <1>4, <1>6, <1>12, <1>13, <1>15 DEF PromiseInv

LEMMA CallStep ==
    ASSUME PromiseInv, Call
    PROVE  PromiseInv' /\ StateKept
<1>1. /\ Shape /\ stack # <<>> /\ Head(stack).frame = "call"
      /\ UNCHANGED <<callbacks, links, known, owned>>
    BY DEF PromiseInv, Call, Top
<1>2. PICK l, side, rest : l = Head(stack).l /\ side = Head(stack).side /\ rest = Tail(stack)
    OBVIOUS
<1>3. /\ l \in DOMAIN links /\ side \in Side /\ Rest(rest) /\ rest # stack
      /\ CallAt(Depth, l) /\ FrameAt(Depth).side = side /\ FrameAt(Depth).frame = "call"
    BY <1>1, <1>2, TopOfLink DEF CallAt
<1>4. CASE /\ links[l].on[side] = "pass" /\ Settle(links[l].npm, side, rest)
           /\ UNCHANGED <<left, ran>>
    BY <1>1, <1>3, <1>4, CallPass
<1>5. CASE /\ links[l].on[side] = "count"
           /\ left' = [left EXCEPT ![l] = @ - 1]
           /\ IF left[l] = 1 THEN Settle(links[l].npm, side, rest)
              ELSE stack' = rest /\ UNCHANGED state
           /\ UNCHANGED ran
    BY <1>1, <1>3, <1>5, CallCount
<1>6. CASE /\ links[l].on[side] \in {"plain", "promise"}
           /\ ran' = [ran EXCEPT ![l] = Append(@, side)]
           /\ stack' = <<[frame |-> "code", l |-> l, side |-> side]>> \o rest
           /\ UNCHANGED <<state, left>>
    BY <1>1, <1>3, <1>6, CallCode
<1> QED BY <1>2, <1>4, <1>5, <1>6 DEF Call

\* A loop calls the next callback.
LEMMA LoopCalls ==
    ASSUME PromiseInv, NEW p, NEW k, NEW side, NEW rest, NEW c, NEW n,
           Rest(rest), rest # stack, n = Len(rest),
           FrameAt(Depth) = [frame |-> "loop", p |-> p, k |-> k],
           side = state[p], k \in DOMAIN callbacks[p][side], c = callbacks[p][side][k],
           stack' = <<[frame |-> "call", l |-> c, side |-> side],
                      [frame |-> "loop", p |-> p, k |-> k + 1]>> \o rest,
           UNCHANGED <<state, callbacks, links, left, known, owned, ran>>
    PROVE  PromiseInv' /\ StateKept
<1>1. Shape /\ LoopsOnce /\ Depth \in Nat /\ n \in Nat /\ n = Depth - 1
    BY RestFrames, FrameTypes DEF PromiseInv
<1>2. p \in DOMAIN state /\ k \in Nat \ {0} /\ side \in Side /\ c \in DOMAIN links
    <2>1. FrameAt(Depth) \in FrameType
        BY <1>1, FrameTypes
    <2>2. p \in DOMAIN state /\ k \in Nat \ {0}
        BY <2>1 DEF FrameType
    <2>3. side # "pending"
        BY <1>1 DEF LoopsOnce
    <2>4. side \in Side
        BY <1>1, <2>2, <2>3, LenProperties, ElementOfSeq DEF Shape
    <2> QED BY <1>1, <2>2, <2>4, CallbackTypes, ElementOfSeq
<1>3. PICK f, g : /\ f = [frame |-> "call", l |-> c, side |-> side]
                  /\ g = [frame |-> "loop", p |-> p, k |-> k + 1]
    OBVIOUS
<1>4. /\ Base(n) /\ Depth' = n + 2 /\ FrameAt(n + 1)' = g /\ FrameAt(n + 2)' = f
    BY <1>1, <1>3, TwoPushed
<1>5. \A d \in (n + 1)..Depth' : d = n + 1 \/ d = n + 2
    BY <1>1, <1>4
<1>6. StateKept
    BY <1>1 DEF StateKept, Shape
<1>7. \A d \in 1..Depth : LoopAt(d, p) => d = Depth
    <2>1. PICK e : e = Depth
        OBVIOUS
    <2>2. e \in 1..Depth /\ FrameAt(e).frame = "loop" /\ FrameAt(e).p = p
        BY <1>1, <2>1
    <2>3. \A d \in 1..Depth : LoopAt(d, FrameAt(e).p) => e = d
        BY <1>1, <2>2 DEF LoopsOnce
    <2> QED BY <2>1, <2>2, <2>3
<1>8. LoopsOnce'
    <2>1. LoopAt(n + 1, p)' /\ \A d \in (n + 2)..Depth' : FrameAt(d)'.frame # "loop"
        BY <1>1, <1>3, <1>4, <1>5 DEF LoopAt
    <2>2. \A d \in 1..n : ~ LoopAt(d, p)
        BY <1>1, <1>7
    <2>3. state'[p] # "pending"
        BY <1>2 DEF Side
    <2> QED BY <1>1, <1>2, <1>4, <1>6, <2>1, <2>2, <2>3, LoopPushed
<1>9. stack' \in Seq(FrameType)'
    <2>1. f \in FrameType' /\ g \in FrameType'
        BY <1>2, <1>3 DEF FrameType
    <2> QED BY <1>1, <1>3, <2>1, StackTyped
<1>10. Shape'
    <2>1. /\ owned \subseteq known' /\ known' \subseteq DOMAIN state
          /\ left' \in Seq(Int) /\ Len(left') = Len(left)
          /\ ran' \in Seq(Seq(Side)) /\ Len(ran') = Len(ran)
          /\ state' \in Seq(Side \cup {"pending"}) /\ Len(state') = Len(state)
        BY <1>1 DEF Shape
    <2> QED BY <1>1, <1>9, <2>1, PlainShape
\* Nothing else changes than that the loop is past k, and that c is called.
<1>11. \A q, s : \A j \in Nat : Passed(q, s, j) => Passed(q, s, j)'
    <2> SUFFICES ASSUME NEW q, NEW s, NEW j \in Nat, Passed(q, s, j) PROVE Passed(q, s, j)'
        OBVIOUS
    <2>1. PICK d \in 1..Depth : LoopAt(d, q) /\ j < FrameAt(d).k
        BY DEF Passed
    <2>2. CASE d \in 1..n
        BY <1>1, <1>4, <2>1, <2>2 DEF Passed, Base, LoopAt
    <2>3. CASE d = n + 1
        <3>1. q = p /\ j < k
            BY <1>1, <2>1, <2>3 DEF LoopAt
        <3>2. LoopAt(n + 1, p)' /\ FrameAt(n + 1)'.k = k + 1 /\ n + 1 \in 1..Depth'
            BY <1>1, <1>3, <1>4 DEF LoopAt
        <3>3. j < k + 1 /\ state'[q] = s
            BY <1>2, <3>1 DEF Passed
        <3> QED BY <3>1, <3>2, <3>3 DEF Passed
    <2> QED BY <1>1, <2>2, <2>3
<1>12. ~ Passed(p, side, k) /\ Passed(p, side, k)'
    <2>1. ~ Passed(p, side, k)
        BY <1>1, <1>2, <1>7 DEF Passed
    <2>2. LoopAt(n + 1, p)' /\ FrameAt(n + 1)'.k = k + 1 /\ n + 1 \in 1..Depth'
        BY <1>1, <1>3, <1>4 DEF LoopAt
    <2>3. k < k + 1
        BY <1>2
    <2> QED BY <2>1, <2>2, <2>3 DEF Passed
<1>13. \A m, q, s : FiledAt(m, q, s)' = FiledAt(m, q, s)
    BY DEF FiledAt
<1>14. \A d \in 1..Depth' : \A m : CallAt(d, m)' =>
           \/ d \in 1..Depth /\ CallAt(d, m) /\ FrameAt(d)'.side = FrameAt(d).side
           \/ d = n + 2 /\ m = c /\ FrameAt(d)'.side = side
    BY <1>1, <1>3, <1>4, <1>5 DEF Base, CallAt
<1>15. \A m \in DOMAIN links : m # c => LinkInv(m)'
    <2> SUFFICES ASSUME NEW m \in DOMAIN links, m # c PROVE LinkInv(m)'
        OBVIOUS
    <2>1. FiledKept(m) /\ PassedKept(m) /\ CallsKept(m)
        <3>1. \A q \in DOMAIN state, s \in Side : \A j \in FiledAt(m, q, s)' : j \in Nat
            BY <1>1, <1>13, CallbackTypes DEF FiledAt
        <3>2. PassedKept(m)
            BY <1>11, <3>1 DEF PassedKept
        <3> QED BY <1>13, <1>14, <3>2 DEF FiledKept, CallsKept
    <2>2. Undisturbed(m)
        BY <2>1 DEF Undisturbed
    <2> QED BY <1>1, <1>6, <2>2, LinkInvKept DEF PromiseInv
<1>16. k \in FiledAt(c, p, side)
    BY DEF FiledAt
<1>17. ASSUME links[c].kind = "then" PROVE ThenOnce(c)'
    <2>1. PICK P \in DOMAIN state : P = links[c].from[1]
        BY <1>1, <1>2, LinkTypes
    <2>2. ThenOnce(c)
        BY <1>2, <1>17 DEF PromiseInv, LinkInv
    <2>3. /\ \A q \in DOMAIN state, s \in Side : FiledAt(c, q, s) # {} => q = P
          /\ \A s \in Side : \A i, j \in FiledAt(c, P, s) : i = j
          /\ Called(c) => \A j \in FiledAt(c, P, state[P]) : Passed(P, state[P], j)
        <3>1. \A q \in DOMAIN state, s \in Side : FiledAt(c, q, s) # {} => q = P
            BY <2>1, <2>2 DEF ThenOnce
        <3>2. \A s \in Side : \A i, j \in FiledAt(c, P, s) : i = j
            <4> TAKE s \in Side
            <4> TAKE i, j \in FiledAt(c, P, s)
            <4>1. links[c].from[1] = P
                BY <2>1
            <4> QED BY <2>2, <4>1 DEF ThenOnce
        <3>3. Called(c) => \A j \in FiledAt(c, P, state[P]) : Passed(P, state[P], j)
            BY <2>1, <2>2 DEF ThenOnce
        <3> QED BY <3>1, <3>2, <3>3
    <2>4. P = p
        BY <1>2, <1>16, <2>3
    <2>5. ~ Called(c)
        BY <1>12, <1>16, <2>3, <2>4
    <2>6. \A d \in 1..Depth' : CallAt(d, c)' => d = n + 2 /\ FrameAt(d)'.side = side
        BY <1>14, <2>5 DEF Called
    <2>7. ran'[c] = <<>> /\ links'[c].from[1] = p /\ state'[p] = side
        BY <2>1, <2>4, <2>5 DEF Called
    <2>8. \A j \in FiledAt(c, p, side)' : Passed(p, side, j)'
        <3>1. FiledAt(c, p, side)' = FiledAt(c, p, side)
            BY <1>13
        <3>2. \A j \in FiledAt(c, p, side) : j = k
            BY <1>2, <1>16, <2>3, <2>4
        <3> QED BY <1>12, <3>1, <3>2
    <2>9. \A s : s = state'[p] => \A j \in FiledAt(c, p, s)' : Passed(p, s, j)'
        BY <2>7, <2>8
    <2>10. /\ \A q \in DOMAIN state', s \in Side : FiledAt(c, q, s)' # {} => q = p
           /\ \A s \in Side : \A i, j \in FiledAt(c, p, s)' : i = j
        <3>1. \A q, s : FiledAt(c, q, s)' = FiledAt(c, q, s)
            BY <1>13
        <3> QED BY <2>3, <2>4, <3>1
    <2>11. /\ \A d \in 1..Depth' : CallAt(d, c)' => FrameAt(d)'.side = state'[p] /\ ran'[c] = <<>>
           /\ \A d, e \in 1..Depth' : CallAt(d, c)' /\ CallAt(e, c)' => d = e
        BY <2>6, <2>7
    <2> QED BY <2>7, <2>9, <2>10, <2>11 DEF ThenOnce
<1>18. ASSUME links[c].kind = "all" PROVE CountsDown(c)'
    <2>1. PICK D, E, x, y : /\ D = Due(c)' /\ E = Due(c) /\ x = <<p, k>> /\ y = <<0, n + 2>>
        OBVIOUS
    <2>2. IsFiniteSet(E) /\ Cardinality(E) <= left[c] /\ left[c] <= MaxList
        BY <1>2, <1>18, <2>1 DEF PromiseInv, LinkInv, CountsDown
    <2>3. DueFiled(c)' \subseteq DueFiled(c)
        <3> SUFFICES ASSUME NEW q \in DOMAIN state', NEW j \in FiledAt(c, q, "fulfilled")',
                            ~ Passed(q, "fulfilled", j)'
                     PROVE  /\ q \in DOMAIN state /\ j \in FiledAt(c, q, "fulfilled")
                            /\ ~ Passed(q, "fulfilled", j)
            BY DEF DueFiled
        <3>1. q \in DOMAIN state /\ j \in FiledAt(c, q, "fulfilled")
            BY <1>13
        <3>2. j \in Nat
            BY <1>1, <3>1, CallbackTypes DEF FiledAt, Side
        <3> QED BY <1>11, <3>1, <3>2
    <2>4. CASE side = "fulfilled"
        <3>1. x \in E
            BY <1>2, <1>12, <1>16, <2>1, <2>4 DEF Due, DueFiled
        <3>2. x \notin DueFiled(c)'
            <4>1. \A q, j : <<q, j>> \in DueFiled(c)' => ~ Passed(q, "fulfilled", j)'
                BY DEF DueFiled
            <4> QED BY <1>12, <2>1, <2>4, <4>1
        <3>3. DueCalls(c)' \subseteq DueCalls(c) \cup {n + 2}
            BY <1>14 DEF DueCalls
        <3>4. p # 0
            BY <1>1, <1>2, LenProperties DEF Shape
        <3>5. D \subseteq (E \ {x}) \cup {y}
            BY <2>1, <2>3, <3>2, <3>3, <3>4 DEF Due
        <3>6. IsFiniteSet(E \ {x}) /\ Cardinality(E \ {x}) = Cardinality(E) - 1
            BY <2>2, <3>1, FS_RemoveElement
        <3>7. /\ Cardinality(E) \in Nat /\ Cardinality(E \ {x}) \in Nat
            BY <2>2, <3>6, FS_CardinalityType
        <3>8. /\ IsFiniteSet((E \ {x}) \cup {y})
              /\ Cardinality((E \ {x}) \cup {y}) <= Cardinality(E)
            <4>1. PICK F : F = E \ {x}
                OBVIOUS
            <4>2. /\ IsFiniteSet(F \cup {y})
                  /\ Cardinality(F \cup {y}) = IF y \in F THEN Cardinality(F)
                                               ELSE Cardinality(F) + 1
                BY <3>6, <4>1, FS_AddElement
            <4> QED BY <3>6, <3>7, <4>1, <4>2
        <3>9. IsFiniteSet(D) /\ Cardinality(D) <= Cardinality((E \ {x}) \cup {y})
            BY <3>5, <3>8, FS_Subset
        <3>10. Cardinality(D) \in Nat /\ Cardinality((E \ {x}) \cup {y}) \in Nat
            BY <3>8, <3>9, FS_CardinalityType
        <3>11. left[c] \in Int
            BY <1>1, <1>2, LenProperties, ElementOfSeq DEF Shape
        <3>12. Cardinality(D) <= left[c]
            BY <2>2, <3>7, <3>8, <3>9, <3>10, <3>11
        <3> QED BY <2>1, <2>2, <3>9, <3>12 DEF CountsDown
    <2>5. CASE side # "fulfilled"
        <3>1. DueCalls(c)' \subseteq DueCalls(c)
            BY <1>14, <2>5 DEF DueCalls
        <3>2. D \subseteq E
            BY <2>1, <2>3, <3>1 DEF Due
        <3>3. IsFiniteSet(D) /\ Cardinality(D) <= Cardinality(E)
            BY <2>2, <3>2, FS_Subset
        <3>4. Cardinality(D) \in Nat /\ Cardinality(E) \in Nat
            BY <2>2, <3>3, FS_CardinalityType
        <3>5. left[c] \in Int
            BY <1>1, <1>2, LenProperties, ElementOfSeq DEF Shape
        <3> QED BY <2>1, <2>2, <3>3, <3>4, <3>5 DEF CountsDown
    <2> QED BY <2>4, <2>5
<1>19. LinkInv(c)'
    BY <1>2, <1>17, <1>18 DEF LinkInv, PromiseInv
<1> QED BY <1>6, <1>8, <1>10, <1>15, <1>19 DEF PromiseInv

\* The frame on top is a loop, which is popped.
LEMMA TopLoop ==
    ASSUME Shape, LoopsOnce, stack # <<>>, Head(stack).frame = "loop"
    PROVE  /\ \E p \in DOMAIN state, k \in Nat \ {0} :
                 /\ Head(stack).p = p /\ Head(stack).k = k /\ state[p] \in Side
                 /\ FrameAt(Depth) = [frame |-> "loop", p |-> p, k |-> k]
           /\ Rest(Tail(stack)) /\ Tail(stack) # stack /\ Depth \in Nat /\ Depth > 0
<1>1. Depth \in Nat /\ Depth > 0 /\ Head(stack) = FrameAt(Depth) /\ FrameAt(Depth) \in FrameType
    BY FrameTypes
<1>2. PICK p \in DOMAIN state, k \in Nat \ {0} :
          FrameAt(Depth) = [frame |-> "loop", p |-> p, k |-> k]
    BY <1>1 DEF FrameType
<1>3. Head(stack).p = p /\ Head(stack).k = k
    BY <1>1, <1>2
<1>4. state[p] \in Side
    <2>1. state[p] # "pending"
        BY <1>1, <1>2 DEF LoopsOnce
    <2> QED BY <2>1, LenProperties, ElementOfSeq DEF Shape
<1>5. PICK rest : rest = Tail(stack)
    OBVIOUS
<1>6. Rest(rest) /\ rest # stack
    <2>1. Len(rest) = Depth - 1
        BY <1>5, HeadTailProperties DEF Shape, Depth
    <2>2. Depth = Len(stack)
        BY DEF Depth
    <2>3. rest # stack
        <3> SUFFICES ASSUME rest = stack PROVE FALSE
            OBVIOUS
        <3> QED BY <1>1, <2>1, <2>2
    <2> QED BY <1>5, <2>3 DEF Rest
<1> QED BY <1>1, <1>2, <1>3, <1>4, <1>5, <1>6

\* A loop ends, and the vector is cleared.
LEMMA LoopEnds ==
    ASSUME PromiseInv, NEW p \in DOMAIN state, NEW k, NEW side \in Side, NEW rest, NEW n,
           Rest(rest), rest # stack, n = Len(rest),
           FrameAt(Depth) = [frame |-> "loop", p |-> p, k |-> k],
           side = state[p], stack' = rest,
           callbacks' = [callbacks EXCEPT ![p][side] = <<>>],
           UNCHANGED <<state, links, left, known, owned, ran>>
    PROVE  PromiseInv' /\ StateKept
<1>1. Shape /\ LoopsOnce /\ Depth \in Nat /\ n \in Nat /\ n = Depth - 1
    BY RestFrames, FrameTypes DEF PromiseInv
<1>2. Base(n) /\ Depth' = n
    BY <1>1, NothingPushed
<1>3. StateKept
    BY <1>1 DEF StateKept, Shape
<1>4. LoopsOnce'
    BY <1>1, <1>2, <1>3, LoopsKept
<1>5. stack' \in Seq(FrameType)'
    BY <1>1, StackTyped
<1>6. /\ callbacks' \in Seq([Side -> Seq(DOMAIN links)]) /\ Len(callbacks') = Len(state)
      /\ callbacks'[p][side] = <<>>
      /\ \A q \in DOMAIN state, s \in Side :
            ~ (q = p /\ s = side) => callbacks'[q][s] = callbacks[q][s]
    <2>1. PICK T, e : /\ T = [Side -> Seq(DOMAIN links)]
                      /\ e = [callbacks[p] EXCEPT ![side] = <<>>]
        OBVIOUS
    <2>2. <<>> \in Seq(DOMAIN links)
        BY EmptySeq
    <2>3. callbacks[p] \in [Side -> Seq(DOMAIN links)]
        BY <1>1, CallbackTypes
    <2>4. e \in T /\ e[side] = <<>> /\ \A s \in Side : s # side => e[s] = callbacks[p][s]
        BY <2>1, <2>2, <2>3
    <2>5. PICK new : new = [callbacks EXCEPT ![p] = e]
        OBVIOUS
    <2>6. callbacks' = new
        BY <2>1, <2>5
    <2>7. callbacks \in Seq(T) /\ Len(callbacks) = Len(state) /\ DOMAIN state = 1..Len(callbacks)
        BY <1>1, <2>1, LenProperties DEF Shape
    <2>8. /\ new \in Seq(T) /\ Len(new) = Len(callbacks)
          /\ \A q \in 1..Len(callbacks) : new[q] = IF q = p THEN e ELSE callbacks[q]
        BY <2>4, <2>5, <2>7, ExceptSeq
    <2> QED BY <2>1, <2>4, <2>6, <2>7, <2>8
<1>7. Shape'
    <2>1. LinkType' = LinkType
        BY DEF LinkType
    <2>2. links' \in Seq(LinkType)' /\ \A l \in DOMAIN links' : LinkOK(l)'
        BY <1>1, <2>1 DEF Shape, LinkOK
    <2>3. callbacks' \in Seq([Side -> Seq(DOMAIN links')]) /\ Len(callbacks') = Len(state')
        BY <1>6
    <2> QED BY <1>1, <1>5, <2>2, <2>3 DEF Shape
<1>8. ASSUME NEW l \in DOMAIN links PROVE Undisturbed(l)
    <2>1. \A q \in DOMAIN state, s \in Side :
              FiledAt(l, q, s)' = IF q = p /\ s = side THEN {} ELSE FiledAt(l, q, s)
        BY <1>6 DEF FiledAt
    <2>2. FiledKept(l)
        BY <2>1 DEF FiledKept
    <2>3. PassedKept(l)
        <3> SUFFICES ASSUME NEW q \in DOMAIN state, NEW s \in Side,
                            NEW j \in FiledAt(l, q, s)', Passed(q, s, j)
                     PROVE  Passed(q, s, j)'
            BY DEF PassedKept
        <3>1. PICK d \in 1..Depth : LoopAt(d, q) /\ j < FrameAt(d).k /\ state[q] = s
            BY DEF Passed
        <3>2. d # Depth
            <4>1. d = Depth => q = p /\ s = side
                BY <3>1 DEF LoopAt
            <4> QED BY <2>1, <4>1
        <3>3. d \in 1..n
            BY <1>1, <3>2
        <3>4. d \in 1..Depth' /\ LoopAt(d, q)' /\ FrameAt(d)' = FrameAt(d)
            BY <1>2, <3>1, <3>3 DEF Base, LoopAt
        <3> QED BY <3>1, <3>4 DEF Passed
    <2>4. CallsKept(l)
        BY <1>1, <1>2 DEF CallsKept, Base, CallAt
    <2> QED BY <2>2, <2>3, <2>4 DEF Undisturbed
<1>9. \A l \in DOMAIN links' : LinkInv(l)'
    BY <1>1, <1>3, <1>8, LinkInvKept DEF PromiseInv
<1> QED BY <1>3, <1>4, <1>7, <1>9 DEF PromiseInv

LEMMA LoopStep ==
    ASSUME PromiseInv, Loop
    PROVE  PromiseInv' /\ StateKept
<1>1. /\ Shape /\ LoopsOnce /\ stack # <<>> /\ Head(stack).frame = "loop"
      /\ UNCHANGED <<state, links, left, known, owned, ran>>
    BY DEF PromiseInv, Loop, Top
<1>2. PICK p \in DOMAIN state, k \in Nat \ {0} :
          /\ Head(stack).p = p /\ Head(stack).k = k /\ state[p] \in Side
          /\ FrameAt(Depth) = [frame |-> "loop", p |-> p, k |-> k]
    BY <1>1, TopLoop
<1>3. PICK side, rest, c, n : /\ side = state[p] /\ rest = Tail(stack)
                              /\ c = callbacks[p][side][k] /\ n = Len(rest)
    OBVIOUS
<1>4. Rest(rest) /\ rest # stack /\ Depth \in Nat /\ Depth > 0 /\ side \in Side
    BY <1>1, <1>2, <1>3, TopLoop
<1>5. CASE /\ k \in DOMAIN callbacks[p][side]
           /\ stack' = <<[frame |-> "call", l |-> c, side |-> side],
                         [frame |-> "loop", p |-> p, k |-> k + 1]>> \o rest
           /\ UNCHANGED callbacks
    BY <1>1, <1>2, <1>3, <1>4, <1>5, LoopCalls
<1>6. CASE callbacks' = [callbacks EXCEPT ![p][side] = <<>>] /\ stack' = rest
    BY <1>1, <1>2, <1>3, <1>4, <1>6, LoopEnds
<1> QED BY <1>2, <1>3, <1>5, <1>6 DEF Loop

LEMMA ReturnPromiseStep ==
    ASSUME PromiseInv, NEW q \in DOMAIN state, ReturnPromise(q)
    PROVE  PromiseInv' /\ StateKept
<1>1. /\ Shape /\ LoopsOnce /\ stack # <<>> /\ Head(stack).frame = "code"
      /\ UNCHANGED <<known, owned>>
    BY DEF PromiseInv, ReturnPromise, Top
<1>2. PICK c, side, rest, p, new, list, l :
          /\ c = Head(stack).l /\ side = Head(stack).side /\ rest = Tail(stack)
          /\ p = links[c].npm /\ new = link /\ list = <<q>>
          /\ l = Link("follow", list, p, OnRace)
    OBVIOUS
<1>3. /\ c \in DOMAIN links /\ p \in DOMAIN state /\ Rest(rest) /\ rest # stack
      /\ FrameAt(Depth).frame = "code"
    BY <1>1, <1>2, TopOfLink
<1>4. MakesLink(l, 0)
    BY <1>2 DEF ReturnPromise, MakesLink
<1>5. MadeLink(new, l, 0)
    BY <1>1, <1>2, <1>4, NewLink
<1>6. /\ new \notin DOMAIN links /\ DOMAIN links' = DOMAIN links \cup {new}
      /\ links'[new] = l /\ left'[new] = 0 /\ ran'[new] = <<>>
    BY <1>5 DEF MadeLink
<1>7. IF state[q] = "pending" THEN stack' = rest /\ UNCHANGED state
      ELSE Settle(p, state[q], rest)
    BY <1>2 DEF ReturnPromise
<1>8. /\ StateKept /\ LoopsOnce' /\ \A m : Quiet(m)
      /\ Len(state') = Len(state) /\ stack' \in Seq(FrameType)'
    <2>1. CASE state[q] = "pending"
        BY <1>1, <1>3, <1>6, <1>7, <2>1, PopStep
    <2>2. CASE state[q] # "pending"
        <3>1. PICK s \in Side : s = state[q]
            BY <1>1, <2>2, LenProperties, ElementOfSeq DEF Shape
        <3>2. Settle(p, s, rest)
            BY <1>7, <2>2, <3>1
        <3> QED BY <1>1, <1>3, <1>6, <3>2, SettleStep
    <2> QED BY <2>1, <2>2
<1>9. DOMAIN state' = DOMAIN state /\ state' \in Seq(Side \cup {"pending"})
    BY <1>1, <1>8, LenProperties DEF Shape, StateKept
<1>10. FilesLink(new, Times(list))
    <2>1. Files(new, Times(list))
        BY <1>2, <1>8 DEF Files, ReturnPromise
    <2>2. list \in Seq(DOMAIN state)
        BY <1>2
    <2> QED BY <1>1, <1>2, <1>6, <1>9, <2>1, <2>2, TimesType, FilesStep
<1>11. l \in LinkType' /\ LinkOK(new)'
    <2>1. list \in Seq(DOMAIN state') /\ p \in DOMAIN state' /\ list # <<>>
        BY <1>2, <1>3, <1>9
    <2>2. OnRace \in [Side -> Does]
        BY DEF OnRace, Does
    <2>3. l.kind = "follow" /\ l.from = list /\ l.npm = p /\ l.on = OnRace
        BY <1>2 DEF Link
    <2>4. l \in LinkType'
        BY <1>2, <2>1, <2>2 DEF LinkType, Link
    <2> QED BY <1>6, <2>1, <2>3, <2>4 DEF LinkOK
<1>12. Shape'
    <2>1. owned' \subseteq known' /\ known' \subseteq DOMAIN state' /\ Len(state') <= MaxPromise
        BY <1>1, <1>8, <1>9 DEF Shape
    <2> QED BY <1>1, <1>2, <1>4, <1>8, <1>9, <1>10, <1>11, <2>1, NewLinkShape
<1>13. \A m \in DOMAIN links : LinkInv(m)'
    BY <1>2, <1>4, <1>8, <1>10, OldLinksKept
<1>14. LinkInv(new)'
    <2>1. links'[new].kind = "follow"
        BY <1>2, <1>6 DEF Link
    <2> QED BY <1>6, <2>1 DEF LinkInv
<1> QED BY <1>6, <1>8, <1>12, <1>13, <1>14 DEF PromiseInv

-----------------------------------------------------------------------------
(* The theorems.                                                            *)

LEMMA InitPromiseInv == PInit => PromiseInv
<1> SUFFICES ASSUME PInit PROVE PromiseInv
    OBVIOUS
<1>1. DOMAIN links = {} /\ DOMAIN state = {} /\ Len(stack) = 0 /\ stack = <<>>
    BY DEF PInit
<1>2. Shape
    <2>1. \A S : <<>> \in Seq(S) /\ Len(<<>>) = 0
        BY EmptySeq
    <2>2. 0 <= MaxPromise
        BY BoundsAssumption
    <2> QED BY <1>1, <2>1, <2>2 DEF PInit, Shape
<1>3. LoopsOnce
    BY <1>1 DEF LoopsOnce, Depth
<1> QED BY <1>1, <1>2, <1>3 DEF PromiseInv

LEMMA NextPromiseInv == PromiseInv /\ [PNext]_pvars => PromiseInv' /\ StateKept
<1> SUFFICES ASSUME PromiseInv, [PNext]_pvars PROVE PromiseInv' /\ StateKept
    OBVIOUS
<1>1. CASE Make
    BY <1>1, MakeStep
<1>2. CASE \E p \in DOMAIN state, side \in Side : ResolveOrReject(p, side)
    BY <1>2, ResolveOrRejectStep
<1>3. CASE \E p \in DOMAIN state, on \in Handlers : Then(p, on)
    BY <1>3, ThenStep
<1>4. CASE \E list \in Lists : All(list) \/ Race(list)
    BY <1>4, AllStep, RaceStep
<1>5. CASE Give
    BY <1>5, GiveStep
<1>6. CASE Loop
    BY <1>6, LoopStep
<1>7. CASE Call
    BY <1>7, CallStep
<1>8. CASE ReturnPlain
    BY <1>8, ReturnPlainStep
<1>9. CASE \E q \in DOMAIN state : ReturnPromise(q)
    BY <1>9, ReturnPromiseStep
<1>10. CASE UNCHANGED pvars
    <2>1. Shape /\ LoopsOnce /\ UNCHANGED <<state, callbacks, links, left, stack, known, owned, ran>>
        BY <1>10 DEF PromiseInv, pvars
    <2>2. StateKept
        BY <2>1 DEF Shape, StateKept
    <2>3. LoopsOnce' /\ stack' \in Seq(FrameType)' /\ \A l : Quiet(l)
        BY <2>1, <2>2, SameStack
    <2>4. Shape'
        <3>1. /\ owned \subseteq known' /\ known' \subseteq DOMAIN state
              /\ left' \in Seq(Int) /\ Len(left') = Len(left)
              /\ ran' \in Seq(Seq(Side)) /\ Len(ran') = Len(ran)
              /\ state' \in Seq(Side \cup {"pending"}) /\ Len(state') = Len(state)
            BY <2>1 DEF Shape
        <3> QED BY <2>1, <2>3, <3>1, PlainShape
    <2>5. \A l \in DOMAIN links' : LinkInv(l)'
        BY <2>1, <2>2, <2>3, PlainLinks
    <2> QED BY <2>2, <2>3, <2>4, <2>5 DEF PromiseInv
<1> QED BY <1>1, <1>2, <1>3, <1>4, <1>5, <1>6, <1>7, <1>8, <1>9, <1>10 DEF PNext

\* The invariant of the promises (promise.hpp:226-374): a promise is iterated over by one loop
\* at a time, each callback of a then is called once, and all counts no more than it has to.
THEOREM PromiseInvariant == PSpec => []PromiseInv
<1>1. PInit => PromiseInv
    BY InitPromiseInv
<1>2. PromiseInv /\ [PNext]_pvars => PromiseInv'
    BY NextPromiseInv
<1> QED BY <1>1, <1>2, PTL DEF PSpec

LEMMA InvTypes == PromiseInv => PTypeOK
<1> SUFFICES ASSUME PromiseInv PROVE PTypeOK
    OBVIOUS
<1>1. Shape
    BY DEF PromiseInv
<1>2. DOMAIN callbacks = DOMAIN state
    BY <1>1, LenProperties DEF Shape
<1>3. \A p \in DOMAIN callbacks : \A s \in Side : callbacks[p][s] \in Seq(DOMAIN links)
    BY <1>1, <1>2, CallbackTypes
<1>4. ASSUME NEW l \in DOMAIN links
      PROVE  /\ Range(links[l].from) \cup {links[l].npm} \subseteq DOMAIN state
             /\ left[l] \in 0..MaxList
             /\ ran[l] \in Seq(Side)
    <2>1. Range(links[l].from) \cup {links[l].npm} \subseteq DOMAIN state
        <3>1. links[l].from \in Seq(DOMAIN state) /\ links[l].npm \in DOMAIN state
            BY <1>1, LinkTypes
        <3>2. \A i \in DOMAIN links[l].from : links[l].from[i] \in DOMAIN state
            BY <3>1, LenProperties, ElementOfSeq
        <3> QED BY <3>1, <3>2 DEF Range
    <2>2. l \in 1..Len(left) /\ l \in 1..Len(ran)
        BY <1>1, LenProperties DEF Shape
    <2>3. left[l] \in Int /\ ran[l] \in Seq(Side)
        BY <1>1, <2>2, ElementOfSeq DEF Shape
    <2>4. CASE links[l].kind = "all"
        <3>1. left[l] <= MaxList /\ IsFiniteSet(Due(l)) /\ Cardinality(Due(l)) <= left[l]
            BY <2>4 DEF PromiseInv, LinkInv, CountsDown
        <3>2. Cardinality(Due(l)) \in Nat
            BY <3>1, FS_CardinalityType
        <3> QED BY <2>1, <2>3, <3>1, <3>2, BoundsAssumption
    <2>5. CASE links[l].kind # "all"
        <3>1. left[l] = 0
            BY <2>5 DEF PromiseInv, LinkInv
        <3> QED BY <2>1, <2>3, <3>1, BoundsAssumption
    <2> QED BY <2>4, <2>5
<1>5. state \in Seq(Side \cup {"pending"}) /\ Len(state) <= MaxPromise
      /\ owned \subseteq known /\ known \subseteq DOMAIN state
    BY <1>1 DEF Shape
<1> QED BY <1>2, <1>3, <1>4, <1>5 DEF PTypeOK

\* The counter of all (promise.hpp:601-616), a size_t that callbacks decrement, never goes
\* below 0, and every callback that is filed and every link is of promises that were made.
THEOREM PromiseTypes == PSpec => []PTypeOK
BY PromiseInvariant, InvTypes, PTL

\* resolve and reject (promise.hpp:576-598) settle a promise once, however deep in its own
\* callbacks they are called again.
THEOREM OutcomeStays == PSpec => SettlesOnce
<1>1. PromiseInv /\ [PNext]_pvars =>
          [\A p \in DOMAIN state : state[p] # "pending" => state'[p] = state[p]]_pvars
    BY NextPromiseInv DEF StateKept
<1> QED BY <1>1, PromiseInvariant, PTL DEF PSpec, SettlesOnce

\* Of the two callbacks of a then (promise.hpp:488-574) at most one is called, once, on the side
\* on which its promise was settled, in whatever order then, resolve and the callbacks call
\* each other.
THEOREM ThenCallsOnce == PSpec => []CalledOnce
<1>1. PromiseInv => CalledOnce
    <2> SUFFICES ASSUME PromiseInv, NEW l \in DOMAIN links, ran[l] # <<>>
                 PROVE  ran[l] = <<state[links[l].from[1]]>>
        BY DEF CalledOnce
    <2>1. links[l].kind = "then" /\ ThenOnce(l)
        BY DEF PromiseInv, LinkInv
    <2> QED BY <2>1 DEF ThenOnce
<1> QED BY <1>1, PromiseInvariant, PTL

LEMMA IteratesAt ==
    ASSUME Shape, NEW p
    PROVE  Iterating(p) <=> \E d \in 1..Depth : LoopAt(d, p)
<1>1. Depth \in Nat /\ DOMAIN stack = 1..Depth /\ \A i \in 1..Depth : stack[i] = FrameAt(Depth + 1 - i)
    BY FrameTypes, LenProperties DEF Shape, Depth
<1>2. ASSUME NEW i \in DOMAIN stack, stack[i].frame = "loop", stack[i].p = p
      PROVE  \E d \in 1..Depth : LoopAt(d, p)
    <2>1. Depth + 1 - i \in 1..Depth /\ LoopAt(Depth + 1 - i, p)
        BY <1>1, <1>2 DEF LoopAt
    <2> QED BY <2>1
<1>3. ASSUME NEW d \in 1..Depth, LoopAt(d, p) PROVE Iterating(p)
    <2>1. Depth + 1 - d \in 1..Depth /\ FrameAt(d) = stack[Depth + 1 - d]
        BY <1>1 DEF FrameAt
    <2> QED BY <1>1, <1>3, <2>1 DEF LoopAt, Iterating
<1> QED BY <1>2, <1>3 DEF Iterating

\* Settled promises: only the end of the loop changes the vector.
LEMMA VectorsStay ==
    ASSUME PromiseInv, PNext, NEW p \in DOMAIN state, state[p] # "pending"
    PROVE  \/ callbacks'[p][state[p]] = callbacks[p][state[p]]
           \/ /\ stack # <<>> /\ Head(stack).frame = "loop" /\ Head(stack).p = p
              /\ stack' = Tail(stack) /\ UNCHANGED <<state, links>>
<1>1. Shape /\ LoopsOnce
    BY DEF PromiseInv
<1>2. PICK s \in Side : s = state[p]
    BY <1>1, LenProperties, ElementOfSeq DEF Shape
<1>3. DOMAIN callbacks = DOMAIN state /\ p \in 1..Len(callbacks) /\ Len(callbacks) \in Nat
    BY <1>1, LenProperties DEF Shape
<1>4. \A list \in Seq(DOMAIN state) : Added(callbacks, link, Times(list))[p][s] = callbacks[p][s]
    <2> SUFFICES ASSUME NEW list \in Seq(DOMAIN state)
                 PROVE  Added(callbacks, link, Times(list))[p][s] = callbacks[p][s]
        OBVIOUS
    <2>1. PICK D, l, A : /\ l = link /\ D = DOMAIN links \cup {l}
                         /\ A = Added(callbacks, l, Times(list))
        OBVIOUS
    <2>2. AddsTo(A, D, l, Times(list))
        BY <1>1, <2>1, TimesType, AddedCallbacks
    <2> QED BY <1>2, <2>1, <2>2 DEF AddsTo
<1>5. \A list \in Seq(DOMAIN state) :
          callbacks' = Append(Added(callbacks, link, Times(list)), NoCallbacks) =>
              callbacks'[p][s] = callbacks[p][s]
    <2> SUFFICES ASSUME NEW list \in Seq(DOMAIN state),
                        callbacks' = Append(Added(callbacks, link, Times(list)), NoCallbacks)
                 PROVE  callbacks'[p][s] = callbacks[p][s]
        OBVIOUS
    <2>1. PICK D, l, A : /\ l = link /\ D = DOMAIN links \cup {l}
                         /\ A = Added(callbacks, l, Times(list))
        OBVIOUS
    <2>2. AddsTo(A, D, l, Times(list))
        BY <1>1, <2>1, TimesType, AddedCallbacks
    <2>3. A \in Seq([Side -> Seq(D)]) /\ p \in 1..Len(A)
        BY <1>1, <1>3, <2>2 DEF AddsTo, Shape
    <2>4. NoCallbacks \in [Side -> Seq(D)]
        <3>1. <<>> \in Seq(D)
            BY EmptySeq
        <3> QED BY <3>1 DEF NoCallbacks
    <2>5. callbacks'[p] = A[p]
        BY <2>1, <2>3, <2>4, AppendProperties
    <2> QED BY <1>4, <2>1, <2>5
<1>6. CASE Make
    <2>1. PICK T, c : T = [Side -> Seq(DOMAIN links)] /\ c = NoCallbacks
        OBVIOUS
    <2>2. callbacks \in Seq(T) /\ c \in T
        <3>1. <<>> \in Seq(DOMAIN links)
            BY EmptySeq
        <3> QED BY <1>1, <2>1, <3>1 DEF NoCallbacks, Shape
    <2>3. callbacks' = Append(callbacks, c)
        BY <1>6, <2>1 DEF Make
    <2> QED BY <1>3, <2>2, <2>3, AppendProperties
<1>7. CASE \E q \in DOMAIN state, on \in Handlers : Then(q, on)
    <2>1. PICK q \in DOMAIN state :
               callbacks' = Append(Added(callbacks, link, Times(<<q>>)), NoCallbacks)
        BY <1>7 DEF Then
    <2>2. <<q>> \in Seq(DOMAIN state)
        OBVIOUS
    <2> QED BY <1>2, <1>5, <2>1, <2>2
<1>8. CASE \E list \in Lists : All(list) \/ Race(list)
    <2>1. PICK list \in Lists :
               callbacks' = Append(Added(callbacks, link, Times(list)), NoCallbacks)
        BY <1>8 DEF All, Race
    <2> QED BY <1>1, <1>2, <1>5, <2>1, ListType
<1>9. CASE Loop
    <2>1. stack # <<>> /\ Head(stack).frame = "loop" /\ UNCHANGED <<state, links>>
        BY <1>9 DEF Loop, Top
    <2>2. PICK q, t : q = Head(stack).p /\ t = state[q]
        OBVIOUS
    <2>3. \/ callbacks' = callbacks
          \/ callbacks' = [callbacks EXCEPT ![q][t] = <<>>] /\ stack' = Tail(stack)
        BY <1>9, <2>2 DEF Loop
    <2>4. q # p /\ callbacks' = [callbacks EXCEPT ![q][t] = <<>>] => callbacks'[p] = callbacks[p]
        BY <1>3
    <2> QED BY <2>1, <2>2, <2>3, <2>4
<1>10. CASE \E q \in DOMAIN state : ReturnPromise(q)
    <2>1. PICK q \in DOMAIN state : callbacks' = Added(callbacks, link, Times(<<q>>))
        BY <1>10 DEF ReturnPromise
    <2>2. <<q>> \in Seq(DOMAIN state)
        OBVIOUS
    <2> QED BY <1>2, <1>4, <2>1, <2>2
<1>11. CASE Give \/ Call \/ ReturnPlain \/ \E q \in DOMAIN state, side \in Side : ResolveOrReject(q, side)
    BY <1>11 DEF Give, Call, ReturnPlain, ResolveOrReject
<1> QED BY <1>6, <1>7, <1>8, <1>9, <1>10, <1>11 DEF PNext

\* The vector that trigger_fulfill or trigger_reject iterates over (promise.hpp:465-482) does not
\* grow under the loop, whatever the callbacks call.
THEOREM VectorsAreStable == PSpec => IterationStable
<1>1. ASSUME PromiseInv, PNext, NEW p \in DOMAIN state, Iterating(p), Iterating(p)'
      PROVE  callbacks'[p][state[p]] = callbacks[p][state[p]]
    <2>1. Shape /\ LoopsOnce
        BY <1>1 DEF PromiseInv
    <2>2. PICK d \in 1..Depth : LoopAt(d, p)
        BY <1>1, <2>1, IteratesAt
    <2>3. state[p] # "pending"
        BY <2>1, <2>2 DEF LoopsOnce, LoopAt
    <2> SUFFICES ASSUME /\ stack # <<>> /\ Head(stack).frame = "loop" /\ Head(stack).p = p
                        /\ stack' = Tail(stack) /\ UNCHANGED <<state, links>>
                 PROVE  FALSE
        BY <1>1, <2>3, VectorsStay
    <2>4. PICK rest, n : rest = Tail(stack) /\ n = Len(rest)
        OBVIOUS
    <2>5. LoopAt(Depth, p) /\ Depth \in Nat /\ Depth > 0 /\ n = Depth - 1
        <3>1. Depth \in Nat /\ Depth > 0 /\ Head(stack) = FrameAt(Depth)
            BY <2>1, FrameTypes
        <3>2. n = Depth - 1
            BY <2>1, <2>4, HeadTailProperties DEF Shape, Depth
        <3> QED BY <3>1, <3>2 DEF LoopAt
    <2>6. Base(n) /\ Depth' = n
        BY <2>1, <2>4, NothingPushed DEF Rest
    <2>7. Shape'
        BY <1>1, NextPromiseInv DEF PromiseInv
    <2>8. PICK e \in 1..Depth' : LoopAt(e, p)'
        <3>1. PICK i \in DOMAIN stack' : stack'[i].frame = "loop" /\ stack'[i].p = p
            BY <1>1 DEF Iterating
        <3>2. stack' \in Seq(FrameType') /\ Len(stack') = Depth'
            BY <2>7 DEF Shape, Depth
        <3>3. DOMAIN stack' = 1..Depth' /\ Depth' \in Nat
            BY <3>2, LenProperties
        <3>4. PICK e \in 1..Depth' : i = Depth' + 1 - e
            <4>1. PICK m \in Nat : m = Depth'
                BY <3>3
            <4>2. i \in 1..m
                BY <3>3, <4>1
            <4>3. m + 1 - i \in 1..m /\ i = m + 1 - (m + 1 - i)
                BY <4>2
            <4> QED BY <4>1, <4>3
        <3>5. FrameAt(e)' = stack'[i]
            BY <3>4 DEF FrameAt
        <3> QED BY <3>1, <3>5 DEF LoopAt
    <2>9. e \in 1..n /\ LoopAt(e, p)
        BY <2>5, <2>6, <2>8 DEF Base, LoopAt
    <2>10. e \in 1..Depth /\ Depth \in 1..Depth /\ e # Depth
        BY <2>5, <2>9
    <2>11. FrameAt(e).frame = "loop" /\ LoopAt(Depth, FrameAt(e).p)
        BY <2>5, <2>9 DEF LoopAt
    <2> QED BY <2>1, <2>10, <2>11 DEF LoopsOnce
<1>2. PromiseInv /\ [PNext]_pvars =>
          [\A p \in DOMAIN state :
              Iterating(p) /\ Iterating(p)' => callbacks'[p][state[p]] = callbacks[p][state[p]]]_pvars
    BY <1>1
<1> QED BY <1>2, PromiseInvariant, PTL DEF PSpec, IterationStable

-----------------------------------------------------------------------------
(* At rest: what a step leaves alone.                                       *)

\* The same callbacks of link m are filed, and the same of them are passed.
SameUnpassed(m) ==
    /\ \A p \in DOMAIN state, s \in Side : Unpassed(m, p, s)' = Unpassed(m, p, s)
    /\ \A p \in DOMAIN state' \ DOMAIN state, s \in Side : Unpassed(m, p, s)' = {}

FewerCalls(m) ==
    \A d \in 1..Depth' : CallAt(d, m)' => /\ d \in 1..Depth /\ CallAt(d, m)
                                         /\ FrameAt(d)'.side = FrameAt(d).side

\* The same calls of link m are due, and under way.
SameCalls(m) ==
    /\ SameUnpassed(m)
    /\ \A d : d \in 1..Depth' /\ CallAt(d, m)' <=> d \in 1..Depth /\ CallAt(d, m)
    /\ \A d : d \in 1..Depth' /\ CodeAt(d, m)' <=> d \in 1..Depth /\ CodeAt(d, m)
    /\ \A d \in 1..Depth : CallAt(d, m) \/ CodeAt(d, m) => FrameAt(d)'.side = FrameAt(d).side

FiledSame(m) ==
    /\ \A p \in DOMAIN state, s \in Side : FiledAt(m, p, s)' = FiledAt(m, p, s)
    /\ \A p \in DOMAIN state' \ DOMAIN state, s \in Side : FiledAt(m, p, s)' = {}

\* The frames 1..n stay, the one that is popped is no loop, and loops that are pushed begin.
Stays(n) ==
    /\ n \in {Depth, Depth - 1} /\ Base(n)
    /\ n = Depth - 1 => FrameAt(Depth).frame # "loop"
    /\ \A d \in (n + 1)..Depth' : FrameAt(d)'.frame = "loop" => FrameAt(d)'.k = 1

\* The frames that are popped and pushed are not those of m.
Elsewhere(n, m) ==
    /\ n = Depth - 1 => ~ CallAt(Depth, m) /\ ~ CodeAt(Depth, m)
    /\ \A d \in (n + 1)..Depth' : ~ CallAt(d, m)' /\ ~ CodeAt(d, m)'

LEMMA StaysDepth ==
    ASSUME Shape, NEW n, Stays(n)
    PROVE  /\ Depth \in Nat /\ Depth' \in Nat /\ n \in 0..Depth /\ n <= Depth'
           /\ n = Depth \/ n = Depth - 1
           /\ \A d \in 1..n : FrameAt(d)' = FrameAt(d)
BY FrameTypes DEF Stays, Base

\* Nothing that was not passed is passed by a step that does not iterate.
LEMMA PassedSame ==
    ASSUME Shape, LoopsOnce, StateKept, NEW n, Stays(n),
           NEW p \in DOMAIN state, NEW s \in Side, NEW j \in Nat \ {0}
    PROVE  Passed(p, s, j)' <=> Passed(p, s, j)
<1>1. /\ Depth \in Nat /\ Depth' \in Nat /\ n \in 0..Depth /\ n <= Depth'
      /\ n = Depth \/ n = Depth - 1
    BY StaysDepth
<1>2. \A d \in 1..n : FrameAt(d)' = FrameAt(d)
    BY StaysDepth
<1>3. ASSUME Passed(p, s, j) PROVE Passed(p, s, j)'
    <2>1. PICK d \in 1..Depth : LoopAt(d, p) /\ j < FrameAt(d).k
        BY <1>3 DEF Passed
    <2>2. d \in 1..n
        BY <1>1, <2>1 DEF LoopAt, Stays
    <2>3. state'[p] = s
        BY <1>3 DEF Passed, StateKept, Side
    <2>4. d \in 1..Depth' /\ LoopAt(d, p)' /\ j < FrameAt(d)'.k
        BY <1>1, <1>2, <2>1, <2>2 DEF LoopAt
    <2> QED BY <2>3, <2>4 DEF Passed
<1>4. ASSUME Passed(p, s, j)' PROVE Passed(p, s, j)
    <2>1. PICK d \in 1..Depth' : LoopAt(d, p)' /\ j < FrameAt(d)'.k
        BY <1>4 DEF Passed
    <2>2. d \in 1..n
        <3>1. ~ (j < 1)
            OBVIOUS
        <3> QED BY <1>1, <2>1, <3>1 DEF LoopAt, Stays
    <2>3. d \in 1..Depth /\ LoopAt(d, p) /\ j < FrameAt(d).k
        BY <1>1, <1>2, <2>1, <2>2 DEF LoopAt
    <2>4. state[p] # "pending"
        BY <2>3 DEF LoopsOnce, LoopAt
    <2>5. state[p] = s
        BY <1>4, <2>4 DEF Passed, StateKept
    <2> QED BY <2>3, <2>5 DEF Passed
<1> QED BY <1>3, <1>4

LEMMA FiledPositive ==
    ASSUME Shape, NEW l, NEW p \in DOMAIN state, NEW s \in Side
    PROVE  FiledAt(l, p, s) \subseteq Nat \ {0}
BY CallbackTypes, LenProperties DEF FiledAt

LEMMA StillUnpassed ==
    ASSUME Shape, LoopsOnce, StateKept, NEW n, Stays(n), NEW m, FiledSame(m)
    PROVE  SameUnpassed(m)
<1>1. ASSUME NEW p \in DOMAIN state, NEW s \in Side
      PROVE  Unpassed(m, p, s)' = Unpassed(m, p, s)
    <2>1. FiledAt(m, p, s)' = FiledAt(m, p, s)
        BY DEF FiledSame
    <2>2. \A j \in FiledAt(m, p, s) : Passed(p, s, j)' <=> Passed(p, s, j)
        <3>1. FiledAt(m, p, s) \subseteq Nat \ {0}
            BY FiledPositive
        <3>2. \A j \in Nat \ {0} : Passed(p, s, j)' <=> Passed(p, s, j)
            <4> TAKE j \in Nat \ {0}
            <4> QED BY PassedSame
        <3> QED BY <3>1, <3>2
    <2> QED BY <2>1, <2>2 DEF Unpassed
<1>2. \A p \in DOMAIN state' \ DOMAIN state, s \in Side : Unpassed(m, p, s)' = {}
    BY DEF FiledSame, Unpassed
<1> QED BY <1>1, <1>2 DEF SameUnpassed

LEMMA StillFewer ==
    ASSUME Shape, NEW n, Stays(n), NEW m, \A d \in (n + 1)..Depth' : ~ CallAt(d, m)'
    PROVE  FewerCalls(m)
<1>1. /\ Depth \in Nat /\ Depth' \in Nat /\ n \in 0..Depth /\ n <= Depth'
      /\ \A d \in 1..n : FrameAt(d)' = FrameAt(d)
    BY StaysDepth
<1> SUFFICES ASSUME NEW d \in 1..Depth', CallAt(d, m)'
             PROVE  d \in 1..Depth /\ CallAt(d, m) /\ FrameAt(d)'.side = FrameAt(d).side
    BY DEF FewerCalls
<1>2. d \in 1..n
    BY <1>1
<1> QED BY <1>1, <1>2 DEF CallAt

LEMMA StillCalls ==
    ASSUME Shape, LoopsOnce, StateKept, NEW n, Stays(n), NEW m, Elsewhere(n, m), FiledSame(m)
    PROVE  SameCalls(m)
<1>1. /\ Depth \in Nat /\ Depth' \in Nat /\ n \in 0..Depth /\ n <= Depth'
      /\ n = Depth \/ n = Depth - 1
    BY StaysDepth
<1>2. \A d \in 1..n : FrameAt(d)' = FrameAt(d)
    BY StaysDepth
<1>3. SameUnpassed(m)
    BY StillUnpassed
<1>4. \A d : d \in 1..Depth' /\ CallAt(d, m)' <=> d \in 1..Depth /\ CallAt(d, m)
    <2> TAKE d
    <2>1. d \in 1..Depth' /\ CallAt(d, m)' => d \in 1..n
        BY <1>1 DEF Elsewhere
    <2>2. d \in 1..Depth /\ CallAt(d, m) => d \in 1..n
        BY <1>1 DEF Elsewhere
    <2>3. d \in 1..n => d \in 1..Depth /\ d \in 1..Depth' /\ (CallAt(d, m)' <=> CallAt(d, m))
        BY <1>1, <1>2 DEF CallAt
    <2> QED BY <2>1, <2>2, <2>3
<1>5. \A d : d \in 1..Depth' /\ CodeAt(d, m)' <=> d \in 1..Depth /\ CodeAt(d, m)
    <2> TAKE d
    <2>1. d \in 1..Depth' /\ CodeAt(d, m)' => d \in 1..n
        BY <1>1 DEF Elsewhere
    <2>2. d \in 1..Depth /\ CodeAt(d, m) => d \in 1..n
        BY <1>1 DEF Elsewhere
    <2>3. d \in 1..n => d \in 1..Depth /\ d \in 1..Depth' /\ (CodeAt(d, m)' <=> CodeAt(d, m))
        BY <1>1, <1>2 DEF CodeAt
    <2> QED BY <2>1, <2>2, <2>3
<1>6. \A d \in 1..Depth : CallAt(d, m) \/ CodeAt(d, m) => FrameAt(d)'.side = FrameAt(d).side
    <2> TAKE d \in 1..Depth
    <2>1. CallAt(d, m) \/ CodeAt(d, m) => d \in 1..n
        BY <1>1 DEF Elsewhere
    <2> QED BY <1>2, <2>1
<1> QED BY <1>3, <1>4, <1>5, <1>6 DEF SameCalls

LEMMA SideOf ==
    ASSUME Shape, NEW p \in DOMAIN state
    PROVE  state[p] \in Side \cup {"pending"}
BY LenProperties, ElementOfSeq DEF Shape

LEMMA SideOfNext ==
    ASSUME StateKept, NEW p \in DOMAIN state'
    PROVE  state'[p] \in Side \cup {"pending"}
BY LenProperties, ElementOfSeq DEF StateKept

LEMMA DomainGrows ==
    ASSUME Shape, StateKept
    PROVE  DOMAIN state \subseteq DOMAIN state'
BY LenProperties DEF Shape, StateKept

LEMMA SourceTypes ==
    ASSUME Shape, NEW l \in DOMAIN links
    PROVE  /\ Range(links[l].from) \subseteq DOMAIN state
           /\ links[l].from[1] \in Range(links[l].from)
           /\ links[l].npm \in DOMAIN state
<1>1. /\ links[l].from \in Seq(DOMAIN state) /\ links[l].from # <<>>
      /\ links[l].npm \in DOMAIN state
    BY LinkTypes DEF LinkOK
<1>2. PICK f : f = links[l].from
    OBVIOUS
<1>3. f \in Seq(DOMAIN state) /\ f # <<>>
    BY <1>1, <1>2
<1>4. DOMAIN f = 1..Len(f) /\ Len(f) \in Nat /\ Len(f) # 0
    BY <1>3, LenProperties, EmptySeq
<1>5. Range(f) \subseteq DOMAIN state
    BY <1>3, <1>4, ElementOfSeq DEF Range
<1>6. f[1] \in Range(f)
    BY <1>4 DEF Range
<1> QED BY <1>1, <1>2, <1>5, <1>6

LEMMA AwaitsSame ==
    ASSUME Shape, StateKept, NEW m, SameCalls(m), NEW p \in DOMAIN state, state[p] # "pending"
    PROVE  Awaits(m, p)' <=> Awaits(m, p)
<1>1. PICK s \in Side : s = state[p]
    BY SideOf
<1>2. state'[p] = s
    BY <1>1 DEF StateKept
<1>3. Unpassed(m, p, s)' = Unpassed(m, p, s)
    BY <1>1 DEF SameCalls, SameUnpassed
<1>4. Awaits(m, p)' <=> \/ Unpassed(m, p, s)' # {}
                        \/ \E d \in 1..Depth' : CallAt(d, m)' /\ FrameAt(d)'.side = s
    BY <1>2 DEF Awaits
<1>5. Awaits(m, p) <=> \/ Unpassed(m, p, s) # {}
                       \/ \E d \in 1..Depth : CallAt(d, m) /\ FrameAt(d).side = s
    BY <1>1 DEF Awaits
<1>6. (\E d \in 1..Depth' : CallAt(d, m)' /\ FrameAt(d)'.side = s)
          <=> (\E d \in 1..Depth : CallAt(d, m) /\ FrameAt(d).side = s)
    BY DEF SameCalls, SameUnpassed
<1> QED BY <1>3, <1>4, <1>5, <1>6

\* A promise that the step settles has the callbacks.
LEMMA AwaitsNew ==
    ASSUME Shape, StateKept, NEW m \in DOMAIN links, CallsFrom(m), SameCalls(m),
           NEW p \in Range(links[m].from), state[p] = "pending", state'[p] # "pending"
    PROVE  Awaits(m, p)'
<1>1. p \in DOMAIN state /\ p \in DOMAIN state'
    BY SourceTypes, DomainGrows
<1>2. PICK s \in Side : s = state'[p]
    BY <1>1, SideOfNext
<1>3. Unpassed(m, p, s)' # {}
    BY <1>1 DEF CallsFrom, SameCalls, SameUnpassed
<1> QED BY <1>2, <1>3 DEF Awaits

LEMMA DueUnpassed ==
    ASSUME NEW l
    PROVE  DueFiled(l) = UNION {{<<p, j>> : j \in Unpassed(l, p, "fulfilled")} : p \in DOMAIN state}
BY DEF DueFiled, Unpassed

LEMMA DueSame ==
    ASSUME Shape, StateKept, NEW m, SameCalls(m)
    PROVE  Due(m)' = Due(m)
<1>1. "fulfilled" \in Side
    BY DEF Side
<1>2. DOMAIN state \subseteq DOMAIN state'
    BY DomainGrows
<1>3. /\ \A p \in DOMAIN state : Unpassed(m, p, "fulfilled")' = Unpassed(m, p, "fulfilled")
      /\ \A p \in DOMAIN state' \ DOMAIN state : Unpassed(m, p, "fulfilled")' = {}
    BY <1>1 DEF SameCalls, SameUnpassed
<1>4. DueFiled(m)' = UNION {{<<p, j>> : j \in Unpassed(m, p, "fulfilled")'} : p \in DOMAIN state'}
    BY DEF DueFiled, Unpassed
<1>5. DueFiled(m)' = DueFiled(m)
    BY <1>2, <1>3, <1>4, DueUnpassed
<1>6. DueCalls(m)' = DueCalls(m)
    BY DEF SameCalls, SameUnpassed, DueCalls
<1> QED BY <1>5, <1>6 DEF Due

LEMMA CallsFromKept ==
    ASSUME Shape, StateKept, NEW m \in DOMAIN links, CallsFrom(m), SameUnpassed(m),
           FewerCalls(m), links'[m] = links[m]
    PROVE  CallsFrom(m)'
<1>1. DOMAIN state \subseteq DOMAIN state'
    BY DomainGrows
<1>2. Range(links[m].from) \subseteq DOMAIN state /\ Range(links'[m].from) = Range(links[m].from)
    BY SourceTypes
<1>3. \A p \in DOMAIN state', s \in Side : Unpassed(m, p, s)' # {} => p \in Range(links[m].from)
    BY DEF SameUnpassed, CallsFrom
<1>4. ASSUME NEW d \in 1..Depth', CallAt(d, m)'
      PROVE  \E p \in Range(links[m].from) : FrameAt(d)'.side = state'[p]
    <2>1. d \in 1..Depth /\ CallAt(d, m) /\ FrameAt(d)'.side = FrameAt(d).side
        BY <1>4 DEF FewerCalls
    <2>2. PICK p \in Range(links[m].from) : FrameAt(d).side = state[p]
        BY <2>1 DEF CallsFrom
    <2>3. FrameAt(d).side \in Side
        BY <2>1, FrameTypes DEF CallAt, FrameType
    <2>4. state'[p] = state[p]
        BY <1>2, <2>2, <2>3 DEF StateKept, Side
    <2> QED BY <2>1, <2>2, <2>4
<1>5. \A p \in Range(links[m].from) :
          state'[p] = "pending" => \A s \in Side : Unpassed(m, p, s)' # {}
    <2> SUFFICES ASSUME NEW p \in Range(links[m].from), state'[p] = "pending", NEW s \in Side
                 PROVE  Unpassed(m, p, s)' # {}
        OBVIOUS
    <2>1. state[p] = "pending"
        BY <1>2 DEF StateKept
    <2> QED BY <1>2, <2>1 DEF CallsFrom, SameUnpassed
<1> QED BY <1>2, <1>3, <1>4, <1>5 DEF CallsFrom

LEMMA PassesOnKept ==
    ASSUME Shape, StateKept, NEW m \in DOMAIN links, CallsFrom(m), SameCalls(m), PassesOn(m),
           links'[m] = links[m], state'[links[m].npm] = state[links[m].npm]
    PROVE  PassesOn(m)'
<1>1. Range(links[m].from) \subseteq DOMAIN state
    BY SourceTypes
<1>2. PICK out : out = state[links[m].npm]
    OBVIOUS
<1>3. state'[links'[m].npm] = out
    BY <1>2
<1>4. out # "pending" => \E p \in Range(links'[m].from) : state'[p] = out
    BY <1>1, <1>2 DEF PassesOn, StateKept
<1>5. ASSUME NEW p \in Range(links[m].from), state'[p] # "pending"
      PROVE  out # "pending" \/ Awaits(m, p)'
    <2>1. CASE state[p] = "pending"
        BY <1>5, <2>1, AwaitsNew
    <2>2. CASE state[p] # "pending"
        <3>1. out # "pending" \/ Awaits(m, p)
            BY <1>2, <2>2 DEF PassesOn
        <3> QED BY <1>1, <2>2, <3>1, AwaitsSame
    <2> QED BY <2>1, <2>2
<1> QED BY <1>3, <1>4, <1>5 DEF PassesOn

LEMMA CollectsKept ==
    ASSUME Shape, StateKept, NEW m \in DOMAIN links, CallsFrom(m), SameCalls(m), Collects(m),
           links'[m] = links[m], left'[m] = left[m],
           state'[links[m].npm] = state[links[m].npm]
    PROVE  Collects(m)'
<1>1. Range(links[m].from) \subseteq DOMAIN state /\ "fulfilled" \in Side
    BY SourceTypes DEF Side
<1>2. PICK out : out = state[links[m].npm]
    OBVIOUS
<1>3. state'[links'[m].npm] = out /\ Range(links'[m].from) = Range(links[m].from)
    BY <1>2
<1>4. out = "fulfilled" => \A p \in Range(links[m].from) : state'[p] = "fulfilled"
    BY <1>1, <1>2 DEF Collects, StateKept
<1>5. out = "rejected" => \E p \in Range(links[m].from) : state'[p] = "rejected"
    BY <1>1, <1>2 DEF Collects, StateKept
<1>6. out # "rejected" => left'[m] = Cardinality(Due(m)')
    BY <1>2, DueSame DEF Collects
<1>7. ASSUME out # "rejected", NEW p \in Range(links[m].from), state'[p] = "rejected"
      PROVE  Unpassed(m, p, "fulfilled")' # {} /\ Awaits(m, p)'
    <2>1. CASE state[p] = "pending"
        <3>1. Unpassed(m, p, "fulfilled") # {}
            BY <1>1, <2>1 DEF CallsFrom
        <3>2. Awaits(m, p)'
            BY <1>7, <2>1, AwaitsNew
        <3> QED BY <1>1, <3>1, <3>2 DEF SameCalls, SameUnpassed
    <2>2. CASE state[p] # "pending"
        <3>1. state[p] = "rejected"
            BY <1>1, <1>7, <2>2 DEF StateKept
        <3>2. Unpassed(m, p, "fulfilled") # {} /\ Awaits(m, p)
            BY <1>2, <1>7, <3>1 DEF Collects
        <3>3. Awaits(m, p)'
            BY <1>1, <2>2, <3>2, AwaitsSame
        <3> QED BY <1>1, <3>2, <3>3 DEF SameCalls, SameUnpassed
    <2> QED BY <2>1, <2>2
<1>8. out = "pending" => left'[m] # 0
    BY <1>2 DEF Collects
<1> QED BY <1>3, <1>4, <1>5, <1>6, <1>7, <1>8 DEF Collects

\* The code of a callback runs as before.
LEMMA InCodeSame ==
    ASSUME NEW m, SameCalls(m)
    PROVE  InCode(m)' <=> InCode(m)
BY DEF SameCalls, SameUnpassed, InCode

LEMMA HandsOnKept ==
    ASSUME Shape, StateKept, NEW m \in DOMAIN links, CallsFrom(m), SameCalls(m), HandsOn(m),
           links'[m] = links[m], ran'[m] = ran[m], Followed(m)' <=> Followed(m),
           ran[m] # <<>> => state[links[m].from[1]] # "pending",
           state'[links[m].npm] = state[links[m].npm]
    PROVE  HandsOn(m)'
<1>1. PICK p, in, out, on :
          p = links[m].from[1] /\ in = state[p] /\ out = state[links[m].npm] /\ on = links[m].on
    OBVIOUS
<1>2. PICK new : new = state'[p]
    OBVIOUS
<1>3. /\ links'[m].from[1] = p /\ state'[links'[m].npm] = out /\ links'[m].on = on
      /\ p \in DOMAIN state /\ p \in Range(links[m].from)
    BY <1>1, SourceTypes
<1>4. in # "pending" => new = in
    BY <1>1, <1>2, <1>3 DEF StateKept
<1>5. /\ in = "pending" => out = "pending"
      /\ ran[m] # <<>> => in # "pending" /\ on[in] \in {"plain", "promise"}
      /\ InCode(m) => ran[m] # <<>> /\ out = "pending" /\ ~ Followed(m)
      /\ \A d \in 1..Depth : CodeAt(d, m) =>
            FrameAt(d).side = in /\ \A e \in 1..Depth : CodeAt(e, m) => d = e
      /\ out # "pending" =>
            /\ ~ Awaits(m, p)
            /\ in # "pending" /\ on[in] # "promise" => out = in
            /\ on[in] \in {"plain", "promise"} => ran[m] # <<>>
      /\ in # "pending" =>
            \/ Awaits(m, p) \/ InCode(m)
            \/ on[in] # "promise" /\ out # "pending"
            \/ on[in] = "promise" /\ ran[m] # <<>> /\ Followed(m)
    BY <1>1 DEF HandsOn, Runs
<1>6. in # "pending" => (Awaits(m, p)' <=> Awaits(m, p))
    BY <1>1, <1>3, AwaitsSame
<1>7. in = "pending" /\ new # "pending" => Awaits(m, p)'
    BY <1>1, <1>2, <1>3, AwaitsNew
<1>8. InCode(m)' <=> InCode(m)
    BY InCodeSame
<1>9. \A d \in 1..Depth' : CodeAt(d, m)' =>
          FrameAt(d)'.side = new /\ \A e \in 1..Depth' : CodeAt(e, m)' => d = e
    <2> SUFFICES ASSUME NEW d \in 1..Depth', CodeAt(d, m)'
                 PROVE  FrameAt(d)'.side = new /\ \A e \in 1..Depth' : CodeAt(e, m)' => d = e
        OBVIOUS
    <2>1. d \in 1..Depth /\ CodeAt(d, m) /\ FrameAt(d)'.side = FrameAt(d).side
        BY DEF SameCalls, SameUnpassed
    <2>2. FrameAt(d)'.side = in /\ in # "pending"
        BY <1>5, <2>1 DEF InCode
    <2>3. \A e \in 1..Depth' : CodeAt(e, m)' => d = e
        BY <1>5, <2>1 DEF SameCalls, SameUnpassed
    <2> QED BY <1>4, <2>2, <2>3
<1>10. /\ new = "pending" => out = "pending"
       /\ ran'[m] # <<>> => on[new] \in {"plain", "promise"}
       /\ InCode(m)' => ran'[m] # <<>> /\ out = "pending" /\ ~ Followed(m)'
       /\ out # "pending" =>
             /\ ~ Awaits(m, p)'
             /\ new # "pending" /\ on[new] # "promise" => out = new
             /\ on[new] \in {"plain", "promise"} => ran'[m] # <<>>
       /\ new # "pending" =>
             \/ Awaits(m, p)' \/ InCode(m)'
             \/ on[new] # "promise" /\ out # "pending"
             \/ on[new] = "promise" /\ ran'[m] # <<>> /\ Followed(m)'
    BY <1>4, <1>5, <1>6, <1>7, <1>8
<1> QED BY <1>2, <1>3, <1>9, <1>10 DEF HandsOn, Runs

\* A then that has run awaits no other call.
RanDone ==
    \A l \in DOMAIN links :
        links[l].kind = "then" /\ ran[l] # <<>> =>
            /\ state[links[l].from[1]] # "pending" /\ ~ Awaits(l, links[l].from[1])
            /\ ran[l] = <<state[links[l].from[1]]>>
            /\ \A d \in 1..Depth : ~ CallAt(d, l)

LEMMA InvRanDone == PromiseInv => RanDone
<1> SUFFICES ASSUME PromiseInv, NEW l \in DOMAIN links, links[l].kind = "then", ran[l] # <<>>
             PROVE  /\ state[links[l].from[1]] # "pending" /\ ~ Awaits(l, links[l].from[1])
                    /\ ran[l] = <<state[links[l].from[1]]>>
                    /\ \A d \in 1..Depth : ~ CallAt(d, l)
    BY DEF RanDone
<1>1. ThenOnce(l)
    BY DEF PromiseInv, LinkInv
<1>2. PICK p : p = links[l].from[1]
    OBVIOUS
<1>3. state[p] # "pending" /\ ran[l] = <<state[p]>>
    BY <1>1, <1>2 DEF ThenOnce
<1>4. \A d \in 1..Depth : ~ CallAt(d, l)
    BY <1>1 DEF ThenOnce
<1>5. \A j \in FiledAt(l, p, state[p]) : Passed(p, state[p], j)
    BY <1>1, <1>2 DEF ThenOnce, Called
<1> QED BY <1>2, <1>3, <1>4, <1>5 DEF Awaits, Unpassed

\* A link that the step leaves alone.
LEMMA RestKept ==
    ASSUME PromiseInv, StateKept, NEW m \in DOMAIN links, RestOf(m), SameCalls(m),
           links'[m] = links[m], left'[m] = left[m], ran'[m] = ran[m],
           links[m].kind = "then" => (Followed(m)' <=> Followed(m)),
           state'[links[m].npm] = state[links[m].npm]
    PROVE  RestOf(m)'
<1>1. Shape /\ CallsFrom(m)
    BY DEF PromiseInv, RestOf
<1>2. CallsFrom(m)'
    <2>1. SameUnpassed(m) /\ FewerCalls(m)
        BY DEF SameCalls, FewerCalls
    <2> QED BY <1>1, <2>1, CallsFromKept
<1>3. links[m].kind \in {"race", "follow"} => PassesOn(m)'
    BY <1>1, PassesOnKept DEF RestOf
<1>4. links[m].kind = "all" => Collects(m)'
    BY <1>1, CollectsKept DEF RestOf
<1>5. ASSUME links[m].kind = "then" PROVE HandsOn(m)'
    <2>1. ran[m] # <<>> => state[links[m].from[1]] # "pending"
        BY <1>5, InvRanDone DEF RanDone
    <2> QED BY <1>1, <1>5, <2>1, HandsOnKept DEF RestOf
<1>6. links[m].kind \in {"then", "follow"} => links'[m].from = <<links'[m].from[1]>>
    BY DEF RestOf
<1> QED BY <1>2, <1>3, <1>4, <1>5, <1>6 DEF RestOf

-----------------------------------------------------------------------------
(* At rest: resolve and reject.                                             *)

\* What resolve and reject do: the loop over the callbacks begins on top of the frames 1..n.
SettlesAt(P, side, n) ==
    /\ Stays(n)
    /\ \A d \in (n + 1)..Depth' : FrameAt(d)'.frame = "loop"
    /\ DOMAIN state' = DOMAIN state
    /\ \A p \in DOMAIN state : p # P => state'[p] = state[p]
    /\ state'[P] = IF state[P] = "pending" THEN side ELSE state[P]
    /\ state[P] = "pending" => \E d \in 1..Depth' : LoopAt(d, P)'

LEMMA SettleFrames ==
    ASSUME Shape, NEW P \in DOMAIN state, NEW side \in Side, NEW rest, Rest(rest),
           rest # stack => FrameAt(Depth).frame # "loop", Settle(P, side, rest)
    PROVE  SettlesAt(P, side, Len(rest))
<1>1. /\ state \in Seq(Side \cup {"pending"}) /\ Len(rest) \in 0..Depth /\ Depth \in Nat
      /\ Len(rest) = IF rest = stack THEN Depth ELSE Depth - 1
    BY RestFrames, FrameTypes DEF Shape
<1>2. CASE state[P] # "pending"
    <2>1. stack' = rest /\ state' = state
        BY <1>2 DEF Settle
    <2>2. Base(Len(rest)) /\ Depth' = Len(rest)
        BY <2>1, NothingPushed
    <2>3. \A d \in (Len(rest) + 1)..Depth' : FALSE
        BY <1>1, <2>2
    <2>4. Stays(Len(rest))
        BY <1>1, <2>2, <2>3 DEF Stays
    <2> QED BY <1>2, <2>1, <2>3, <2>4 DEF SettlesAt
<1>3. CASE state[P] = "pending"
    <2>1. PICK f, n : f = [frame |-> "loop", p |-> P, k |-> 1] /\ n = Len(rest)
        OBVIOUS
    <2>2. stack' = <<f>> \o rest /\ state' = [state EXCEPT ![P] = side]
        BY <1>3, <2>1 DEF Settle
    <2>3. Base(n) /\ Depth' = n + 1 /\ FrameAt(n + 1)' = f
        BY <2>1, <2>2, OnePushed
    <2>4. \A d \in (n + 1)..Depth' : d = n + 1 /\ FrameAt(d)' = f
        BY <1>1, <2>1, <2>3
    <2>5. /\ \A q \in DOMAIN state : state'[q] = IF q = P THEN side ELSE state[q]
          /\ DOMAIN state' = DOMAIN state
        BY <1>1, <2>2, ExceptSeq, LenProperties
    <2>6. Stays(n)
        BY <1>1, <2>1, <2>3, <2>4 DEF Stays
    <2>7. n + 1 \in 1..Depth' /\ LoopAt(n + 1, P)'
        BY <1>1, <2>1, <2>3 DEF LoopAt
    <2> QED BY <1>3, <2>1, <2>4, <2>5, <2>6, <2>7 DEF SettlesAt
<1> QED BY <1>2, <1>3

LEMMA SettleElsewhere ==
    ASSUME NEW P, NEW side, NEW n, SettlesAt(P, side, n), NEW m,
           n = Depth - 1 => ~ CallAt(Depth, m) /\ ~ CodeAt(Depth, m)
    PROVE  Elsewhere(n, m)
BY DEF SettlesAt, Elsewhere, CallAt, CodeAt

\* Every settled promise with callbacks has its loop after a step that does not iterate.
LEMMA LoopRunsKept ==
    ASSUME Shape, StateKept, LoopRuns, NEW n, Stays(n),
           \A p \in DOMAIN state : state[p] # "pending" =>
               callbacks'[p][state[p]] = callbacks[p][state[p]],
           \A p \in DOMAIN state' \ DOMAIN state, s \in Side : callbacks'[p][s] = <<>>,
           \A p \in DOMAIN state : state[p] = "pending" /\ state'[p] # "pending" =>
               \E d \in 1..Depth' : LoopAt(d, p)'
    PROVE  LoopRuns'
<1>1. /\ Depth \in Nat /\ Depth' \in Nat /\ n \in 0..Depth /\ n <= Depth'
      /\ n = Depth \/ n = Depth - 1
      /\ \A d \in 1..n : FrameAt(d)' = FrameAt(d)
    BY StaysDepth
<1> SUFFICES ASSUME NEW p \in DOMAIN state', NEW s, s = state'[p],
                    s # "pending", callbacks'[p][s] # <<>>
             PROVE  \E d \in 1..Depth' : LoopAt(d, p)'
    BY DEF LoopRuns
<1>2. s \in Side
    BY SideOfNext
<1>3. p \in DOMAIN state
    BY <1>2
<1>4. CASE state[p] # "pending"
    <2>1. state[p] = s /\ callbacks[p][s] # <<>>
        BY <1>3, <1>4 DEF StateKept
    <2>2. PICK d \in 1..Depth : LoopAt(d, p)
        BY <1>3, <1>4, <2>1 DEF LoopRuns
    <2>3. d \in 1..n
        BY <1>1, <2>2 DEF Stays, LoopAt
    <2> QED BY <1>1, <2>2, <2>3 DEF LoopAt
<1>5. CASE state[p] = "pending"
    BY <1>3, <1>5
<1> QED BY <1>4, <1>5

-----------------------------------------------------------------------------
(* At rest: who settles the promise of a link.                              *)

\* Nothing follows a then before it has returned.
LEMMA NotFollowedYet ==
    ASSUME Settlers, NEW c \in DOMAIN links, links[c].kind # "follow",
           ran[c] = <<>> \/ InCode(c)
    PROVE  ~ Followed(c)
<1> SUFFICES ASSUME NEW f \in DOMAIN links, links[f].kind = "follow", links[f].npm = links[c].npm
             PROVE  FALSE
    BY DEF Followed
<1>1. PICK l \in DOMAIN links : Follows(f, l)
    BY DEF Settlers
<1>2. l = c
    BY <1>1 DEF Settlers, Follows
<1> QED BY <1>1, <1>2 DEF Follows

\* What is followed stays so while the links and what ran stay.
LEMMA FollowsKept ==
    ASSUME PromiseInv, StateKept, NEW f \in DOMAIN links, NEW l \in DOMAIN links, Follows(f, l),
           links'[f] = links[f], links'[l] = links[l], ran'[l] = ran[l], InCode(l)' => InCode(l)
    PROVE  Follows(f, l)'
<1>1. links[l].from[1] \in DOMAIN state
    BY LinkTypes DEF PromiseInv
<1>2. PICK p : p = links[l].from[1]
    OBVIOUS
<1>3. state[p] # "pending"
    BY <1>2, InvRanDone DEF RanDone, Follows
<1>4. state'[p] = state[p] /\ links'[l].from[1] = p
    BY <1>1, <1>2, <1>3 DEF StateKept
<1>5. links'[l].on[state'[p]] = "promise"
    BY <1>2, <1>4 DEF Follows
<1> QED BY <1>4, <1>5 DEF Follows

\* The links and what ran stay as they are.
LEMMA SettlersKept ==
    ASSUME PromiseInv, StateKept, Settlers, UNCHANGED links,
           \A l \in DOMAIN links : links[l].npm \notin owned',
           \A l \in DOMAIN links : ran[l] # <<>> => ran'[l] = ran[l] /\ (InCode(l)' => InCode(l))
    PROVE  Settlers'
<1>1. \A f \in DOMAIN links :
          links[f].kind = "follow" => \E l \in DOMAIN links : Follows(f, l)'
    <2> SUFFICES ASSUME NEW f \in DOMAIN links, links[f].kind = "follow"
                 PROVE  \E l \in DOMAIN links : Follows(f, l)'
        OBVIOUS
    <2>1. PICK l \in DOMAIN links : Follows(f, l)
        BY DEF Settlers
    <2>2. ran'[l] = ran[l] /\ (InCode(l)' => InCode(l))
        BY <2>1 DEF Follows
    <2>3. Follows(f, l)'
        BY <2>1, <2>2, FollowsKept
    <2> QED BY <2>3
<1> QED BY <1>1 DEF Settlers

\* What link c does is of no matter for the others.
LEMMA OtherLinks ==
    ASSUME PromiseInv, RestInv, StateKept, NEW c \in DOMAIN links,
           NEW m \in DOMAIN links, m # c, SameCalls(m),
           links'[m] = links[m], left'[m] = left[m], ran'[m] = ran[m],
           links[m].kind = "then" => (Followed(m)' <=> Followed(m)),
           \A p \in DOMAIN state : p # links[c].npm => state'[p] = state[p],
           links[c].kind # "follow" => ran[c] = <<>> \/ InCode(c)
    PROVE  RestOf(m)'
<1>1. Shape /\ RestOf(m) /\ Settlers
    BY DEF PromiseInv, RestInv
<1>2. CASE links[m].npm # links[c].npm
    <2>1. links[m].npm \in DOMAIN state
        BY <1>1, LinkTypes
    <2>2. state'[links[m].npm] = state[links[m].npm]
        BY <1>2, <2>1
    <2> QED BY <1>1, <2>2, RestKept
<1>3. CASE links[m].npm = links[c].npm
    <2>1. ~ (links[m].kind = "follow" <=> links[c].kind = "follow")
        BY <1>1, <1>3 DEF Settlers
    <2>2. links[c].kind = "follow"
        <3> SUFFICES ASSUME links[c].kind # "follow" PROVE FALSE
            OBVIOUS
        <3>1. ~ Followed(c)
            BY <1>1, NotFollowedYet
        <3> QED BY <1>3, <2>1, <3>1 DEF Followed
    <2>3. links[m].kind # "follow"
        BY <2>1, <2>2
    <2>4. PICK l \in DOMAIN links : Follows(c, l)
        BY <1>1, <2>2 DEF Settlers
    <2>5. Follows(c, m)
        BY <1>1, <1>3, <2>3, <2>4 DEF Settlers, Follows
    <2>6. PICK p : p = links[m].from[1]
        OBVIOUS
    <2>7. /\ links[m].kind = "then" /\ ran[m] # <<>> /\ ~ InCode(m)
          /\ links[m].on[state[p]] = "promise"
          /\ state[p] # "pending" /\ ~ Awaits(m, p) /\ p \in DOMAIN state
        BY <1>1, <2>5, <2>6, InvRanDone, LinkTypes DEF RanDone, Follows
    <2>8. Followed(m)
        BY <1>3, <2>2 DEF Followed
    <2>9. /\ ran'[m] # <<>> /\ ~ InCode(m)' /\ Followed(m)'
          /\ state'[p] = state[p] /\ links'[m].from[1] = p /\ ~ Awaits(m, p)'
        <3>1. state'[p] = state[p]
            BY <2>7 DEF StateKept
        <3>2. ~ InCode(m)'
            BY <2>7, InCodeSame
        <3>3. ~ Awaits(m, p)'
            BY <1>1, <2>7, AwaitsSame
        <3> QED BY <2>6, <2>7, <2>8, <3>1, <3>2, <3>3
    <2>10. HandsOn(m)'
        <3>1. links'[m].on[state'[p]] = "promise" /\ state'[p] # "pending"
            BY <2>7, <2>9
        <3> QED BY <2>6, <2>9, <3>1 DEF HandsOn, InCode, Runs
    <2>11. CallsFrom(m)'
        <3>1. SameUnpassed(m) /\ FewerCalls(m) /\ CallsFrom(m)
            BY <1>1 DEF SameCalls, FewerCalls, RestOf
        <3> QED BY <1>1, <3>1, CallsFromKept
    <2>12. links'[m].kind = "then" /\ links'[m].from = <<links'[m].from[1]>>
        BY <1>1, <2>7 DEF RestOf
    <2> QED BY <2>10, <2>11, <2>12 DEF RestOf
<1> QED BY <1>2, <1>3

-----------------------------------------------------------------------------
(* At rest: steps of one link that make none.                               *)

LEMMA ActingStep ==
    ASSUME PromiseInv, RestInv, StateKept, UNCHANGED <<callbacks, links, owned>>,
           DOMAIN state' = DOMAIN state, NEW n, Stays(n), NEW c \in DOMAIN links,
           \A m \in DOMAIN links : m # c =>
               Elsewhere(n, m) /\ left'[m] = left[m] /\ ran'[m] = ran[m],
           \A p \in DOMAIN state : p # links[c].npm => state'[p] = state[p],
           \A p \in DOMAIN state : state[p] = "pending" /\ state'[p] # "pending" =>
               \E d \in 1..Depth' : LoopAt(d, p)',
           links[c].kind # "follow" => ran[c] = <<>> \/ InCode(c),
           ran[c] # <<>> => ran'[c] = ran[c] /\ (InCode(c)' => InCode(c)),
           RestOf(c)'
    PROVE  RestInv'
<1>1. Shape /\ LoopsOnce /\ LoopRuns /\ Settlers
    BY DEF PromiseInv, RestInv
<1>2. \A m : FiledSame(m)
    BY DEF FiledSame, FiledAt
<1>3. ASSUME NEW m \in DOMAIN links, m # c PROVE SameCalls(m)
    <2>1. Elsewhere(n, m)
        BY <1>3
    <2> QED BY <1>1, <1>2, <2>1, StillCalls
<1>4. LoopRuns'
    BY <1>1, LoopRunsKept
<1>5. Settlers'
    <2>1. ASSUME NEW l \in DOMAIN links, ran[l] # <<>>
          PROVE  ran'[l] = ran[l] /\ (InCode(l)' => InCode(l))
        <3>1. CASE l = c
            BY <2>1, <3>1
        <3>2. CASE l # c
            <4>1. SameCalls(l)
                BY <1>3, <3>2
            <4>2. InCode(l)' => InCode(l)
                BY <4>1, InCodeSame
            <4> QED BY <3>2, <4>2
        <3> QED BY <3>1, <3>2
    <2>2. \A l \in DOMAIN links : links[l].npm \notin owned'
        BY <1>1 DEF Settlers
    <2> QED BY <1>1, <2>1, <2>2, SettlersKept
<1>6. \A m \in DOMAIN links : RestOf(m)'
    <2> TAKE m \in DOMAIN links
    <2>1. CASE m = c
        BY <2>1
    <2>2. CASE m # c
        <3>1. SameCalls(m)
            BY <1>3, <2>2
        <3>2. Followed(m)' <=> Followed(m)
            BY DEF Followed
        <3>3. links'[m] = links[m] /\ left'[m] = left[m] /\ ran'[m] = ran[m]
            BY <2>2
        <3> QED BY <2>2, <3>1, <3>2, <3>3, OtherLinks
    <2> QED BY <2>1, <2>2
<1> QED BY <1>4, <1>5, <1>6 DEF RestInv

LEMMA ActingCalls ==
    ASSUME PromiseInv, RestInv, StateKept, UNCHANGED <<callbacks, links>>,
           DOMAIN state' = DOMAIN state, NEW n, Stays(n), NEW c \in DOMAIN links,
           \A d \in (n + 1)..Depth' : ~ CallAt(d, c)'
    PROVE  /\ SameUnpassed(c) /\ FewerCalls(c) /\ CallsFrom(c)'
           /\ links[c].kind \in {"then", "follow"} => links'[c].from = <<links'[c].from[1]>>
<1>1. Shape /\ LoopsOnce /\ CallsFrom(c)
    BY DEF PromiseInv, RestInv, RestOf
<1>2. FiledSame(c)
    BY DEF FiledSame, FiledAt
<1>3. SameUnpassed(c) /\ FewerCalls(c)
    BY <1>1, <1>2, StillUnpassed, StillFewer
<1>4. CallsFrom(c)'
    BY <1>1, <1>3, CallsFromKept
<1> QED BY <1>3, <1>4 DEF RestInv, RestOf

\* A then that is called.
LEMMA ThenCalled ==
    ASSUME PromiseInv, RestInv, NEW c \in DOMAIN links, links[c].kind = "then",
           NEW e \in 1..Depth, CallAt(e, c), NEW p, p = links[c].from[1]
    PROVE  /\ p \in DOMAIN state /\ state[p] \in Side /\ FrameAt(e).side = state[p]
           /\ ran[c] = <<>> /\ ~ InCode(c) /\ state[links[c].npm] = "pending"
           /\ Unpassed(c, p, state[p]) = {}
           /\ \A d \in 1..Depth : CallAt(d, c) => d = e
<1>1. Shape /\ ThenOnce(c) /\ HandsOn(c)
    BY DEF PromiseInv, LinkInv, RestInv, RestOf
<1>2. /\ FrameAt(e).side = state[p] /\ ran[c] = <<>>
      /\ \A d \in 1..Depth : CallAt(d, c) => d = e
    BY <1>1 DEF ThenOnce
<1>3. state[p] \in Side /\ p \in DOMAIN state
    <2>1. FrameAt(e).side \in Side
        BY <1>1, FrameTypes DEF CallAt, FrameType
    <2> QED BY <1>1, <1>2, <2>1, LinkTypes
<1>4. Unpassed(c, p, state[p]) = {}
    <2>1. \A j \in FiledAt(c, p, state[p]) : Passed(p, state[p], j)
        BY <1>1 DEF ThenOnce, Called
    <2> QED BY <2>1 DEF Unpassed
<1>5. ~ InCode(c)
    BY <1>1, <1>2 DEF HandsOn
<1>6. state[links[c].npm] = "pending"
    <2>1. Awaits(c, p)
        BY <1>2 DEF Awaits
    <2> QED BY <1>1, <2>1 DEF HandsOn
<1> QED BY <1>2, <1>3, <1>4, <1>5, <1>6

\* The call of the outcome is popped: then no call of the then is left.
LEMMA ThenCallOver ==
    ASSUME PromiseInv, RestInv, StateKept, UNCHANGED links, NEW c \in DOMAIN links,
           links[c].kind = "then", NEW e, e = Depth, e \in 1..Depth, CallAt(Depth, c),
           e \notin 1..Depth' \/ ~ CallAt(e, c)',
           SameUnpassed(c), FewerCalls(c), NEW p, p = links[c].from[1]
    PROVE  state'[p] = state[p] /\ ~ Awaits(c, p)'
<1>1. CallAt(e, c)
    OBVIOUS
<1>2. /\ p \in DOMAIN state /\ state[p] \in Side /\ Unpassed(c, p, state[p]) = {}
      /\ \A d \in 1..Depth : CallAt(d, c) => d = e
    BY <1>1, ThenCalled
<1>3. PICK s \in Side : s = state[p]
    BY <1>2
<1>4. state'[p] = s
    BY <1>2, <1>3 DEF StateKept, Side
<1>5. Unpassed(c, p, s)' = {}
    BY <1>2, <1>3 DEF SameUnpassed
<1>6. \A d \in 1..Depth' : ~ CallAt(d, c)'
    BY <1>2 DEF FewerCalls
<1> QED BY <1>3, <1>4, <1>5, <1>6 DEF Awaits

LEMMA TopCall ==
    ASSUME Shape, NEW c, NEW rest, Rest(rest), rest # stack, CallAt(Depth, c), NEW n, n = Len(rest)
    PROVE  /\ Depth \in Nat /\ n \in Nat /\ n = Depth - 1 /\ n # Depth /\ Depth \in 1..Depth
           /\ FrameAt(Depth).frame = "call"
           /\ \A m : m # c => ~ CallAt(Depth, m)
           /\ \A m : ~ CodeAt(Depth, m)
<1>1. Depth \in Nat /\ Len(rest) \in 0..Depth /\ Len(rest) = Depth - 1
    BY RestFrames, FrameTypes
<1> QED BY <1>1 DEF CallAt, CodeAt

\* Only a then runs code.
LEMMA OthersRunNothing ==
    ASSUME PromiseInv, NEW c \in DOMAIN links, links[c].kind # "then"
    PROVE  ran[c] = <<>>
BY DEF PromiseInv, LinkInv

LEMMA CallPassRest ==
    ASSUME PromiseInv, RestInv, StateKept, NEW c \in DOMAIN links, NEW side \in Side,
           NEW rest, Rest(rest), rest # stack, CallAt(Depth, c), FrameAt(Depth).side = side,
           links[c].on[side] = "pass", Settle(links[c].npm, side, rest),
           UNCHANGED <<callbacks, links, left, known, owned, ran>>
    PROVE  RestInv'
<1>1. Shape /\ RestOf(c) /\ CallsFrom(c)
    BY DEF PromiseInv, RestInv, RestOf
<1>2. PICK n, P : n = Len(rest) /\ P = links[c].npm
    OBVIOUS
<1>3. /\ Depth \in Nat /\ n \in Nat /\ n = Depth - 1 /\ n # Depth /\ Depth \in 1..Depth
      /\ FrameAt(Depth).frame = "call"
      /\ \A m : m # c => ~ CallAt(Depth, m)
      /\ \A m : ~ CodeAt(Depth, m)
    BY <1>1, <1>2, TopCall
<1>4. P \in DOMAIN state /\ Range(links[c].from) \subseteq DOMAIN state
    BY <1>1, <1>2, SourceTypes
<1>5. SettlesAt(P, side, n)
    BY <1>1, <1>2, <1>3, <1>4, SettleFrames
<1>6. /\ Stays(n) /\ DOMAIN state' = DOMAIN state
      /\ \A d \in (n + 1)..Depth' : ~ CallAt(d, c)'
      /\ \A p \in DOMAIN state : p # P => state'[p] = state[p]
      /\ state'[P] = IF state[P] = "pending" THEN side ELSE state[P]
      /\ state[P] = "pending" => \E d \in 1..Depth' : LoopAt(d, P)'
    BY <1>5 DEF SettlesAt, CallAt
<1>7. \A m \in DOMAIN links : m # c => Elsewhere(n, m)
    BY <1>3, <1>5, SettleElsewhere
<1>8. /\ SameUnpassed(c) /\ FewerCalls(c) /\ CallsFrom(c)'
      /\ links[c].kind \in {"then", "follow"} => links'[c].from = <<links'[c].from[1]>>
    BY <1>6, ActingCalls
<1>9. PICK q \in Range(links[c].from) : side = state[q]
    BY <1>1, <1>3 DEF CallsFrom
<1>10. state'[q] = side /\ state'[P] # "pending" /\ (state[P] = "pending" => state'[P] = side)
    BY <1>4, <1>6, <1>9 DEF StateKept, Side
<1>11. ASSUME links[c].kind \in {"race", "follow"} PROVE PassesOn(c)'
    <2>1. PICK out : out = state'[P]
        OBVIOUS
    <2>2. \E p \in Range(links[c].from) : state'[p] = out
        <3>1. CASE state[P] = "pending"
            BY <1>9, <1>10, <2>1, <3>1
        <3>2. CASE state[P] # "pending"
            <4>1. PassesOn(c)
                BY <1>1, <1>11 DEF RestOf
            <4>2. PICK p \in Range(links[c].from) : state[p] = state[P]
                BY <1>2, <3>2, <4>1 DEF PassesOn
            <4>3. state'[p] = state[p] /\ state'[P] = state[P]
                BY <1>4, <3>2, <4>2 DEF StateKept
            <4> QED BY <2>1, <4>2, <4>3
        <3> QED BY <3>1, <3>2
    <2>3. state'[links'[c].npm] = out /\ out # "pending"
        BY <1>2, <1>10, <2>1
    <2> QED BY <2>2, <2>3 DEF PassesOn
<1>12. ASSUME links[c].kind = "all" PROVE Collects(c)'
    <2>1. side = "rejected"
        BY <1>1, <1>12, LinkTypes DEF LinkOK, OnAll, Side
    <2>2. state[P] # "fulfilled"
        <3>1. Collects(c)
            BY <1>1, <1>12 DEF RestOf
        <3> QED BY <1>2, <1>9, <2>1, <3>1 DEF Collects
    <2>3. state'[P] = "rejected"
        BY <1>1, <1>4, <1>6, <2>1, <2>2, SideOf DEF Side
    <2> QED BY <1>2, <1>9, <1>10, <2>1, <2>3 DEF Collects
<1>13. ASSUME links[c].kind = "then" PROVE HandsOn(c)'
    <2>1. PICK p : p = links[c].from[1]
        OBVIOUS
    <2>2. /\ p \in DOMAIN state /\ state[p] \in Side /\ side = state[p]
          /\ ran[c] = <<>> /\ ~ InCode(c) /\ state[P] = "pending"
        BY <1>2, <1>3, <1>13, <2>1, ThenCalled
    <2>3. state'[p] = side /\ ~ Awaits(c, p)'
        <3>1. PICK e : e = Depth
            OBVIOUS
        <3>2. e \notin 1..Depth' \/ ~ CallAt(e, c)'
            BY <1>3, <1>6, <3>1
        <3> QED BY <1>3, <1>8, <1>13, <2>1, <2>2, <3>1, <3>2, ThenCallOver
    <2>4. ~ InCode(c)'
        <3>1. \A d \in 1..Depth' : CodeAt(d, c)' => d \in 1..Depth /\ CodeAt(d, c)
            <4>1. /\ n \in 0..Depth /\ n <= Depth' /\ Depth' \in Nat
                  /\ \A d \in 1..n : FrameAt(d)' = FrameAt(d)
                BY <1>1, <1>6, StaysDepth
            <4>2. \A d \in (n + 1)..Depth' : FrameAt(d)'.frame = "loop"
                BY <1>5 DEF SettlesAt
            <4> QED BY <1>3, <4>1, <4>2 DEF CodeAt
        <3> QED BY <2>2, <3>1 DEF InCode
    <2>5. state'[P] = side /\ ran'[c] = <<>>
        BY <1>10, <2>2
    <2>6. links'[c].on[side] = "pass" /\ links'[c].from[1] = p /\ links'[c].npm = P
        BY <1>2, <2>1
    <2>7. \A d \in 1..Depth' : ~ CodeAt(d, c)'
        BY <2>4 DEF InCode
    <2>8. side # "pending"
        BY DEF Side
    <2> QED BY <2>3, <2>4, <2>5, <2>6, <2>7, <2>8 DEF HandsOn, Runs
<1>14. RestOf(c)'
    BY <1>8, <1>11, <1>12, <1>13 DEF RestOf
<1>15. ran[c] = <<>>
    <2>1. CASE links[c].kind = "then"
        BY <1>3, <2>1, ThenCalled
    <2>2. CASE links[c].kind # "then"
        BY <2>2, OthersRunNothing
    <2> QED BY <2>1, <2>2
<1>16. /\ \A m \in DOMAIN links : m # c => Elsewhere(n, m) /\ left'[m] = left[m] /\ ran'[m] = ran[m]
       /\ \A p \in DOMAIN state : state[p] = "pending" /\ state'[p] # "pending" =>
              \E d \in 1..Depth' : LoopAt(d, p)'
    BY <1>6, <1>7
<1> QED BY <1>2, <1>6, <1>14, <1>15, <1>16, ActingStep

\* The callback of an all is counted.
LEMMA DueCounted ==
    ASSUME PromiseInv, StateKept, DOMAIN state' = DOMAIN state, NEW c \in DOMAIN links,
           SameUnpassed(c), NEW n, Stays(n), n = Depth - 1, CallAt(Depth, c),
           FrameAt(Depth).side = "fulfilled", \A d \in (n + 1)..Depth' : ~ CallAt(d, c)'
    PROVE  Due(c)' = Due(c) \ {<<0, n + 1>>} /\ <<0, n + 1>> \in Due(c)
<1>1. /\ Shape /\ Depth \in Nat /\ Depth' \in Nat /\ n \in 0..Depth /\ n <= Depth'
      /\ \A d \in 1..n : FrameAt(d)' = FrameAt(d)
    BY StaysDepth DEF PromiseInv
<1>2. PICK e : e = Depth
    OBVIOUS
<1>3. e \in 1..Depth /\ e = n + 1 /\ CallAt(e, c) /\ FrameAt(e).side = "fulfilled" /\ n \in Nat
    BY <1>1, <1>2
<1>4. DueFiled(c)' = DueFiled(c)
    <2>1. DueFiled(c)' = UNION {{<<p, j>> : j \in Unpassed(c, p, "fulfilled")'} : p \in DOMAIN state'}
        BY DEF DueFiled, Unpassed
    <2>2. \A p \in DOMAIN state : Unpassed(c, p, "fulfilled")' = Unpassed(c, p, "fulfilled")
        BY DEF SameUnpassed, Side
    <2> QED BY <2>1, <2>2, DueUnpassed
<1>5. DueCalls(c)' = DueCalls(c) \ {e}
    <2>1. ASSUME NEW d \in DueCalls(c)' PROVE d \in DueCalls(c) \ {e}
        <3>1. d \in 1..Depth' /\ CallAt(d, c)' /\ FrameAt(d)'.side = "fulfilled"
            BY DEF DueCalls
        <3>2. d \in 1..n
            BY <1>1, <3>1
        <3> QED BY <1>1, <1>3, <3>1, <3>2 DEF DueCalls, CallAt
    <2>2. ASSUME NEW d \in DueCalls(c), d # e PROVE d \in DueCalls(c)'
        <3>1. d \in 1..Depth /\ CallAt(d, c) /\ FrameAt(d).side = "fulfilled"
            BY DEF DueCalls
        <3>2. d \in 1..n /\ d \in 1..Depth'
            BY <1>1, <1>2, <1>3, <2>2, <3>1
        <3> QED BY <1>1, <3>1, <3>2 DEF DueCalls, CallAt
    <2> QED BY <2>1, <2>2
<1>6. e \in DueCalls(c)
    BY <1>3 DEF DueCalls
<1>7. <<0, e>> \notin DueFiled(c)
    BY <1>1, LenProperties DEF DueFiled, Shape
<1>8. Due(c)' = Due(c) \ {<<0, e>>} /\ <<0, e>> \in Due(c)
    BY <1>4, <1>5, <1>6, <1>7 DEF Due
<1> QED BY <1>3, <1>8

LEMMA OnlyOne ==
    ASSUME NEW S, IsFiniteSet(S), Cardinality(S) = 1, NEW x \in S
    PROVE  S = {x}
<1>1. Cardinality(S \ {x}) = 0 /\ IsFiniteSet(S \ {x})
    BY FS_RemoveElement
<1>2. S \ {x} = {}
    BY <1>1, FS_EmptySet
<1> QED BY <1>2

LEMMA CallCountRest ==
    ASSUME PromiseInv, RestInv, StateKept, NEW c \in DOMAIN links, NEW side \in Side,
           NEW rest, Rest(rest), rest # stack, CallAt(Depth, c), FrameAt(Depth).side = side,
           links[c].on[side] = "count",
           left' = [left EXCEPT ![c] = @ - 1],
           IF left[c] = 1 THEN Settle(links[c].npm, side, rest)
           ELSE stack' = rest /\ UNCHANGED state,
           UNCHANGED <<callbacks, links, known, owned, ran>>
    PROVE  RestInv'
<1>1. Shape /\ RestOf(c) /\ CallsFrom(c)
    BY DEF PromiseInv, RestInv, RestOf
<1>2. PICK n, P : n = Len(rest) /\ P = links[c].npm
    OBVIOUS
<1>3. /\ Depth \in Nat /\ n \in Nat /\ n = Depth - 1 /\ n # Depth /\ Depth \in 1..Depth
      /\ FrameAt(Depth).frame = "call"
      /\ \A m : m # c => ~ CallAt(Depth, m)
      /\ \A m : ~ CodeAt(Depth, m)
    BY <1>1, <1>2, TopCall
<1>4. P \in DOMAIN state /\ Range(links[c].from) \subseteq DOMAIN state
    BY <1>1, <1>2, SourceTypes
<1>5. links[c].kind = "all" /\ side = "fulfilled"
    BY <1>1, LinkTypes DEF LinkOK, LinkType, OnThen, OnAll, OnRace, Side
<1>6. /\ left[c] \in Int /\ left'[c] = left[c] - 1
      /\ \A m \in DOMAIN links : m # c => left'[m] = left[m]
    <2>1. left \in Seq(Int) /\ DOMAIN left = DOMAIN links /\ c \in DOMAIN left
        BY <1>1, LenProperties DEF Shape
    <2>2. left[c] \in Int
        BY <2>1, LenProperties, ElementOfSeq
    <2> QED BY <2>1, <2>2
<1>7. /\ Stays(n) /\ DOMAIN state' = DOMAIN state
      /\ \A d \in (n + 1)..Depth' : FrameAt(d)'.frame = "loop"
      /\ \A p \in DOMAIN state : p # P => state'[p] = state[p]
      /\ state'[P] = IF state[P] = "pending" /\ left[c] = 1 THEN side ELSE state[P]
      /\ state[P] # state'[P] => \E d \in 1..Depth' : LoopAt(d, P)'
    <2>1. CASE left[c] = 1
        <3>1. SettlesAt(P, side, n)
            BY <1>1, <1>2, <1>3, <1>4, <2>1, SettleFrames
        <3> QED BY <2>1, <3>1 DEF SettlesAt
    <2>2. CASE left[c] # 1
        <3>1. stack' = rest /\ state' = state
            BY <2>2
        <3>2. Base(n) /\ Depth' = n
            BY <1>1, <1>2, <3>1, NothingPushed
        <3>3. \A d \in (n + 1)..Depth' : FALSE
            BY <1>3, <3>2
        <3>4. Stays(n)
            BY <1>3, <3>2, <3>3 DEF Stays
        <3> QED BY <2>2, <3>1, <3>3, <3>4
    <2> QED BY <2>1, <2>2
<1>8. /\ \A d \in (n + 1)..Depth' : ~ CallAt(d, c)'
      /\ \A m \in DOMAIN links : m # c => Elsewhere(n, m)
    BY <1>3, <1>7 DEF Elsewhere, CallAt, CodeAt
<1>9. SameUnpassed(c) /\ FewerCalls(c) /\ CallsFrom(c)'
    BY <1>7, <1>8, ActingCalls
<1>10. Collects(c) /\ CountsDown(c)
    BY <1>1, <1>5 DEF RestOf, PromiseInv, LinkInv
<1>11. PICK D, E, x : D = Due(c)' /\ E = Due(c) /\ x = <<0, n + 1>>
    OBVIOUS
<1>12. D = E \ {x} /\ x \in E
    BY <1>3, <1>5, <1>7, <1>8, <1>9, <1>11, DueCounted
<1>13. IsFiniteSet(E) /\ Cardinality(D) = Cardinality(E) - 1 /\ Cardinality(E) \in Nat
    <2>1. IsFiniteSet(E)
        BY <1>10, <1>11 DEF CountsDown
    <2> QED BY <1>12, <2>1, FS_RemoveElement, FS_CardinalityType
\* With the last call every promise of the list is fulfilled.
<1>14. ASSUME state[P] # "rejected", left[c] = 1, NEW p \in Range(links[c].from)
       PROVE  state[p] = "fulfilled"
    <2>1. Cardinality(E) = 1
        BY <1>2, <1>10, <1>11, <1>14 DEF Collects
    <2>2. E = {x}
        BY <1>12, <1>13, <2>1, OnlyOne
    <2>3. DueFiled(c) \subseteq {x}
        BY <1>11, <2>2 DEF Due
    <2>4. DueFiled(c) = {}
        <3>1. \A y \in DueFiled(c) : y[1] \in DOMAIN state
            BY DEF DueFiled
        <3>2. 0 \notin DOMAIN state
            BY <1>1, LenProperties DEF Shape
        <3>3. x[1] = 0
            BY <1>11
        <3> QED BY <2>3, <3>1, <3>2, <3>3
    <2>5. p \in DOMAIN state
        BY <1>4
    <2>6. Unpassed(c, p, "fulfilled") = {}
        <3>1. \A j \in Unpassed(c, p, "fulfilled") : <<p, j>> \in DueFiled(c)
            BY <2>5, DueUnpassed
        <3> QED BY <2>4, <3>1
    <2>7. state[p] # "pending"
        BY <1>1, <2>6 DEF CallsFrom, Side
    <2>8. state[p] # "rejected"
        BY <1>2, <1>10, <1>14, <2>6 DEF Collects
    <2> QED BY <1>1, <2>5, <2>7, <2>8, SideOf DEF Side
<1>15. Collects(c)'
    <2>1. PICK out, new : out = state[P] /\ new = state'[P]
        OBVIOUS
    <2>2. new = "fulfilled" => \A p \in Range(links[c].from) : state'[p] = "fulfilled"
        <3> SUFFICES ASSUME new = "fulfilled", NEW p \in Range(links[c].from)
                     PROVE  state'[p] = "fulfilled"
            OBVIOUS
        <3>1. state[p] = "fulfilled"
            <4>1. CASE out = "fulfilled"
                BY <1>2, <1>10, <2>1, <4>1 DEF Collects
            <4>2. CASE out # "fulfilled"
                BY <1>7, <1>14, <2>1, <4>2
            <4> QED BY <4>1, <4>2
        <3> QED BY <1>4, <3>1 DEF StateKept
    <2>3. new = "rejected" => \E p \in Range(links[c].from) : state'[p] = "rejected"
        <3> SUFFICES ASSUME new = "rejected"
                     PROVE  \E p \in Range(links[c].from) : state'[p] = "rejected"
            OBVIOUS
        <3>1. out = "rejected"
            BY <1>5, <1>7, <2>1
        <3>2. PICK p \in Range(links[c].from) : state[p] = "rejected"
            BY <1>2, <1>10, <2>1, <3>1 DEF Collects
        <3> QED BY <1>4, <3>2 DEF StateKept
    <2>4. ASSUME new # "rejected" PROVE out # "rejected" /\ left'[c] = Cardinality(D)
        <3>1. out # "rejected"
            BY <1>7, <2>1, <2>4
        <3> QED BY <1>2, <1>6, <1>10, <1>11, <1>13, <2>1, <3>1 DEF Collects
    <2>5. ASSUME new # "rejected", NEW p \in Range(links[c].from), state'[p] = "rejected"
          PROVE  Unpassed(c, p, "fulfilled")' # {} /\ Awaits(c, p)'
        <3>1. p \in DOMAIN state
            BY <1>4
        <3>2. state[p] = "rejected"
            <4>1. p # P
                BY <2>1, <2>5
            <4> QED BY <1>7, <2>5, <3>1, <4>1
        <3>3. Unpassed(c, p, "fulfilled") # {} /\ Awaits(c, p)
            BY <1>2, <1>10, <2>1, <2>4, <2>5, <3>2 DEF Collects
        <3>4. Unpassed(c, p, "fulfilled")' # {} /\ Unpassed(c, p, "rejected")' = Unpassed(c, p, "rejected")
            BY <1>9, <3>1, <3>3 DEF SameUnpassed, Side
        <3>5. Awaits(c, p)'
            <4>1. CASE Unpassed(c, p, "rejected") # {}
                BY <2>5, <3>4, <4>1 DEF Awaits
            <4>2. ASSUME NEW d \in 1..Depth, CallAt(d, c), FrameAt(d).side = "rejected"
                  PROVE  Awaits(c, p)'
                <5>1. d # Depth
                    BY <1>5, <4>2
                <5>2. d \in 1..n /\ d \in 1..Depth' /\ FrameAt(d)' = FrameAt(d)
                    BY <1>1, <1>3, <1>7, <5>1, StaysDepth
                <5>3. CallAt(d, c)' /\ FrameAt(d)'.side = "rejected"
                    BY <4>2, <5>2 DEF CallAt
                <5> QED BY <2>5, <5>2, <5>3 DEF Awaits
            <4> QED BY <3>2, <3>3, <4>1, <4>2 DEF Awaits
        <3> QED BY <3>4, <3>5
    <2>6. new = "pending" => left'[c] # 0
        <3> SUFFICES ASSUME new = "pending" PROVE left'[c] # 0
            OBVIOUS
        <3>1. out = "pending" /\ left[c] # 1
            BY <1>5, <1>7, <2>1
        <3> QED BY <1>6, <3>1
    <2>7. links'[c].from = links[c].from /\ state'[links'[c].npm] = new
        BY <1>2, <2>1
    <2> QED BY <1>11, <2>2, <2>3, <2>4, <2>5, <2>6, <2>7 DEF Collects
<1>16. RestOf(c)'
    BY <1>5, <1>9, <1>15 DEF RestOf
<1>17. ran[c] = <<>>
    BY <1>5, OthersRunNothing
<1>18. /\ \A m \in DOMAIN links : m # c => Elsewhere(n, m) /\ left'[m] = left[m] /\ ran'[m] = ran[m]
       /\ \A p \in DOMAIN state : state[p] = "pending" /\ state'[p] # "pending" =>
              \E d \in 1..Depth' : LoopAt(d, p)'
    BY <1>6, <1>7, <1>8
<1> QED BY <1>2, <1>7, <1>16, <1>17, <1>18, ActingStep

LEMMA CallCodeRest ==
    ASSUME PromiseInv, RestInv, StateKept, NEW c \in DOMAIN links, NEW side \in Side,
           NEW rest, Rest(rest), rest # stack, CallAt(Depth, c), FrameAt(Depth).side = side,
           links[c].on[side] \in {"plain", "promise"},
           ran' = [ran EXCEPT ![c] = Append(@, side)],
           stack' = <<[frame |-> "code", l |-> c, side |-> side]>> \o rest,
           UNCHANGED <<state, callbacks, links, left, known, owned>>
    PROVE  RestInv'
<1>1. Shape /\ RestOf(c) /\ Settlers
    BY DEF PromiseInv, RestInv
<1>2. PICK n, P, f, e, p :
          /\ n = Len(rest) /\ P = links[c].npm /\ e = Depth /\ p = links[c].from[1]
          /\ f = [frame |-> "code", l |-> c, side |-> side]
    OBVIOUS
<1>3. /\ Depth \in Nat /\ n \in Nat /\ n = Depth - 1 /\ n # Depth /\ Depth \in 1..Depth
      /\ FrameAt(Depth).frame = "call"
      /\ \A m : m # c => ~ CallAt(Depth, m)
      /\ \A m : ~ CodeAt(Depth, m)
    BY <1>1, <1>2, TopCall
<1>4. links[c].kind = "then"
    <2>1. /\ links[c].kind \in {"then", "all", "race", "follow"}
          /\ links[c].kind = "all" => links[c].on = OnAll
          /\ links[c].kind \in {"race", "follow"} => links[c].on = OnRace
        BY <1>1, LinkTypes DEF LinkOK, LinkType
    <2>2. OnAll[side] \in {"count", "pass"} /\ OnRace[side] = "pass"
        BY DEF OnAll, OnRace, Side
    <2> QED BY <2>1, <2>2
<1>5. /\ p \in DOMAIN state /\ side = state[p] /\ ran[c] = <<>> /\ ~ InCode(c)
      /\ state[P] = "pending"
    BY <1>2, <1>3, <1>4, ThenCalled
<1>6. /\ Base(n) /\ Depth' = n + 1 /\ FrameAt(n + 1)' = f
    BY <1>1, <1>2, OnePushed
<1>7. \A d \in (n + 1)..Depth' : d = n + 1 /\ FrameAt(d)' = f
    BY <1>3, <1>6
<1>8. Stays(n) /\ \A d \in (n + 1)..Depth' : ~ CallAt(d, c)'
    BY <1>2, <1>3, <1>6, <1>7 DEF Stays, CallAt
<1>9. \A m \in DOMAIN links : m # c => Elsewhere(n, m)
    BY <1>2, <1>3, <1>7 DEF Elsewhere, CallAt, CodeAt
<1>10. /\ SameUnpassed(c) /\ FewerCalls(c) /\ CallsFrom(c)'
       /\ links'[c].from = <<links'[c].from[1]>>
    BY <1>4, <1>8, ActingCalls
<1>11. ran'[c] # <<>> /\ \A m \in DOMAIN links : m # c => ran'[m] = ran[m]
    <2>1. DOMAIN ran = DOMAIN links /\ ran[c] \in Seq(Side)
        <3>1. DOMAIN ran = DOMAIN links
            BY <1>1, LenProperties DEF Shape
        <3>2. c \in 1..Len(ran)
            BY <1>1, LenProperties DEF Shape
        <3> QED BY <1>1, <3>1, <3>2, ElementOfSeq DEF Shape
    <2>2. ran'[c] = Append(<<>>, side)
        BY <1>5, <2>1
    <2>3. Append(<<>>, side) # <<>>
        OBVIOUS
    <2> QED BY <2>1, <2>2, <2>3
<1>12. ~ Followed(c)'
    <2>1. ~ Followed(c)
        BY <1>1, <1>4, <1>5, NotFollowedYet
    <2> QED BY <2>1 DEF Followed
<1>13. \A d \in 1..Depth' : CodeAt(d, c)' => d = n + 1 /\ FrameAt(d)'.side = side
    <2> SUFFICES ASSUME NEW d \in 1..Depth', CodeAt(d, c)' PROVE d = n + 1 /\ FrameAt(d)'.side = side
        OBVIOUS
    <2>1. d \notin 1..n
        <3> SUFFICES ASSUME d \in 1..n PROVE FALSE
            OBVIOUS
        <3>1. d \in 1..Depth /\ FrameAt(d)' = FrameAt(d)
            BY <1>3, <1>6 DEF Base
        <3> QED BY <1>5, <3>1 DEF InCode, CodeAt
    <2> QED BY <1>2, <1>3, <1>6, <1>7, <2>1
<1>14. InCode(c)'
    <2>1. n + 1 \in 1..Depth' /\ CodeAt(n + 1, c)'
        BY <1>2, <1>3, <1>6 DEF CodeAt
    <2> QED BY <2>1 DEF InCode
<1>15. HandsOn(c)'
    <2>1. state'[links'[c].npm] = "pending" /\ state'[links'[c].from[1]] = side /\ side # "pending"
        BY <1>2, <1>5 DEF Side
    <2> QED BY <1>11, <1>12, <1>13, <1>14, <2>1 DEF HandsOn, Runs
<1>16. RestOf(c)'
    BY <1>4, <1>10, <1>15 DEF RestOf
<1>17. \A m \in DOMAIN links : m # c => Elsewhere(n, m) /\ left'[m] = left[m] /\ ran'[m] = ran[m]
    BY <1>9, <1>11
<1> QED BY <1>2, <1>5, <1>8, <1>16, <1>17, ActingStep

LEMMA CallRest ==
    ASSUME PromiseInv, RestInv, Call
    PROVE  RestInv'
<1>1. /\ Shape /\ stack # <<>> /\ Head(stack).frame = "call"
      /\ UNCHANGED <<callbacks, links, known, owned>> /\ StateKept
    BY CallStep DEF PromiseInv, Call, Top
<1>2. PICK l, side, rest : l = Head(stack).l /\ side = Head(stack).side /\ rest = Tail(stack)
    OBVIOUS
<1>3. /\ l \in DOMAIN links /\ side \in Side /\ Rest(rest) /\ rest # stack
      /\ CallAt(Depth, l) /\ FrameAt(Depth).side = side
    BY <1>1, <1>2, TopOfLink DEF CallAt
<1>4. CASE /\ links[l].on[side] = "pass" /\ Settle(links[l].npm, side, rest)
           /\ UNCHANGED <<left, ran>>
    BY <1>1, <1>3, <1>4, CallPassRest
<1>5. CASE /\ links[l].on[side] = "count"
           /\ left' = [left EXCEPT ![l] = @ - 1]
           /\ IF left[l] = 1 THEN Settle(links[l].npm, side, rest)
              ELSE stack' = rest /\ UNCHANGED state
           /\ UNCHANGED ran
    BY <1>1, <1>3, <1>5, CallCountRest
<1>6. CASE /\ links[l].on[side] \in {"plain", "promise"}
           /\ ran' = [ran EXCEPT ![l] = Append(@, side)]
           /\ stack' = <<[frame |-> "code", l |-> l, side |-> side]>> \o rest
           /\ UNCHANGED <<state, left>>
    BY <1>1, <1>3, <1>6, CallCodeRest
<1> QED BY <1>2, <1>4, <1>5, <1>6 DEF Call

\* The code of a callback that runs on top of the stack.
LEMMA TopCode ==
    ASSUME PromiseInv, RestInv, NEW c \in DOMAIN links, NEW side \in Side,
           NEW rest, Rest(rest), rest # stack, CodeAt(Depth, c), FrameAt(Depth).side = side,
           links[c].on[side] \in {"plain", "promise"},
           NEW n, n = Len(rest), NEW p, p = links[c].from[1]
    PROVE  /\ Depth \in Nat /\ n \in Nat /\ n = Depth - 1 /\ n # Depth
           /\ FrameAt(Depth).frame = "code"
           /\ \A m : ~ CallAt(Depth, m)
           /\ \A m : m # c => ~ CodeAt(Depth, m)
           /\ links[c].kind = "then" /\ p \in DOMAIN state /\ state[p] = side
           /\ ran[c] # <<>> /\ InCode(c) /\ state[links[c].npm] = "pending"
           /\ ~ Followed(c) /\ ~ Awaits(c, p)
           /\ \A d \in 1..Depth : CodeAt(d, c) => d = Depth
<1>1. Shape /\ RestOf(c)
    BY DEF PromiseInv, RestInv
<1>2. Depth \in Nat /\ Len(rest) \in 0..Depth /\ Len(rest) = Depth - 1
    BY <1>1, RestFrames, FrameTypes
<1>3. links[c].kind = "then"
    <2>1. /\ links[c].kind \in {"then", "all", "race", "follow"}
          /\ links[c].kind = "all" => links[c].on = OnAll
          /\ links[c].kind \in {"race", "follow"} => links[c].on = OnRace
        BY <1>1, LinkTypes DEF LinkOK, LinkType
    <2>2. OnAll[side] \in {"count", "pass"} /\ OnRace[side] = "pass"
        BY DEF OnAll, OnRace, Side
    <2> QED BY <2>1, <2>2
<1>4. HandsOn(c)
    BY <1>1, <1>3 DEF RestOf
<1>5. Depth \in 1..Depth
    BY <1>2
<1>6. InCode(c)
    BY <1>5 DEF InCode
<1>7. /\ ran[c] # <<>> /\ state[links[c].npm] = "pending" /\ ~ Followed(c)
      /\ state[p] = side /\ \A d \in 1..Depth : CodeAt(d, c) => d = Depth
    BY <1>4, <1>5, <1>6 DEF HandsOn
<1>8. p \in DOMAIN state /\ ~ Awaits(c, p)
    BY <1>1, <1>3, <1>7, InvRanDone, LinkTypes DEF RanDone
<1> QED BY <1>2, <1>3, <1>6, <1>7, <1>8 DEF CallAt, CodeAt

\* Afterwards it does not run any more.
LEMMA CodeOver ==
    ASSUME Shape, NEW c, NEW n, Stays(n), n = Depth - 1,
           \A d \in 1..Depth : CodeAt(d, c) => d = Depth,
           \A d \in (n + 1)..Depth' : FrameAt(d)'.frame = "loop"
    PROVE  ~ InCode(c)'
<1>1. /\ Depth \in Nat /\ Depth' \in Nat /\ n \in 0..Depth /\ n <= Depth'
      /\ \A d \in 1..n : FrameAt(d)' = FrameAt(d)
    BY StaysDepth
<1> SUFFICES ASSUME NEW d \in 1..Depth', CodeAt(d, c)' PROVE FALSE
    BY DEF InCode
<1>2. CASE d \in 1..n
    <2>1. d \in 1..Depth /\ CodeAt(d, c)
        BY <1>1, <1>2 DEF CodeAt
    <2> QED BY <1>1, <1>2, <2>1
<1>3. CASE d \in (n + 1)..Depth'
    BY <1>3 DEF CodeAt
<1> QED BY <1>1, <1>2, <1>3

\* Code that is over awaits nothing.
LEMMA CodeAwaits ==
    ASSUME Shape, StateKept, NEW c, SameUnpassed(c), FewerCalls(c),
           NEW p \in DOMAIN state, NEW s \in Side, state[p] = s, ~ Awaits(c, p)
    PROVE  state'[p] = s /\ ~ Awaits(c, p)'
<1>1. state'[p] = s
    BY DEF StateKept, Side
<1>2. Unpassed(c, p, s)' = {}
    BY DEF Awaits, SameUnpassed
<1>3. \A d \in 1..Depth' : CallAt(d, c)' => FrameAt(d)'.side # s
    BY DEF Awaits, FewerCalls
<1> QED BY <1>1, <1>2, <1>3 DEF Awaits

LEMMA ReturnPlainRest ==
    ASSUME PromiseInv, RestInv, ReturnPlain
    PROVE  RestInv'
<1>1. /\ Shape /\ stack # <<>> /\ Head(stack).frame = "code"
      /\ UNCHANGED <<callbacks, links, left, known, owned, ran>> /\ StateKept
    BY ReturnPlainStep DEF PromiseInv, ReturnPlain, Top
<1>2. PICK c, side, rest, n, P, p :
          /\ c = Head(stack).l /\ side = Head(stack).side /\ rest = Tail(stack)
          /\ n = Len(rest) /\ P = links[c].npm /\ p = links[c].from[1]
    OBVIOUS
<1>3. /\ c \in DOMAIN links /\ side \in Side /\ Rest(rest) /\ rest # stack /\ P \in DOMAIN state
      /\ CodeAt(Depth, c) /\ FrameAt(Depth).side = side
    BY <1>1, <1>2, TopOfLink DEF CodeAt
<1>4. links[c].on[side] = "plain" /\ Settle(P, side, rest)
    BY <1>2 DEF ReturnPlain
<1>5. /\ Depth \in Nat /\ n \in Nat /\ n = Depth - 1 /\ n # Depth
      /\ FrameAt(Depth).frame = "code"
      /\ \A m : ~ CallAt(Depth, m)
      /\ \A m : m # c => ~ CodeAt(Depth, m)
      /\ links[c].kind = "then" /\ p \in DOMAIN state /\ state[p] = side
      /\ ran[c] # <<>> /\ InCode(c) /\ state[P] = "pending"
      /\ ~ Awaits(c, p)
      /\ \A d \in 1..Depth : CodeAt(d, c) => d = Depth
    <2>1. links[c].on[side] \in {"plain", "promise"} /\ n = Len(rest) /\ p = links[c].from[1]
        BY <1>2, <1>4
    <2>2. links[c].npm = P
        BY <1>2
    <2> QED BY <1>3, <2>1, <2>2, TopCode
<1>6. SettlesAt(P, side, n)
    BY <1>1, <1>2, <1>3, <1>4, <1>5, SettleFrames
<1>7. /\ Stays(n) /\ DOMAIN state' = DOMAIN state
      /\ \A d \in (n + 1)..Depth' : FrameAt(d)'.frame = "loop" /\ ~ CallAt(d, c)'
      /\ \A q \in DOMAIN state : q # P => state'[q] = state[q]
      /\ state'[P] = side
      /\ \E d \in 1..Depth' : LoopAt(d, P)'
    BY <1>5, <1>6 DEF SettlesAt, CallAt
<1>8. \A m \in DOMAIN links : m # c => Elsewhere(n, m)
    BY <1>5, <1>6, SettleElsewhere
<1>9. /\ SameUnpassed(c) /\ FewerCalls(c) /\ CallsFrom(c)'
      /\ links'[c].from = <<links'[c].from[1]>>
    BY <1>1, <1>3, <1>5, <1>7, ActingCalls
<1>10. ~ InCode(c)'
    BY <1>1, <1>5, <1>7, CodeOver
<1>11. state'[p] = side /\ ~ Awaits(c, p)'
    BY <1>1, <1>3, <1>5, <1>9, CodeAwaits
<1>12. HandsOn(c)'
    <2>1. /\ links'[c].on[side] = "plain" /\ links'[c].from[1] = p /\ links'[c].npm = P
          /\ ran'[c] # <<>> /\ side # "pending"
        BY <1>1, <1>2, <1>3, <1>4, <1>5 DEF Side
    <2>2. \A d \in 1..Depth' : ~ CodeAt(d, c)'
        BY <1>10 DEF InCode
    <2> QED BY <1>7, <1>10, <1>11, <2>1, <2>2 DEF HandsOn, Runs
<1>13. RestOf(c)'
    BY <1>1, <1>5, <1>9, <1>12 DEF RestOf
<1>14. /\ \A m \in DOMAIN links : m # c => Elsewhere(n, m) /\ left'[m] = left[m] /\ ran'[m] = ran[m]
       /\ \A q \in DOMAIN state : state[q] = "pending" /\ state'[q] # "pending" =>
              \E d \in 1..Depth' : LoopAt(d, q)'
       /\ ran'[c] = ran[c]
    BY <1>1, <1>7, <1>8
<1> QED BY <1>1, <1>2, <1>3, <1>5, <1>7, <1>10, <1>13, <1>14, ActingStep

-----------------------------------------------------------------------------
(* At rest: steps of no link.                                               *)

LEMMA QuietRest ==
    ASSUME PromiseInv, RestInv, StateKept, UNCHANGED <<links, left, ran>>,
           \A m \in DOMAIN links : SameCalls(m), LoopRuns',
           \A m \in DOMAIN links : links[m].npm \notin owned',
           \A m \in DOMAIN links : state'[links[m].npm] = state[links[m].npm]
    PROVE  RestInv'
<1>1. \A m \in DOMAIN links : RestOf(m)'
    <2> TAKE m \in DOMAIN links
    <2>1. Followed(m)' <=> Followed(m)
        BY DEF Followed
    <2>2. RestOf(m)
        BY DEF RestInv
    <2> QED BY <2>1, <2>2, RestKept
<1>2. Settlers'
    <2>1. \A l \in DOMAIN links : InCode(l)' <=> InCode(l)
        BY InCodeSame
    <2> QED BY <2>1, SettlersKept DEF RestInv
<1> QED BY <1>1, <1>2 DEF RestInv

LEMMA SameStays ==
    ASSUME Shape, stack' = stack
    PROVE  Stays(Depth) /\ \A m : Elsewhere(Depth, m)
<1>1. Base(Depth) /\ Depth' = Depth /\ Depth \in Nat
    BY NothingPushed, FrameTypes DEF Rest, Depth
<1>2. \A n : n = Depth => \A d \in (n + 1)..Depth' : FALSE
    BY <1>1
<1> QED BY <1>1, <1>2 DEF Stays, Elsewhere

LEMMA MakeRest ==
    ASSUME PromiseInv, RestInv, Make
    PROVE  RestInv'
<1>1. /\ Shape /\ LoopsOnce /\ LoopRuns /\ Settlers /\ StateKept
      /\ New("pending") /\ callbacks' = Append(callbacks, NoCallbacks)
      /\ owned' = owned \cup {npm} /\ UNCHANGED <<links, left, stack, ran>>
    BY MakeStep DEF PromiseInv, RestInv, Make
<1>2. /\ npm \notin DOMAIN state /\ DOMAIN state' = DOMAIN state \cup {npm}
      /\ \A p \in DOMAIN state : state'[p] = state[p]
    BY <1>1, NewState
<1>3. /\ \A p \in DOMAIN state : callbacks'[p] = callbacks[p]
      /\ \A p \in DOMAIN state' \ DOMAIN state, s \in Side : callbacks'[p][s] = <<>>
    <2>1. PICK T, c : T = [Side -> Seq(DOMAIN links)] /\ c = NoCallbacks
        OBVIOUS
    <2>2. c \in T /\ \A s \in Side : c[s] = <<>>
        <3>1. <<>> \in Seq(DOMAIN links)
            BY EmptySeq
        <3> QED BY <2>1, <3>1 DEF NoCallbacks
    <2>3. /\ callbacks \in Seq(T) /\ Len(callbacks) = Len(state) /\ Len(state) \in Nat
          /\ DOMAIN state = 1..Len(callbacks) /\ npm = Len(callbacks) + 1
        BY <1>1, <2>1, LenProperties DEF Shape, npm
    <2>4. /\ callbacks'[Len(callbacks) + 1] = c
          /\ \A p \in 1..Len(callbacks) : callbacks'[p] = callbacks[p]
        BY <1>1, <2>1, <2>2, <2>3, AppendProperties
    <2>5. \A p \in DOMAIN state' \ DOMAIN state : callbacks'[p] = c
        BY <1>2, <2>3, <2>4
    <2> QED BY <2>2, <2>3, <2>4, <2>5
<1>4. PICK n : n = Depth
    OBVIOUS
<1>5. Stays(n) /\ \A m : Elsewhere(n, m)
    BY <1>1, <1>4, SameStays
<1>6. \A m \in DOMAIN links : SameCalls(m)
    <2> TAKE m \in DOMAIN links
    <2>1. FiledSame(m)
        BY <1>3 DEF FiledSame, FiledAt
    <2> QED BY <1>1, <1>5, <2>1, StillCalls
<1>7. LoopRuns'
    <2>1. \A p \in DOMAIN state : state[p] # "pending" =>
              callbacks'[p][state[p]] = callbacks[p][state[p]]
        BY <1>3
    <2>2. \A p \in DOMAIN state : ~ (state[p] = "pending" /\ state'[p] # "pending")
        BY <1>2
    <2> QED BY <1>1, <1>3, <1>5, <2>1, <2>2, LoopRunsKept
<1>8. \A m \in DOMAIN links : /\ links[m].npm \notin owned'
                              /\ state'[links[m].npm] = state[links[m].npm]
    <2> TAKE m \in DOMAIN links
    <2>1. links[m].npm \in DOMAIN state
        BY <1>1, LinkTypes
    <2> QED BY <1>1, <1>2, <2>1 DEF Settlers
<1> QED BY <1>1, <1>6, <1>7, <1>8, QuietRest

\* Only the promises of links are settled by links.
LEMMA PlainRest ==
    ASSUME PromiseInv, RestInv, StateKept, DOMAIN state' = DOMAIN state,
           UNCHANGED <<callbacks, links, left, owned, ran>>,
           NEW n, Stays(n), \A m : Elsewhere(n, m),
           \A p \in DOMAIN state : p \notin owned => state'[p] = state[p],
           \A p \in DOMAIN state : state[p] = "pending" /\ state'[p] # "pending" =>
               \E d \in 1..Depth' : LoopAt(d, p)'
    PROVE  RestInv'
<1>1. Shape /\ LoopsOnce /\ LoopRuns /\ Settlers
    BY DEF PromiseInv, RestInv
<1>2. \A m \in DOMAIN links : SameCalls(m)
    <2> TAKE m \in DOMAIN links
    <2>1. FiledSame(m)
        BY DEF FiledSame, FiledAt
    <2>2. Elsewhere(n, m)
        OBVIOUS
    <2> QED BY <1>1, <2>1, <2>2, StillCalls
<1>3. LoopRuns'
    BY <1>1, LoopRunsKept
<1>4. \A m \in DOMAIN links : /\ links[m].npm \notin owned'
                              /\ state'[links[m].npm] = state[links[m].npm]
    <2> TAKE m \in DOMAIN links
    <2>1. links[m].npm \in DOMAIN state
        BY <1>1, LinkTypes
    <2> QED BY <1>1, <2>1 DEF Settlers
<1> QED BY <1>2, <1>3, <1>4, QuietRest

LEMMA GiveRest ==
    ASSUME PromiseInv, RestInv, Give
    PROVE  RestInv'
<1>1. /\ Shape /\ StateKept /\ stack # <<>> /\ Head(stack).frame = "give"
      /\ stack' = Tail(stack) /\ UNCHANGED <<state, callbacks, links, left, owned, ran>>
    BY GiveStep DEF PromiseInv, Give, Top
<1>2. PICK rest, n : rest = Tail(stack) /\ n = Len(rest)
    OBVIOUS
<1>3. Rest(rest) /\ Depth \in Nat /\ Depth > 0 /\ FrameAt(Depth).frame = "give" /\ n = Depth - 1
    <2>1. Head(stack) = FrameAt(Depth) /\ Depth \in Nat /\ Depth > 0
        BY <1>1, FrameTypes
    <2>2. Len(rest) = Depth - 1
        BY <1>1, <1>2, HeadTailProperties DEF Shape, Depth
    <2> QED BY <1>1, <1>2, <2>1, <2>2 DEF Rest
<1>4. Base(n) /\ Depth' = n
    BY <1>1, <1>2, <1>3, NothingPushed
<1>5. \A d \in (n + 1)..Depth' : FALSE
    BY <1>3, <1>4
<1>6. Stays(n) /\ \A m : Elsewhere(n, m)
    BY <1>3, <1>4, <1>5 DEF Stays, Elsewhere, CallAt, CodeAt
<1> QED BY <1>1, <1>6, PlainRest

LEMMA ResolveOrRejectRest ==
    ASSUME PromiseInv, RestInv, NEW p \in DOMAIN state, NEW side \in Side,
           ResolveOrReject(p, side)
    PROVE  RestInv'
<1>1. /\ Shape /\ StateKept /\ p \in owned
      /\ UNCHANGED <<callbacks, links, left, owned, ran>>
    BY ResolveOrRejectStep DEF PromiseInv, ResolveOrReject
<1>2. PICK rest, n : rest = stack /\ n = Len(rest)
    OBVIOUS
<1>3. Settle(p, side, rest) /\ Rest(rest) /\ n = Depth /\ Depth \in Nat
    BY <1>1, <1>2, FrameTypes DEF ResolveOrReject, Rest, Depth
<1>4. SettlesAt(p, side, n)
    BY <1>1, <1>2, <1>3, SettleFrames
<1>5. /\ Stays(n) /\ DOMAIN state' = DOMAIN state
      /\ \A q \in DOMAIN state : q # p => state'[q] = state[q]
      /\ \A q \in DOMAIN state : state[q] = "pending" /\ state'[q] # "pending" =>
             \E d \in 1..Depth' : LoopAt(d, q)'
    BY <1>4 DEF SettlesAt
<1>6. \A m : Elsewhere(n, m)
    <2> TAKE m
    <2>1. n = Depth - 1 => ~ CallAt(Depth, m) /\ ~ CodeAt(Depth, m)
        BY <1>3
    <2> QED BY <1>4, <2>1, SettleElsewhere
<1> QED BY <1>1, <1>5, <1>6, PlainRest

LEMMA StutterRest ==
    ASSUME PromiseInv, RestInv, UNCHANGED pvars
    PROVE  RestInv'
<1>1. /\ Shape /\ UNCHANGED <<state, callbacks, links, left, owned, ran>> /\ stack' = stack
    BY DEF PromiseInv, pvars
<1>2. StateKept
    BY <1>1 DEF Shape, StateKept
<1>3. PICK n : n = Depth
    OBVIOUS
<1>4. Stays(n) /\ \A m : Elsewhere(n, m)
    BY <1>1, <1>3, SameStays
<1> QED BY <1>1, <1>2, <1>4, PlainRest

\* A loop that ends has called everything: nothing is left that was not called.
LEMMA LoopEndsRest ==
    ASSUME PromiseInv, RestInv, StateKept,
           NEW p \in DOMAIN state, NEW k \in Nat \ {0}, NEW side \in Side, NEW rest, NEW n,
           Rest(rest), rest # stack, n = Len(rest),
           FrameAt(Depth) = [frame |-> "loop", p |-> p, k |-> k],
           side = state[p], k \notin DOMAIN callbacks[p][side], stack' = rest,
           callbacks' = [callbacks EXCEPT ![p][side] = <<>>],
           UNCHANGED <<state, links, left, known, owned, ran>>
    PROVE  RestInv'
<1>1. /\ Shape /\ LoopsOnce /\ LoopRuns /\ Settlers
      /\ Depth \in Nat /\ n \in Nat /\ n = Depth - 1
    BY RestFrames, FrameTypes DEF PromiseInv, RestInv
<1>2. Base(n) /\ Depth' = n /\ \A d \in 1..n : FrameAt(d)' = FrameAt(d)
    BY <1>1, NothingPushed DEF Base
<1>3. /\ callbacks'[p][side] = <<>>
      /\ \A q \in DOMAIN state, s \in Side :
            ~ (q = p /\ s = side) => callbacks'[q][s] = callbacks[q][s]
    <2>1. DOMAIN callbacks = DOMAIN state /\ callbacks[p] \in [Side -> Seq(DOMAIN links)]
        BY <1>1, CallbackTypes
    <2>2. callbacks' = [callbacks EXCEPT ![p] = [callbacks[p] EXCEPT ![side] = <<>>]]
        OBVIOUS
    <2>3. \A s \in Side : [callbacks[p] EXCEPT ![side] = <<>>][s] =
                              IF s = side THEN <<>> ELSE callbacks[p][s]
        BY <2>1
    <2> QED BY <2>1, <2>2, <2>3
<1>4. PICK e : e = Depth
    OBVIOUS
<1>5. e \in 1..Depth /\ LoopAt(e, p) /\ FrameAt(e).k = k
    BY <1>1, <1>4 DEF LoopAt
<1>6. \A q, s, j : ~ (q = p /\ s = side) => (Passed(q, s, j)' <=> Passed(q, s, j))
    <2> TAKE q, s, j
    <2> SUFFICES ASSUME ~ (q = p /\ s = side) PROVE Passed(q, s, j)' <=> Passed(q, s, j)
        OBVIOUS
    <2>1. Passed(q, s, j)' => Passed(q, s, j)
        BY <1>1, <1>2 DEF Passed, LoopAt
    <2>2. ASSUME Passed(q, s, j) PROVE Passed(q, s, j)'
        <3>1. PICK d \in 1..Depth : LoopAt(d, q) /\ j < FrameAt(d).k /\ state[q] = s
            BY <2>2 DEF Passed
        <3>2. d # Depth
            BY <3>1 DEF LoopAt
        <3>3. d \in 1..n
            BY <1>1, <3>2
        <3> QED BY <1>2, <3>1, <3>3 DEF Passed, LoopAt
    <2> QED BY <2>1, <2>2
<1>7. ASSUME NEW m, NEW q \in DOMAIN state, NEW s \in Side
      PROVE  Unpassed(m, q, s)' = Unpassed(m, q, s)
    <2>1. CASE q = p /\ s = side
        <3>1. Unpassed(m, q, s)' = {}
            BY <1>3, <2>1 DEF Unpassed, FiledAt
        <3>2. \A j \in FiledAt(m, q, s) : Passed(q, s, j)
            <4> TAKE j \in FiledAt(m, q, s)
            <4>1. PICK t : t = Len(callbacks[p][side])
                OBVIOUS
            <4>2. t \in Nat /\ j \in 1..t /\ k \notin 1..t
                BY <1>1, <2>1, <4>1, CallbackTypes DEF FiledAt
            <4>3. j < k
                BY <4>2
            <4> QED BY <1>5, <2>1, <4>3 DEF Passed
        <3>3. Unpassed(m, q, s) = {}
            BY <3>2 DEF Unpassed
        <3> QED BY <3>1, <3>3
    <2>2. CASE ~ (q = p /\ s = side)
        <3>1. FiledAt(m, q, s)' = FiledAt(m, q, s)
            BY <1>3, <2>2 DEF FiledAt
        <3>2. \A j : Passed(q, s, j)' <=> Passed(q, s, j)
            BY <1>6, <2>2
        <3> QED BY <3>1, <3>2 DEF Unpassed
    <2> QED BY <2>1, <2>2
<1>8. \A m \in DOMAIN links : SameCalls(m)
    <2> TAKE m \in DOMAIN links
    <2>1. SameUnpassed(m)
        BY <1>7 DEF SameUnpassed
    <2>2. ~ CallAt(Depth, m) /\ ~ CodeAt(Depth, m)
        BY DEF CallAt, CodeAt
    <2>3. \A d : d \in 1..Depth' /\ CallAt(d, m)' <=> d \in 1..Depth /\ CallAt(d, m)
        <3> TAKE d
        <3>1. d \in 1..Depth /\ CallAt(d, m) => d \in 1..n
            BY <1>1, <2>2
        <3>2. d \in 1..n => d \in 1..Depth /\ (CallAt(d, m)' <=> CallAt(d, m))
            BY <1>1, <1>2 DEF CallAt
        <3> QED BY <1>2, <3>1, <3>2
    <2>4. \A d : d \in 1..Depth' /\ CodeAt(d, m)' <=> d \in 1..Depth /\ CodeAt(d, m)
        <3> TAKE d
        <3>1. d \in 1..Depth /\ CodeAt(d, m) => d \in 1..n
            BY <1>1, <2>2
        <3>2. d \in 1..n => d \in 1..Depth /\ (CodeAt(d, m)' <=> CodeAt(d, m))
            BY <1>1, <1>2 DEF CodeAt
        <3> QED BY <1>2, <3>1, <3>2
    <2>5. \A d \in 1..Depth : CallAt(d, m) \/ CodeAt(d, m) => FrameAt(d)'.side = FrameAt(d).side
        <3> TAKE d \in 1..Depth
        <3>1. CallAt(d, m) \/ CodeAt(d, m) => d \in 1..n
            BY <1>1, <2>2
        <3> QED BY <1>2, <3>1
    <2> QED BY <2>1, <2>3, <2>4, <2>5 DEF SameCalls
<1>9. LoopRuns'
    <2> SUFFICES ASSUME NEW q \in DOMAIN state, NEW s, s = state[q], s # "pending",
                        callbacks'[q][s] # <<>>
                 PROVE  \E d \in 1..Depth' : LoopAt(d, q)'
        BY DEF LoopRuns
    <2>1. s \in Side
        BY <1>1, SideOf
    <2>2. q # p /\ callbacks[q][s] # <<>>
        BY <1>3, <2>1
    <2>3. PICK d \in 1..Depth : LoopAt(d, q)
        BY <1>1, <2>2 DEF LoopRuns
    <2>4. d # Depth
        BY <2>2, <2>3 DEF LoopAt
    <2>5. d \in 1..n
        BY <1>1, <2>4
    <2> QED BY <1>2, <2>3, <2>5 DEF LoopAt
<1>10. \A m \in DOMAIN links : links[m].npm \notin owned'
    BY <1>1 DEF Settlers
<1> QED BY <1>8, <1>9, <1>10, QuietRest

\* A loop calls the next callback: what is passed now is under way.
CallsNext(p, k, side, c, n) ==
    /\ Depth \in Nat /\ n \in Nat /\ n = Depth - 1 /\ Depth' = n + 2
    /\ \A d \in 1..n : FrameAt(d)' = FrameAt(d)
    /\ LoopAt(n + 1, p) /\ FrameAt(n + 1).k = k
    /\ FrameAt(n + 1)' = [frame |-> "loop", p |-> p, k |-> k + 1]
    /\ FrameAt(n + 2)' = [frame |-> "call", l |-> c, side |-> side]
    /\ p \in DOMAIN state /\ k \in Nat \ {0} /\ side \in Side /\ side = state[p]
    /\ c \in DOMAIN links /\ k \in FiledAt(c, p, side)
    /\ UNCHANGED <<state, callbacks, links, left, owned, ran>>

LEMMA NextPassed ==
    ASSUME Shape, LoopsOnce, NEW p, NEW k, NEW side, NEW c, NEW n, CallsNext(p, k, side, c, n)
    PROVE  /\ ~ Passed(p, side, k) /\ Passed(p, side, k)'
           /\ \A q, s : \A j \in Nat : ~ (q = p /\ s = side /\ j = k) =>
                  (Passed(q, s, j)' <=> Passed(q, s, j))
<1>1. /\ Depth \in Nat /\ n \in Nat /\ n + 1 \in 1..Depth /\ Depth' = n + 2 /\ Depth = n + 1
      /\ k \in Nat \ {0} /\ state[p] = side /\ state' = state
    BY DEF CallsNext
<1>2. LoopAt(n + 1, p) /\ FrameAt(n + 1).k = k /\ \A d \in 1..n : FrameAt(d)' = FrameAt(d)
    BY DEF CallsNext
<1>3. \A d \in 1..Depth : LoopAt(d, p) => d = n + 1
    BY <1>1, <1>2 DEF LoopsOnce, LoopAt
<1>4. n + 1 \in 1..Depth' /\ LoopAt(n + 1, p)' /\ FrameAt(n + 1)'.k = k + 1
    BY <1>1 DEF CallsNext, LoopAt
<1>5. ~ Passed(p, side, k)
    BY <1>1, <1>2, <1>3 DEF Passed
<1>6. Passed(p, side, k)'
    <2>1. k < k + 1
        BY <1>1
    <2> QED BY <1>1, <1>4, <2>1 DEF Passed
<1>7. ASSUME NEW q, NEW s, NEW j \in Nat, Passed(q, s, j) PROVE Passed(q, s, j)'
    <2>1. PICK d \in 1..Depth : LoopAt(d, q) /\ j < FrameAt(d).k /\ state[q] = s
        BY <1>7 DEF Passed
    <2>2. CASE d \in 1..n
        BY <1>1, <1>2, <2>1, <2>2 DEF Passed, LoopAt
    <2>3. CASE d = n + 1
        <3>1. q = p /\ j < k + 1
            BY <1>1, <1>2, <2>1, <2>3 DEF LoopAt
        <3> QED BY <1>1, <1>4, <2>1, <3>1 DEF Passed
    <2> QED BY <1>1, <2>2, <2>3
<1>8. ASSUME NEW q, NEW s, NEW j \in Nat, Passed(q, s, j)', ~ (q = p /\ s = side /\ j = k)
      PROVE  Passed(q, s, j)
    <2>1. PICK d \in 1..Depth' : LoopAt(d, q)' /\ j < FrameAt(d)'.k /\ state[q] = s
        BY <1>1, <1>8 DEF Passed
    <2>2. CASE d \in 1..n
        BY <1>1, <1>2, <2>1, <2>2 DEF Passed, LoopAt
    <2>3. CASE d = n + 1
        <3>1. q = p /\ j < k + 1
            BY <1>4, <2>1, <2>3 DEF CallsNext, LoopAt
        <3>2. j < k
            BY <1>1, <1>8, <2>1, <3>1
        <3> QED BY <1>1, <1>2, <2>1, <3>1, <3>2 DEF Passed
    <2>4. CASE d = n + 2
        BY <2>1, <2>4 DEF CallsNext, LoopAt
    <2> QED BY <1>1, <2>2, <2>3, <2>4
<1> QED BY <1>5, <1>6, <1>7, <1>8

LEMMA NextUnpassed ==
    ASSUME Shape, LoopsOnce, NEW p, NEW k, NEW side, NEW c, NEW n, CallsNext(p, k, side, c, n)
    PROVE  /\ k \in Unpassed(c, p, side)
           /\ \A m, q, s : (m # c \/ q # p \/ s # side) /\ q \in DOMAIN state /\ s \in Side =>
                  Unpassed(m, q, s)' = Unpassed(m, q, s)
           /\ Unpassed(c, p, side)' = Unpassed(c, p, side) \ {k}
<1>1. ~ Passed(p, side, k) /\ Passed(p, side, k)'
    BY NextPassed
<1>2. /\ p \in DOMAIN state /\ side \in Side /\ k \in FiledAt(c, p, side)
      /\ callbacks' = callbacks /\ k \in DOMAIN callbacks[p][side]
      /\ callbacks[p][side][k] = c
    BY DEF CallsNext, FiledAt
<1>3. \A m, q, s : FiledAt(m, q, s)' = FiledAt(m, q, s)
    BY <1>2 DEF FiledAt
<1>4. \A m : \A q \in DOMAIN state, s \in Side : FiledAt(m, q, s) \subseteq Nat
    BY FiledPositive
<1>5. \A m : m # c => k \notin FiledAt(m, p, side)
    BY <1>2 DEF FiledAt
<1>6. ASSUME NEW m, NEW q \in DOMAIN state, NEW s \in Side, m # c \/ q # p \/ s # side
      PROVE  Unpassed(m, q, s)' = Unpassed(m, q, s)
    <2>1. ASSUME NEW j \in FiledAt(m, q, s) PROVE Passed(q, s, j)' <=> Passed(q, s, j)
        <3>1. j \in Nat
            BY <1>4
        <3>2. ~ (q = p /\ s = side /\ j = k)
            BY <1>5, <1>6
        <3> QED BY <3>1, <3>2, NextPassed
    <2> QED BY <1>3, <2>1 DEF Unpassed
<1>7. \A j \in FiledAt(c, p, side) : j # k => (Passed(p, side, j)' <=> Passed(p, side, j))
    <2> TAKE j \in FiledAt(c, p, side)
    <2>1. j \in Nat
        BY <1>2, <1>4
    <2> QED BY <2>1, NextPassed
<1> QED BY <1>1, <1>2, <1>3, <1>6, <1>7 DEF Unpassed

\* The frames of calls and code: only the one of c is new.
LEMMA NextFrames ==
    ASSUME NEW p, NEW k, NEW side, NEW c, NEW n, CallsNext(p, k, side, c, n)
    PROVE  /\ \A m, d : d \in 1..Depth /\ CallAt(d, m) =>
                  d \in 1..Depth' /\ CallAt(d, m)' /\ FrameAt(d)'.side = FrameAt(d).side
           /\ \A m, d : d \in 1..Depth' /\ CallAt(d, m)' =>
                  \/ d \in 1..Depth /\ CallAt(d, m) /\ FrameAt(d)'.side = FrameAt(d).side
                  \/ d = n + 2 /\ m = c /\ FrameAt(d)'.side = side
           /\ n + 2 \in 1..Depth' /\ CallAt(n + 2, c)' /\ FrameAt(n + 2)'.side = side
           /\ n + 2 \notin 1..Depth
           /\ \A m, d : d \in 1..Depth' /\ CodeAt(d, m)' <=> d \in 1..Depth /\ CodeAt(d, m)
           /\ \A m, d : d \in 1..Depth /\ CodeAt(d, m) => FrameAt(d)'.side = FrameAt(d).side
<1>1. /\ Depth \in Nat /\ n \in Nat /\ Depth' = n + 2 /\ Depth = n + 1
      /\ \A d \in 1..n : FrameAt(d)' = FrameAt(d)
      /\ FrameAt(n + 1).frame = "loop" /\ FrameAt(n + 1)'.frame = "loop"
      /\ FrameAt(n + 2)'.frame = "call" /\ FrameAt(n + 2)'.l = c /\ FrameAt(n + 2)'.side = side
    BY DEF CallsNext, LoopAt
<1>2. \A d : d \in 1..Depth <=> d \in 1..n \/ d = n + 1
    BY <1>1
<1>3. \A d : d \in 1..Depth' <=> d \in 1..n \/ d = n + 1 \/ d = n + 2
    BY <1>1
<1>4. n + 2 \notin 1..n /\ n + 2 # n + 1
    BY <1>1
<1> QED BY <1>1, <1>2, <1>3, <1>4 DEF CallAt, CodeAt

\* What c awaits it still awaits.
LEMMA NextAwaits ==
    ASSUME Shape, LoopsOnce, NEW p, NEW k, NEW side, NEW c, NEW n, CallsNext(p, k, side, c, n),
           NEW q \in DOMAIN state, state[q] # "pending", Awaits(c, q) \/ q = p
    PROVE  Awaits(c, q)'
<1>1. PICK s \in Side : s = state[q]
    BY SideOf
<1>2. state'[q] = s /\ (q = p => s = side)
    BY <1>1 DEF CallsNext
<1>3. CASE q = p
    BY <1>2, <1>3, NextFrames DEF Awaits
<1>4. CASE q # p /\ Unpassed(c, q, s) # {}
    <2>1. Unpassed(c, q, s)' # {}
        BY <1>4, NextUnpassed
    <2> QED BY <1>2, <2>1 DEF Awaits
<1>5. CASE \E d \in 1..Depth : CallAt(d, c) /\ FrameAt(d).side = s
    BY <1>2, <1>5, NextFrames DEF Awaits
<1> QED BY <1>1, <1>3, <1>4, <1>5 DEF Awaits

LEMMA NextCallsFrom ==
    ASSUME Shape, LoopsOnce, NEW p, NEW k, NEW side, NEW c, NEW n, CallsNext(p, k, side, c, n),
           CallsFrom(c)
    PROVE  CallsFrom(c)' /\ p \in Range(links[c].from)
<1>1. /\ p \in DOMAIN state /\ side \in Side /\ side = state[p] /\ c \in DOMAIN links
      /\ UNCHANGED <<state, links>>
    BY DEF CallsNext
<1>2. p \in Range(links[c].from)
    BY <1>1, NextUnpassed DEF CallsFrom
<1>3. \A q \in DOMAIN state, s \in Side : Unpassed(c, q, s)' \subseteq Unpassed(c, q, s)
    <2> TAKE q \in DOMAIN state, s \in Side
    <2>1. CASE q = p /\ s = side
        BY <2>1, NextUnpassed
    <2>2. CASE ~ (q = p /\ s = side)
        BY <2>2, NextUnpassed
    <2> QED BY <2>1, <2>2
<1>4. \A d \in 1..Depth' : CallAt(d, c)' =>
          \E q \in Range(links[c].from) : FrameAt(d)'.side = state[q]
    <2> SUFFICES ASSUME NEW d \in 1..Depth', CallAt(d, c)'
                 PROVE  \E q \in Range(links[c].from) : FrameAt(d)'.side = state[q]
        OBVIOUS
    <2>1. \/ d \in 1..Depth /\ CallAt(d, c) /\ FrameAt(d)'.side = FrameAt(d).side
          \/ FrameAt(d)'.side = side
        BY NextFrames
    <2> QED BY <1>1, <1>2, <2>1 DEF CallsFrom
<1>5. \A q \in Range(links[c].from) :
          state[q] = "pending" => \A s \in Side : Unpassed(c, q, s)' # {}
    <2> SUFFICES ASSUME NEW q \in Range(links[c].from), state[q] = "pending", NEW s \in Side
                 PROVE  Unpassed(c, q, s)' # {}
        OBVIOUS
    <2>1. q \in DOMAIN state /\ q # p
        BY <1>1, SourceTypes DEF Side
    <2>2. Unpassed(c, q, s)' = Unpassed(c, q, s)
        BY <2>1, NextUnpassed
    <2> QED BY <2>2 DEF CallsFrom
<1> QED BY <1>1, <1>2, <1>3, <1>4, <1>5 DEF CallsFrom

\* One of the calls that are due is made.
MovesOne(c, side, x, y) ==
    /\ side = "fulfilled" =>
          Due(c)' = (Due(c) \ {x}) \cup {y} /\ x \in Due(c) /\ y \notin Due(c)
    /\ side # "fulfilled" => Due(c)' = Due(c)

LEMMA NextDue ==
    ASSUME Shape, LoopsOnce, NEW p, NEW k, NEW side, NEW c, NEW n, CallsNext(p, k, side, c, n)
    PROVE  \E x, y : MovesOne(c, side, x, y)
<1>1. /\ p \in DOMAIN state /\ side \in Side /\ state' = state
      /\ "fulfilled" \in Side /\ 0 \notin DOMAIN state
    BY LenProperties DEF CallsNext, Shape, Side
<1>2. DueFiled(c)' = UNION {{<<q, j>> : j \in Unpassed(c, q, "fulfilled")'} : q \in DOMAIN state}
    BY <1>1 DEF DueFiled, Unpassed
<1>3. \A y : y \in DueFiled(c) <=>
          \E q \in DOMAIN state : \E j \in Unpassed(c, q, "fulfilled") : y = <<q, j>>
    BY DueUnpassed
<1>4. \A y : y \in DueFiled(c)' <=>
          \E q \in DOMAIN state : \E j \in Unpassed(c, q, "fulfilled")' : y = <<q, j>>
    BY <1>2
<1>5. ASSUME side = "fulfilled"
      PROVE  /\ Due(c)' = (Due(c) \ {<<p, k>>}) \cup {<<0, n + 2>>}
             /\ <<p, k>> \in Due(c) /\ <<0, n + 2>> \notin Due(c)
    <2>1. /\ k \in Unpassed(c, p, "fulfilled")
          /\ Unpassed(c, p, "fulfilled")' = Unpassed(c, p, "fulfilled") \ {k}
          /\ \A q \in DOMAIN state : q # p =>
                 Unpassed(c, q, "fulfilled")' = Unpassed(c, q, "fulfilled")
        BY <1>1, <1>5, NextUnpassed
    <2>2. DueFiled(c)' = DueFiled(c) \ {<<p, k>>}
        <3>1. ASSUME NEW y \in DueFiled(c)' PROVE y \in DueFiled(c) \ {<<p, k>>}
            <4>1. PICK q \in DOMAIN state : \E j \in Unpassed(c, q, "fulfilled")' : y = <<q, j>>
                BY <1>4, <3>1
            <4>2. PICK j \in Unpassed(c, q, "fulfilled")' : y = <<q, j>>
                BY <4>1
            <4>3. j \in Unpassed(c, q, "fulfilled") /\ ~ (q = p /\ j = k)
                BY <2>1, <4>2
            <4> QED BY <1>3, <4>2, <4>3
        <3>2. ASSUME NEW y \in DueFiled(c), y # <<p, k>> PROVE y \in DueFiled(c)'
            <4>1. PICK q \in DOMAIN state : \E j \in Unpassed(c, q, "fulfilled") : y = <<q, j>>
                BY <1>3, <3>2
            <4>2. PICK j \in Unpassed(c, q, "fulfilled") : y = <<q, j>>
                BY <4>1
            <4>3. j \in Unpassed(c, q, "fulfilled")'
                BY <2>1, <3>2, <4>2
            <4> QED BY <1>4, <4>2, <4>3
        <3> QED BY <3>1, <3>2
    <2>3. <<p, k>> \in DueFiled(c)
        BY <1>1, <1>3, <2>1
    <2>4. DueCalls(c)' = DueCalls(c) \cup {n + 2} /\ n + 2 \notin DueCalls(c)
        <3>1. \A d : d \in DueCalls(c)' => d \in DueCalls(c) \/ d = n + 2
            BY NextFrames DEF DueCalls
        <3>2. \A d : d \in DueCalls(c) => d \in DueCalls(c)'
            BY NextFrames DEF DueCalls
        <3>3. n + 2 \in DueCalls(c)' /\ n + 2 \notin DueCalls(c)
            BY <1>5, NextFrames DEF DueCalls
        <3> QED BY <3>1, <3>2, <3>3
    <2>5. <<0, n + 2>> \notin DueFiled(c) /\ p # 0
        BY <1>1, <1>3
    <2>6. <<p, k>> \notin {0} \X DueCalls(c)
        BY <2>5
    <2>7. {0} \X (DueCalls(c) \cup {n + 2}) = ({0} \X DueCalls(c)) \cup {<<0, n + 2>>}
        OBVIOUS
    <2>8. <<0, n + 2>> \notin {0} \X DueCalls(c)
        BY <2>4
    <2>9. Due(c)' = (DueFiled(c) \ {<<p, k>>}) \cup (({0} \X DueCalls(c)) \cup {<<0, n + 2>>})
        BY <2>2, <2>4, <2>7 DEF Due
    <2> QED BY <1>5, <2>3, <2>5, <2>6, <2>8, <2>9 DEF Due
<1>6. ASSUME side # "fulfilled" PROVE Due(c)' = Due(c)
    <2>1. \A q \in DOMAIN state : Unpassed(c, q, "fulfilled")' = Unpassed(c, q, "fulfilled")
        BY <1>1, <1>6, NextUnpassed
    <2>2. DueFiled(c)' = DueFiled(c)
        BY <1>2, <2>1, DueUnpassed
    <2>3. DueCalls(c)' = DueCalls(c)
        <3>1. \A d : d \in DueCalls(c)' => d \in DueCalls(c)
            BY <1>6, NextFrames DEF DueCalls
        <3>2. \A d : d \in DueCalls(c) => d \in DueCalls(c)'
            BY NextFrames DEF DueCalls
        <3> QED BY <3>1, <3>2
    <2> QED BY <1>6, <2>2, <2>3 DEF Due
<1>7. PICK x, y : x = <<p, k>> /\ y = <<0, n + 2>>
    OBVIOUS
<1>8. MovesOne(c, side, x, y)
    BY <1>5, <1>6, <1>7 DEF MovesOne
<1> QED BY <1>8

LEMMA NextCollects ==
    ASSUME PromiseInv, NEW p, NEW k, NEW side, NEW c, NEW n, CallsNext(p, k, side, c, n),
           links[c].kind = "all", Collects(c)
    PROVE  Collects(c)'
<1>1. /\ Shape /\ LoopsOnce /\ CountsDown(c) /\ c \in DOMAIN links
      /\ p \in DOMAIN state /\ side = state[p]
      /\ UNCHANGED <<state, links, left>>
    BY DEF CallsNext, PromiseInv, LinkInv
<1>2. Range(links[c].from) \subseteq DOMAIN state
    BY <1>1, SourceTypes
<1>5. Shape /\ LoopsOnce
    BY <1>1
<1>6. PICK x, y : MovesOne(c, side, x, y)
    BY <1>5, NextDue
<1>3. Cardinality(Due(c)') = Cardinality(Due(c))
    <2>1. PICK E, D : E = Due(c) /\ D = Due(c)'
        OBVIOUS
    <2>2. CASE side = "fulfilled"
        <3>1. D = (E \ {x}) \cup {y} /\ x \in E /\ y \notin E
            BY <1>6, <2>1, <2>2 DEF MovesOne
        <3>2. IsFiniteSet(E)
            BY <1>1, <2>1 DEF CountsDown
        <3>3. PICK F : F = E \ {x}
            OBVIOUS
        <3>4. IsFiniteSet(F) /\ Cardinality(F) = Cardinality(E) - 1 /\ Cardinality(E) \in Nat
            BY <3>1, <3>2, <3>3, FS_RemoveElement, FS_CardinalityType
        <3>5. Cardinality(F \cup {y}) = Cardinality(F) + 1
            BY <3>1, <3>3, <3>4, FS_AddElement
        <3>6. Cardinality(D) = Cardinality(E)
            BY <3>1, <3>3, <3>4, <3>5
        <3> QED BY <2>1, <3>6
    <2>3. CASE side # "fulfilled"
        BY <1>6, <2>3 DEF MovesOne
    <2> QED BY <2>2, <2>3
<1>4. ASSUME state[links[c].npm] # "rejected", NEW q \in Range(links[c].from),
             state[q] = "rejected"
      PROVE  Unpassed(c, q, "fulfilled")' # {} /\ Awaits(c, q)'
    <2>1. Unpassed(c, q, "fulfilled") # {} /\ Awaits(c, q) /\ q \in DOMAIN state
        BY <1>2, <1>4 DEF Collects
    <2>2. q # p \/ side # "fulfilled"
        BY <1>1, <1>4
    <2>3. Unpassed(c, q, "fulfilled")' = Unpassed(c, q, "fulfilled")
        BY <1>1, <2>1, <2>2, NextUnpassed DEF Side
    <2>4. Awaits(c, q)'
        BY <1>1, <1>4, <2>1, NextAwaits
    <2> QED BY <2>1, <2>3, <2>4
<1> QED BY <1>1, <1>3, <1>4 DEF Collects

LEMMA NextPassesOn ==
    ASSUME PromiseInv, NEW p, NEW k, NEW side, NEW c, NEW n, CallsNext(p, k, side, c, n),
           PassesOn(c)
    PROVE  PassesOn(c)'
<1>1. /\ Shape /\ LoopsOnce /\ c \in DOMAIN links /\ UNCHANGED <<state, links>>
    BY DEF CallsNext, PromiseInv
<1>2. Range(links[c].from) \subseteq DOMAIN state
    BY <1>1, SourceTypes
<1>3. ASSUME NEW q \in Range(links[c].from), state[q] # "pending"
      PROVE  state[links[c].npm] # "pending" \/ Awaits(c, q)'
    <2>1. state[links[c].npm] # "pending" \/ Awaits(c, q)
        BY <1>3 DEF PassesOn
    <2> QED BY <1>1, <1>2, <1>3, <2>1, NextAwaits
<1> QED BY <1>1, <1>3 DEF PassesOn

LEMMA NextHandsOn ==
    ASSUME PromiseInv, NEW p, NEW k, NEW side, NEW c, NEW n, CallsNext(p, k, side, c, n),
           links[c].kind = "then", p = links[c].from[1], HandsOn(c)
    PROVE  HandsOn(c)'
<1>1. /\ Shape /\ LoopsOnce /\ c \in DOMAIN links /\ UNCHANGED <<state, links, ran>>
      /\ p \in DOMAIN state /\ side \in Side /\ side = state[p]
    BY DEF CallsNext, PromiseInv
<1>2. side # "pending"
    BY <1>1 DEF Side
<1>3. ThenOnce(c)
    BY <1>1 DEF PromiseInv, LinkInv
<1>4. k \in Unpassed(c, p, side)
    BY <1>1, NextUnpassed
<1>5. Awaits(c, p)
    BY <1>1, <1>4 DEF Awaits
<1>6. ran[c] = <<>>
    <2>1. ~ Called(c)
        BY <1>1, <1>3, <1>4 DEF ThenOnce, Unpassed
    <2> QED BY <2>1 DEF Called
<1>7. state[links[c].npm] = "pending" /\ ~ InCode(c)
    BY <1>5, <1>6 DEF HandsOn
<1>8. \A d \in 1..Depth' : ~ CodeAt(d, c)'
    BY <1>7, NextFrames DEF InCode
<1>9. Awaits(c, p)'
    BY <1>1, <1>2, NextAwaits
<1> QED BY <1>1, <1>2, <1>6, <1>7, <1>8, <1>9 DEF HandsOn, InCode, Runs

LEMMA NextRest ==
    ASSUME PromiseInv, RestInv, NEW p, NEW k, NEW side, NEW c, NEW n,
           CallsNext(p, k, side, c, n)
    PROVE  RestInv'
<1>1. /\ Shape /\ LoopsOnce /\ LoopRuns /\ Settlers /\ c \in DOMAIN links /\ RestOf(c)
      /\ UNCHANGED <<state, callbacks, links, left, owned, ran>>
    BY DEF CallsNext, PromiseInv, RestInv
<1>2. StateKept
    BY <1>1 DEF StateKept, Shape
<1>3. \A m : InCode(m)' <=> InCode(m)
    BY NextFrames DEF InCode
<1>4. LoopRuns'
    <2> SUFFICES ASSUME NEW q \in DOMAIN state, state[q] # "pending",
                        callbacks[q][state[q]] # <<>>
                 PROVE  \E d \in 1..Depth' : LoopAt(d, q)'
        BY <1>1 DEF LoopRuns
    <2>1. PICK d \in 1..Depth : LoopAt(d, q)
        BY <1>1 DEF LoopRuns
    <2>2. /\ Depth \in Nat /\ n \in Nat /\ n = Depth - 1 /\ Depth' = n + 2
          /\ \A e \in 1..n : FrameAt(e)' = FrameAt(e)
          /\ LoopAt(n + 1, p) /\ LoopAt(n + 1, p)'
        BY DEF CallsNext, LoopAt
    <2>3. CASE d \in 1..n
        BY <2>1, <2>2, <2>3 DEF LoopAt
    <2>4. CASE d = n + 1
        <3>1. q = p /\ n + 1 \in 1..Depth'
            BY <2>1, <2>2, <2>4 DEF LoopAt
        <3> QED BY <2>2, <3>1
    <2> QED BY <2>2, <2>3, <2>4
<1>5. Settlers'
    <2>1. \A l \in DOMAIN links : links[l].npm \notin owned'
        BY <1>1 DEF Settlers
    <2> QED BY <1>1, <1>2, <1>3, <2>1, SettlersKept
<1>6. ASSUME NEW m \in DOMAIN links, m # c PROVE RestOf(m)'
    <2>1. SameCalls(m)
        <3>1. SameUnpassed(m)
            BY <1>1, <1>6, NextUnpassed DEF SameUnpassed
        <3> QED BY <1>6, <3>1, NextFrames DEF SameCalls
    <2>2. Followed(m)' <=> Followed(m)
        BY <1>1 DEF Followed
    <2>3. RestOf(m)
        BY DEF RestInv
    <2> QED BY <1>1, <1>2, <2>1, <2>2, <2>3, RestKept
<1>7. RestOf(c)'
    <2>1. CallsFrom(c)' /\ p \in Range(links[c].from)
        BY <1>1, NextCallsFrom DEF RestOf
    <2>2. links[c].kind \in {"race", "follow"} => PassesOn(c)'
        BY <1>1, NextPassesOn DEF RestOf
    <2>3. links[c].kind = "all" => Collects(c)'
        BY <1>1, NextCollects DEF RestOf
    <2>4. ASSUME links[c].kind = "then" PROVE HandsOn(c)'
        <3>1. HandsOn(c) /\ links[c].from = <<links[c].from[1]>>
            BY <1>1, <2>4 DEF RestOf
        <3>2. p = links[c].from[1]
            <4>1. PICK x : x = links[c].from[1]
                OBVIOUS
            <4>2. Range(<<x>>) = {x}
                BY DEF Range
            <4>3. links[c].from = <<x>>
                BY <3>1, <4>1
            <4> QED BY <2>1, <4>1, <4>2, <4>3
        <3> QED BY <2>4, <3>1, <3>2, NextHandsOn
    <2> QED BY <1>1, <2>1, <2>2, <2>3, <2>4 DEF RestOf
<1> QED BY <1>1, <1>4, <1>5, <1>6, <1>7 DEF RestInv

LEMMA LoopCallsNext ==
    ASSUME PromiseInv, NEW p \in DOMAIN state, NEW k \in Nat \ {0}, NEW side \in Side,
           NEW rest, NEW c, NEW n,
           Rest(rest), rest # stack, n = Len(rest),
           FrameAt(Depth) = [frame |-> "loop", p |-> p, k |-> k],
           side = state[p], k \in DOMAIN callbacks[p][side], c = callbacks[p][side][k],
           stack' = <<[frame |-> "call", l |-> c, side |-> side],
                      [frame |-> "loop", p |-> p, k |-> k + 1]>> \o rest,
           UNCHANGED <<state, callbacks, links, left, known, owned, ran>>
    PROVE  CallsNext(p, k, side, c, n)
<1>1. Shape /\ Depth \in Nat /\ n \in Nat /\ n = Depth - 1
    BY RestFrames, FrameTypes DEF PromiseInv
<1>2. c \in DOMAIN links
    BY <1>1, CallbackTypes, ElementOfSeq
<1>3. PICK f, g : /\ f = [frame |-> "call", l |-> c, side |-> side]
                  /\ g = [frame |-> "loop", p |-> p, k |-> k + 1]
    OBVIOUS
<1>4. /\ Base(n) /\ Depth' = n + 2 /\ FrameAt(n + 1)' = g /\ FrameAt(n + 2)' = f
    BY <1>1, <1>3, TwoPushed
<1>5. n + 1 = Depth
    BY <1>1
<1>6. FrameAt(n + 1) = [frame |-> "loop", p |-> p, k |-> k]
    BY <1>5
<1>7. LoopAt(n + 1, p) /\ FrameAt(n + 1).k = k
    BY <1>6 DEF LoopAt
<1>8. k \in FiledAt(c, p, side)
    BY DEF FiledAt
<1> QED BY <1>1, <1>2, <1>3, <1>4, <1>7, <1>8 DEF CallsNext, Base

LEMMA LoopRest ==
    ASSUME PromiseInv, RestInv, StateKept, Loop
    PROVE  RestInv'
<1>1. /\ Shape /\ LoopsOnce /\ stack # <<>> /\ Head(stack).frame = "loop"
      /\ UNCHANGED <<state, links, left, known, owned, ran>>
    BY DEF PromiseInv, Loop, Top
<1>2. PICK p \in DOMAIN state, k \in Nat \ {0} :
          /\ Head(stack).p = p /\ Head(stack).k = k /\ state[p] \in Side
          /\ FrameAt(Depth) = [frame |-> "loop", p |-> p, k |-> k]
    BY <1>1, TopLoop
<1>3. PICK side, rest, c, n : /\ side = state[p] /\ rest = Tail(stack)
                              /\ c = callbacks[p][side][k] /\ n = Len(rest)
    OBVIOUS
<1>4. Rest(rest) /\ rest # stack /\ Depth \in Nat /\ Depth > 0 /\ side \in Side
    BY <1>1, <1>2, <1>3, TopLoop
<1>5. CASE /\ k \in DOMAIN callbacks[p][side]
           /\ stack' = <<[frame |-> "call", l |-> c, side |-> side],
                         [frame |-> "loop", p |-> p, k |-> k + 1]>> \o rest
           /\ UNCHANGED callbacks
    <2>1. CallsNext(p, k, side, c, n)
        BY <1>1, <1>2, <1>3, <1>4, <1>5, LoopCallsNext
    <2> QED BY <2>1, NextRest
<1>6. CASE /\ k \notin DOMAIN callbacks[p][side]
           /\ callbacks' = [callbacks EXCEPT ![p][side] = <<>>] /\ stack' = rest
    BY <1>1, <1>2, <1>3, <1>4, <1>6, LoopEndsRest
<1> QED BY <1>2, <1>3, <1>5, <1>6 DEF Loop

-----------------------------------------------------------------------------
(* At rest: steps that make a link.                                         *)

LEMMA MadeFiled ==
    ASSUME Shape, StateKept, NEW new, NEW times, FilesLink(new, times),
           DOMAIN links' = DOMAIN links \cup {new}
    PROVE  /\ \A m \in DOMAIN links : FiledSame(m)
           /\ \A p \in DOMAIN state : state[p] # "pending" =>
                 callbacks'[p][state[p]] = callbacks[p][state[p]]
           /\ \A p \in DOMAIN state' \ DOMAIN state, s \in Side : callbacks'[p][s] = <<>>
<1>1. \A m \in DOMAIN links : FiledSame(m)
    BY DEF FilesLink, FiledSame
<1>2. ASSUME NEW p \in DOMAIN state, state[p] # "pending"
      PROVE  callbacks'[p][state[p]] = callbacks[p][state[p]]
    <2>1. state[p] \in Side
        BY <1>2, SideOf
    <2> QED BY <1>2, <2>1 DEF FilesLink
<1>3. ASSUME NEW p \in DOMAIN state' \ DOMAIN state, NEW s \in Side
      PROVE  callbacks'[p][s] = <<>>
    <2>1. PICK D, T, c : /\ D = DOMAIN links' /\ T = [Side -> Seq(D)]
                         /\ c = callbacks'[p][s]
        OBVIOUS
    <2>2. callbacks' \in Seq(T) /\ p \in 1..Len(callbacks')
        <3>1. DOMAIN state' = 1..Len(state')
            BY LenProperties DEF StateKept
        <3> QED BY <2>1, <3>1 DEF FilesLink
    <2>3. callbacks'[p] \in T
        BY <2>2, ElementOfSeq
    <2>4. c \in Seq(D)
        BY <2>1, <2>3
    <2>5. DOMAIN c = 1..Len(c) /\ Len(c) \in Nat /\ \A j \in DOMAIN c : c[j] \in D
        BY <2>4, LenProperties, ElementOfSeq
    <2>6. \A l \in D : {j \in DOMAIN c : c[j] = l} = {}
        BY <2>1 DEF FilesLink, FiledAt
    <2>7. \A j \in 1..Len(c) : FALSE
        BY <2>5, <2>6
    <2>8. Len(c) = 0
        BY <2>5, <2>7
    <2> QED BY <2>1, <2>4, <2>8, EmptySeq
<1> QED BY <1>1, <1>2, <1>3

LEMMA MadeRest ==
    ASSUME PromiseInv, RestInv, StateKept, NEW l, NEW v, NEW new, MadeLink(new, l, v),
           NEW times, FilesLink(new, times), NEW n, Stays(n),
           \A p \in DOMAIN state : state[p] = "pending" /\ state'[p] # "pending" =>
               \E d \in 1..Depth' : LoopAt(d, p)',
           Settlers', \A m \in DOMAIN links : RestOf(m)', RestOf(new)'
    PROVE  RestInv'
<1>1. Shape /\ LoopRuns /\ DOMAIN links' = DOMAIN links \cup {new}
    BY DEF PromiseInv, RestInv, MadeLink
<1>2. LoopRuns'
    BY <1>1, MadeFiled, LoopRunsKept
<1> QED BY <1>1, <1>2 DEF RestInv

\* A link with a promise of its own.
LEMMA FreshRest ==
    ASSUME PromiseInv, RestInv, StateKept, NEW l, NEW v, NEW new, MadeLink(new, l, v),
           NEW times, FilesLink(new, times), NEW n, Stays(n),
           \A m \in DOMAIN links : Elsewhere(n, m),
           NEW q, q \notin DOMAIN state, DOMAIN state' = DOMAIN state \cup {q},
           \A p \in DOMAIN state : state'[p] = state[p],
           l.npm = q, l.kind # "follow", owned' = owned, RestOf(new)'
    PROVE  RestInv'
<1>1. /\ Shape /\ LoopsOnce /\ Settlers
      /\ new \notin DOMAIN links /\ DOMAIN links' = DOMAIN links \cup {new} /\ links'[new] = l
      /\ \A m \in DOMAIN links :
            links'[m] = links[m] /\ left'[m] = left[m] /\ ran'[m] = ran[m]
    BY DEF PromiseInv, RestInv, MadeLink
<1>2. \A m \in DOMAIN links : links[m].npm \in DOMAIN state
    BY <1>1, LinkTypes
<1>3. \A m \in DOMAIN links : SameCalls(m)
    <2> TAKE m \in DOMAIN links
    <2>1. FiledSame(m) /\ Elsewhere(n, m)
        BY <1>1, MadeFiled
    <2> QED BY <1>1, <2>1, StillCalls
<1>4. \A m \in DOMAIN links : RestOf(m)'
    <2> TAKE m \in DOMAIN links
    <2>1. Followed(m)' <=> Followed(m)
        BY <1>1 DEF Followed
    <2>2. RestOf(m) /\ SameCalls(m)
        BY <1>3 DEF RestInv
    <2>3. state'[links[m].npm] = state[links[m].npm]
        BY <1>2
    <2> QED BY <1>1, <2>1, <2>2, <2>3, RestKept
<1>5. Settlers'
    <2>1. \A m \in DOMAIN links' : links'[m].npm \notin owned'
        <3>1. q \notin owned
            BY <1>1 DEF Shape
        <3> QED BY <1>1, <3>1 DEF Settlers
    <2>2. ASSUME NEW k \in DOMAIN links', NEW m \in DOMAIN links', links'[k].npm = links'[m].npm,
                 links'[k].kind = "follow" <=> links'[m].kind = "follow"
          PROVE  k = m
        <3>1. k = new <=> m = new
            BY <1>1, <1>2, <2>2
        <3> QED BY <1>1, <2>2, <3>1 DEF Settlers
    <2>3. ASSUME NEW f \in DOMAIN links', links'[f].kind = "follow"
          PROVE  \E k \in DOMAIN links' : Follows(f, k)'
        <3>1. f \in DOMAIN links /\ links[f].kind = "follow"
            BY <1>1, <2>3
        <3>2. PICK k \in DOMAIN links : Follows(f, k)
            BY <1>1, <3>1 DEF Settlers
        <3>3. InCode(k)' => InCode(k)
            BY <1>3, InCodeSame
        <3>4. Follows(f, k)'
            BY <1>1, <3>1, <3>2, <3>3, FollowsKept
        <3> QED BY <1>1, <3>4
    <2> QED BY <2>1, <2>2, <2>3 DEF Settlers
<1>6. \A p \in DOMAIN state : ~ (state[p] = "pending" /\ state'[p] # "pending")
    OBVIOUS
<1> QED BY <1>4, <1>5, <1>6, MadeRest

\* The callbacks of a new link are filed with the promises of the list that are pending.
LEMMA NewFiled ==
    ASSUME Shape, StateKept, NEW list \in Seq(DOMAIN state), NEW new \in DOMAIN links',
           FilesLink(new, Times(list)), \A p \in Range(list) : state'[p] = state[p]
    PROVE  /\ \A p \in DOMAIN state', s \in Side :
                 FiledAt(new, p, s)' # {} => p \in Range(list) /\ state[p] = "pending"
           /\ \A p \in Range(list), s \in Side :
                 state[p] = "pending" => Unpassed(new, p, s)' # {}
<1>1. /\ DOMAIN list = 1..Len(list) /\ Len(list) \in Nat /\ IsFiniteSet(DOMAIN list)
      /\ Range(list) \subseteq DOMAIN state
    <2>1. DOMAIN list = 1..Len(list) /\ Len(list) \in Nat
        BY LenProperties
    <2>2. IsFiniteSet(1..Len(list))
        BY <2>1, FS_Interval
    <2>3. Range(list) \subseteq DOMAIN state
        BY <2>1, ElementOfSeq DEF Range
    <2> QED BY <2>1, <2>2, <2>3
<1>2. ASSUME NEW p \in DOMAIN state
      PROVE  Times(list)[p] \in Nat /\ (Times(list)[p] = 0 <=> p \notin Range(list))
    <2>1. PICK S : S = {i \in DOMAIN list : list[i] = p}
        OBVIOUS
    <2>2. IsFiniteSet(S)
        BY <1>1, <2>1, FS_Subset
    <2>3. Cardinality(S) \in Nat /\ (Cardinality(S) = 0 <=> S = {})
        BY <2>2, FS_CardinalityType, FS_EmptySet
    <2>4. S = {} <=> p \notin Range(list)
        BY <2>1 DEF Range
    <2> QED BY <2>1, <2>3, <2>4 DEF Times
<1>3. ASSUME NEW p \in DOMAIN state, NEW s \in Side
      PROVE  /\ FiledAt(new, p, s)' # {} <=> p \in Range(list) /\ state[p] = "pending"
    <2>1. PICK c \in Nat, t \in Nat : c = Len(callbacks[p][s]) /\ t = Times(list)[p]
        BY <1>2, CallbackTypes
    <2>2. FiledAt(new, p, s)' = (c + 1)..(c + IF state[p] = "pending" THEN t ELSE 0)
        BY <2>1 DEF FilesLink
    <2>3. CASE state[p] = "pending"
        <3>1. FiledAt(new, p, s)' = (c + 1)..(c + t)
            BY <2>2, <2>3
        <3>2. (c + 1)..(c + t) # {} <=> t # 0
            <4>1. t # 0 => c + 1 \in (c + 1)..(c + t)
                OBVIOUS
            <4>2. t = 0 => \A j : j \notin (c + 1)..(c + t)
                OBVIOUS
            <4> QED BY <4>1, <4>2
        <3> QED BY <1>2, <2>1, <2>3, <3>1, <3>2
    <2>4. CASE state[p] # "pending"
        <3>1. FiledAt(new, p, s)' = (c + 1)..(c + 0)
            BY <2>2, <2>4
        <3>2. \A j : j \notin (c + 1)..(c + 0)
            OBVIOUS
        <3> QED BY <2>4, <3>1, <3>2
    <2> QED BY <2>3, <2>4
<1>4. \A p \in DOMAIN state' \ DOMAIN state, s \in Side : FiledAt(new, p, s)' = {}
    BY DEF FilesLink
<1>5. ASSUME NEW p \in Range(list), NEW s \in Side, state[p] = "pending"
      PROVE  Unpassed(new, p, s)' # {}
    <2>1. state'[p] # s
        BY <1>5 DEF Side
    <2>2. \A j : ~ Passed(p, s, j)'
        BY <2>1 DEF Passed
    <2>3. FiledAt(new, p, s)' # {}
        BY <1>1, <1>3, <1>5
    <2> QED BY <2>2, <2>3 DEF Unpassed
<1> QED BY <1>3, <1>4, <1>5

LEMMA NewCallsFrom ==
    ASSUME Shape, StateKept, NEW list \in Seq(DOMAIN state), NEW new \in DOMAIN links',
           FilesLink(new, Times(list)), \A p \in Range(list) : state'[p] = state[p],
           links'[new].from = list,
           \A d \in 1..Depth' : CallAt(d, new)' =>
               \E p \in Range(list) : FrameAt(d)'.side = state[p]
    PROVE  CallsFrom(new)'
<1>1. /\ \A p \in DOMAIN state', s \in Side : FiledAt(new, p, s)' # {} => p \in Range(list)
      /\ \A p \in Range(list), s \in Side :
            state[p] = "pending" => Unpassed(new, p, s)' # {}
    BY NewFiled
<1>2. \A p \in DOMAIN state', s \in Side : Unpassed(new, p, s)' # {} => p \in Range(list)
    BY <1>1 DEF Unpassed
<1> QED BY <1>1, <1>2 DEF CallsFrom

\* What all and race return.
AllGives(list, outcome) ==
    /\ outcome = "fulfilled" => \A p \in Range(list) : state[p] = "fulfilled"
    /\ outcome = "rejected" => \E p \in Range(list) : state[p] = "rejected"
    /\ outcome # "rejected" => \A i \in DOMAIN list : state[list[i]] # "rejected"
    /\ outcome = "pending" => \E i \in DOMAIN list : state[list[i]] # "fulfilled"

RaceGives(list, outcome) ==
    /\ outcome # "pending" => \E p \in Range(list) : state[p] = outcome
    /\ outcome = "pending" => \A p \in Range(list) : state[p] = "pending"

LEMMA GatherRest ==
    ASSUME PromiseInv, RestInv, NEW list \in Seq(DOMAIN state), list # <<>>, Len(list) <= MaxList,
           NEW kind \in {"all", "race"}, NEW outcome \in Side \cup {"pending"}, New(outcome),
           kind = "all" => AllGives(list, outcome),
           kind = "race" => RaceGives(list, outcome),
           NEW on, on = IF kind = "all" THEN OnAll ELSE OnRace, NEW n,
           n = IF kind = "all"
               THEN Cardinality({i \in DOMAIN list : state[list[i]] # "fulfilled"}) ELSE 0,
           MakesLink(Link(kind, list, npm, on), n),
           callbacks' = Append(Added(callbacks, link, Times(list)), NoCallbacks),
           known' = known \cup {npm}, UNCHANGED <<stack, owned>>
    PROVE  RestInv'
<1>1. PICK new, l, q : new = link /\ l = Link(kind, list, q, on) /\ q = npm
    OBVIOUS
<1>2. Shape /\ LoopsOnce
    BY DEF PromiseInv
<1>3. IsFiniteSet({i \in DOMAIN list : state[list[i]] # "fulfilled"}) /\ n \in Int
    <2>1. IsFiniteSet(DOMAIN list)
        BY LenProperties, FS_Interval
    <2>2. IsFiniteSet({i \in DOMAIN list : state[list[i]] # "fulfilled"})
        BY <2>1, FS_Subset
    <2> QED BY <2>2, FS_CardinalityType
<1>4. /\ StateKept /\ Len(state') = Len(state) + 1
      /\ state' \in Seq(Side \cup {"pending"})
      /\ q \notin DOMAIN state /\ DOMAIN state' = DOMAIN state \cup {q} /\ state'[q] = outcome
      /\ \A p \in DOMAIN state : state'[p] = state[p]
    BY <1>1, <1>2, NewState
<1>5. MadeLink(new, l, n)
    <2>1. MakesLink(l, n)
        BY <1>1
    <2> QED BY <1>1, <1>2, <1>3, <2>1, NewLink
<1>6. /\ new \notin DOMAIN links /\ DOMAIN links' = DOMAIN links \cup {new}
      /\ links'[new] = l /\ left'[new] = n
    BY <1>5 DEF MadeLink
<1>7. l.kind = kind /\ l.from = list /\ l.npm = q
    BY <1>1 DEF Link
<1>8. FilesLink(new, Times(list))
    <2>1. Files(new, Times(list))
        BY <1>1, <1>4 DEF Files
    <2> QED BY <1>1, <1>2, <1>4, <1>6, <2>1, TimesType, FilesStep
<1>9. PICK k : k = Depth
    OBVIOUS
<1>10. Stays(k) /\ \A m : Elsewhere(k, m)
    BY <1>2, <1>9, SameStays
<1>11. Range(list) \subseteq DOMAIN state
    BY LenProperties, ElementOfSeq DEF Range
<1>12. CallsFrom(new)'
    <2>1. \A d \in 1..Depth' : ~ CallAt(d, new)'
        <3>1. \A d \in 1..Depth : ~ CallAt(d, new)
            BY <1>2, <1>6, NoCallYet
        <3>2. Depth' = Depth /\ \A d : FrameAt(d)' = FrameAt(d)
            BY DEF Depth, FrameAt
        <3> QED BY <3>1, <3>2 DEF CallAt
    <2> QED BY <1>2, <1>4, <1>6, <1>7, <1>8, <1>11, <2>1, NewCallsFrom
<1>13. ASSUME kind = "race" PROVE PassesOn(new)'
    <2>1. RaceGives(list, outcome)
        BY <1>13
    <2>2. links'[new].from = list /\ state'[links'[new].npm] = outcome
        BY <1>4, <1>6, <1>7
    <2>3. outcome # "pending" => \E p \in Range(list) : state'[p] = outcome
        BY <1>4, <1>11, <2>1 DEF RaceGives
    <2>4. \A p \in Range(list) : state'[p] # "pending" => outcome # "pending"
        BY <1>4, <1>11, <2>1 DEF RaceGives
    <2> QED BY <2>2, <2>3, <2>4 DEF PassesOn
<1>14. ASSUME kind = "all" PROVE Collects(new)'
    <2>1. AllGives(list, outcome)
        BY <1>14
    <2>2. links'[new].from = list /\ state'[links'[new].npm] = outcome
        BY <1>4, <1>6, <1>7
    <2>3. /\ outcome = "fulfilled" => \A p \in Range(list) : state'[p] = "fulfilled"
          /\ outcome = "rejected" => \E p \in Range(list) : state'[p] = "rejected"
        BY <1>4, <1>11, <2>1 DEF AllGives
    <2>4. ASSUME outcome # "rejected"
          PROVE  left'[new] = Cardinality(Due(new)') /\ \A p \in Range(list) : state'[p] # "rejected"
        <3>1. \A i \in DOMAIN list : state[list[i]] # "rejected"
            BY <2>1, <2>4 DEF AllGives
        <3>2. \A p \in Range(list) : state'[p] # "rejected"
            BY <1>4, <1>11, <3>1 DEF Range
        <3>3. stack' = stack /\ new \in DOMAIN links'
            BY <1>6
        <3>4. left'[new] = Cardinality({i \in DOMAIN list : state[list[i]] # "fulfilled"})
            BY <1>6, <1>14
        <3> QED BY <1>2, <1>4, <1>6, <1>8, <3>1, <3>2, <3>3, <3>4, NewAllCounts
    <2>5. outcome = "pending" => left'[new] # 0
        <3>1. PICK W : W = {i \in DOMAIN list : state[list[i]] # "fulfilled"}
            OBVIOUS
        <3>2. outcome = "pending" => W # {}
            BY <2>1, <3>1 DEF AllGives
        <3>3. IsFiniteSet(W) /\ left'[new] = Cardinality(W)
            BY <1>3, <1>6, <1>14, <3>1
        <3> QED BY <3>2, <3>3, FS_EmptySet
    <2> QED BY <2>2, <2>3, <2>4, <2>5 DEF Collects
<1>15. RestOf(new)'
    BY <1>6, <1>7, <1>12, <1>13, <1>14 DEF RestOf
<1>16. /\ l.kind # "follow" /\ owned' = owned /\ \A m \in DOMAIN links : Elsewhere(k, m)
    BY <1>7, <1>10
<1> QED BY <1>4, <1>5, <1>7, <1>8, <1>10, <1>15, <1>16, FreshRest

LEMMA AllRest ==
    ASSUME PromiseInv, RestInv, NEW list \in Lists, All(list)
    PROVE  RestInv'
<1>1. list \in Seq(DOMAIN state) /\ list # <<>> /\ Len(list) <= MaxList
    BY ListType DEF PromiseInv
<1>2. PICK outcome, n :
          /\ outcome = IF \E i \in DOMAIN list : state[list[i]] = "rejected" THEN "rejected"
                       ELSE IF \A i \in DOMAIN list : state[list[i]] = "fulfilled"
                       THEN "fulfilled" ELSE "pending"
          /\ n = Cardinality({i \in DOMAIN list : state[list[i]] # "fulfilled"})
    OBVIOUS
<1>3. outcome \in Side \cup {"pending"} /\ AllGives(list, outcome)
    <2>1. outcome \in Side \cup {"pending"}
        BY <1>2 DEF Side
    <2>2. AllGives(list, outcome)
        BY <1>2 DEF AllGives, Range
    <2> QED BY <2>1, <2>2
<1>4. New(outcome)
    BY <1>2 DEF All
<1>5. MakesLink(Link("all", list, npm, OnAll), n)
    BY <1>2 DEF All, MakesLink
<1>6. /\ callbacks' = Append(Added(callbacks, link, Times(list)), NoCallbacks)
      /\ known' = known \cup {npm} /\ UNCHANGED <<stack, owned>>
    BY DEF All
<1> QED BY <1>1, <1>2, <1>3, <1>4, <1>5, <1>6, GatherRest

LEMMA RaceRest ==
    ASSUME PromiseInv, RestInv, NEW list \in Lists, Race(list)
    PROVE  RestInv'
<1> DEFINE settled == {i \in DOMAIN list : state[list[i]] # "pending"}
           outcome == IF settled = {} THEN "pending"
                      ELSE state[list[CHOOSE i \in settled : \A j \in settled : i <= j]]
<1>1. list \in Seq(DOMAIN state) /\ list # <<>> /\ Len(list) <= MaxList
    BY ListType DEF PromiseInv
<1>2. New(outcome)
    BY DEF Race
<1>3. outcome \in Side \cup {"pending"} /\ RaceGives(list, outcome)
    <2>1. ASSUME settled # {}
          PROVE  (CHOOSE i \in settled : \A j \in settled : i <= j) \in settled
        <3>1. settled \subseteq Nat
            BY <1>1, LenProperties
        <3> HIDE DEF settled
        <3>2. \E i \in settled : \A j \in settled : i <= j
            BY <2>1, <3>1, Smallest
        <3> QED BY <3>2
    <2>2. \A i \in settled : state[list[i]] \in Side \cup {"pending"}
        <3>1. \A i \in DOMAIN list : list[i] \in DOMAIN state
            BY <1>1, LenProperties, ElementOfSeq
        <3> QED BY <3>1, LenProperties, ElementOfSeq DEF PromiseInv, Shape
    <2>3. settled # {} => \E i \in settled : outcome = state[list[i]]
        BY <2>1
    <2>4. settled = {} => outcome = "pending"
        OBVIOUS
    <2>5. \A i : i \in settled <=> i \in DOMAIN list /\ state[list[i]] # "pending"
        OBVIOUS
    <2> HIDE DEF settled, outcome
    <2>6. RaceGives(list, outcome)
        BY <2>3, <2>4, <2>5 DEF RaceGives, Range
    <2> QED BY <2>2, <2>3, <2>4, <2>6
<1> HIDE DEF settled, outcome
<1>4. MakesLink(Link("race", list, npm, OnRace), 0)
    BY DEF Race, MakesLink
<1>5. /\ callbacks' = Append(Added(callbacks, link, Times(list)), NoCallbacks)
      /\ known' = known \cup {npm} /\ UNCHANGED <<stack, owned>>
    BY DEF Race
<1> QED BY <1>1, <1>2, <1>3, <1>4, <1>5, GatherRest

\* A then on a promise that is settled calls back at once.
LEMMA ThenFrames ==
    ASSUME Shape, StateKept, NEW p \in DOMAIN state, NEW new, new \notin DOMAIN links, NEW q,
           NEW n, n = Depth,
           IF state[p] = "pending" THEN stack' = stack
           ELSE stack' = <<[frame |-> "call", l |-> new, side |-> state[p]],
                           [frame |-> "give", p |-> q]>> \o stack
    PROVE  /\ Stays(n) /\ \A m \in DOMAIN links : Elsewhere(n, m)
           /\ \A d \in 1..Depth' : ~ CodeAt(d, new)'
           /\ \A d \in 1..Depth' : CallAt(d, new)' =>
                 state[p] # "pending" /\ FrameAt(d)'.side = state[p]
           /\ state[p] # "pending" =>
                 \E d \in 1..Depth' : CallAt(d, new)' /\ FrameAt(d)'.side = state[p]
<1>1. \A d \in 1..Depth : ~ CallAt(d, new) /\ ~ CodeAt(d, new)
    BY FrameTypes DEF CallAt, CodeAt, FrameType
<1>2. CASE state[p] = "pending"
    <2>1. stack' = stack
        BY <1>2
    <2>2. Depth' = Depth /\ \A d : FrameAt(d)' = FrameAt(d)
        BY <2>1 DEF Depth, FrameAt
    <2>3. \A d \in 1..Depth' : ~ CallAt(d, new)' /\ ~ CodeAt(d, new)'
        BY <1>1, <2>2 DEF CallAt, CodeAt
    <2>4. Stays(n) /\ \A m \in DOMAIN links : Elsewhere(n, m)
        BY <2>1, SameStays
    <2> QED BY <1>2, <2>3, <2>4
<1>3. CASE state[p] # "pending"
    <2>1. PICK f, g, rest : /\ f = [frame |-> "call", l |-> new, side |-> state[p]]
                            /\ g = [frame |-> "give", p |-> q] /\ rest = stack
        OBVIOUS
    <2>2. stack' = <<f, g>> \o rest /\ Rest(rest) /\ Len(rest) = Depth /\ Depth \in Nat
        BY <1>3, <2>1, FrameTypes DEF Rest, Depth
    <2>3. /\ Base(n) /\ Depth' = n + 2 /\ FrameAt(n + 1)' = g /\ FrameAt(n + 2)' = f
        BY <2>2, TwoPushed
    <2>4. g.frame = "give" /\ f.frame = "call" /\ f.l = new /\ f.side = state[p]
        BY <2>1
    <2>5. \A d \in (n + 1)..Depth' : d = n + 1 \/ d = n + 2
        BY <2>2, <2>3
    <2>6. \A d \in (n + 1)..Depth' : FrameAt(d)'.frame # "loop"
        BY <2>3, <2>4, <2>5
    <2>7. Stays(n)
        BY <2>2, <2>3, <2>6 DEF Stays
    <2>8. ASSUME NEW m \in DOMAIN links PROVE Elsewhere(n, m)
        <3>1. n # Depth - 1
            BY <2>2
        <3>2. \A d \in (n + 1)..Depth' : ~ CallAt(d, m)' /\ ~ CodeAt(d, m)'
            BY <2>3, <2>4, <2>5 DEF CallAt, CodeAt
        <3> QED BY <3>1, <3>2 DEF Elsewhere
    <2>9. \A d \in 1..n : ~ CallAt(d, new)' /\ ~ CodeAt(d, new)'
        BY <1>1, <2>2, <2>3 DEF Base, CallAt, CodeAt
    <2>10. \A d \in 1..Depth' : d \in 1..n \/ d = n + 1 \/ d = n + 2
        BY <2>2, <2>3
    <2>11. \A d \in 1..Depth' : ~ CodeAt(d, new)'
        BY <2>3, <2>4, <2>9, <2>10 DEF CodeAt
    <2>12. \A d \in 1..Depth' : CallAt(d, new)' => FrameAt(d)'.side = state[p]
        BY <2>3, <2>4, <2>9, <2>10 DEF CallAt
    <2>13. n + 2 \in 1..Depth' /\ CallAt(n + 2, new)' /\ FrameAt(n + 2)'.side = state[p]
        BY <2>2, <2>3, <2>4 DEF CallAt
    <2> QED BY <1>3, <2>7, <2>8, <2>11, <2>12, <2>13
<1> QED BY <1>2, <1>3

LEMMA ThenRest ==
    ASSUME PromiseInv, RestInv, NEW p \in DOMAIN state, NEW on \in Handlers, Then(p, on)
    PROVE  RestInv'
<1>1. PICK new, l, list, q, n :
          /\ new = link /\ list = <<p>> /\ q = npm /\ l = Link("then", list, q, on) /\ n = Depth
    OBVIOUS
<1>2. Shape /\ LoopsOnce /\ "pending" \in Side \cup {"pending"} /\ New("pending") /\ owned' = owned
    BY DEF PromiseInv, Then
<1>3. /\ StateKept /\ Len(state') = Len(state) + 1
      /\ state' \in Seq(Side \cup {"pending"})
      /\ q \notin DOMAIN state /\ DOMAIN state' = DOMAIN state \cup {q} /\ state'[q] = "pending"
      /\ \A r \in DOMAIN state : state'[r] = state[r]
    BY <1>1, <1>2, NewState
<1>4. MadeLink(new, l, 0)
    <2>1. MakesLink(l, 0)
        BY <1>1 DEF Then, MakesLink
    <2> QED BY <1>1, <1>2, <2>1, NewLink
<1>5. /\ new \notin DOMAIN links /\ DOMAIN links' = DOMAIN links \cup {new}
      /\ links'[new] = l /\ ran'[new] = <<>>
    BY <1>4 DEF MadeLink
<1>6. l.kind = "then" /\ l.from = list /\ l.npm = q
    BY <1>1 DEF Link
<1>7. /\ Stays(n) /\ \A m \in DOMAIN links : Elsewhere(n, m)
      /\ \A d \in 1..Depth' : ~ CodeAt(d, new)'
      /\ \A d \in 1..Depth' : CallAt(d, new)' =>
            state[p] # "pending" /\ FrameAt(d)'.side = state[p]
      /\ state[p] # "pending" =>
            \E d \in 1..Depth' : CallAt(d, new)' /\ FrameAt(d)'.side = state[p]
    <2>1. IF state[p] = "pending" THEN stack' = stack
          ELSE stack' = <<[frame |-> "call", l |-> new, side |-> state[p]],
                          [frame |-> "give", p |-> q]>> \o stack
        BY <1>1 DEF Then
    <2> QED BY <1>1, <1>2, <1>3, <1>5, <2>1, ThenFrames
<1>8. list \in Seq(DOMAIN state) /\ Range(list) = {p} /\ list[1] = p
    BY <1>1 DEF Range
<1>9. FilesLink(new, Times(list))
    <2>1. Files(new, Times(list))
        BY <1>1, <1>3 DEF Files, Then
    <2> QED BY <1>1, <1>2, <1>3, <1>5, <1>8, <2>1, TimesType, FilesStep
<1>10. CallsFrom(new)'
    <2>1. \A d \in 1..Depth' : CallAt(d, new)' =>
              \E r \in Range(list) : FrameAt(d)'.side = state[r]
        BY <1>7, <1>8
    <2>2. \A r \in Range(list) : state'[r] = state[r]
        BY <1>3, <1>8
    <2> QED BY <1>2, <1>3, <1>5, <1>6, <1>8, <1>9, <2>1, <2>2, NewCallsFrom
<1>11. HandsOn(new)'
    <2>1. /\ links'[new].from[1] = p /\ state'[p] = state[p] /\ ran'[new] = <<>>
          /\ state'[links'[new].npm] = "pending"
        BY <1>3, <1>5, <1>6, <1>8
    <2>2. state[p] # "pending" => Awaits(new, p)'
        BY <1>7, <2>1 DEF Awaits
    <2>3. ~ InCode(new)'
        BY <1>7 DEF InCode
    <2> QED BY <1>7, <2>1, <2>2, <2>3 DEF HandsOn
<1>12. RestOf(new)'
    <2>1. links'[new].kind = "then" /\ links'[new].from = <<links'[new].from[1]>>
        BY <1>1, <1>5, <1>6, <1>8
    <2> QED BY <1>10, <1>11, <2>1 DEF RestOf
<1>13. l.kind # "follow"
    BY <1>6
<1> QED BY <1>2, <1>3, <1>4, <1>6, <1>7, <1>9, <1>12, <1>13, FreshRest

\* The promise takes over the outcome of the one that is returned, now or later.
ReturnsAt(P, q, n) ==
    /\ Stays(n) /\ DOMAIN state' = DOMAIN state
    /\ \A d \in (n + 1)..Depth' : FrameAt(d)'.frame = "loop"
    /\ \A p \in DOMAIN state : p # P => state'[p] = state[p]
    /\ state'[P] = state[q] /\ state'[q] = state[q]
    /\ state'[P] # "pending" => \E d \in 1..Depth' : LoopAt(d, P)'

LEMMA ReturnFrames ==
    ASSUME Shape, NEW P \in DOMAIN state, state[P] = "pending", NEW q \in DOMAIN state,
           NEW rest, Rest(rest), rest # stack, FrameAt(Depth).frame # "loop", NEW n, n = Len(rest),
           IF state[q] = "pending" THEN stack' = rest /\ UNCHANGED state
           ELSE Settle(P, state[q], rest)
    PROVE  ReturnsAt(P, q, n)
<1>1. n \in 0..Depth /\ Depth \in Nat /\ n = Depth - 1
    BY RestFrames, FrameTypes
<1>2. CASE state[q] = "pending"
    <2>1. stack' = rest /\ state' = state
        BY <1>2
    <2>2. Base(n) /\ Depth' = n
        BY <2>1, NothingPushed
    <2>3. \A d \in (n + 1)..Depth' : FALSE
        BY <1>1, <2>2
    <2> QED BY <1>1, <1>2, <2>1, <2>2, <2>3 DEF Stays, ReturnsAt
<1>3. CASE state[q] # "pending"
    <2>1. PICK s \in Side : s = state[q]
        BY <1>3, SideOf
    <2>2. SettlesAt(P, s, n)
        BY <1>3, <2>1, SettleFrames
    <2> QED BY <1>3, <2>1, <2>2 DEF SettlesAt, ReturnsAt
<1> QED BY <1>2, <1>3

LEMMA ReturnPromiseRest ==
    ASSUME PromiseInv, RestInv, NEW q \in DOMAIN state, ReturnPromise(q)
    PROVE  RestInv'
<1>1. /\ Shape /\ LoopsOnce /\ Settlers /\ stack # <<>> /\ Head(stack).frame = "code"
      /\ owned' = owned /\ StateKept
    BY ReturnPromiseStep DEF PromiseInv, RestInv, ReturnPromise, Top
<1>2. PICK c, side, rest, n, P, p, f, list, l :
          /\ c = Head(stack).l /\ side = Head(stack).side /\ rest = Tail(stack)
          /\ n = Len(rest) /\ P = links[c].npm /\ p = links[c].from[1]
          /\ f = link /\ list = <<q>> /\ l = Link("follow", list, P, OnRace)
    OBVIOUS
<1>3. /\ c \in DOMAIN links /\ side \in Side /\ Rest(rest) /\ rest # stack /\ P \in DOMAIN state
      /\ CodeAt(Depth, c) /\ FrameAt(Depth).side = side
    BY <1>1, <1>2, TopOfLink DEF CodeAt
<1>4. links[c].on[side] = "promise"
    BY <1>2 DEF ReturnPromise
<1>5. /\ Depth \in Nat /\ n \in Nat /\ n = Depth - 1
      /\ FrameAt(Depth).frame = "code"
      /\ \A m : ~ CallAt(Depth, m)
      /\ \A m : m # c => ~ CodeAt(Depth, m)
      /\ links[c].kind = "then" /\ p \in DOMAIN state /\ state[p] = side
      /\ ran[c] # <<>> /\ InCode(c) /\ state[P] = "pending" /\ ~ Followed(c)
      /\ ~ Awaits(c, p)
      /\ \A d \in 1..Depth : CodeAt(d, c) => d = Depth
    <2>1. links[c].on[side] \in {"plain", "promise"} /\ n = Len(rest) /\ p = links[c].from[1]
        BY <1>2, <1>4
    <2>2. links[c].npm = P
        BY <1>2
    <2> QED BY <1>3, <2>1, <2>2, TopCode
<1>6. /\ Stays(n) /\ DOMAIN state' = DOMAIN state
      /\ \A d \in (n + 1)..Depth' : FrameAt(d)'.frame = "loop"
      /\ \A r \in DOMAIN state : r # P => state'[r] = state[r]
      /\ state'[P] = state[q] /\ state'[q] = state[q]
      /\ state'[P] # "pending" => \E d \in 1..Depth' : LoopAt(d, P)'
    <2>1. IF state[q] = "pending" THEN stack' = rest /\ UNCHANGED state
          ELSE Settle(P, state[q], rest)
        BY <1>2 DEF ReturnPromise
    <2>2. Shape /\ state[P] = "pending" /\ FrameAt(Depth).frame # "loop" /\ n = Len(rest)
        BY <1>1, <1>2, <1>5
    <2>3. ReturnsAt(P, q, n)
        BY <1>3, <2>1, <2>2, ReturnFrames
    <2> QED BY <2>3 DEF ReturnsAt
<1>7. MadeLink(f, l, 0)
    <2>1. MakesLink(l, 0)
        BY <1>2 DEF ReturnPromise, MakesLink
    <2> QED BY <1>1, <1>2, <2>1, NewLink
<1>8. /\ f \notin DOMAIN links /\ DOMAIN links' = DOMAIN links \cup {f} /\ links'[f] = l
      /\ \A m \in DOMAIN links :
            links'[m] = links[m] /\ left'[m] = left[m] /\ ran'[m] = ran[m]
    BY <1>7 DEF MadeLink
<1>9. /\ l.kind = "follow" /\ l.from = list /\ l.npm = P
      /\ list \in Seq(DOMAIN state) /\ Range(list) = {q} /\ list[1] = q
    BY <1>2 DEF Link, Range
<1>10. FilesLink(f, Times(list))
    <2>1. Len(state') = Len(state) /\ state' \in Seq(Side \cup {"pending"})
        BY <1>1, <1>6, LenProperties DEF Shape, StateKept
    <2>2. Files(f, Times(list))
        BY <1>2, <2>1 DEF Files, ReturnPromise
    <2> QED BY <1>1, <1>2, <1>8, <1>9, <2>1, <2>2, TimesType, FilesStep
<1>11. \A m \in DOMAIN links : FiledSame(m)
    BY <1>1, <1>8, <1>10, MadeFiled
<1>12. ASSUME NEW m \in DOMAIN links, m # c PROVE SameCalls(m)
    <2>1. Elsewhere(n, m)
        BY <1>5, <1>6, <1>12 DEF Elsewhere, CallAt, CodeAt
    <2> QED BY <1>1, <1>6, <1>11, <2>1, StillCalls
<1>13. \A m : \A d \in (n + 1)..Depth' : ~ CallAt(d, m)'
    BY <1>6 DEF CallAt
<1>14. ~ InCode(c)'
    BY <1>1, <1>5, <1>6, CodeOver
\* The link that follows.
<1>15. RestOf(f)'
    <2>1. \A d \in 1..Depth' : ~ CallAt(d, f)'
        <3>1. \A d \in 1..Depth : ~ CallAt(d, f)
            BY <1>1, <1>8, NoCallYet
        <3>2. FewerCalls(f)
            BY <1>1, <1>6, <1>13, StillFewer
        <3> QED BY <3>1, <3>2 DEF FewerCalls
    <2>2. \A r \in Range(list) : state'[r] = state[r]
        BY <1>6, <1>9
    <2>3. CallsFrom(f)'
        BY <1>1, <1>8, <1>9, <1>10, <2>1, <2>2, NewCallsFrom
    <2>4. PassesOn(f)'
        <3>1. links'[f].from = list /\ state'[links'[f].npm] = state'[q]
            BY <1>6, <1>8, <1>9
        <3> QED BY <1>9, <3>1 DEF PassesOn
    <2>5. links'[f].kind = "follow" /\ links'[f].from = <<links'[f].from[1]>>
        BY <1>2, <1>8, <1>9
    <2> QED BY <2>3, <2>4, <2>5 DEF RestOf
\* The then that has returned.
<1>16. SameUnpassed(c) /\ FewerCalls(c)
    <2>1. FiledSame(c)
        BY <1>3, <1>11
    <2>2. FewerCalls(c)
        BY <1>1, <1>6, <1>13, StillFewer
    <2> QED BY <1>1, <1>6, <2>1, <2>2, StillUnpassed
<1>17. state'[p] = side /\ ~ Awaits(c, p)'
    BY <1>1, <1>3, <1>5, <1>16, CodeAwaits
<1>18. /\ links'[c].on[side] = "promise" /\ links'[c].from[1] = p /\ links'[c].npm = P
       /\ links'[c].kind = "then" /\ ran'[c] # <<>> /\ side # "pending" /\ c \in DOMAIN links'
    BY <1>2, <1>3, <1>4, <1>5, <1>8 DEF Side
<1>19. RestOf(c)'
    <2>1. CallsFrom(c) /\ links[c].from = <<links[c].from[1]>>
        BY <1>3, <1>5 DEF RestInv, RestOf
    <2>2. CallsFrom(c)'
        BY <1>1, <1>3, <1>8, <1>16, <2>1, CallsFromKept
    <2>3. Followed(c)'
        BY <1>8, <1>9, <1>18 DEF Followed
    <2>4. \A d \in 1..Depth' : ~ CodeAt(d, c)'
        BY <1>14 DEF InCode
    <2>5. HandsOn(c)'
        BY <1>14, <1>17, <1>18, <2>3, <2>4 DEF HandsOn, Runs
    <2>6. links'[c].from = <<links'[c].from[1]>>
        BY <1>3, <1>8, <2>1
    <2> QED BY <1>18, <2>2, <2>5, <2>6 DEF RestOf
<1>20. ASSUME NEW m \in DOMAIN links PROVE RestOf(m)'
    <2>1. CASE m = c
        BY <1>19, <2>1
    <2>2. CASE m # c
        <3>1. ASSUME links[m].kind = "then" PROVE Followed(m)' <=> Followed(m)
            <4>1. links[m].npm # P
                BY <1>1, <1>2, <1>3, <1>5, <2>2, <3>1 DEF Settlers
            <4> QED BY <1>8, <1>9, <4>1 DEF Followed
        <3>2. \A r \in DOMAIN state : r # links[c].npm => state'[r] = state[r]
            BY <1>2, <1>6
        <3> QED BY <1>1, <1>3, <1>5, <1>8, <1>12, <2>2, <3>1, <3>2, OtherLinks
    <2> QED BY <2>1, <2>2
<1>21. Settlers'
    <2>1. \A m \in DOMAIN links' : links'[m].npm \notin owned'
        BY <1>1, <1>2, <1>3, <1>8, <1>9 DEF Settlers
    <2>2. \A m \in DOMAIN links : ~ (links[m].npm = P /\ links[m].kind = "follow")
        BY <1>2, <1>5 DEF Followed
    <2>3. ASSUME NEW k \in DOMAIN links', NEW m \in DOMAIN links', links'[k].npm = links'[m].npm,
                 links'[k].kind = "follow" <=> links'[m].kind = "follow"
          PROVE  k = m
        <3>1. k = f <=> m = f
            BY <1>8, <1>9, <2>2, <2>3
        <3> QED BY <1>1, <1>8, <2>3, <3>1 DEF Settlers
    <2>4. ASSUME NEW g \in DOMAIN links', links'[g].kind = "follow"
          PROVE  \E k \in DOMAIN links' : Follows(g, k)'
        <3>1. CASE g = f
            <4>1. links'[g].npm = P
                BY <1>8, <1>9, <3>1
            <4>2. Follows(g, c)'
                BY <1>14, <1>17, <1>18, <4>1 DEF Follows
            <4> QED BY <1>18, <4>2
        <3>2. CASE g # f
            <4>1. g \in DOMAIN links /\ links[g].kind = "follow"
                BY <1>8, <2>4, <3>2
            <4>2. PICK k \in DOMAIN links : Follows(g, k)
                BY <1>1, <4>1 DEF Settlers
            <4>3. InCode(k)' => InCode(k)
                BY <1>12, <1>14, InCodeSame
            <4>4. Follows(g, k)'
                BY <1>1, <1>8, <4>1, <4>2, <4>3, FollowsKept
            <4> QED BY <1>8, <4>4
        <3> QED BY <3>1, <3>2
    <2> QED BY <2>1, <2>3, <2>4 DEF Settlers
<1>22. \A r \in DOMAIN state : state[r] = "pending" /\ state'[r] # "pending" =>
           \E d \in 1..Depth' : LoopAt(d, r)'
    BY <1>6
<1> QED BY <1>1, <1>6, <1>7, <1>10, <1>15, <1>20, <1>21, <1>22, MadeRest

-----------------------------------------------------------------------------
(* At rest: the theorem.                                                    *)

LEMMA InitRestInv == PInit => RestInv
<1> SUFFICES ASSUME PInit PROVE RestInv
    OBVIOUS
<1>1. DOMAIN links = {} /\ DOMAIN state = {}
    BY DEF PInit
<1> QED BY <1>1 DEF RestInv, LoopRuns, Settlers

LEMMA NextRestInv == PromiseInv /\ RestInv /\ [PNext]_pvars => RestInv'
<1> SUFFICES ASSUME PromiseInv, RestInv, [PNext]_pvars PROVE RestInv'
    OBVIOUS
<1>1. CASE Make
    BY <1>1, MakeRest
<1>2. CASE \E p \in DOMAIN state, side \in Side : ResolveOrReject(p, side)
    BY <1>2, ResolveOrRejectRest
<1>3. CASE \E p \in DOMAIN state, on \in Handlers : Then(p, on)
    BY <1>3, ThenRest
<1>4. CASE \E list \in Lists : All(list) \/ Race(list)
    BY <1>4, AllRest, RaceRest
<1>5. CASE Give
    BY <1>5, GiveRest
<1>6. CASE Loop
    BY <1>6, LoopStep, LoopRest
<1>7. CASE Call
    BY <1>7, CallStep, CallRest
<1>8. CASE ReturnPlain
    BY <1>8, ReturnPlainRest
<1>9. CASE \E q \in DOMAIN state : ReturnPromise(q)
    BY <1>9, ReturnPromiseRest
<1>10. CASE UNCHANGED pvars
    BY <1>10, StutterRest
<1> QED BY <1>1, <1>2, <1>3, <1>4, <1>5, <1>6, <1>7, <1>8, <1>9, <1>10 DEF PNext

\* What is still to happen for every link (promise.hpp:226-635) while calls of resolve, then and
\* callbacks are nested: either its promise has the outcome it must have, or a callback that will
\* bring it about is filed, being called, or running.
THEOREM RestInvariant == PSpec => []RestInv
<1>1. PInit => RestInv
    BY InitRestInv
<1>2. PromiseInv /\ RestInv /\ [PNext]_pvars => RestInv'
    BY NextRestInv
<1> QED BY <1>1, <1>2, PromiseInvariant, PTL DEF PSpec

\* Nothing is awaited when no call is under way.
LEMMA NothingAwaited ==
    ASSUME PromiseInv, RestInv, stack = <<>>
    PROVE  /\ \A d : d \notin 1..Depth
           /\ \A l : ~ InCode(l)
           /\ \A l : \A p \in DOMAIN state :
                 state[p] # "pending" => FiledAt(l, p, state[p]) = {} /\ ~ Awaits(l, p)
<1>1. \A d : d \notin 1..Depth
    BY EmptySeq DEF Depth
<1>2. \A l : ~ InCode(l)
    BY <1>1 DEF InCode
<1>3. ASSUME NEW l, NEW p \in DOMAIN state, NEW s, s = state[p], s # "pending"
      PROVE  FiledAt(l, p, s) = {} /\ ~ Awaits(l, p)
    <2>1. callbacks[p][s] = <<>>
        BY <1>1, <1>3 DEF RestInv, LoopRuns
    <2>2. FiledAt(l, p, s) = {}
        BY <2>1 DEF FiledAt
    <2> QED BY <1>1, <1>3, <2>2 DEF Awaits, Unpassed
<1> QED BY <1>1, <1>2, <1>3

LEMMA ThenConsistent ==
    ASSUME PromiseInv, RestInv, stack = <<>>, NEW l \in DOMAIN links, links[l].kind = "then"
    PROVE  Consistent(l)
<1>1. PICK p, in, out, on : /\ p = links[l].from[1] /\ in = state[p]
                            /\ out = state[links[l].npm] /\ on = links[l].on
    OBVIOUS
<1>2. Shape /\ ThenOnce(l) /\ HandsOn(l)
    BY DEF PromiseInv, LinkInv, RestInv, RestOf
<1>3. p \in DOMAIN state /\ in \in Side \cup {"pending"} /\ on \in OnThen
    BY <1>1, <1>2, LinkTypes, SideOf DEF LinkOK
<1>4. ran[l] # <<>> => ran[l] = <<in>> /\ in # "pending" /\ on[in] \in {"plain", "promise"}
    BY <1>1, <1>2 DEF ThenOnce, HandsOn, Runs
<1>5. CASE in = "pending"
    <2>1. out = "pending" /\ ran[l] = <<>>
        BY <1>1, <1>2, <1>4, <1>5 DEF HandsOn
    <2> QED BY <1>1, <1>5, <2>1 DEF Consistent
<1>6. CASE in # "pending"
    <2>1. ~ Awaits(l, p) /\ ~ InCode(l)
        BY <1>1, <1>3, <1>6, NothingAwaited
    <2>2. /\ out # "pending" =>
                /\ on[in] # "promise" => out = in
                /\ on[in] \in {"plain", "promise"} => ran[l] # <<>>
          /\ \/ on[in] # "promise" /\ out # "pending"
             \/ on[in] = "promise" /\ ran[l] # <<>> /\ Followed(l)
        BY <1>1, <1>2, <1>6, <2>1 DEF HandsOn, Runs
    <2>3. on[in] \in {"pass", "plain", "promise"}
        BY <1>3, <1>6 DEF OnThen
    <2>4. /\ on[in] = "pass" => out = in /\ ran[l] = <<>>
          /\ on[in] = "plain" => out = in /\ ran[l] = <<in>>
          /\ on[in] = "promise" => ran[l] = <<in>> /\ Followed(l)
        BY <1>4, <2>2
    <2> QED BY <1>1, <1>6, <2>3, <2>4 DEF Consistent, Followed
<1> QED BY <1>5, <1>6

LEMMA AllConsistent ==
    ASSUME PromiseInv, RestInv, stack = <<>>, NEW l \in DOMAIN links, links[l].kind = "all"
    PROVE  Consistent(l)
<1>1. PICK from, out : from = links[l].from /\ out = state[links[l].npm]
    OBVIOUS
<1>2. Shape /\ CallsFrom(l) /\ Collects(l) /\ "fulfilled" \in Side
    BY DEF PromiseInv, RestInv, RestOf, Side
<1>3. Range(from) \subseteq DOMAIN state /\ out \in Side \cup {"pending"}
    BY <1>1, <1>2, SourceTypes, SideOf
<1>4. /\ out = "fulfilled" => \A p \in Range(from) : state[p] = "fulfilled"
      /\ out = "rejected" => \E p \in Range(from) : state[p] = "rejected"
    BY <1>1, <1>2 DEF Collects
<1>5. ASSUME NEW p \in Range(from), state[p] = "rejected" PROVE out = "rejected"
    <2>1. ~ Awaits(l, p)
        BY <1>3, <1>5, NothingAwaited
    <2> QED BY <1>1, <1>2, <1>5, <2>1 DEF Collects
<1>6. ASSUME \A p \in Range(from) : state[p] = "fulfilled" PROVE out = "fulfilled"
    <2>1. out # "rejected"
        BY <1>4, <1>6
    <2>2. Due(l) = {}
        <3>1. \A p \in DOMAIN state : Unpassed(l, p, "fulfilled") = {}
            <4> SUFFICES ASSUME NEW p \in DOMAIN state, Unpassed(l, p, "fulfilled") # {}
                         PROVE  FALSE
                OBVIOUS
            <4>1. p \in Range(from)
                BY <1>1, <1>2 DEF CallsFrom
            <4>2. state[p] = "fulfilled"
                BY <1>6, <4>1
            <4>3. state[p] # "pending" => FiledAt(l, p, state[p]) = {}
                BY NothingAwaited
            <4> QED BY <4>2, <4>3 DEF Unpassed
        <3>2. DueFiled(l) = {}
            BY <3>1, DueUnpassed
        <3>3. DueCalls(l) = {}
            BY NothingAwaited DEF DueCalls
        <3> QED BY <3>2, <3>3 DEF Due
    <2>3. left[l] = 0
        BY <1>1, <1>2, <2>1, <2>2, FS_EmptySet DEF Collects
    <2>4. out # "pending"
        BY <1>1, <1>2, <2>3 DEF Collects
    <2> QED BY <1>3, <2>1, <2>4 DEF Side
<1>7. /\ (out = "rejected") <=> (\E i \in DOMAIN from : state[from[i]] = "rejected")
      /\ (out = "fulfilled") <=> (\A i \in DOMAIN from : state[from[i]] = "fulfilled")
    BY <1>4, <1>5, <1>6 DEF Range
<1> QED BY <1>1, <1>7 DEF Consistent

LEMMA PassConsistent ==
    ASSUME PromiseInv, RestInv, stack = <<>>, NEW l \in DOMAIN links,
           links[l].kind \in {"race", "follow"}
    PROVE  Consistent(l)
<1>1. PICK from, out : from = links[l].from /\ out = state[links[l].npm]
    OBVIOUS
<1>2. Shape /\ PassesOn(l)
    BY DEF PromiseInv, RestInv, RestOf
<1>3. Range(from) \subseteq DOMAIN state
    BY <1>1, <1>2, SourceTypes
<1>4. /\ out # "pending" => \E p \in Range(from) : state[p] = out
      /\ \A p \in Range(from) : state[p] # "pending" => out # "pending"
    <2>1. \A p \in Range(from) : state[p] # "pending" => ~ Awaits(l, p)
        BY <1>3, NothingAwaited
    <2> QED BY <1>1, <1>2, <2>1 DEF PassesOn
<1>5. CASE links[l].kind = "race"
    <2>1. /\ (\A i \in DOMAIN from : state[from[i]] = "pending") => out = "pending"
          /\ ~ (\A i \in DOMAIN from : state[from[i]] = "pending") =>
                 \E i \in DOMAIN from : state[from[i]] = out /\ out # "pending"
        BY <1>4 DEF Range
    <2> QED BY <1>1, <1>5, <2>1 DEF Consistent
<1>6. CASE links[l].kind = "follow"
    <2>1. PICK q : q = from[1]
        OBVIOUS
    <2>2. from = <<q>>
        BY <1>1, <1>6, <2>1 DEF RestInv, RestOf
    <2>3. Range(from) = {q}
        BY <2>2 DEF Range
    <2>4. out = state[q]
        BY <1>4, <2>3
    <2> QED BY <1>1, <1>6, <2>1, <2>4 DEF Consistent
<1> QED BY <1>5, <1>6

LEMMA InvConsistent == PromiseInv /\ RestInv => ConsistentAtRest
<1> SUFFICES ASSUME PromiseInv, RestInv, stack = <<>>, NEW l \in DOMAIN links
             PROVE  Consistent(l)
    BY DEF ConsistentAtRest
<1>1. links[l].kind \in {"then", "all", "race", "follow"}
    BY LinkTypes DEF PromiseInv, LinkType
<1> QED BY <1>1, ThenConsistent, AllConsistent, PassConsistent

\* No wake-up is lost: when no call is under way, the promise of every then, fail, all, race and
\* of every promise that a callback returned (promise.hpp:226-374, 601-635) is as its sources say.
THEOREM RestsConsistent == PSpec => []ConsistentAtRest
BY PromiseInvariant, RestInvariant, InvConsistent, PTL

=============================================================================
