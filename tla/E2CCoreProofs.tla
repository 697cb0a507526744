--------------------------- MODULE E2CCoreProofs ---------------------------
(***************************************************************************)
(* Theorems about E2CCore for every set of replicas, proposers and hashes. *)
(***************************************************************************)
EXTENDS E2CCoreLog, TLAPS

-----------------------------------------------------------------------------
(* Maps and filing.                                                         *)

\* Put is insertion or assignment: one key changes, no key goes.
LEMMA PutFacts ==
    ASSUME NEW m, NEW k, NEW v
    PROVE  /\ DOMAIN Put(m, k, v) = DOMAIN m \cup {k}
           /\ Put(m, k, v)[k] = v
           /\ \A x \in DOMAIN m : x # k => Put(m, k, v)[x] = m[x]
BY DEF Put

\* Before anything happens.
LEMMA InitCoreInv == Init => CoreInv
<1> SUFFICES ASSUME Init PROVE CoreInv
    OBVIOUS
<1>1. TypeOK
    BY GenesisAssumption DEF Init, TypeOK, Known, Block, GenesisBlock
<1>2. BlocksOK /\ MapOK /\ HighestFiled
    BY GenesisAssumption
    DEF Init, BlocksOK, MapOK, HighestFiled, AlreadyHandled, HasHeight, Known,
        Height, Parents, GenesisBlock
<1>3. FiledIsPendingOrDecided /\ ExecutedOnce
    BY DEF Init, FiledIsPendingOrDecided, ExecutedOnce, Range
<1> QED BY <1>1, <1>2, <1>3 DEF CoreInv

-----------------------------------------------------------------------------
(* CoreInv is inductive: one lemma per action.                              *)

\* OnProposeNullParent changes nothing but alive.
LEMMA NullParentStep ==
    ASSUME NEW r \in Replica, CoreInv, OnProposeNullParent(r)
    PROVE  CoreInv'
<1> USE DEF OnProposeNullParent
<1>1. TypeOK'
    BY DEF CoreInv, TypeOK, Known
<1>2. BlocksOK' /\ MapOK' /\ HighestFiled'
    BY DEF CoreInv, BlocksOK, MapOK, HighestFiled, AlreadyHandled, HasHeight,
           Known, Height, Parents
<1>3. FiledIsPendingOrDecided' /\ ExecutedOnce'
    BY DEF CoreInv, FiledIsPendingOrDecided, ExecutedOnce
<1> QED BY <1>1, <1>2, <1>3 DEF CoreInv

LEMMA DeliverStep ==
    ASSUME NEW r \in Replica, NEW b \in Hash, CoreInv, OnDeliverBlk(r, b)
    PROVE  CoreInv'
<1> USE DEF OnDeliverBlk, Deliver
<1>1. TypeOK'
    <2>1. delivered' \in [Replica -> SUBSET Known] /\ tails' \in [Replica -> SUBSET Known]
        BY DEF CoreInv, TypeOK
    <2>2. \A s \in Replica : delivered[s] \subseteq delivered'[s]
        BY DEF CoreInv, TypeOK
    <2> QED BY <2>1, <2>2 DEF CoreInv, TypeOK, Known
<1>2. BlocksOK' /\ MapOK' /\ HighestFiled'
    BY DEF CoreInv, BlocksOK, MapOK, HighestFiled, AlreadyHandled, HasHeight,
           Known, Height, Parents
<1>3. FiledIsPendingOrDecided' /\ ExecutedOnce'
    BY DEF CoreInv, FiledIsPendingOrDecided, ExecutedOnce
<1> QED BY <1>1, <1>2, <1>3 DEF CoreInv

\* What update does to a block b of height ht that is delivered when the step
\* ends; shared by on_propose and on_receive_proposal.
LEMMA FileStep ==
    ASSUME NEW r \in Replica, NEW b, NEW ht, CoreInv, TypeOK', BlocksOK',
           \A c \in Known : c \in Known' /\ blocks'[c] = blocks[c],
           b \in Known', b # Genesis, ht = Height(b)',
           UNCHANGED <<alive, decision, executed>>,
           Update(r, b, ht)
    PROVE  CoreInv'
<1>1. TypeOK /\ BlocksOK /\ MapOK /\ HighestFiled /\ FiledIsPendingOrDecided /\ ExecutedOnce
    BY DEF CoreInv
<1>2. ht \in Nat /\ ht > 0 /\ blocks'[b].height = ht
    BY DEF TypeOK, Block, Height, BlocksOK
<1>3. \A c \in Known : blocks'[c].height = blocks[c].height /\ blocks[c].height \in Nat
    BY <1>1 DEF TypeOK, Block
<1>4. ExecutedOnce'
    BY <1>1 DEF ExecutedOnce
<1>5. \A s \in Replica : /\ \A h \in DOMAIN ht_blk_map[s] : ht_blk_map[s][h] \in Known
                         /\ b_mark[s] \in Known
                         /\ DOMAIN ht_blk_map[s] \subseteq Nat
    BY <1>1 DEF TypeOK
<1>6. CASE HasHeight(r, ht)
    <2>1. UNCHANGED <<ht_blk_map, b_mark, commit_timer>>
        BY <1>6 DEF Update
    <2>2. MapOK'
        BY <1>1, <1>3, <1>5, <2>1 DEF MapOK, HasHeight, Height
    <2>3. HighestFiled'
        BY <1>1, <1>3, <1>5, <2>1 DEF HighestFiled, AlreadyHandled, HasHeight, Height
    <2>4. FiledIsPendingOrDecided'
        BY <1>1, <2>1 DEF FiledIsPendingOrDecided
    <2> QED BY <1>4, <2>2, <2>3, <2>4 DEF CoreInv
<1>7. CASE ~ HasHeight(r, ht)
    <2>1. /\ ht_blk_map' = [ht_blk_map EXCEPT ![r] = Put(@, ht, b)]
          /\ b_mark' = [b_mark EXCEPT ![r] = IF Height(@) < ht THEN b ELSE @]
          /\ commit_timer' = [commit_timer EXCEPT ![r] = @ \cup {b}]
        BY <1>7 DEF Update
    <2>2. /\ ht_blk_map'[r] = Put(ht_blk_map[r], ht, b)
          /\ b_mark'[r] = IF Height(b_mark[r]) < ht THEN b ELSE b_mark[r]
          /\ commit_timer'[r] = commit_timer[r] \cup {b}
          /\ \A s \in Replica \ {r} : /\ ht_blk_map'[s] = ht_blk_map[s]
                                      /\ b_mark'[s] = b_mark[s]
                                      /\ commit_timer'[s] = commit_timer[s]
        BY <1>1, <2>1 DEF TypeOK
    <2>3. /\ DOMAIN ht_blk_map'[r] = DOMAIN ht_blk_map[r] \cup {ht}
          /\ ht_blk_map'[r][ht] = b
          /\ \A h \in DOMAIN ht_blk_map[r] : h # ht /\ ht_blk_map'[r][h] = ht_blk_map[r][h]
        BY <1>7, <2>2 DEF Put, HasHeight
    <2>4. MapOK'
        <3> SUFFICES ASSUME NEW s \in Replica
                     PROVE  /\ 0 \in DOMAIN ht_blk_map'[s]
                            /\ \A h \in DOMAIN ht_blk_map'[s] :
                                  blocks'[ht_blk_map'[s][h]].height = h
            BY DEF MapOK, HasHeight, Height
        <3>0. /\ 0 \in DOMAIN ht_blk_map[s]
              /\ \A h \in DOMAIN ht_blk_map[s] : blocks[ht_blk_map[s][h]].height = h
            BY <1>1 DEF MapOK, HasHeight, Height
        <3>1. CASE s = r
            BY <1>2, <1>3, <1>5, <2>3, <3>0, <3>1
        <3>2. CASE s # r
            BY <1>3, <1>5, <2>2, <3>0, <3>2
        <3> QED BY <3>1, <3>2
    <2>5. HighestFiled'
        <3> SUFFICES ASSUME NEW s \in Replica
                     PROVE  LET top == blocks'[b_mark'[s]].height IN
                            /\ top \in DOMAIN ht_blk_map'[s]
                            /\ ht_blk_map'[s][top] = b_mark'[s]
                            /\ \A h \in DOMAIN ht_blk_map'[s] : h <= top
            BY DEF HighestFiled, AlreadyHandled, HasHeight, Height
        <3>1. LET top == blocks[b_mark[s]].height IN
              /\ top \in DOMAIN ht_blk_map[s]
              /\ ht_blk_map[s][top] = b_mark[s]
              /\ \A h \in DOMAIN ht_blk_map[s] : h <= top
            BY <1>1 DEF HighestFiled, AlreadyHandled, HasHeight, Height
        <3>2. CASE s = r
            BY <1>2, <1>3, <1>5, <2>2, <2>3, <3>1, <3>2 DEF Height
        <3>3. CASE s # r
            BY <1>3, <1>5, <2>2, <3>1, <3>3
        <3> QED BY <3>2, <3>3
    <2>6. FiledIsPendingOrDecided'
        <3> SUFFICES ASSUME NEW s \in Replica
                     PROVE  /\ commit_timer'[s] = Range(ht_blk_map'[s]) \ decision[s]
                            /\ decision[s] \subseteq Range(ht_blk_map'[s])
            BY DEF FiledIsPendingOrDecided
        <3>1. /\ commit_timer[s] = Range(ht_blk_map[s]) \ decision[s]
              /\ decision[s] \subseteq Range(ht_blk_map[s])
            BY <1>1 DEF FiledIsPendingOrDecided
        <3>2. CASE s = r
            <4>1. Range(ht_blk_map'[r]) = Range(ht_blk_map[r]) \cup {b}
                BY <2>3 DEF Range
            <4>2. b \notin Range(ht_blk_map[r])
                BY <1>1, <1>2, <1>3, <1>5, <1>7 DEF Range, MapOK, HasHeight, Height
            <4> QED BY <2>2, <3>1, <3>2, <4>1, <4>2
        <3>3. CASE s # r
            BY <2>2, <3>1, <3>3
        <3> QED BY <3>2, <3>3
    <2> QED BY <1>4, <2>4, <2>5, <2>6 DEF CoreInv
<1> QED BY <1>6, <1>7

\* on_receive_proposal files a delivered block.
LEMMA ReceiveStep ==
    ASSUME NEW r \in Replica, NEW b \in Hash, CoreInv, OnReceiveProposal(r, b)
    PROVE  CoreInv'
<1>1. TypeOK /\ BlocksOK /\ MapOK
    BY DEF CoreInv
<1>2. /\ b \in delivered[r] /\ b # Genesis /\ b \in Known
      /\ Update(r, b, Height(b))
      /\ UNCHANGED <<blocks, alive, delivered, tails, decision, executed>>
    BY <1>1 DEF OnReceiveProposal, TypeOK
<1>3. Height(b)' = Height(b) /\ Height(b) \in Nat /\ Known' = Known
    BY <1>1, <1>2 DEF Height, TypeOK, Block, Known
<1>4. BlocksOK'
    BY <1>1, <1>2 DEF BlocksOK, Known, Height, Parents
<1>5. TypeOK'
    <2>1. CASE HasHeight(r, Height(b))
        BY <1>1, <1>2, <2>1 DEF TypeOK, Known, Update
    <2>2. CASE ~ HasHeight(r, Height(b))
        <3>1. /\ ht_blk_map' = [ht_blk_map EXCEPT ![r] = Put(@, Height(b), b)]
              /\ b_mark' = [b_mark EXCEPT ![r] = IF Height(@) < Height(b) THEN b ELSE @]
              /\ commit_timer' = [commit_timer EXCEPT ![r] = @ \cup {b}]
            BY <1>2, <2>2 DEF Update
        <3>2. /\ DOMAIN Put(ht_blk_map[r], Height(b), b)
                    = DOMAIN ht_blk_map[r] \cup {Height(b)}
              /\ Put(ht_blk_map[r], Height(b), b)
                    \in [DOMAIN ht_blk_map[r] \cup {Height(b)} -> delivered[r]]
            BY <1>1, <1>2 DEF Put, TypeOK
        <3> QED BY <1>1, <1>2, <1>3, <3>1, <3>2 DEF TypeOK, Known
    <2> QED BY <2>1, <2>2
<1> QED BY <1>2, <1>3, <1>4, <1>5, FileStep

\* get_parents without a gap: delivered blocks from b_mark down to b0.
LEMMA GetParentsFacts ==
    ASSUME NEW r \in Replica, CoreInv, NoNullParent(r)
    PROVE  /\ Height(b_mark[r]) \in Nat
           /\ GetParents(r) \in Seq(Hash)
           /\ DOMAIN GetParents(r) = 1..(Height(b_mark[r]) + 1)
           /\ \A i \in DOMAIN GetParents(r) :
                  /\ GetParents(r)[i] \in Known
                  /\ Height(GetParents(r)[i]) = Height(b_mark[r]) + 1 - i
<1>1. TypeOK /\ BlocksOK /\ MapOK
    BY DEF CoreInv
<1>2. Height(b_mark[r]) \in Nat /\ Genesis \in Hash
    BY <1>1, GenesisAssumption DEF TypeOK, Block, Height
<1> DEFINE top == Height(b_mark[r])
<1>3. \A ht \in 1..top : /\ ht_blk_map[r][ht] \in Known
                         /\ Height(ht_blk_map[r][ht]) = ht
    BY <1>1, <1>2 DEF NoNullParent, HasHeight, MapOK, TypeOK
<1>4. GetParents(r) = [i \in 1..(top + 1) |->
                          IF i <= top THEN ht_blk_map[r][top + 1 - i] ELSE Genesis]
    BY DEF GetParents
<1> HIDE DEF top
<1>5. top \in Nat
    BY <1>2 DEF top
<1>6. \A i \in 1..(top + 1) :
         /\ GetParents(r)[i] \in Known
         /\ Height(GetParents(r)[i]) = top + 1 - i
    <2> SUFFICES ASSUME NEW i \in 1..(top + 1)
                 PROVE  /\ GetParents(r)[i] \in Known
                        /\ Height(GetParents(r)[i]) = top + 1 - i
        OBVIOUS
    <2>1. CASE i <= top
        <3>1. top + 1 - i \in 1..top /\ GetParents(r)[i] = ht_blk_map[r][top + 1 - i]
            BY <1>4, <1>5, <2>1
        <3> QED BY <1>3, <3>1 DEF top
    <2>2. CASE ~ (i <= top)
        <3>1. top + 1 - i = 0 /\ GetParents(r)[i] = Genesis
            BY <1>4, <1>5, <2>2
        <3> QED BY <1>1, <3>1 DEF BlocksOK
    <2> QED BY <2>1, <2>2
<1>7. Known \subseteq Hash
    BY <1>1 DEF TypeOK, Known
<1>8. GetParents(r) \in Seq(Hash)
    BY <1>4, <1>5, <1>6, <1>7
<1> QED BY <1>2, <1>4, <1>6, <1>8 DEF top

\* on_propose: a fresh block, delivered and filed at once.
LEMMA ProposeStep ==
    ASSUME NEW r \in Replica, NEW b \in Hash, CoreInv, OnPropose(r, b)
    PROVE  CoreInv'
<1>1. TypeOK /\ BlocksOK
    BY DEF CoreInv
<1> DEFINE ps == GetParents(r)
           ht == Height(ps[1]) + 1
           rec == [proposer |-> r, height |-> ht, parents |-> ps]
<1>2. /\ b \notin Known
      /\ NoNullParent(r)
      /\ blocks' = Put(blocks, b, rec)
      /\ Deliver(r, b, ps)
      /\ Update(r, b, ht)
      /\ UNCHANGED <<alive, decision, executed>>
    BY DEF OnPropose
<1>3. ps \in Seq(Hash) /\ ht \in Nat /\ ht > 0 /\ b # Genesis
    <2>1. Height(b_mark[r]) \in Nat /\ 1 \in DOMAIN ps /\ ps \in Seq(Hash)
        BY <1>2, GetParentsFacts
    <2>2. Height(ps[1]) = Height(b_mark[r])
        BY <1>2, <2>1, GetParentsFacts
    <2> QED BY <1>1, <1>2, <2>1, <2>2 DEF BlocksOK
<1>4. rec \in Block
    BY <1>3 DEF Block
<1> HIDE DEF ps, ht
<1>5. /\ Known' = Known \cup {b}
      /\ blocks'[b] = rec
      /\ \A c \in Known : blocks'[c] = blocks[c]
    BY <1>2 DEF Put, Known
<1>6. Height(b)' = ht
    BY <1>5 DEF Height
<1>7. BlocksOK'
    BY <1>1, <1>2, <1>3, <1>5 DEF BlocksOK, Height, Parents
<1>8. /\ delivered' = [delivered EXCEPT ![r] = @ \cup {b}]
      /\ tails' = [tails EXCEPT ![r] = (@ \ Range(ps)) \cup {b}]
    BY <1>2 DEF Deliver
<1>9. TypeOK'
    <2>1. DOMAIN blocks' \in SUBSET Hash /\ \A c \in Known' : blocks'[c] \in Block
        BY <1>1, <1>4, <1>5 DEF TypeOK, Known
    <2>2. /\ delivered' \in [Replica -> SUBSET Known']
          /\ tails' \in [Replica -> SUBSET Known']
          /\ \A s \in Replica : delivered[s] \subseteq delivered'[s]
          /\ b \in delivered'[r]
        BY <1>1, <1>5, <1>8 DEF TypeOK
    <2>3. \/ UNCHANGED <<ht_blk_map, b_mark, commit_timer>>
          \/ /\ ht_blk_map' = [ht_blk_map EXCEPT ![r] = Put(@, ht, b)]
             /\ b_mark' = [b_mark EXCEPT ![r] = IF Height(@) < ht THEN b ELSE @]
             /\ commit_timer' = [commit_timer EXCEPT ![r] = @ \cup {b}]
        BY <1>2 DEF Update
    <2>4. /\ DOMAIN ht_blk_map' = Replica
          /\ b_mark' \in [Replica -> Known']
          /\ commit_timer' \in [Replica -> SUBSET Known']
          /\ \A s \in Replica :
                \/ /\ ht_blk_map'[s] = ht_blk_map[s]
                   /\ b_mark'[s] = b_mark[s]
                   /\ commit_timer'[s] = commit_timer[s]
                \/ /\ s = r
                   /\ ht_blk_map'[s] = Put(ht_blk_map[s], ht, b)
                   /\ b_mark'[s] \in {b, b_mark[s]}
                   /\ commit_timer'[s] = commit_timer[s] \cup {b}
        <3>1. /\ DOMAIN ht_blk_map = Replica
              /\ b_mark \in [Replica -> Known]
              /\ commit_timer \in [Replica -> SUBSET Known]
            BY <1>1 DEF TypeOK
        <3>2. CASE UNCHANGED <<ht_blk_map, b_mark, commit_timer>>
            BY <1>5, <3>1, <3>2
        <3>3. CASE /\ ht_blk_map' = [ht_blk_map EXCEPT ![r] = Put(@, ht, b)]
                   /\ b_mark' = [b_mark EXCEPT ![r] = IF Height(@) < ht THEN b ELSE @]
                   /\ commit_timer' = [commit_timer EXCEPT ![r] = @ \cup {b}]
            BY <1>5, <3>1, <3>3
        <3> QED BY <2>3, <3>2, <3>3
    <2>5. \A s \in Replica : /\ DOMAIN ht_blk_map'[s] \in SUBSET Nat
                             /\ ht_blk_map'[s] \in [DOMAIN ht_blk_map'[s] -> delivered'[s]]
        <3>1. /\ DOMAIN Put(ht_blk_map[r], ht, b) = DOMAIN ht_blk_map[r] \cup {ht}
              /\ Put(ht_blk_map[r], ht, b) \in [DOMAIN ht_blk_map[r] \cup {ht} -> delivered'[r]]
            BY <1>1, <2>2 DEF Put, TypeOK
        <3>2. \A s \in Replica : /\ DOMAIN ht_blk_map[s] \in SUBSET Nat
                                 /\ ht_blk_map[s] \in [DOMAIN ht_blk_map[s] -> delivered'[s]]
            BY <1>1, <2>2 DEF TypeOK
        <3> QED BY <1>3, <2>4, <3>1, <3>2
    <2>6. \A s \in Replica : {b_mark'[s]} \cup commit_timer'[s] \cup decision'[s]
                              \subseteq delivered'[s]
        BY <1>1, <1>2, <2>2, <2>4 DEF TypeOK
    <2> QED BY <1>1, <1>2, <1>5, <2>1, <2>2, <2>4, <2>5, <2>6 DEF TypeOK, Known
<1> QED BY <1>2, <1>3, <1>5, <1>6, <1>7, <1>9, FileStep

\* commit_timer_cb: the timer of a block always finds that block, undecided.
LEMMA TimerFindsItsBlock ==
    ASSUME NEW r \in Replica, CoreInv, NEW b \in commit_timer[r]
    PROVE  ht_blk_map[r][Height(b)] = b /\ b \notin decision[r] /\ b \in Known
BY DEF CoreInv, FiledIsPendingOrDecided, MapOK, TypeOK, Range

LEMMA CommitStep ==
    ASSUME NEW r \in Replica, NEW b \in Hash, CoreInv, CommitTimerCb(r, b)
    PROVE  CoreInv'
<1>1. TypeOK /\ BlocksOK /\ MapOK /\ HighestFiled /\ FiledIsPendingOrDecided /\ ExecutedOnce
    BY DEF CoreInv
<1>2. b \in commit_timer[r]
    BY DEF CommitTimerCb
<1>3. b \notin decision[r] /\ b \in Known /\ ht_blk_map[r][Height(b)] = b
    BY <1>2, TimerFindsItsBlock
<1>4. /\ commit_timer' = [commit_timer EXCEPT ![r] = @ \ {b}]
      /\ decision' = [decision EXCEPT ![r] = @ \cup {b}]
      /\ executed' = [executed EXCEPT ![r] = Append(@, b)]
      /\ UNCHANGED <<blocks, alive, delivered, tails, ht_blk_map, b_mark>>
    BY <1>3 DEF CommitTimerCb
<1>5. TypeOK'
    <2>1. executed' \in [Replica -> Seq(Hash)]
        BY <1>1, <1>4 DEF TypeOK
    <2>2. /\ commit_timer' \in [Replica -> SUBSET Known]
          /\ decision' \in [Replica -> SUBSET Known]
          /\ \A s \in Replica : commit_timer'[s] \cup decision'[s]
                                 \subseteq commit_timer[s] \cup decision[s]
        BY <1>1, <1>2, <1>3, <1>4 DEF TypeOK
    <2> QED BY <1>1, <1>4, <2>1, <2>2 DEF TypeOK, Known
<1>6. BlocksOK' /\ MapOK' /\ HighestFiled'
    BY <1>1, <1>4 DEF BlocksOK, MapOK, HighestFiled, AlreadyHandled, HasHeight,
                      Known, Height, Parents
<1>7. FiledIsPendingOrDecided'
    BY <1>1, <1>2, <1>3, <1>4 DEF FiledIsPendingOrDecided, TypeOK
<1>8. ExecutedOnce'
    <2> SUFFICES ASSUME NEW s \in Replica
                 PROVE  /\ Range(executed'[s]) = decision'[s] \ {Genesis}
                        /\ \A i, j \in DOMAIN executed'[s] :
                              executed'[s][i] = executed'[s][j] => i = j
        BY DEF ExecutedOnce
    <2>1. /\ Range(executed[s]) = decision[s] \ {Genesis}
          /\ \A i, j \in DOMAIN executed[s] : executed[s][i] = executed[s][j] => i = j
          /\ executed[s] \in Seq(Hash)
        BY <1>1 DEF ExecutedOnce, TypeOK
    <2>2. CASE s = r
        <3>1. b # Genesis
            BY <1>1, <1>3, <2>2 DEF BlocksOK
        <3>2. executed'[s] = Append(executed[s], b) /\ decision'[s] = decision[s] \cup {b}
            BY <1>1, <1>4, <2>2 DEF TypeOK
        <3>3. b \notin Range(executed[s])
            BY <1>3, <2>1, <2>2
        <3>4. DOMAIN executed'[s] = DOMAIN executed[s] \cup {Len(executed[s]) + 1}
            BY <2>1, <3>2
        <3>5. \A i \in DOMAIN executed[s] : executed'[s][i] = executed[s][i]
            BY <2>1, <3>2
        <3>6. executed'[s][Len(executed[s]) + 1] = b
            BY <2>1, <3>2
        <3> QED BY <2>1, <3>1, <3>2, <3>3, <3>4, <3>5, <3>6 DEF Range
    <2>3. CASE s # r
        BY <1>1, <1>4, <2>1, <2>3 DEF TypeOK
    <2> QED BY <2>2, <2>3
<1> QED BY <1>5, <1>6, <1>7, <1>8 DEF CoreInv

LEMMA CoreInvStep == CoreInv /\ [Next]_vars => CoreInv'
<1> SUFFICES ASSUME CoreInv, [Next]_vars PROVE CoreInv'
    OBVIOUS
<1>1. CASE UNCHANGED vars
    <2>1. TypeOK' /\ BlocksOK' /\ MapOK' /\ HighestFiled'
        BY <1>1 DEF vars, CoreInv, TypeOK, BlocksOK, MapOK, HighestFiled,
                    AlreadyHandled, HasHeight, Known, Height, Parents
    <2>2. FiledIsPendingOrDecided' /\ ExecutedOnce'
        BY <1>1 DEF vars, CoreInv, FiledIsPendingOrDecided, ExecutedOnce
    <2> QED BY <2>1, <2>2 DEF CoreInv
<1>2. ASSUME NEW r \in Replica, OnProposeNullParent(r) PROVE CoreInv'
    BY <1>2, NullParentStep
<1>3. ASSUME NEW r \in Replica, NEW b \in Hash, OnPropose(r, b) PROVE CoreInv'
    BY <1>3, ProposeStep
<1>4. ASSUME NEW r \in Replica, NEW b \in Hash, OnDeliverBlk(r, b) PROVE CoreInv'
    BY <1>4, DeliverStep
<1>5. ASSUME NEW r \in Replica, NEW b \in Hash, OnReceiveProposal(r, b) PROVE CoreInv'
    BY <1>5, ReceiveStep
<1>6. ASSUME NEW r \in Replica, NEW b \in Hash, CommitTimerCb(r, b) PROVE CoreInv'
    BY <1>6, CommitStep
<1> QED BY <1>1, <1>2, <1>3, <1>4, <1>5, <1>6 DEF Next

\* The invariant of the core for any number of proposers.
THEOREM CoreInvariant == Spec => []CoreInv
BY InitCoreInv, CoreInvStep, PTL DEF Spec

\* The state keeps its types and only delivered blocks are filed, timed or
\* decided (the contract stated at on_receive_proposal, consensus.h:88).
THEOREM TypeCorrect == Spec => []TypeOK
<1>1. CoreInv => TypeOK
    BY DEF CoreInv
<1> QED BY <1>1, CoreInvariant, PTL

\* Whoever proposes, and in whatever order blocks arrive and timers fire: every
\* block on file waits for its own timer or is decided, never both.
THEOREM FilingExact == Spec => []FiledIsPendingOrDecided
<1>1. CoreInv => FiledIsPendingOrDecided
    BY DEF CoreInv
<1> QED BY <1>1, CoreInvariant, PTL

\* Whoever proposes: do_consensus and do_decide run once per decided block.
THEOREM ExecutesOnce == Spec => []ExecutedOnce
<1>1. CoreInv => ExecutedOnce
    BY DEF CoreInv
<1> QED BY <1>1, CoreInvariant, PTL

\* Whoever proposes: the locked block b_mark is the highest one on file.
THEOREM MarkIsHighest == Spec => []HighestFiled
<1>1. CoreInv => HighestFiled
    BY DEF CoreInv
<1> QED BY <1>1, CoreInvariant, PTL

\* What is filed stays filed.
Stays ==
    \A r \in Replica : \A ht \in DOMAIN ht_blk_map[r] :
        ht \in DOMAIN ht_blk_map'[r] /\ ht_blk_map'[r][ht] = ht_blk_map[r][ht]

\* update never touches a height that has a block.
LEMMA StaysFiled == ASSUME CoreInv, [Next]_vars PROVE Stays
<1>1. DOMAIN ht_blk_map = Replica
    BY DEF CoreInv, TypeOK
<1>2. ASSUME NEW r \in Replica, NEW b, NEW ht, Update(r, b, ht) PROVE Stays
    <2>1. CASE HasHeight(r, ht)
        BY <1>2, <2>1 DEF Update, Stays
    <2>2. CASE ~ HasHeight(r, ht)
        <3>1. ht_blk_map' = [ht_blk_map EXCEPT ![r] = Put(@, ht, b)]
            BY <1>2, <2>2 DEF Update
        <3>2. \A h \in DOMAIN ht_blk_map[r] : h # ht
            BY <2>2 DEF HasHeight
        <3>3. ASSUME NEW s \in Replica, NEW h \in DOMAIN ht_blk_map[s]
              PROVE  h \in DOMAIN ht_blk_map'[s] /\ ht_blk_map'[s][h] = ht_blk_map[s][h]
            <4>1. CASE s = r
                <5>1. ht_blk_map'[s] = Put(ht_blk_map[s], ht, b)
                    BY <1>1, <3>1, <4>1
                <5> QED BY <3>2, <3>3, <4>1, <5>1 DEF Put
            <4>2. CASE s # r
                BY <1>1, <3>1, <3>3, <4>2
            <4> QED BY <4>1, <4>2
        <3> QED BY <3>3 DEF Stays
    <2> QED BY <2>1, <2>2
<1>3. CASE \E r \in Replica, b \in Hash : OnPropose(r, b) \/ OnReceiveProposal(r, b)
    <2>1. PICK r \in Replica, b \in Hash : OnPropose(r, b) \/ OnReceiveProposal(r, b)
        BY <1>3
    <2>2. \E ht : Update(r, b, ht)
        BY <2>1 DEF OnPropose, OnReceiveProposal
    <2> QED BY <1>2, <2>2
<1>4. CASE UNCHANGED ht_blk_map
    BY <1>4 DEF Stays
<1>5. [Next]_vars => \/ \E r \in Replica, b \in Hash : OnPropose(r, b) \/ OnReceiveProposal(r, b)
                     \/ UNCHANGED ht_blk_map
    BY DEF Next, OnProposeNullParent, OnDeliverBlk, CommitTimerCb, vars
<1> QED BY <1>3, <1>4, <1>5

\* Whoever proposes: the first block filed at a height is never replaced.
THEOREM FirstBlockStays == Spec => FiledForever
<1> DEFINE Same == \A r \in Replica : \A ht \in DOMAIN ht_blk_map[r] :
                       /\ ht \in DOMAIN ht_blk_map'[r]
                       /\ ht_blk_map'[r][ht] = ht_blk_map[r][ht]
<1>1. CoreInv /\ [Next]_vars => [Same]_vars
    BY StaysFiled DEF Stays
<1> QED BY <1>1, CoreInvariant, PTL DEF Spec, FiledForever

-----------------------------------------------------------------------------
(* One proposer.                                                            *)

LEMMA LeaderProposes ==
    ASSUME SingleProposer
    PROVE  Leader \in Replica /\ Proposers = {Leader}
BY DEF SingleProposer, Leader

LEMMA InitLeaderInv ==
    ASSUME SingleProposer, Init
    PROVE  LeaderInv
<1>1. Leader \in Replica
    BY LeaderProposes
<1>2. LeaderFiledAll /\ LeaderContiguous
    BY <1>1 DEF Init, LeaderFiledAll, LeaderContiguous, AlreadyHandled, HasHeight,
                Known, Height, GenesisBlock
<1>3. ParentsFiled /\ NeverAborts
    BY DEF Init, ParentsFiled, NeverAborts, Known, Height, Parents, GenesisBlock
<1> QED BY <1>2, <1>3 DEF LeaderInv

\* A step that leaves the proposer's file and the blocks alone.
LEMMA LeaderUntouched ==
    ASSUME LeaderInv, UNCHANGED <<blocks, alive>>,
           ht_blk_map'[Leader] = ht_blk_map[Leader],
           b_mark'[Leader] = b_mark[Leader]
    PROVE  LeaderInv'
<1>1. LeaderFiledAll' /\ LeaderContiguous'
    BY DEF LeaderInv, LeaderFiledAll, LeaderContiguous, AlreadyHandled, HasHeight,
           Known, Height
<1>2. ParentsFiled' /\ NeverAborts'
    BY DEF LeaderInv, ParentsFiled, NeverAborts, Known, Height, Parents
<1> QED BY <1>1, <1>2 DEF LeaderInv

\* The proposer extends its chain: the fresh block goes on top.
LEMMA LeaderProposeFacts ==
    ASSUME SingleProposer, CoreInv, LeaderInv,
           NEW r \in Replica, NEW b \in Hash, OnPropose(r, b)
    PROVE  LET top == Height(b_mark[Leader]) IN
           /\ r = Leader /\ top \in Nat /\ b \notin Known
           /\ GetParents(r) = [i \in 1..(top + 1) |-> ht_blk_map[Leader][top + 1 - i]]
           /\ blocks' = Put(blocks, b, [proposer |-> r, height |-> top + 1,
                                       parents |-> GetParents(r)])
           /\ ht_blk_map'[Leader] = Put(ht_blk_map[Leader], top + 1, b)
           /\ b_mark'[Leader] = b
           /\ alive' = alive
<1> DEFINE top == Height(b_mark[Leader])
<1>1. r = Leader /\ Leader \in Replica
    BY LeaderProposes DEF OnPropose
<1>2. /\ b \notin Known /\ NoNullParent(r) /\ alive' = alive
      /\ LET ht == Height(GetParents(r)[1]) + 1 IN
             /\ blocks' = Put(blocks, b, [proposer |-> r, height |-> ht,
                                         parents |-> GetParents(r)])
             /\ Update(r, b, ht)
    BY DEF OnPropose
<1>3. top \in Nat /\ 1 \in DOMAIN GetParents(r) /\ DOMAIN GetParents(r) = 1..(top + 1)
    BY <1>1, <1>2, GetParentsFacts
<1>4. Height(GetParents(r)[1]) = top
    <2>1. Height(GetParents(r)[1]) = Height(b_mark[r]) + 1 - 1
        BY <1>1, <1>2, <1>3, GetParentsFacts
    <2> QED BY <1>1, <1>3, <2>1
<1>5. ht_blk_map[Leader][0] = Genesis
    <2>1. AlreadyHandled(Leader, Genesis) /\ Height(Genesis) = 0
        BY DEF LeaderInv, LeaderFiledAll, CoreInv, BlocksOK
    <2> QED BY <2>1 DEF AlreadyHandled
<1>6. GetParents(r) = [i \in 1..(top + 1) |-> ht_blk_map[Leader][top + 1 - i]]
    <2>1. \A i \in 1..(top + 1) : ~ (i <= top) => top + 1 - i = 0
        BY <1>3
    <2> QED BY <1>1, <1>3, <1>5, <2>1 DEF GetParents
<1>7. ~ HasHeight(r, top + 1)
    BY <1>1, <1>3 DEF LeaderInv, LeaderContiguous, HasHeight
<1>8. Update(r, b, top + 1)
    BY <1>2, <1>4
<1>9. /\ ht_blk_map' = [ht_blk_map EXCEPT ![r] = Put(@, top + 1, b)]
      /\ b_mark' = [b_mark EXCEPT ![r] = IF Height(@) < top + 1 THEN b ELSE @]
    BY <1>7, <1>8 DEF Update
<1>10. /\ ht_blk_map'[Leader] = Put(ht_blk_map[Leader], top + 1, b)
       /\ b_mark'[Leader] = b
    <2>1. DOMAIN ht_blk_map = Replica /\ DOMAIN b_mark = Replica
        BY DEF CoreInv, TypeOK
    <2>2. top < top + 1
        BY <1>3
    <2> QED BY <1>1, <1>9, <2>1, <2>2
<1> QED BY <1>1, <1>2, <1>3, <1>4, <1>6, <1>10

LEMMA LeaderProposeStep ==
    ASSUME SingleProposer, CoreInv, LeaderInv,
           NEW r \in Replica, NEW b \in Hash, OnPropose(r, b)
    PROVE  LeaderInv'
<1> DEFINE top == Height(b_mark[Leader])
           mp == ht_blk_map[Leader]
<1>1. /\ top \in Nat /\ b \notin Known
      /\ GetParents(r) = [i \in 1..(top + 1) |-> mp[top + 1 - i]]
      /\ blocks' = Put(blocks, b, [proposer |-> r, height |-> top + 1,
                                  parents |-> GetParents(r)])
      /\ ht_blk_map'[Leader] = Put(mp, top + 1, b)
      /\ b_mark'[Leader] = b
      /\ alive' = alive
    BY LeaderProposeFacts
<1>2. DOMAIN mp = 0..top
    BY DEF LeaderInv, LeaderContiguous
<1>3. \A c \in Known : /\ blocks[c].height \in 0..top
                       /\ mp[blocks[c].height] = c
                       /\ blocks[c].parents = [i \in 1..blocks[c].height |->
                                                    mp[blocks[c].height - i]]
    BY <1>2 DEF LeaderInv, LeaderFiledAll, ParentsFiled, AlreadyHandled, HasHeight,
                Height, Parents
<1> HIDE DEF top, mp
<1>4. /\ DOMAIN ht_blk_map'[Leader] = 0..(top + 1)
      /\ ht_blk_map'[Leader][top + 1] = b
      /\ \A h \in 0..top : ht_blk_map'[Leader][h] = mp[h]
    BY <1>1, <1>2 DEF Put
<1>5. /\ Known' = Known \cup {b}
      /\ blocks'[b].height = top + 1
      /\ blocks'[b].parents = GetParents(r)
      /\ \A c \in Known : blocks'[c] = blocks[c]
    BY <1>1 DEF Put, Known
<1>6. LeaderContiguous'
    BY <1>1, <1>4, <1>5 DEF LeaderContiguous, Height
<1>7. LeaderFiledAll'
    <2> SUFFICES ASSUME NEW c \in Known'
                 PROVE  /\ blocks'[c].height \in DOMAIN ht_blk_map'[Leader]
                        /\ ht_blk_map'[Leader][blocks'[c].height] = c
        BY DEF LeaderFiledAll, AlreadyHandled, HasHeight, Height
    <2>1. CASE c \in Known
        <3>1. blocks'[c].height \in 0..top /\ mp[blocks'[c].height] = c
            BY <1>3, <1>5, <2>1
        <3>2. 0..top \subseteq 0..(top + 1)
            BY <1>1
        <3> QED BY <1>4, <3>1, <3>2
    <2>2. CASE c = b
        BY <1>1, <1>4, <1>5, <2>2
    <2> QED BY <1>5, <2>1, <2>2
<1>8. ParentsFiled'
    <2> SUFFICES ASSUME NEW c \in Known'
                 PROVE  blocks'[c].parents = [i \in 1..blocks'[c].height |->
                                                 ht_blk_map'[Leader][blocks'[c].height - i]]
        BY DEF ParentsFiled, Parents, Height
    <2>1. CASE c \in Known
        <3> DEFINE ht == blocks[c].height
        <3>1. /\ blocks'[c].height = ht
              /\ blocks'[c].parents = [i \in 1..ht |-> mp[ht - i]]
            BY <1>3, <1>5, <2>1
        <3>2. ht \in 0..top
            BY <1>3, <2>1
        <3> HIDE DEF ht
        <3>3. \A i \in 1..ht : ht - i \in 0..top
            BY <1>1, <3>2
        <3>4. \A i \in 1..ht : ht_blk_map'[Leader][ht - i] = mp[ht - i]
            BY <1>4, <3>3
        <3> QED BY <3>1, <3>4
    <2>2. CASE c = b
        <3> DEFINE ht == top + 1
        <3>1. /\ blocks'[c].height = ht
              /\ blocks'[c].parents = [i \in 1..ht |-> mp[ht - i]]
            BY <1>1, <1>5, <2>2
        <3>2. \A i \in 1..ht : ht - i \in 0..top
            BY <1>1
        <3> HIDE DEF ht
        <3>3. \A i \in 1..ht : ht_blk_map'[Leader][ht - i] = mp[ht - i]
            BY <1>4, <3>2
        <3> QED BY <3>1, <3>3
    <2> QED BY <1>5, <2>1, <2>2
<1>9. NeverAborts'
    BY <1>1 DEF LeaderInv, NeverAborts
<1> QED BY <1>6, <1>7, <1>8, <1>9 DEF LeaderInv

LEMMA LeaderInvStep ==
    ASSUME SingleProposer, CoreInv, LeaderInv, [Next]_vars
    PROVE  LeaderInv'
<1>0. Leader \in Replica /\ Proposers = {Leader} /\ DOMAIN ht_blk_map = Replica
      /\ DOMAIN b_mark = Replica
    BY LeaderProposes DEF CoreInv, TypeOK
<1>1. CASE UNCHANGED vars
    BY <1>1, LeaderUntouched DEF vars
<1>2. ASSUME NEW r \in Replica, OnProposeNullParent(r) PROVE FALSE
    <2>1. r = Leader /\ ~ NoNullParent(Leader)
        BY <1>0, <1>2 DEF OnProposeNullParent
    <2>2. NoNullParent(Leader)
        BY <1>0 DEF LeaderInv, LeaderContiguous, NoNullParent, HasHeight
    <2> QED BY <2>1, <2>2
<1>3. ASSUME NEW r \in Replica, NEW b \in Hash, OnPropose(r, b) PROVE LeaderInv'
    BY <1>3, LeaderProposeStep
<1>4. ASSUME NEW r \in Replica, NEW b \in Hash, OnDeliverBlk(r, b) PROVE LeaderInv'
    BY <1>4, LeaderUntouched DEF OnDeliverBlk
<1>5. ASSUME NEW r \in Replica, NEW b \in Hash, OnReceiveProposal(r, b) PROVE LeaderInv'
    <2>1. b \in Known /\ ~ AlreadyHandled(r, b) /\ Update(r, b, Height(b))
          /\ UNCHANGED <<blocks, alive>>
        BY <1>5 DEF OnReceiveProposal, CoreInv, TypeOK
    <2>2. r # Leader
        BY <2>1 DEF LeaderInv, LeaderFiledAll
    <2>3. ht_blk_map'[Leader] = ht_blk_map[Leader] /\ b_mark'[Leader] = b_mark[Leader]
        BY <1>0, <2>1, <2>2 DEF Update
    <2> QED BY <2>1, <2>3, LeaderUntouched
<1>6. ASSUME NEW r \in Replica, NEW b \in Hash, CommitTimerCb(r, b) PROVE LeaderInv'
    BY <1>6, LeaderUntouched DEF CommitTimerCb
<1> QED BY <1>1, <1>2, <1>3, <1>4, <1>5, <1>6 DEF Next

\* The invariant of the core under one proposer.
THEOREM LeaderInvariant == SingleProposer => (Spec => [](CoreInv /\ LeaderInv))
<1> SUFFICES ASSUME SingleProposer PROVE Spec => [](CoreInv /\ LeaderInv)
    OBVIOUS
<1>1. Init => CoreInv /\ LeaderInv
    BY InitCoreInv, InitLeaderInv
<1>2. CoreInv /\ LeaderInv /\ [Next]_vars => (CoreInv /\ LeaderInv)'
    BY CoreInvStep, LeaderInvStep
<1> QED BY <1>1, <1>2, PTL DEF Spec

\* With one proposer no replica ever aborts in get_parents.
THEOREM NoAbort == SingleProposer => (Spec => []NeverAborts)
<1>1. LeaderInv => NeverAborts
    BY DEF LeaderInv
<1> QED BY <1>1, LeaderInvariant, PTL

\* Safety of the protocol with one proposer: whatever two replicas decide lies
\* on one chain of blocks.
THEOREM DecisionsOnOneChain == SingleProposer => (Spec => []OneChain)
<1>1. CoreInv /\ LeaderInv => OneChain
    <2> SUFFICES ASSUME CoreInv, LeaderInv,
                        NEW r \in Replica, NEW s \in Replica,
                        NEW b \in decision[r], NEW c \in decision[s]
                 PROVE  b = c \/ b \in Range(Parents(c)) \/ c \in Range(Parents(b))
        BY DEF OneChain
    <2> DEFINE mp == ht_blk_map[Leader]
    <2>1. \A x \in Known : /\ Height(x) \in Nat
                           /\ mp[Height(x)] = x
                           /\ Parents(x) = [i \in 1..Height(x) |-> mp[Height(x) - i]]
        BY DEF CoreInv, TypeOK, Block, LeaderInv, LeaderFiledAll, ParentsFiled,
               AlreadyHandled, Height
    <2>2. b \in Known /\ c \in Known
        BY DEF CoreInv, TypeOK
    <2>3. ASSUME NEW x \in Known, NEW y \in Known, Height(x) < Height(y)
          PROVE  x \in Range(Parents(y))
        <3>1. /\ Height(y) - Height(x) \in 1..Height(y)
              /\ Height(y) - (Height(y) - Height(x)) = Height(x)
            BY <2>1, <2>3
        <3>2. Parents(y)[Height(y) - Height(x)] = mp[Height(y) - (Height(y) - Height(x))]
            BY <2>1, <3>1
        <3>3. Height(y) - Height(x) \in DOMAIN Parents(y)
            BY <2>1, <3>1
        <3> QED BY <2>1, <3>1, <3>2, <3>3 DEF Range
    <2>4. CASE Height(b) = Height(c)
        BY <2>1, <2>2, <2>4
    <2>5. CASE Height(b) < Height(c)
        BY <2>2, <2>3, <2>5
    <2>6. CASE Height(c) < Height(b)
        BY <2>2, <2>3, <2>6
    <2> QED BY <2>1, <2>2, <2>4, <2>5, <2>6
<1> QED BY <1>1, LeaderInvariant, PTL

\* With one proposer get_parents returns a whole chain: the parents of a block
\* are its first parent followed by the parents of that block.
THEOREM ParentsChain == SingleProposer => (Spec => []ParentsAreChain)
<1> SUFFICES ASSUME SingleProposer PROVE Spec => []ParentsAreChain
    OBVIOUS
<1>1. CoreInv /\ LeaderInv => ParentsAreChain
    <2> SUFFICES ASSUME CoreInv, LeaderInv, NEW b \in Known \ {Genesis}
                 PROVE  /\ Height(b) = Height(Parents(b)[1]) + 1
                        /\ Parents(b) = <<Parents(b)[1]>> \o Parents(Parents(b)[1])
        BY DEF ParentsAreChain
    <2> DEFINE mp == ht_blk_map[Leader]
               ht == Height(b)
               p == Parents(b)[1]
    <2>1. \A x \in Known : /\ Height(x) \in DOMAIN mp
                           /\ mp[Height(x)] = x
                           /\ Parents(x) = [i \in 1..Height(x) |-> mp[Height(x) - i]]
        BY DEF LeaderInv, LeaderFiledAll, ParentsFiled, AlreadyHandled, HasHeight
    <2>2. ht \in Nat /\ ht > 0
        BY DEF CoreInv, TypeOK, BlocksOK, Block, Height
    <2>3. ht - 1 \in DOMAIN mp
        <3>1. /\ Leader \in Replica /\ DOMAIN mp = 0..Height(b_mark[Leader])
              /\ ht \in DOMAIN mp
            BY <2>1, LeaderProposes DEF LeaderInv, LeaderContiguous
        <3>2. Height(b_mark[Leader]) \in Nat
            BY <3>1 DEF CoreInv, TypeOK, Block, Height
        <3> QED BY <2>2, <3>1, <3>2
    <2>4. p = mp[ht - 1]
        BY <2>1, <2>2
    <2>5. p \in Known /\ Height(p) = ht - 1
        BY <2>3, <2>4, LeaderProposes DEF CoreInv, TypeOK, MapOK
    <2>6. /\ Parents(b) = [i \in 1..ht |-> mp[ht - i]]
          /\ Parents(p) = [i \in 1..(ht - 1) |-> mp[(ht - 1) - i]]
        BY <2>1, <2>5
    <2>7. /\ Parents(b) \in Seq(Hash) /\ Len(Parents(b)) = ht
          /\ Parents(p) \in Seq(Hash) /\ Len(Parents(p)) = ht - 1
          /\ <<p>> \in Seq(Hash) /\ Len(<<p>>) = 1 /\ <<p>>[1] = p
        <3>1. \A x \in Known : Parents(x) \in Seq(Hash) /\ x \in Hash
            BY DEF CoreInv, TypeOK, Block, Parents, Known
        <3>2. Parents(b) \in Seq(Hash) /\ Parents(p) \in Seq(Hash) /\ p \in Hash
            BY <2>5, <3>1
        <3>3. DOMAIN Parents(b) = 1..ht /\ DOMAIN Parents(p) = 1..(ht - 1)
            BY <2>6
        <3> QED BY <2>2, <3>2, <3>3
    <2> HIDE DEF mp, ht, p
    <2>8. DOMAIN (<<p>> \o Parents(p)) = 1..ht /\ DOMAIN Parents(b) = 1..ht
        BY <2>2, <2>7
    <2>9. ASSUME NEW i \in 1..ht PROVE (<<p>> \o Parents(p))[i] = Parents(b)[i]
        <3>1. CASE i = 1
            BY <2>2, <2>4, <2>6, <2>7, <3>1
        <3>2. CASE i # 1
            <4>1. i - 1 \in 1..(ht - 1) /\ (ht - 1) - (i - 1) = ht - i
                BY <2>2, <2>9, <3>2
            <4>2. (<<p>> \o Parents(p))[i] = Parents(p)[i - 1]
                BY <2>2, <2>7, <2>9, <3>2
            <4>3. Parents(p)[i - 1] = mp[(ht - 1) - (i - 1)]
                BY <2>6, <4>1
            <4>4. Parents(b)[i] = mp[ht - i]
                BY <2>6, <2>9
            <4> QED BY <4>1, <4>2, <4>3, <4>4
        <3> QED BY <3>1, <3>2
    <2>10. <<p>> \o Parents(p) \in Seq(Hash)
        BY <2>7
    <2> QED BY <2>2, <2>5, <2>7, <2>8, <2>9, <2>10 DEF ht, p
<1> QED BY <1>1, LeaderInvariant, PTL

-----------------------------------------------------------------------------
(* Refinement: one proposer implements the replicated log.                  *)

\* The entries of the log are the blocks proposed so far.
LEMMA FiledLogFacts ==
    ASSUME SingleProposer, CoreInv, LeaderInv
    PROVE  /\ Height(b_mark[Leader]) \in Nat
           /\ FiledLog \in Seq(Hash)
           /\ Len(FiledLog) = Height(b_mark[Leader])
           /\ Range(FiledLog) = Known \ {Genesis}
<1> DEFINE top == Height(b_mark[Leader])
           mp == ht_blk_map[Leader]
<1>1. /\ Leader \in Replica
      /\ \A h \in DOMAIN mp : mp[h] \in Known /\ Height(mp[h]) = h
      /\ Known \subseteq Hash
    BY LeaderProposes DEF CoreInv, TypeOK, MapOK, Known
<1>2. top \in Nat /\ DOMAIN mp = 0..top
    BY <1>1 DEF CoreInv, TypeOK, Block, Height, LeaderInv, LeaderContiguous
<1>3. \A b \in Known : Height(b) \in DOMAIN mp /\ mp[Height(b)] = b
    BY DEF LeaderInv, LeaderFiledAll, AlreadyHandled, HasHeight
<1>4. Height(Genesis) = 0 /\ \A b \in Known \ {Genesis} : Height(b) > 0
    BY DEF CoreInv, BlocksOK
<1>5. FiledLog = [i \in 1..top |-> mp[i]]
    BY DEF FiledLog
<1> HIDE DEF top, mp
<1>6. \A i \in 1..top : mp[i] \in Known \ {Genesis}
    <2>1. \A i \in 1..top : i \in DOMAIN mp /\ i # 0
        BY <1>2
    <2> QED BY <1>1, <1>4, <2>1
<1>7. \A b \in Known \ {Genesis} : Height(b) \in 1..top
    BY <1>2, <1>3, <1>4
<1>8. FiledLog \in Seq(Hash) /\ Len(FiledLog) = top
    BY <1>1, <1>2, <1>5, <1>6
<1>9. Range(FiledLog) = Known \ {Genesis}
    BY <1>3, <1>5, <1>6, <1>7 DEF Range
<1> QED BY <1>2, <1>8, <1>9 DEF top

\* on_propose appends a fresh entry to the log.
LEMMA ProposeAppends ==
    ASSUME SingleProposer, CoreInv, LeaderInv, CoreInv', LeaderInv',
           NEW r \in Replica, NEW b \in Hash, OnPropose(r, b)
    PROVE  FiledLog' = Append(FiledLog, b) /\ b \notin Range(FiledLog)
<1> DEFINE top == Height(b_mark[Leader])
           mp == ht_blk_map[Leader]
<1>1. /\ top \in Nat /\ b \notin Known
      /\ blocks'[b].height = top + 1
      /\ ht_blk_map'[Leader] = Put(mp, top + 1, b)
      /\ b_mark'[Leader] = b
    <2>1. /\ top \in Nat /\ b \notin Known
          /\ blocks' = Put(blocks, b, [proposer |-> r, height |-> top + 1,
                                      parents |-> GetParents(r)])
          /\ ht_blk_map'[Leader] = Put(mp, top + 1, b)
          /\ b_mark'[Leader] = b
        BY LeaderProposeFacts
    <2> QED BY <2>1 DEF Put
<1>2. DOMAIN mp = 0..top
    BY DEF LeaderInv, LeaderContiguous
<1>3. FiledLog = [i \in 1..top |-> mp[i]] /\ FiledLog \in Seq(Hash) /\ Len(FiledLog) = top
    BY FiledLogFacts DEF FiledLog
<1>4. FiledLog' = [i \in 1..(top + 1) |-> Put(mp, top + 1, b)[i]]
    BY <1>1 DEF FiledLog, Height
<1>5. b \notin Range(FiledLog)
    BY <1>1, FiledLogFacts
<1> HIDE DEF top, mp
<1>6. \A i \in 1..(top + 1) : Put(mp, top + 1, b)[i] = IF i = top + 1 THEN b ELSE mp[i]
    BY <1>1, <1>2 DEF Put
<1>7. \A i \in 1..(top + 1) : Append(FiledLog, b)[i] = IF i = top + 1 THEN b ELSE mp[i]
    BY <1>1, <1>3
<1>8. /\ Append(FiledLog, b) \in Seq(Hash)
      /\ Len(Append(FiledLog, b)) = top + 1
    BY <1>1, <1>3
<1>9. Append(FiledLog, b) = [i \in 1..(top + 1) |-> Append(FiledLog, b)[i]]
    <2> DEFINE f == Append(FiledLog, b)
    <2>1. f \in Seq(Hash) /\ Len(f) = top + 1
        BY <1>8
    <2> HIDE DEF f
    <2>2. f = [i \in 1..(top + 1) |-> f[i]]
        BY <2>1
    <2> QED BY <2>2 DEF f
<1> QED BY <1>4, <1>5, <1>6, <1>7, <1>9

\* The protocol with one proposer implements ReplicatedLog: one log, only ever
\* appended to, each entry executed at most once by each replica.
THEOREM RefinesLog == SingleProposer => (Spec => ImplementsLog)
<1> SUFFICES ASSUME SingleProposer PROVE Spec => ImplementsLog
    OBVIOUS
<1>1. Init => Log!LogInit
    <2> SUFFICES ASSUME Init PROVE Log!LogInit
        OBVIOUS
    <2>1. Height(b_mark[Leader]) = 0
        BY LeaderProposes DEF Init, Height, GenesisBlock
    <2>2. FiledLog = <<>>
        BY <2>1 DEF FiledLog
    <2> QED BY <2>2 DEF Init, Log!LogInit
<1>2. CoreInv /\ LeaderInv /\ [Next]_vars => [Log!LogNext]_(Log!logVars)
    <2> SUFFICES ASSUME CoreInv, LeaderInv, [Next]_vars
                 PROVE  Log!LogNext \/ UNCHANGED <<FiledLog, executed>>
        BY DEF Log!logVars
    <2>1. CoreInv' /\ LeaderInv' /\ Leader \in Replica
        BY CoreInvStep, LeaderInvStep, LeaderProposes
    <2>2. CASE UNCHANGED vars
        BY <2>2 DEF vars, FiledLog, Height
    <2>3. ASSUME NEW r \in Replica, OnProposeNullParent(r)
          PROVE  UNCHANGED <<FiledLog, executed>>
        BY <2>3 DEF OnProposeNullParent, FiledLog, Height
    <2>4. ASSUME NEW r \in Replica, NEW b \in Hash, OnPropose(r, b)
          PROVE  Log!LogNext
        <3>1. FiledLog' = Append(FiledLog, b) /\ b \notin Range(FiledLog)
            BY <2>1, <2>4, ProposeAppends
        <3>2. b # Genesis /\ UNCHANGED executed
            BY <2>4 DEF OnPropose, CoreInv, BlocksOK
        <3>3. Log!Propose(b)
            BY <3>1, <3>2 DEF Log!Propose, Log!Range, Range
        <3> QED BY <3>2, <3>3 DEF Log!LogNext
    <2>5. ASSUME NEW r \in Replica, NEW b \in Hash, OnDeliverBlk(r, b)
          PROVE  UNCHANGED <<FiledLog, executed>>
        BY <2>5 DEF OnDeliverBlk, FiledLog, Height
    <2>6. ASSUME NEW r \in Replica, NEW b \in Hash, OnReceiveProposal(r, b)
          PROVE  UNCHANGED <<FiledLog, executed>>
        <3>1. b \in Known /\ ~ AlreadyHandled(r, b) /\ Update(r, b, Height(b))
              /\ UNCHANGED <<blocks, executed>>
            BY <2>6 DEF OnReceiveProposal, CoreInv, TypeOK
        <3>2. r # Leader
            BY <3>1 DEF LeaderInv, LeaderFiledAll
        <3>3. ht_blk_map'[Leader] = ht_blk_map[Leader] /\ b_mark'[Leader] = b_mark[Leader]
            BY <2>1, <3>1, <3>2 DEF Update, CoreInv, TypeOK
        <3> QED BY <3>1, <3>3 DEF FiledLog, Height
    <2>7. ASSUME NEW r \in Replica, NEW b \in Hash, CommitTimerCb(r, b)
          PROVE  Log!LogNext
        <3>1. b \in commit_timer[r]
            BY <2>7 DEF CommitTimerCb
        <3>2. b \notin decision[r] /\ b \in Known /\ ht_blk_map[r][Height(b)] = b
            BY <3>1, TimerFindsItsBlock
        <3>3. executed' = [executed EXCEPT ![r] = Append(@, b)]
              /\ UNCHANGED <<blocks, b_mark, ht_blk_map>>
            BY <2>7, <3>2 DEF CommitTimerCb
        <3>4. b # Genesis /\ b \notin Range(executed[r])
            BY <3>2 DEF CoreInv, BlocksOK, ExecutedOnce
        <3>5. b \in Range(FiledLog)
            BY <3>2, <3>4, FiledLogFacts
        <3>6. FiledLog' = FiledLog
            BY <3>3 DEF FiledLog, Height
        <3>7. Log!Execute(r, b)
            BY <3>3, <3>4, <3>5, <3>6 DEF Log!Execute, Log!Range, Range
        <3> QED BY <3>4, <3>7 DEF Log!LogNext
    <2> QED BY <2>2, <2>3, <2>4, <2>5, <2>6, <2>7 DEF Next
<1> QED BY <1>1, <1>2, LeaderInvariant, PTL DEF Spec, ImplementsLog, Log!LogSpec

=============================================================================
