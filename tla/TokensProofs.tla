---------------------------- MODULE TokensProofs ----------------------------
(* The documents of a token and of its holders, for every number of         *)
(* accounts, of miners, of blocks and of restarts, and whatever the blocks  *)
(* do to the token: they are never older than what is indexed.              *)
EXTENDS Tokens, WellFoundedInduction, SequenceTheorems, TLAPS

(* The largest element of a set of heights.                                 *)
LEMMA MaxOfHeights ==
    ASSUME NEW n \in Nat, NEW S \in SUBSET (0..n), S # {}
    PROVE  Max(S) \in S /\ \A x \in S : Max(S) >= x
<1> DEFINE T == {n - x : x \in S}
<1>1. T \subseteq Nat /\ T # {}
  <2>1. \A x \in S : n - x \in Nat
    OBVIOUS
  <2>2. PICK x \in S : TRUE
    OBVIOUS
  <2>3. n - x \in T
    OBVIOUS
  <2> QED
    BY <2>1, <2>3
<1>2. PICK t \in T : \A y \in T : ~ (<<y, t>> \in OpToRel(<, Nat))
  <2> HIDE DEF T
  <2> QED
    BY <1>1, NatLessThanWellFounded, WFMin
<1>3. \A y \in T : ~ (y < t)
  BY <1>1, <1>2 DEF OpToRel
<1>4. PICK x \in S : t = n - x
  BY <1>2
<1>5. \A y \in S : x >= y
  <2>1. SUFFICES ASSUME NEW y \in S PROVE x >= y
    OBVIOUS
  <2>2. n - y \in T
    OBVIOUS
  <2>3. ~ (n - y < n - x)
    BY <1>3, <1>4, <2>2
  <2> QED
    BY <2>3
<1> QED
  BY <1>4, <1>5 DEF Max


(* What the node answers is as of its best block: not older than any block  *)
(* that changed the item (QueryBalanceOf, QueryTotalSupply).                *)
LEMMA AnswerLatest ==
    ASSUME best \in Heights, MaxHeight \in Nat, NEW item
    PROVE  /\ Answer(item) \in 0..MaxHeight
           /\ \A h \in 1..best : Changes(h, item) => Answer(item) >= h
<1> DEFINE S == {0} \cup {h \in 1..best : Changes(h, item)}
<1>1. S \in SUBSET (0..MaxHeight) /\ S # {}
  BY DEF Heights
<1>2. Max(S) \in S /\ \A x \in S : Max(S) >= x
  <2> HIDE DEF S
  <2> QED
    BY <1>1, MaxOfHeights
<1> QED
  BY <1>1, <1>2 DEF Answer

(* What a miner still has to do loses its head.                             *)
LEMMA TodoTail ==
    ASSUME NEW s \in Seq(Items), s # <<>>
    PROVE  /\ Head(s) \in Items /\ Tail(s) \in Seq(Items)
           /\ ToSet(s) \subseteq {Head(s)} \cup ToSet(Tail(s))
           /\ Head(s) \in ToSet(s)
<1>1. Head(s) \in Items /\ Tail(s) \in Seq(Items)
  BY HeadTailProperties
<1>2. /\ Len(s) \in Nat \ {0} /\ DOMAIN s = 1..Len(s)
      /\ Len(Tail(s)) = Len(s) - 1 /\ Head(s) = s[1]
      /\ \A j \in 1..Len(s)-1 : Tail(s)[j] = s[j+1]
  BY LenProperties, HeadTailProperties, EmptySeq
<1>3. DOMAIN Tail(s) = 1..Len(s)-1
  BY <1>1, <1>2, LenProperties
<1>4. ASSUME NEW i \in DOMAIN s
      PROVE  s[i] \in {Head(s)} \cup ToSet(Tail(s))
  <2>1. CASE i = 1
    BY <1>2, <2>1
  <2>2. CASE i # 1
    <3>1. i - 1 \in DOMAIN Tail(s) /\ Tail(s)[i-1] = s[i]
      BY <1>2, <1>3, <2>2
    <3> QED
      BY <3>1 DEF ToSet
  <2> QED
    BY <2>1, <2>2
<1>5. Head(s) \in ToSet(s)
  BY <1>2 DEF ToSet
<1> QED
  BY <1>1, <1>4, <1>5 DEF ToSet

(* The events of a chain, as what they make a miner do.                     *)
LEMMA EventItems ==
    ASSUME event \in Chains, NEW h \in Heights
    PROVE  /\ event[h] \in Seq(Items)
           /\ event[h] \in Creation => "token" \in ToSet(event[h])
           /\ Changes(h, "supply") =>
                "token" \in ToSet(event[h]) \/ "supply" \in ToSet(event[h])
<1>1. event[h] \in {Nothing} \cup Creation \cup Supplying \cup Transfers
  BY DEF Chains
<1>2. event[h] \in Seq(Items)
  <2>1. CASE event[h] = Nothing
    BY <2>1 DEF Nothing
  <2>2. \A x, y \in Items : <<x>> \in Seq(Items) /\ <<x, y>> \in Seq(Items)
    OBVIOUS
  <2>3. CASE event[h] \in Creation \cup Supplying
    BY <2>2, <2>3 DEF Creation, Supplying, Items
  <2>4. CASE event[h] \in {<<a>> : a \in Accounts}
    BY <2>2, <2>4 DEF Items
  <2>5. CASE event[h] \in {s \in Accounts \X Accounts : s[1] # s[2]}
    <3>1. PICK x, y \in Accounts : event[h] = <<x, y>>
      BY <2>5
    <3> QED
      BY <2>2, <3>1 DEF Items
  <2> QED
    BY <1>1, <2>1, <2>3, <2>4, <2>5 DEF Transfers
<1>3. ASSUME event[h] \in Creation
      PROVE  "token" \in ToSet(event[h])
  <2>1. PICK a \in Accounts : event[h] = <<"token", a>>
    BY <1>3 DEF Creation
  <2> QED
    BY <2>1 DEF ToSet
<1>4. ASSUME event[h] \in Supplying
      PROVE  "supply" \in ToSet(event[h])
  <2>1. PICK a \in Accounts : event[h] = <<"supply", a>>
    BY <1>4 DEF Supplying
  <2> QED
    BY <2>1 DEF ToSet
<1>5. "supply" \notin Accounts
  BY TokensAssumption
<1> QED
  BY <1>2, <1>3, <1>4, <1>5 DEF Changes

LEMMA Parameters ==
    /\ StartHeight \in Nat \ {0} /\ MaxHeight \in Nat /\ StartHeight \in Heights
    /\ Sync \in Miners /\ Sync \notin BulkMiners /\ BulkMiners \subseteq Miners
    /\ "token" \notin Accounts /\ "supply" \notin Accounts
    /\ None \notin Nat /\ None \notin [whole : BOOLEAN, supply : Nat]
BY TokensAssumption DEF Miners, Heights

-----------------------------------------------------------------------------
(* Types.                                                                   *)

LEMMA TypeInit == Init => TypeOK
<1> SUFFICES ASSUME Init PROVE TypeOK
  OBVIOUS
<1> USE Parameters DEF Init, Heights
<1>1. best \in Heights /\ event \in Chains /\ best = StartHeight
  OBVIOUS
<1>2. TypeRun
  BY DEF TypeRun
<1>3. TypeMiner
  BY DEF TypeMiner
<1>4. TypeDb
  BY DEF TypeDb
<1> QED
  BY <1>1, <1>2, <1>3, <1>4 DEF TypeOK

LEMMA TypeOutside ==
    ASSUME TypeOK, NodeExtend \/ Check \/ Restart
    PROVE  TypeOK'
<1> USE Parameters DEF nodeVars, runVars, minerVars, dbVars, history
<1>1. CASE NodeExtend
  <2>1. best' \in Heights /\ best' = best + 1
    BY <1>1 DEF NodeExtend, TypeOK, Heights
  <2>2. TypeRun'
    BY <1>1, <2>1 DEF NodeExtend, TypeOK, TypeRun, Heights
  <2>3. TypeMiner'
    BY <1>1, <2>1 DEF NodeExtend, TypeOK, TypeMiner, Heights, Item
  <2>4. TypeDb'
    BY <1>1, <2>1 DEF NodeExtend, TypeOK, TypeDb, Heights
  <2> QED
    BY <1>1, <2>1, <2>2, <2>3, <2>4 DEF NodeExtend, TypeOK
<1>2. CASE Check
  <2>1. TypeRun'
    BY <1>2 DEF Check, TypeOK, TypeRun, Heights
  <2>2. TypeMiner' /\ TypeDb'
    BY <1>2 DEF Check, TypeOK, TypeMiner, TypeDb, Item
  <2> QED
    BY <1>2, <2>1, <2>2 DEF Check, TypeOK
<1>3. CASE Restart
  <2>1. TypeRun'
    BY <1>3 DEF Restart, TypeOK, TypeRun, Heights
  <2>2. TypeMiner' /\ TypeDb'
    BY <1>3 DEF Restart, TypeOK, TypeMiner, TypeDb
  <2> QED
    BY <1>3, <2>1, <2>2 DEF Restart, TypeOK
<1> QED
  BY <1>1, <1>2, <1>3

(* A height is taken.                                                       *)
LEMMA TypeTake ==
    ASSUME TypeOK, NEW m \in Miners, NEW h \in 1..best, Take(m, h), best' = best
    PROVE  TypeMiner'
<1>1. h \in Heights /\ h \in 0..MaxHeight
  BY Parameters DEF TypeOK, Heights
<1>2. event[h] \in Seq(Items)
  BY <1>1, EventItems DEF TypeOK
<1>3. /\ pc' = [pc EXCEPT ![m] = "event"] /\ height' = [height EXCEPT ![m] = h]
      /\ todo' = [todo EXCEPT ![m] = event[h]] /\ answer' = answer
  BY DEF Take, Goto
<1> QED
  BY <1>1, <1>2, <1>3 DEF TypeOK, TypeMiner, Item

(* An item is done.                                                         *)
LEMMA TypeWritten ==
    ASSUME TypeOK, NEW m \in Miners, todo[m] # <<>>, pc[m] # "idle", Written(m),
           UNCHANGED <<best, height>>
    PROVE  TypeMiner'
<1>1. Tail(todo[m]) \in Seq(Items)
  BY TodoTail DEF TypeOK, TypeMiner
<1>2. /\ pc' = [pc EXCEPT ![m] = "event"] /\ answer' = [answer EXCEPT ![m] = 0]
      /\ todo' = [todo EXCEPT ![m] = Tail(todo[m])]
  BY DEF Written, Goto
<1> QED
  BY <1>1, <1>2, Parameters DEF TypeOK, TypeMiner, Item

LEMMA TypeMinerStep ==
    ASSUME TypeOK, NEW m \in Miners, MinerStep(m)
    PROVE  TypeOK'
<1> USE Parameters DEF nodeVars, runVars, minerVars, dbVars, history
<1>1. CASE TakeBulk(m)
  <2>1. Max(toCheck) \in toCheck
    <3>1. toCheck \in SUBSET (0..MaxHeight) /\ toCheck # {}
      BY <1>1 DEF TakeBulk, TypeOK, TypeRun, Heights
    <3> QED
      BY <3>1, MaxOfHeights
  <2>2. Max(toCheck) \in 1..best
    BY <2>1 DEF TypeOK, TypeRun
  <2>3. Take(m, Max(toCheck)) /\ best' = best
    BY <1>1 DEF TakeBulk
  <2>4. TypeMiner'
    BY <2>2, <2>3, TypeTake
  <2>5. TypeRun' /\ TypeDb'
    BY <1>1 DEF TakeBulk, TypeOK, TypeRun, TypeDb
  <2> QED
    BY <1>1, <2>4, <2>5 DEF TakeBulk, TypeOK
<1>2. CASE TakeSync(m)
  <2>1. nextSync \in 1..best
    BY <1>2 DEF TakeSync, TypeOK, TypeRun, Heights
  <2>2. Take(m, nextSync) /\ best' = best
    BY <1>2 DEF TakeSync
  <2>3. TypeMiner'
    BY <2>1, <2>2, TypeTake
  <2>4. TypeRun' /\ TypeDb'
    BY <1>2, <2>1 DEF TakeSync, TypeOK, TypeRun, TypeDb, Heights
  <2> QED
    BY <1>2, <2>3, <2>4 DEF TakeSync, TypeOK
<1>3. CASE Ask(m)
  <2>1. Answer(Item(m)) \in 0..MaxHeight /\ 0 \in 0..MaxHeight
    BY AnswerLatest DEF TypeOK
  <2>2. PICK ok \in BOOLEAN :
          answer' = [answer EXCEPT ![m] = IF ok THEN Answer(Item(m)) ELSE 0]
    BY <1>3 DEF Ask
  <2>3. answer' \in [Miners -> 0..MaxHeight]
    BY <2>1, <2>2 DEF TypeOK, TypeMiner
  <2>4. TypeMiner'
    BY <1>3, <2>3 DEF Ask, Goto, TypeOK, TypeMiner, Item
  <2> QED
    BY <1>3, <2>4 DEF Ask, TypeOK, TypeRun, TypeDb
<1>4. CASE NoTokenInfo(m) \/ NoOwner(m)
  <2>1. GiveUp(m)
    BY <1>4 DEF NoTokenInfo, NoOwner
  <2>2. TypeMiner'
    BY <2>1 DEF GiveUp, TypeOK, TypeMiner, Item
  <2> QED
    BY <2>1, <2>2 DEF GiveUp, TypeOK, TypeRun, TypeDb
<1>5. CASE AddToken(m) \/ UpdateToken(m)
  <2>1. TypeMiner'
    BY <1>5, TypeWritten DEF AddToken, UpdateToken, TypeOK, TypeMiner
  <2>2. token' \in [whole : BOOLEAN, supply : 0..MaxHeight]
    <3>1. answer[m] \in 0..MaxHeight
      BY DEF TypeOK, TypeMiner
    <3>2. (token # None /\ token.whole) \in BOOLEAN
      BY DEF TypeOK, TypeDb
    <3>3. \A w \in BOOLEAN : [whole |-> w, supply |-> answer[m]]
                                \in [whole : BOOLEAN, supply : 0..MaxHeight]
      BY <3>1
    <3>4. CASE AddToken(m)
      BY <3>3, <3>4 DEF AddToken
    <3>5. CASE UpdateToken(m)
      BY <3>2, <3>3, <3>5 DEF UpdateToken
    <3> QED
      BY <1>5, <3>4, <3>5
  <2>3. TypeRun' /\ TypeDb'
    BY <1>5, <2>2 DEF AddToken, UpdateToken, TypeOK, TypeRun, TypeDb
  <2> QED
    BY <1>5, <2>1, <2>2, <2>3 DEF AddToken, UpdateToken, TypeOK
<1>6. CASE InsertAccount(m)
  <2>1. TypeMiner'
    BY <1>6, TypeWritten DEF InsertAccount, TypeOK, TypeMiner
  <2>2. TypeDb'
    BY <1>6 DEF InsertAccount, TypeOK, TypeMiner, TypeDb
  <2>3. TypeRun'
    BY <1>6 DEF InsertAccount, TypeOK, TypeRun
  <2> QED
    BY <1>6, <2>1, <2>2, <2>3 DEF InsertAccount, TypeOK
<1>7. CASE LoadAccToken(m)
  <2>1. ASSUME Item(m) \in accToken PROVE TypeMiner'
    BY <1>7, <2>1, TypeWritten DEF LoadAccToken, TypeOK, TypeMiner
  <2>2. ASSUME Item(m) \notin accToken PROVE TypeMiner'
    BY <1>7, <2>2 DEF LoadAccToken, Goto, TypeOK, TypeMiner, Item
  <2>3. TypeMiner'
    BY <2>1, <2>2
  <2>4. TypeRun' /\ TypeDb'
    BY <1>7 DEF LoadAccToken, TypeOK, TypeRun, TypeDb
  <2> QED
    BY <1>7, <2>3, <2>4 DEF LoadAccToken, TypeOK
<1>8. CASE SendAccount(m)
  <2>1. Item(m) \in Accounts /\ answer[m] \in 0..MaxHeight
    BY <1>8 DEF SendAccount, TypeOK, TypeMiner
  <2>2. TypeMiner'
    BY <1>8, TypeWritten DEF SendAccount, TypeOK, TypeMiner
  <2>3. TypeRun' /\ TypeDb'
    BY <1>8, <2>1 DEF SendAccount, TypeOK, TypeRun, TypeDb
  <2> QED
    BY <1>8, <2>2, <2>3 DEF SendAccount, TypeOK
<1>9. CASE AddBlock(m)
  <2>1. height[m] \in 1..best
    BY <1>9 DEF AddBlock, TypeOK, TypeMiner
  <2>2. TypeMiner'
    BY <1>9 DEF AddBlock, Goto, TypeOK, TypeMiner, Item
  <2>3. TypeRun' /\ TypeDb'
    BY <1>9, <2>1 DEF AddBlock, TypeOK, TypeRun, TypeDb
  <2> QED
    BY <1>9, <2>2, <2>3 DEF AddBlock, TypeOK
<1>10. CASE WriteFails(m)
  <2>1. TypeMiner'
    BY <1>10, TypeWritten DEF WriteFails, TypeOK, TypeMiner
  <2> QED
    BY <1>10, <2>1 DEF WriteFails, TypeOK, TypeRun, TypeDb
<1> QED
  BY <1>1, <1>2, <1>3, <1>4, <1>5, <1>6, <1>7, <1>8, <1>9, <1>10 DEF MinerStep

LEMMA TypeCommit ==
    ASSUME TypeOK, CommitAccounts \/ CommitBlocks
    PROVE  TypeOK'
<1> USE DEF nodeVars, runVars, minerVars, dbVars, history
<1>1. CASE CommitAccounts
  <2>1. ASSUME NEW a \in Accounts
        PROVE  Created(a) \subseteq (0..MaxHeight) \cup {None}
    BY DEF Created, TypeOK, TypeRun, TypeDb
  <2>2. account' \in [Accounts -> (0..MaxHeight) \cup {None}]
    BY <1>1, <2>1 DEF CommitAccounts
  <2> QED
    BY <1>1, <2>2 DEF CommitAccounts, TypeOK, TypeRun, TypeMiner, TypeDb, Item
<1>2. CASE CommitBlocks
  BY <1>2 DEF CommitBlocks, TypeOK, TypeRun, TypeMiner, TypeDb, Item
<1> QED
  BY <1>1, <1>2

LEMMA TypeNext == TypeOK /\ [Next]_vars => TypeOK'
<1> SUFFICES ASSUME TypeOK, [Next]_vars PROVE TypeOK'
  OBVIOUS
<1>1. CASE UNCHANGED vars
  BY <1>1 DEF vars, nodeVars, runVars, minerVars, dbVars, history,
              TypeOK, TypeRun, TypeMiner, TypeDb, Item
<1> QED
  BY <1>1, TypeOutside, TypeMinerStep, TypeCommit DEF Next

(* Every variable keeps its type: what is queried, collected and written is *)
(* a height or no answer at all, and a height is written about only once    *)
(* the node has it (Miner, QueryBalanceOf).                                 *)
THEOREM TokensTypeCorrect == Spec => []TypeOK
BY TypeInit, TypeNext, PTL DEF Spec

-----------------------------------------------------------------------------
(* The holdings.                                                            *)

LEMMA HoldingInit == Init => HoldingInv
BY Parameters DEF Init, HoldingInv, HoldingFresh, Busy

(* What the stream has written and is about to write is left alone.         *)
LEMMA HoldingQuiet ==
    ASSUME HoldingInv, UNCHANGED <<event, account, bySync>>, lost \subseteq lost',
           pc'[Sync] = pc[Sync], height'[Sync] = height[Sync],
           todo'[Sync] = todo[Sync], answer'[Sync] = answer[Sync]
    PROVE  HoldingInv'
<1>1. HoldingFresh'
  BY DEF HoldingInv, HoldingFresh, Touches, Fresh
<1> QED
  BY <1>1 DEF HoldingInv, Busy, Touches, Fresh, Due, Item

(* The miners of the check do not write the documents of accounts.          *)
LEMMA HoldingBulk ==
    ASSUME TypeOK, HoldingInv, NEW m \in BulkMiners, MinerStep(m)
    PROVE  HoldingInv'
<1> USE DEF nodeVars, runVars, minerVars, dbVars, history
<1>1. m \in Miners /\ m # Sync /\ Sync \in Miners
  BY Parameters
<1>2. /\ DOMAIN pc = Miners /\ DOMAIN height = Miners
      /\ DOMAIN todo = Miners /\ DOMAIN answer = Miners
  BY DEF TypeOK, TypeMiner
<1>3. UNCHANGED <<event, account, bySync>> /\ lost \subseteq lost'
  BY <1>1 DEF MinerStep, TakeBulk, TakeSync, Ask, NoTokenInfo, NoOwner, GiveUp, Lose,
         WriteFails, AddToken, UpdateToken, InsertAccount, LoadAccToken, SendAccount, AddBlock
<1>4. /\ pc'[Sync] = pc[Sync] /\ height'[Sync] = height[Sync]
      /\ todo'[Sync] = todo[Sync] /\ answer'[Sync] = answer[Sync]
  <2>1. CASE TakeBulk(m)
    BY <1>1, <1>2, <2>1 DEF TakeBulk, Take, Goto
  <2>2. CASE Ask(m) \/ GiveUp(m)
    BY <1>1, <1>2, <2>2 DEF Ask, GiveUp, Goto
  <2>3. ASSUME Written(m), height' = height
        PROVE  /\ pc'[Sync] = pc[Sync] /\ height'[Sync] = height[Sync]
               /\ todo'[Sync] = todo[Sync] /\ answer'[Sync] = answer[Sync]
    BY <1>1, <1>2, <2>3 DEF Written, Goto
  <2>4. CASE AddBlock(m)
    BY <1>1, <1>2, <2>4 DEF AddBlock, Goto
  <2>5. CASE LoadAccToken(m) /\ ~Written(m)
    BY <1>1, <1>2, <2>5 DEF LoadAccToken, Goto
  <2> QED
    BY <1>1, <2>1, <2>2, <2>3, <2>4, <2>5
       DEF MinerStep, TakeSync, NoTokenInfo, NoOwner, InsertAccount, AddToken,
           UpdateToken, WriteFails, LoadAccToken, SendAccount
<1> QED
  BY <1>3, <1>4, HoldingQuiet

LEMMA HoldingSync ==
    ASSUME TypeOK, HoldingInv, MinerStep(Sync)
    PROVE  HoldingInv'
<1> USE DEF nodeVars, runVars, minerVars, dbVars, history
<1>1. Sync \in Miners /\ Sync \notin BulkMiners
  BY Parameters
<1>2. /\ DOMAIN pc = Miners /\ DOMAIN height = Miners
      /\ DOMAIN todo = Miners /\ DOMAIN answer = Miners
      /\ todo[Sync] \in Seq(Items) /\ DOMAIN account = Accounts
      /\ answer[Sync] \in 0..MaxHeight /\ MaxHeight \in Nat
  BY <1>1, Parameters DEF TypeOK, TypeMiner, TypeDb
<1>3. pc[Sync] \in {"write", "store"} => todo[Sync] # <<>>
  BY <1>1 DEF TypeOK, TypeMiner
<1>4. CASE TakeSync(Sync)
  <2>1. /\ UNCHANGED <<event, account, bySync, lost>>
        /\ pc'[Sync] = "event" /\ height'[Sync] = nextSync
        /\ todo'[Sync] = event[nextSync]
    BY <1>1, <1>2, <1>4 DEF TakeSync, Take, Goto
  <2>2. HoldingFresh'
    BY <2>1 DEF HoldingInv, HoldingFresh, Touches, Fresh
  <2> QED
    BY <2>1, <2>2 DEF HoldingInv, Touches, Due
<1>5. CASE Ask(Sync)
  <2>1. /\ UNCHANGED <<event, account, bySync, lost, height, todo>>
        /\ pc[Sync] = "event" /\ pc'[Sync] = "write"
        /\ answer'[Sync] \in {Answer(Item(Sync)), 0}
    BY <1>1, <1>2, <1>5 DEF Ask, Goto
  <2>2. \A h \in 1..best : Changes(h, Item(Sync)) => Answer(Item(Sync)) >= h
    BY AnswerLatest, Parameters DEF TypeOK
  <2>3. bySync \cup {height[Sync]} \subseteq 1..best
    BY <1>1, <2>1 DEF TypeOK, TypeMiner, TypeDb
  <2>4. ASSUME Item(Sync) \in Accounts,
               NEW h \in bySync \cup {height[Sync]}, Touches(h, Item(Sync))
        PROVE  answer'[Sync] = 0 \/ answer'[Sync] >= h
    <3>1. Changes(h, Item(Sync))
      BY <2>4 DEF Changes
    <3> QED
      BY <2>1, <2>2, <2>3, <3>1
  <2>5. HoldingFresh'
    BY <2>1 DEF HoldingInv, HoldingFresh, Touches, Fresh
  <2> QED
    BY <2>1, <2>4, <2>5 DEF HoldingInv, Busy, Touches, Fresh, Due, Item
<1>10. ASSUME todo[Sync] # <<>>, NEW x, x # Item(Sync), Due(Sync, x)
       PROVE  x \in ToSet(Tail(todo[Sync]))
  BY <1>2, <1>10, TodoTail DEF Due, Item
<1>6. CASE GiveUp(Sync)
  <2>1. /\ UNCHANGED <<event, account, bySync, height, pc, answer>>
        /\ pc[Sync] = "event" /\ lost' = lost \cup {height[Sync]}
    BY <1>6 DEF GiveUp, Lose
  <2>2. HoldingFresh'
    BY <2>1 DEF HoldingInv, HoldingFresh, Touches, Fresh
  <2> QED
    BY <2>1, <2>2 DEF HoldingInv
<1>7. CASE AddToken(Sync) \/ UpdateToken(Sync)
  <2>1. /\ UNCHANGED <<event, account, bySync, lost, height>>
        /\ pc[Sync] = "write" /\ pc'[Sync] = "event"
        /\ todo'[Sync] = Tail(todo[Sync]) /\ Item(Sync) \in {"token", "supply"}
    BY <1>1, <1>2, <1>7 DEF AddToken, UpdateToken, Written, Goto
  <2>2. \A a \in Accounts : Due(Sync, a) => Due(Sync, a)'
    BY <1>3, <1>10, <2>1, Parameters DEF Due
  <2>3. HoldingFresh'
    BY <2>1 DEF HoldingInv, HoldingFresh, Touches, Fresh
  <2> QED
    BY <2>1, <2>2, <2>3 DEF HoldingInv, Busy, Touches, Fresh
<1>8. CASE InsertAccount(Sync)
  <2>0. PICK b : b = Item(Sync)
    OBVIOUS
  <2>1. /\ UNCHANGED <<event, bySync, lost, height>>
        /\ pc[Sync] = "write" /\ pc'[Sync] = "event"
        /\ todo'[Sync] = Tail(todo[Sync]) /\ b \in Accounts
        /\ account' = [account EXCEPT ![b] = answer[Sync]]
    BY <1>1, <1>2, <1>8, <2>0 DEF InsertAccount, Written, Goto
  <2>2. \A h \in bySync \cup {height[Sync]} : h \in Nat
    BY <1>1, <2>1, Parameters DEF TypeOK, TypeMiner, TypeDb, Heights
  <2>3. \A h \in bySync \cup {height[Sync]} : Touches(h, b) => Fresh(h, b)'
    <3>1. account'[b] = answer[Sync]
      BY <1>2, <2>1
    <3>2. ASSUME NEW h \in bySync \cup {height[Sync]}, Touches(h, b)
          PROVE  answer[Sync] = 0 \/ answer[Sync] >= h
      BY <2>0, <2>1, <3>2 DEF HoldingInv
    <3> QED
      BY <1>2, <2>2, <3>1, <3>2 DEF Fresh
  <2>4. \A a \in Accounts : a # b => account'[a] = account[a]
    BY <1>2, <2>1
  <2>5. \A a \in Accounts : a # b /\ Due(Sync, a) => Due(Sync, a)'
    BY <1>3, <1>10, <2>0, <2>1 DEF Due
  <2>6. HoldingFresh'
    <3>1. ASSUME NEW h \in bySync' \ lost', NEW a \in Accounts, Touches(h, a)'
          PROVE  Fresh(h, a)'
      <4>1. Touches(h, a) /\ h \in bySync \ lost
        BY <2>1, <3>1 DEF Touches
      <4>2. CASE a = b
        BY <2>3, <4>1, <4>2
      <4>3. CASE a # b
        <5>1. Fresh(h, a)
          BY <4>1 DEF HoldingInv, HoldingFresh
        <5> QED
          BY <2>4, <4>3, <5>1 DEF Fresh
      <4> QED
        BY <4>2, <4>3
    <3> QED
      BY <3>1 DEF HoldingFresh
  <2>7. ASSUME NEW a \in Accounts, Touches(height[Sync], a)
        PROVE  Due(Sync, a)' \/ height[Sync] \in lost \/ Fresh(height[Sync], a)'
    <3>1. CASE a = b
      BY <2>1, <2>3, <2>7, <3>1 DEF Fresh
    <3>2. CASE a # b
      <4>1. Due(Sync, a) \/ height[Sync] \in lost \/ Fresh(height[Sync], a)
        BY <2>1, <2>7 DEF HoldingInv, Busy
      <4> QED
        BY <2>1, <2>4, <2>5, <3>2, <4>1 DEF Fresh
    <3> QED
      BY <3>1, <3>2
  <2> QED
    BY <2>1, <2>6, <2>7 DEF HoldingInv, Touches
<1>9. CASE AddBlock(Sync)
  <2>1. /\ UNCHANGED <<event, account, lost, todo>>
        /\ pc[Sync] = "event" /\ pc'[Sync] = "idle" /\ todo[Sync] = <<>>
        /\ bySync' = bySync \cup {height[Sync]}
    BY <1>1, <1>2, <1>9 DEF AddBlock, Goto
  <2>2. \A a : ~Due(Sync, a)
    BY <2>1 DEF Due, ToSet
  <2>3. HoldingFresh'
    BY <2>1, <2>2 DEF HoldingInv, HoldingFresh, Busy, Touches, Fresh
  <2> QED
    BY <2>1, <2>3 DEF HoldingInv, Busy
<1>11. CASE WriteFails(Sync)
  <2>1. /\ UNCHANGED <<event, account, bySync, height>>
        /\ pc[Sync] = "write" /\ pc'[Sync] = "event"
        /\ lost' = lost \cup {height[Sync]}
    BY <1>1, <1>2, <1>11 DEF WriteFails, Written, Goto, Lose
  <2>2. HoldingFresh'
    BY <2>1 DEF HoldingInv, HoldingFresh, Touches, Fresh
  <2> QED
    BY <2>1, <2>2 DEF HoldingInv
<1> QED
  BY <1>1, <1>4, <1>5, <1>6, <1>7, <1>8, <1>9, <1>11
     DEF MinerStep, NoTokenInfo, NoOwner, TakeBulk, LoadAccToken, SendAccount, TypeOK,
         TypeMiner

(* A bulk request leaves a document that exists as it is.                   *)
LEMMA HoldingCommit ==
    ASSUME TypeOK, HoldingInv, CommitAccounts
    PROVE  HoldingInv'
<1> USE DEF nodeVars, runVars, minerVars, dbVars, history
<1>1. /\ UNCHANGED <<event, bySync, lost, pc, height, todo, answer>>
      /\ \A a \in Accounts : account'[a] \in Created(a)
  BY DEF CommitAccounts
<1>2. ASSUME NEW a \in Accounts, NEW h, h \in Nat, Fresh(h, a)
      PROVE  Fresh(h, a)'
  <2>1. account[a] # None
    BY <1>2, Parameters DEF Fresh
  <2>2. account'[a] = account[a]
    BY <1>1, <2>1 DEF Created
  <2> QED
    BY <1>2, <2>2 DEF Fresh
<1>3. bySync \subseteq Nat /\ (Busy(Sync) => height[Sync] \in Nat)
  BY Parameters DEF TypeOK, TypeMiner, TypeDb, Heights
<1>4. HoldingFresh'
  BY <1>1, <1>2, <1>3 DEF HoldingInv, HoldingFresh, Touches
<1> QED
  BY <1>1, <1>2, <1>3, <1>4 DEF HoldingInv, Busy, Touches, Due, Item

LEMMA HoldingNext == TypeOK /\ HoldingInv /\ [Next]_vars => HoldingInv'
<1> SUFFICES ASSUME TypeOK, HoldingInv, [Next]_vars PROVE HoldingInv'
  OBVIOUS
<1> USE DEF nodeVars, runVars, minerVars, dbVars, history
<1>1. CASE NodeExtend \/ Check \/ CommitBlocks \/ UNCHANGED vars
  BY <1>1, HoldingQuiet DEF NodeExtend, Check, CommitBlocks, vars
<1>2. CASE Restart
  <2>1. /\ UNCHANGED <<event, account, bySync, lost>> /\ pc'[Sync] = "idle"
    BY <1>2, Parameters DEF Restart
  <2>2. HoldingFresh'
    BY <2>1 DEF HoldingInv, HoldingFresh, Touches, Fresh
  <2> QED
    BY <2>1, <2>2 DEF HoldingInv, Busy
<1> QED
  BY <1>1, <1>2, HoldingBulk, HoldingSync, HoldingCommit DEF Next, Miners

(* The document of a holder is never older than an event of the account     *)
(* that the stream has taken, unless the event was given up, a write of it  *)
(* failed or a balance could not be asked for, whatever the check was told  *)
(* before, and however late it commits it (addAccountTokens, and            *)
(* OpType("create") of EsBulkInstance.Add).                                 *)
THEOREM HoldingsStayFresh == Spec => []HoldingFresh
<1>1. Init => TypeOK /\ HoldingInv
  BY TypeInit, HoldingInit
<1>2. TypeOK /\ HoldingInv /\ [Next]_vars => TypeOK' /\ HoldingInv'
  BY TypeNext, HoldingNext
<1>3. HoldingInv => HoldingFresh
  BY DEF HoldingInv
<1> QED
  BY <1>1, <1>2, <1>3, PTL DEF Spec

-----------------------------------------------------------------------------
(* The creation of the token.                                               *)

LEMMA WholeInit == Init => WholeInv
BY DEF Init, WholeInv, Busy

(* A miner moves one item at a time, and the other miners stay where they   *)
(* are.                                                                     *)
LEMMA OneMiner ==
    ASSUME TypeOK, NEW m \in Miners, MinerStep(m)
    PROVE  /\ UNCHANGED event /\ lost \subseteq lost' /\ beside \subseteq beside'
           /\ \A n \in Miners : n # m =>
                /\ pc'[n] = pc[n] /\ height'[n] = height[n]
                /\ todo'[n] = todo[n] /\ answer'[n] = answer[n]
<1> USE DEF nodeVars, runVars, minerVars, dbVars, history
<1>1. /\ DOMAIN pc = Miners /\ DOMAIN height = Miners
      /\ DOMAIN todo = Miners /\ DOMAIN answer = Miners
  BY DEF TypeOK, TypeMiner
<1>2. UNCHANGED event /\ lost \subseteq lost' /\ beside \subseteq beside'
  BY DEF MinerStep, TakeBulk, TakeSync, Ask, NoTokenInfo, NoOwner, GiveUp, Lose,
         WriteFails, AddToken, UpdateToken, InsertAccount, LoadAccToken, SendAccount, AddBlock
<1> DEFINE Others == \A n \in Miners : n # m =>
                        /\ pc'[n] = pc[n] /\ height'[n] = height[n]
                        /\ todo'[n] = todo[n] /\ answer'[n] = answer[n]
<1>3. ASSUME Written(m), height' = height PROVE Others
  BY <1>1, <1>3 DEF Written, Goto
<1>4. ASSUME NEW h, Take(m, h) PROVE Others
  BY <1>1, <1>4 DEF Take, Goto
<1>5. ASSUME Ask(m) PROVE Others
  BY <1>1, <1>5 DEF Ask, Goto
<1>6. ASSUME GiveUp(m) PROVE Others
  BY <1>1, <1>6 DEF GiveUp
<1>7. ASSUME AddBlock(m) PROVE Others
  BY <1>1, <1>7 DEF AddBlock, Goto
<1>8. ASSUME LoadAccToken(m), ~Written(m) PROVE Others
  BY <1>1, <1>8 DEF LoadAccToken, Goto
<1>9. Others
  <2> HIDE DEF Others
  <2> QED
    BY <1>3, <1>4, <1>5, <1>6, <1>7, <1>8
       DEF MinerStep, TakeBulk, TakeSync, NoTokenInfo, NoOwner, AddToken, UpdateToken,
           WriteFails, InsertAccount, LoadAccToken, SendAccount
<1> QED
  BY <1>2, <1>9

(* What a step does to what is still to do: an item is only left out once   *)
(* it has been written, or when the height is lost.                         *)
LEMMA OneItem ==
    ASSUME TypeOK, NEW m \in Miners, MinerStep(m)
    PROVE  \/ /\ pc[m] = "idle" /\ Busy(m)' /\ height'[m] \in Heights
              /\ todo'[m] = event[height'[m]] /\ UNCHANGED <<token, indexed, mined>>
           \/ /\ Busy(m) /\ Busy(m)' /\ UNCHANGED <<height, indexed, mined>>
              /\ \/ todo'[m] = todo[m] /\ UNCHANGED token
                 \/ height[m] \in lost' /\ UNCHANGED token
                 \/ /\ \A x : Due(m, x) /\ x # Item(m) => Due(m, x)'
                    /\ \/ Item(m) \in Accounts /\ UNCHANGED token
                       \/ AddToken(m) \/ UpdateToken(m)
           \/ /\ Busy(m) /\ todo[m] = <<>> /\ ~Busy(m)' /\ UNCHANGED token
              /\ indexed' \cup mined' = indexed \cup mined \cup {height[m]}
<1> USE DEF nodeVars, runVars, minerVars, dbVars, history
<1>1. /\ DOMAIN pc = Miners /\ DOMAIN height = Miners
      /\ DOMAIN todo = Miners /\ todo[m] \in Seq(Items)
      /\ pc[m] \in {"write", "store"} => todo[m] # <<>>
      /\ pc[m] = "store" => Item(m) \in Accounts
  BY DEF TypeOK, TypeMiner
<1>2. ASSUME Written(m), todo[m] # <<>>
      PROVE  /\ Busy(m)'
             /\ \A x : Due(m, x) /\ x # Item(m) => Due(m, x)'
  <2>1. pc'[m] = "event" /\ todo'[m] = Tail(todo[m])
    BY <1>1, <1>2 DEF Written, Goto
  <2> QED
    BY <1>1, <1>2, <2>1, TodoTail DEF Busy, Due, Item
<1>3. CASE TakeBulk(m) \/ TakeSync(m)
  <2>1. PICK h \in Heights : Take(m, h)
    <3>1. CASE TakeBulk(m)
      <4>1. toCheck \in SUBSET (0..MaxHeight) /\ toCheck # {}
        BY <3>1, Parameters DEF TakeBulk, TypeOK, TypeRun, Heights
      <4>2. Max(toCheck) \in toCheck
        BY <4>1, MaxOfHeights, Parameters
      <4>3. Max(toCheck) \in Heights
        <5>1. toCheck \subseteq 1..best /\ best \in 1..MaxHeight
          BY DEF TypeOK, TypeRun, Heights
        <5>2. toCheck \subseteq 1..MaxHeight
          BY <5>1, Parameters
        <5> QED
          BY <4>2, <5>2 DEF Heights
      <4>4. Take(m, Max(toCheck))
        BY <3>1 DEF TakeBulk
      <4> QED
        BY <4>3, <4>4
    <3>2. CASE TakeSync(m)
      BY <3>2, Parameters DEF TakeSync, TypeOK, TypeRun, Heights
    <3> QED
      BY <1>3, <3>1, <3>2
  <2>2. /\ pc[m] = "idle" /\ pc'[m] = "event" /\ height'[m] = h
        /\ todo'[m] = event[h]
    BY <1>1, <2>1 DEF Take, Goto
  <2> QED
    BY <1>3, <2>2 DEF TakeBulk, TakeSync, Busy
<1>4. CASE Ask(m)
  BY <1>1, <1>4 DEF Ask, Goto, Busy
<1>5. CASE GiveUp(m)
  BY <1>1, <1>5 DEF GiveUp, Lose, Busy
<1>11. CASE WriteFails(m)
  <2>1. /\ Written(m) /\ pc[m] = "write" /\ UNCHANGED <<height, indexed, mined, token>>
        /\ height[m] \in lost'
    BY <1>11 DEF WriteFails, Lose
  <2> QED
    BY <1>1, <1>2, <2>1 DEF Busy
<1>6. CASE AddToken(m) \/ UpdateToken(m)
  <2>1. Written(m) /\ pc[m] = "write" /\ UNCHANGED <<height, indexed, mined>>
    BY <1>6 DEF AddToken, UpdateToken
  <2> QED
    BY <1>1, <1>2, <1>6, <2>1 DEF Busy
<1>7. CASE InsertAccount(m)
  <2>1. /\ Written(m) /\ pc[m] = "write" /\ Item(m) \in Accounts
        /\ UNCHANGED <<height, indexed, mined, token>>
    BY <1>7 DEF InsertAccount
  <2> QED
    BY <1>1, <1>2, <2>1 DEF Busy
<1>8. CASE LoadAccToken(m)
  <2>1. /\ pc[m] = "write" /\ Item(m) \in Accounts
        /\ UNCHANGED <<height, indexed, mined, token>>
        /\ Written(m) \/ (Goto(m, "store") /\ todo' = todo)
    BY <1>8 DEF LoadAccToken
  <2> QED
    BY <1>1, <1>2, <2>1 DEF Busy, Goto
<1>9. CASE SendAccount(m)
  <2>1. Written(m) /\ pc[m] = "store" /\ UNCHANGED <<height, indexed, mined, token>>
    BY <1>9 DEF SendAccount
  <2> QED
    BY <1>1, <1>2, <2>1 DEF Busy
<1>10. CASE AddBlock(m)
  BY <1>1, <1>10 DEF AddBlock, Goto, Busy
<1> QED
  BY <1>3, <1>4, <1>5, <1>6, <1>7, <1>8, <1>9, <1>10, <1>11
     DEF MinerStep, NoTokenInfo, NoOwner

(* The document of the token that is written, with what was asked for.      *)
LEMMA TokenWritten ==
    ASSUME TypeOK, NEW m \in Miners, AddToken(m) \/ UpdateToken(m)
    PROVE  /\ token' # None /\ token'.supply = answer[m]
           /\ token'.whole = (AddToken(m) \/ Whole)
<1>1. answer[m] \in Nat
  BY Parameters DEF TypeOK, TypeMiner
<1>2. \A w \in BOOLEAN : [whole |-> w, supply |-> answer[m]] # None
  <2>1. \A w \in BOOLEAN : [whole |-> w, supply |-> answer[m]]
                               \in [whole : BOOLEAN, supply : Nat]
    BY <1>1
  <2> QED
    BY <2>1, Parameters
<1>3. CASE AddToken(m)
  BY <1>2, <1>3 DEF AddToken
<1>4. CASE UpdateToken(m)
  <2>1. ~AddToken(m)
    BY <1>4 DEF AddToken, UpdateToken
  <2>2. Whole \in BOOLEAN
    BY DEF Whole, TypeOK, TypeDb
  <2>3. token' = [whole |-> Whole, supply |-> answer[m]]
    BY <1>4 DEF UpdateToken, Whole
  <2> QED
    BY <1>2, <2>1, <2>2, <2>3
<1> QED
  BY <1>3, <1>4

LEMMA WholeMiner ==
    ASSUME TypeOK, WholeInv, NEW m \in Miners, MinerStep(m)
    PROVE  WholeInv'
<1>1. UNCHANGED event /\ lost \subseteq lost'
  BY OneMiner
<1>2. Whole => Whole'
  BY OneItem, TokenWritten DEF Whole
<1>3. ASSUME Busy(m)', event'[height'[m]] \in Creation
      PROVE  Due(m, "token")' \/ height'[m] \in lost' \/ Whole'
  <2>1. CASE /\ height'[m] \in Heights /\ todo'[m] = event[height'[m]]
    <3>1. \A h \in Heights : event[h] \in Creation => "token" \in ToSet(event[h])
      BY EventItems DEF TypeOK
    <3> QED
      BY <1>1, <1>3, <2>1, <3>1 DEF Due
  <2>2. ASSUME Busy(m), UNCHANGED height
        PROVE  Due(m, "token") \/ height[m] \in lost \/ Whole
    BY <1>1, <1>3, <2>2 DEF WholeInv
  <2>3. CASE /\ Busy(m) /\ UNCHANGED height
             /\ todo'[m] = todo[m] \/ height[m] \in lost'
    BY <1>1, <1>2, <2>2, <2>3 DEF Due
  <2>4. CASE /\ Busy(m) /\ UNCHANGED height
             /\ \A x : Due(m, x) /\ x # Item(m) => Due(m, x)'
             /\ Item(m) \in Accounts \/ AddToken(m) \/ UpdateToken(m)
    <3>1. CASE AddToken(m)
      BY <3>1, TokenWritten DEF Whole
    <3>2. CASE Item(m) # "token"
      BY <1>1, <1>2, <2>2, <2>4, <3>2
    <3> QED
      BY <2>4, <3>1, <3>2, Parameters DEF UpdateToken
  <2> QED
    BY <1>3, <2>1, <2>3, <2>4, OneItem
<1>4. ASSUME NEW n \in Miners, Busy(n)', event'[height'[n]] \in Creation
      PROVE  Due(n, "token")' \/ height'[n] \in lost' \/ Whole'
  <2>1. CASE n # m
    <3>1. /\ pc'[n] = pc[n] /\ height'[n] = height[n] /\ todo'[n] = todo[n]
      BY <2>1, OneMiner
    <3>2. Due(n, "token") \/ height[n] \in lost \/ Whole
      BY <1>1, <1>4, <3>1 DEF WholeInv, Busy
    <3> QED
      BY <1>1, <1>2, <3>1, <3>2 DEF Due
  <2> QED
    BY <1>3, <1>4, <2>1
<1>5. ASSUME NEW h \in (indexed' \cup mined') \ lost', event[h] \in Creation
      PROVE  Whole'
  <2>1. CASE h \in indexed \cup mined
    BY <1>1, <1>2, <1>5, <2>1 DEF WholeInv
  <2>2. CASE Busy(m) /\ todo[m] = <<>> /\ h = height[m]
    <3>1. ~Due(m, "token")
      BY <2>2 DEF Due, ToSet
    <3> QED
      BY <1>1, <1>2, <1>5, <2>2, <3>1 DEF WholeInv
  <2> QED
    BY <1>5, <2>1, <2>2, OneItem
<1> QED
  BY <1>1, <1>4, <1>5 DEF WholeInv

LEMMA WholeNext == TypeOK /\ WholeInv /\ [Next]_vars => WholeInv'
<1> SUFFICES ASSUME TypeOK, WholeInv, [Next]_vars PROVE WholeInv'
  OBVIOUS
<1> USE DEF nodeVars, runVars, minerVars, dbVars, history
<1>1. CASE NodeExtend \/ Check \/ CommitAccounts \/ CommitBlocks \/ UNCHANGED vars
  <2>1. /\ UNCHANGED <<event, token, lost, pc, height, todo>>
        /\ indexed' \cup mined' = indexed \cup mined
    BY <1>1 DEF NodeExtend, Check, CommitAccounts, CommitBlocks, vars
  <2> QED
    BY <2>1 DEF WholeInv, Whole, Busy, Due
<1>2. CASE Restart
  <2>1. /\ UNCHANGED <<event, token, lost, indexed>> /\ mined' = {}
        /\ \A m \in Miners : pc'[m] = "idle"
    BY <1>2 DEF Restart
  <2> QED
    BY <2>1 DEF WholeInv, Whole, Busy
<1> QED
  BY <1>1, <1>2, WholeMiner DEF Next

(* Once the creation of a token is indexed, its document has name and type, *)
(* in whatever order the miners have updated its supply, unless the node    *)
(* did not tell the name or the document could not be written (addToken,    *)
(* updateToken).                                                            *)
THEOREM TokensStayWhole == Spec => []TokenWhole
<1>1. Init => TypeOK /\ WholeInv
  BY TypeInit, WholeInit
<1>2. TypeOK /\ WholeInv /\ [Next]_vars => TypeOK' /\ WholeInv'
  BY TypeNext, WholeNext
<1>3. WholeInv => TokenWhole
  BY DEF WholeInv, TokenWhole
<1> QED
  BY <1>1, <1>2, <1>3, PTL DEF Spec

-----------------------------------------------------------------------------
(* The supply.                                                              *)

LEMMA SupplyInit == Init => SupplyInv
BY Parameters DEF Init, SupplyInv, Busy, Supplies

(* A mint, a burn or the creation of the token is told by the chain alone.  *)
LEMMA SupplyChange ==
    /\ \A h : Changes(h, "supply") <=> event[h] \in Creation \cup Supplying
    /\ \A h : Changes(h, "token") <=> event[h] \in Creation \cup Supplying
BY Parameters DEF Changes

(* Who writes the supply settles it for every height anyone is at.          *)
LEMMA SupplySettled ==
    ASSUME TypeOK, SupplyInv, NEW m \in Miners, MinerStep(m),
           NEW h \in Told, Changes(h, "supply"),
           Settled(h) \/ AddToken(m) \/ UpdateToken(m)
    PROVE  Settled(h)'
<1>1. CASE AddToken(m) \/ UpdateToken(m)
  <2>1. Supplies(m)
    BY <1>1 DEF AddToken, UpdateToken, Supplies
  <2>2. answer[m] = 0 \/ answer[m] >= h
    BY <2>1 DEF SupplyInv
  <2> QED
    BY <1>1, <2>2, TokenWritten DEF Settled
<1>2. CASE UNCHANGED token
  BY <1>1, <1>2 DEF Settled
<1> QED
  BY <1>1, <1>2, OneItem

(* What is still to be told after a step was to be told before it, or has   *)
(* been ahead, or is left out.                                              *)
LEMMA ToldGrows ==
    ASSUME TypeOK, SupplyInv, NEW m \in Miners, MinerStep(m)
    PROVE  /\ \A n \in Miners : n # m /\ Supplies(n) =>
                (Told \cup Ahead(n))' \subseteq Told \cup Ahead(n)
           /\ \A h \in Told' : h \in Told \/ (h = height'[m] /\ ~Busy(m))
           /\ check' = check /\ toCheck' \subseteq toCheck
<1> USE DEF nodeVars, runVars, minerVars, dbVars, history
<1>1. check' = check /\ toCheck' \subseteq toCheck
  BY DEF MinerStep, TakeBulk, TakeSync, Ask, NoTokenInfo, NoOwner, GiveUp, Lose,
         WriteFails, AddToken, UpdateToken, InsertAccount, LoadAccToken, SendAccount, AddBlock
<1>2. \A h \in Told' : h \in Told \/ (h = height'[m] /\ ~Busy(m))
  <2>1. SUFFICES ASSUME NEW h \in Told'
                 PROVE  h \in Told \/ (h = height'[m] /\ ~Busy(m))
    OBVIOUS
  <2>2. h \notin lost \cup beside
    BY <2>1, OneMiner DEF Told
  <2>3. CASE h \in indexed' \cup mined'
    BY <2>2, <2>3, OneItem DEF Told
  <2>4. ASSUME NEW k \in Miners, Busy(k)', h = height'[k]
        PROVE  h \in Told \/ (h = height'[m] /\ ~Busy(m))
    <3>1. CASE k # m
      BY <2>2, <2>4, <3>1, OneMiner DEF Told, Busy
    <3>2. CASE k = m /\ Busy(m)
      <4>1. height'[m] = height[m]
        BY <2>4, <3>2, OneItem DEF Busy
      <4> QED
        BY <2>2, <2>4, <3>2, <4>1 DEF Told
    <3> QED
      BY <2>4, <3>1, <3>2
  <2> QED
    BY <2>1, <2>3, <2>4 DEF Told, Busy
<1>3. ASSUME NEW n \in Miners, n # m, Supplies(n),
             ~Busy(m), height'[m] \in Told'
      PROVE  height'[m] \in Ahead(n)
  <2>1. Busy(n) /\ pc[m] = "idle"
    BY <1>3 DEF Supplies, Busy
  <2>2. CASE TakeBulk(m)
    <3>1. height'[m] = Max(toCheck)
      BY <2>2 DEF TakeBulk, Take, TypeOK, TypeMiner
    <3>2. n # Sync
      BY <1>3, <2>1, <2>2, <3>1 DEF TakeBulk, Told, Busy
    <3>3. Max(toCheck) \in toCheck
      <4>1. toCheck \in SUBSET (0..MaxHeight) /\ toCheck # {}
        BY <2>2, Parameters DEF TakeBulk, TypeOK, TypeRun, Heights
      <4> QED
        BY <4>1, MaxOfHeights, Parameters
    <3> QED
      BY <3>1, <3>2, <3>3 DEF Ahead
  <2>3. CASE TakeSync(m)
    <3>1. height'[m] = nextSync
      BY <2>3 DEF TakeSync, Take, TypeOK, TypeMiner
    <3>2. CheckAtWork
      BY <1>3, <2>1, <2>3 DEF TakeSync, CheckAtWork, Miners, Busy
    <3>3. height'[m] \in beside'
      BY <2>3, <3>1, <3>2 DEF TakeSync
    <3> QED
      BY <1>3, <3>3 DEF Told
  <2> QED
    BY <2>1, <2>2, <2>3
       DEF MinerStep, Ask, NoTokenInfo, NoOwner, GiveUp, WriteFails, AddToken,
           UpdateToken, InsertAccount, LoadAccToken, SendAccount, AddBlock
<1> QED
  BY <1>1, <1>2, <1>3 DEF Ahead

LEMMA SupplyMiner ==
    ASSUME TypeOK, SupplyInv, NEW m \in Miners, MinerStep(m)
    PROVE  SupplyInv'
<1>1. /\ UNCHANGED event /\ lost \subseteq lost' /\ beside \subseteq beside'
  BY OneMiner
<1>2. \A h : Changes(h, "supply")' <=> Changes(h, "supply")
  BY <1>1 DEF Changes, Touches
<1>3. ASSUME Busy(m), NEW x \in {"token", "supply"}, Due(m, x), ~Due(m, x)',
             Busy(m)', height[m] \notin lost'
      PROVE  AddToken(m) \/ UpdateToken(m)
  <2>1. todo'[m] # todo[m]
    BY <1>3 DEF Due
  <2>2. ~UNCHANGED todo /\ pc[m] # "idle" /\ x \notin Accounts
    BY <1>3, <2>1, Parameters DEF Busy
  <2> QED
    BY <1>3, <2>1, <2>2, OneItem
<1>4. ASSUME NEW n \in Miners, Busy(n)', NEW h, h = height'[n], Changes(h, "supply"),
             h \notin lost' \cup beside'
      PROVE  Due(n, "token")' \/ Due(n, "supply")' \/ Settled(h)'
  <2>1. CASE ~Busy(n)
    <3>1. n = m /\ h \in Heights /\ todo'[m] = event[h]
      BY <1>4, <2>1, OneMiner, OneItem DEF Busy
    <3> QED
      BY <1>2, <1>4, <3>1, EventItems DEF Due, TypeOK
  <2>2. CASE Busy(n)
    <3>1. h = height[n] /\ h \in Told
      <4>1. height'[n] = height[n]
        BY <1>4, <2>2, OneMiner, OneItem DEF Busy
      <4> QED
        BY <1>1, <1>4, <2>2, <4>1 DEF Told
    <3>2. Due(n, "token") \/ Due(n, "supply") \/ Settled(h)
      BY <1>1, <1>4, <2>2, <3>1 DEF SupplyInv
    <3>3. CASE Settled(h) \/ AddToken(m) \/ UpdateToken(m)
      BY <1>4, <3>1, <3>3, SupplySettled
    <3>4. CASE n # m
      <4>1. todo'[n] = todo[n]
        BY <3>4, OneMiner
      <4> QED
        BY <3>2, <3>3, <4>1 DEF Due
    <3>5. CASE n = m
      BY <1>3, <1>4, <2>2, <3>1, <3>2, <3>3, <3>5
    <3> QED
      BY <3>4, <3>5
  <2> QED
    BY <2>1, <2>2
<1>5. ASSUME NEW h \in (indexed' \cup mined') \ (lost' \cup beside'),
             Changes(h, "supply")
      PROVE  Settled(h)'
  <2>1. h \in Told /\ Settled(h)
    <3>1. CASE h \in indexed \cup mined
      BY <1>1, <1>5, <3>1 DEF SupplyInv, Told
    <3>2. CASE Busy(m) /\ todo[m] = <<>> /\ h = height[m]
      <4>1. ~Due(m, "token") /\ ~Due(m, "supply")
        BY <3>2 DEF Due, ToSet
      <4> QED
        BY <1>1, <1>5, <3>2, <4>1 DEF SupplyInv, Told
    <3> QED
      BY <1>5, <3>1, <3>2, OneItem
  <2> QED
    BY <1>5, <2>1, SupplySettled
<1>6. ASSUME NEW n \in Miners, Supplies(n)', NEW h \in (Told \cup Ahead(n))',
             Changes(h, "supply")
      PROVE  answer'[n] = 0 \/ answer'[n] >= h
  <2>1. CASE n # m
    <3>1. Supplies(n) /\ answer'[n] = answer[n]
      BY <1>6, <2>1, OneMiner DEF Supplies, Item
    <3>2. h \in Told \cup Ahead(n)
      BY <1>6, <2>1, <3>1, ToldGrows
    <3> QED
      BY <1>6, <3>1, <3>2 DEF SupplyInv
  <2>2. CASE n = m
    <3>1. Ask(m)
      BY <1>6, <2>2
         DEF Supplies, MinerStep, TakeBulk, TakeSync, Take, Ask, NoTokenInfo, NoOwner,
             GiveUp, WriteFails, AddToken, UpdateToken, InsertAccount, LoadAccToken, SendAccount, AddBlock, Written,
             Goto, TypeOK, TypeMiner
    <3>2. /\ answer'[m] \in {Answer(Item(m)), 0} /\ Item(m)' = Item(m)
          /\ best' = best
      BY <3>1 DEF Ask, Item, TypeOK, TypeMiner, nodeVars
    <3>3. Changes(h, Item(m))
      BY <1>6, <2>2, <3>2, SupplyChange DEF Supplies
    <3>4. h \in 1..best
      <4>1. TypeOK'
        BY TypeMinerStep
      <4>2. (indexed \cup mined \cup toCheck)' \subseteq 1..best
        BY <3>2, <4>1 DEF TypeOK, TypeRun, TypeDb
      <4>3. \A k \in Miners : Busy(k)' => height'[k] \in 1..best
        BY <3>2, <4>1 DEF TypeOK, TypeMiner, Busy
      <4> QED
        BY <1>6, <4>2, <4>3 DEF Told, Ahead
    <3>5. Answer(Item(m)) >= h
      BY <3>3, <3>4, AnswerLatest, Parameters DEF TypeOK
    <3> QED
      BY <2>2, <3>2, <3>5
  <2> QED
    BY <2>1, <2>2
<1>7. ASSUME check' = "before"
      PROVE  toCheck' = {} /\ \A n \in BulkMiners : ~Busy(n)'
  <2>1. check = "before" /\ toCheck' \subseteq toCheck
    BY <1>7, ToldGrows
  <2>2. toCheck = {} /\ \A n \in BulkMiners : ~Busy(n)
    BY <2>1 DEF SupplyInv
  <2>3. m \notin BulkMiners
    BY <2>2, Parameters
       DEF Busy, MinerStep, TakeBulk, TakeSync, Ask, NoTokenInfo, NoOwner, GiveUp, Lose,
         WriteFails, AddToken, UpdateToken, InsertAccount, LoadAccToken, SendAccount, AddBlock
  <2> QED
    BY <2>1, <2>2, <2>3, OneMiner, Parameters DEF Busy
<1>8. ASSUME NEW n \in Miners, (Busy(n) /\ Changes(height[n], "supply")
                                 /\ height[n] \notin lost \cup beside)'
      PROVE  (Due(n, "token") \/ Due(n, "supply") \/ Settled(height[n]))'
  <2>1. Changes(height'[n], "supply")
    BY <1>1, <1>8 DEF Changes, Touches
  <2> QED
    BY <1>4, <1>8, <2>1 DEF Settled
<1>9. ASSUME NEW h \in ((indexed \cup mined) \ (lost \cup beside))',
             Changes(h, "supply")'
      PROVE  Settled(h)'
  BY <1>2, <1>5, <1>9
<1>10. ASSUME NEW n \in Miners, Supplies(n)', NEW h \in (Told \cup Ahead(n))',
              Changes(h, "supply")'
       PROVE  (answer[n] = 0 \/ answer[n] >= h)'
  BY <1>2, <1>6, <1>10
<1> QED
  BY <1>7, <1>8, <1>9, <1>10 DEF SupplyInv

LEMMA SupplyNext == TypeOK /\ SupplyInv /\ [Next]_vars => SupplyInv'
<1> SUFFICES ASSUME TypeOK, SupplyInv, [Next]_vars PROVE SupplyInv'
  OBVIOUS
<1> USE DEF nodeVars, runVars, minerVars, dbVars, history
<1>1. CASE NodeExtend \/ CommitAccounts \/ CommitBlocks \/ UNCHANGED vars
  <2>1. /\ UNCHANGED <<event, token, lost, beside, pc, height, todo, answer,
                       check, toCheck>>
        /\ indexed' \cup mined' = indexed \cup mined
    BY <1>1 DEF NodeExtend, CommitAccounts, CommitBlocks, vars
  <2>2. /\ Told' = Told /\ \A h : Changes(h, "supply")' <=> Changes(h, "supply")
        /\ \A h : Settled(h)' <=> Settled(h)
        /\ \A m : Ahead(m)' = Ahead(m)
    BY <2>1 DEF Told, Busy, Changes, Touches, Settled, Ahead
  <2> QED
    BY <2>1, <2>2 DEF SupplyInv, Busy, Due, Supplies, Item
<1>2. CASE Check
  <2>1. /\ UNCHANGED <<event, token, lost, beside, pc, height, todo, answer,
                       indexed, mined>>
        /\ check = "before" /\ check' # "before"
    BY <1>2 DEF Check
  <2>2. /\ Told' = Told /\ \A h : Changes(h, "supply")' <=> Changes(h, "supply")
        /\ \A h : Settled(h)' <=> Settled(h)
    BY <2>1 DEF Told, Busy, Changes, Touches, Settled
  <2>3. \A m \in Miners : Supplies(m)' => Supplies(m) /\ m = Sync
    BY <2>1 DEF Supplies, Item, SupplyInv, Busy, Miners
  <2> QED
    BY <2>1, <2>2, <2>3 DEF SupplyInv, Busy, Due, Ahead
<1>3. CASE Restart
  <2>1. /\ UNCHANGED <<event, token, lost, beside, indexed>> /\ mined' = {}
        /\ toCheck' = {} /\ \A m \in Miners : pc'[m] = "idle"
    BY <1>3 DEF Restart
  <2>2. \A h : /\ Changes(h, "supply")' <=> Changes(h, "supply")
               /\ Settled(h)' <=> Settled(h)
    BY <2>1 DEF Changes, Touches, Settled
  <2> QED
    BY <2>1, <2>2, Parameters DEF SupplyInv, Busy, Supplies
<1> QED
  BY <1>1, <1>2, <1>3, SupplyMiner DEF Next

(* The supply in the document of the token is not older than any mint, burn *)
(* or creation that is indexed, but for failed queries, for events that     *)
(* were given up or whose write failed, and for heights the stream and the  *)
(* check took beside each other (updateToken): miners of one kind never     *)
(* write an older supply over a newer one that matters.                     *)
THEOREM SupplyStaysFresh == Spec => []SupplyFresh
<1>1. Init => TypeOK /\ SupplyInv
  BY TypeInit, SupplyInit
<1>2. TypeOK /\ SupplyInv /\ [Next]_vars => TypeOK' /\ SupplyInv'
  BY TypeNext, SupplyNext
<1>3. SupplyInv => SupplyFresh
  BY DEF SupplyInv, SupplyFresh
<1> QED
  BY <1>1, <1>2, <1>3, PTL DEF Spec
=============================================================================
