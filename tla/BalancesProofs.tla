--------------------------- MODULE BalancesProofs ---------------------------
(***************************************************************************)
(* Proofs about the account balances, for every set of accounts, height,   *)
(* interval and number of restarts:                                        *)
(*                                                                         *)
(*   BalancesTypeCorrect   the type invariant                              *)
(*   StakersStay           an account with a stake stays in the cache      *)
(*   BalancesNotOlder      a balance is of the last indexed block of the   *)
(*                         account, or the account is still in the cache   *)
(*                                                                         *)
(* The argument: what Range looks up is at least as new as any block       *)
(* whose accounts are already stored (NodeInv), Range visits an account    *)
(* once (RangeInv), so that what is dropped at its end was looked up after *)
(* every block that is done or being done (FreshInv).                      *)
(***************************************************************************)
EXTENDS Balances, FiniteSetsExt, WellFoundedInduction, TLAPS

(* The largest element of a set of heights.                                 *)
LEMMA MaxOfHeights ==
    ASSUME NEW n \in Nat, NEW S \in SUBSET (0..n), S # {}
    PROVE  Max(S) \in S /\ \A x \in S : Max(S) >= x
<1> DEFINE T == {n - x : x \in S}
<1>1. T \subseteq Nat /\ T # {}
  <2>1. \A x \in S : n - x \in Nat
    OBVIOUS
  <2>2. PICK x \in S : TRUE
    OBVIOUS
  <2>3. n - x \in T
    OBVIOUS
  <2> QED
    BY <2>1, <2>3
<1>2. PICK t \in T : \A y \in T : ~ (<<y, t>> \in OpToRel(<, Nat))
  <2> HIDE DEF T
  <2> QED
    BY <1>1, NatLessThanWellFounded, WFMin
<1>3. \A y \in T : ~ (y < t)
  BY <1>1, <1>2 DEF OpToRel
<1>4. PICK x \in S : t = n - x
  BY <1>2
<1>5. \A y \in S : x >= y
  <2>1. SUFFICES ASSUME NEW y \in S PROVE x >= y
    OBVIOUS
  <2>2. n - y \in T
    OBVIOUS
  <2>3. ~ (n - y < n - x)
    BY <1>3, <1>4, <2>2
  <2> QED
    BY <2>3
<1> QED
  BY <1>4, <1>5 DEF Max


-----------------------------------------------------------------------------
(* The type invariant.                                                      *)

(* The block an account was last touched by.                                *)
LEMMA LastTouched ==
    ASSUME AccountAssumption, Init, NEW a \in Accounts
    PROVE  /\ state[a] \in Balance
           /\ \A h \in Heights : a \in touched[h] => state[a].block >= h
<1> DEFINE blocks == {h \in Heights : a \in touched[h]}
<1>1. state[a] = IF blocks = {} THEN Unused
                 ELSE [block |-> CHOOSE h \in blocks : \A g \in blocks : g <= h,
                       kind |-> "some"]
  BY DEF Init
<1>2. CASE blocks = {}
  BY <1>1, <1>2 DEF Unused, Balance, Kinds, AccountAssumption
<1>3. CASE blocks # {}
  <2> DEFINE last == CHOOSE h \in blocks : \A g \in blocks : g <= h
  <2>1. blocks \in SUBSET (0..MaxHeight) /\ MaxHeight \in Nat
    BY DEF Heights, AccountAssumption
  <2>2. Max(blocks) \in blocks /\ \A g \in blocks : Max(blocks) >= g
    BY <1>3, <2>1, MaxOfHeights
  <2>3. \A g \in blocks : g <= Max(blocks)
    <3> HIDE DEF blocks
    <3> QED
      BY <2>1, <2>2
  <2>4. last \in blocks /\ \A g \in blocks : g <= last
    <3> HIDE DEF blocks
    <3> QED
      BY <2>2, <2>3
  <2>5. state[a] = [block |-> last, kind |-> "some"]
    BY <1>1, <1>3
  <2>6. state[a].block = last /\ state[a] \in Balance
    <3>1. last \in 0..MaxHeight
      <4> HIDE DEF last, blocks
      <4> QED
        BY <2>1, <2>4
    <3> HIDE DEF last
    <3> QED
      BY <2>5, <3>1 DEF Balance, Kinds
  <2>7. ASSUME NEW h \in Heights, a \in touched[h]
        PROVE  last >= h
    <3>1. h \in blocks
      BY <2>7
    <3> HIDE DEF last, blocks
    <3> QED
      BY <2>1, <2>4, <3>1 DEF Heights
  <2> QED
    <3> HIDE DEF last
    <3> QED
      BY <2>6, <2>7
<1> QED
  BY <1>2, <1>3

LEMMA TypeInit ==
    ASSUME AccountAssumption, Init PROVE TypeOK
<1>1. state \in [Accounts -> Balance]
  <2>1. state = [a \in Accounts |-> state[a]]
    BY DEF Init
  <2> QED
    BY <2>1, LastTouched
<1>2. Unused \in Balance
  BY DEF AccountAssumption, Unused, Balance, Kinds
<1>3. checked \in [Accounts -> 0..MaxHeight] /\ docs \in [Accounts -> Balance \cup {None}]
  BY DEF Init, AccountAssumption
<1>4. addrsBalance \subseteq Accounts /\ stores \subseteq Accounts
  BY DEF Init, AccountAssumption
<1>5. /\ best \in Heights /\ nextSync \in 1..best+1 /\ todo \subseteq 1..best
      /\ bulk \in 0..best /\ done \subseteq 1..best
  BY DEF Init, AccountAssumption, Heights
<1> QED
  BY <1>1, <1>2, <1>3, <1>4, <1>5 DEF TypeOK, Init

LEMMA TypeStep ==
    ASSUME AccountAssumption, TypeOK, RangeInv, [Next]_vars PROVE TypeOK'
<1> USE DEF Heights
<1>t. /\ MaxHeight \in Nat /\ best \in 1..MaxHeight
      /\ Unused \in Balance /\ Given \subseteq Accounts
  BY DEF AccountAssumption, TypeOK, Unused, Balance, Kinds
<1>1. CASE UNCHANGED vars
  BY <1>1 DEF TypeOK, vars, nodeVars, bulkVars, rangeVars, dbVars, excused
<1>2. CASE NodeExtend
  <2>1. PICK T \in SUBSET Accounts, kind \in [Accounts -> Kinds] :
           /\ touched' = [touched EXCEPT ![best + 1] = T]
           /\ state' = [a \in Accounts |->
                 IF a \in T THEN [block |-> best + 1, kind |-> kind[a]] ELSE state[a]]
    BY <1>2 DEF NodeExtend
  <2>2. best' = best + 1 /\ best + 1 \in 1..MaxHeight
    BY <1>2, <1>t DEF NodeExtend
  <2>3. touched' \in [1..MaxHeight -> SUBSET Accounts]
    BY <2>1, <2>2 DEF TypeOK
  <2>4. state' \in [Accounts -> Balance]
    <3>1. \A a \in Accounts : [block |-> best + 1, kind |-> kind[a]] \in Balance
      BY <2>1, <2>2, <1>t DEF Balance
    <3> QED
      BY <2>1, <3>1 DEF TypeOK
  <2>5. /\ nextSync \in 1..best'+1 /\ todo \subseteq 1..best' /\ bulk \in 0..best'
        /\ done \subseteq 1..best'
    BY <2>2, <1>t DEF TypeOK
  <2> QED
    BY <1>2, <2>2, <2>3, <2>4, <2>5
    DEF TypeOK, NodeExtend, bulkVars, rangeVars, dbVars, excused
<1>3. CASE BulkTake
  BY <1>3, <1>t DEF TypeOK, BulkTake, nodeVars, rangeVars, dbVars, excused
<1>4. CASE BulkStore
  BY <1>4, <1>t DEF TypeOK, BulkStore, nodeVars, rangeVars, dbVars, excused
<1>5. CASE BulkAdd
  BY <1>5, <1>t DEF TypeOK, BulkAdd, nodeVars, rangeVars, dbVars, excused
<1>6. CASE SyncBlock
  <2>1. nextSync \in 1..best /\ nextSync' \in 1..best+1
    BY <1>6, <1>t DEF SyncBlock, TypeOK
  <2>2. addrsBalance' \subseteq Accounts
    BY <1>6, <2>1, <1>t DEF SyncBlock, TypeOK
  <2> QED
    BY <1>6, <2>1, <2>2 DEF TypeOK, SyncBlock, nodeVars, bulkVars, dbVars, excused
<1>7. ASSUME NEW a \in Accounts, Visit(a) PROVE TypeOK'
  BY <1>7 DEF TypeOK, Visit, nodeVars, bulkVars, dbVars, excused
<1>8. ASSUME NEW a \in Accounts, VisitNew(a) PROVE TypeOK'
  BY <1>8 DEF TypeOK, VisitNew, nodeVars, bulkVars, dbVars, excused
<1>9. CASE BalanceOf
  <2>1. address \in Accounts
    BY <1>9 DEF BalanceOf, RangeInv, TypeOK
  <2>2. answer' \in Balance
    BY <1>9, <2>1, <1>t DEF BalanceOf, TypeOK
  <2> QED
    BY <1>9, <2>2 DEF TypeOK, BalanceOf, nodeVars, bulkVars, dbVars
<1>10. CASE GetAccountBalance
  <2>1. address \in Accounts
    BY <1>10 DEF GetAccountBalance, RangeInv, TypeOK
  <2> QED
    BY <1>10, <2>1 DEF TypeOK, GetAccountBalance, nodeVars, bulkVars, dbVars, excused
<1>11. CASE AddAccountBalance
  <2>1. docs' \in [Accounts -> Balance \cup {None}]
    BY <1>11 DEF AddAccountBalance, TypeOK
  <2>2. answer.block \in 0..MaxHeight
    BY DEF TypeOK, Balance
  <2>3. checked' \in [Accounts -> 0..MaxHeight]
    BY <1>11, <2>2 DEF AddAccountBalance, TypeOK
  <2> QED
    BY <1>11, <2>1, <2>3 DEF TypeOK, AddAccountBalance, nodeVars, bulkVars, excused
<1>12. CASE EndRefresh
  BY <1>12 DEF TypeOK, EndRefresh, nodeVars, bulkVars, dbVars, excused
<1>13. CASE Restart
  <2>1. Registered \subseteq Accounts
    BY <1>t DEF Registered
  <2>2. best \in 1..best+1 /\ Missing \subseteq 1..best /\ 0 \in 0..best
    BY <1>t DEF Missing
  <2> QED
    BY <1>13, <2>1, <2>2, <1>t DEF TypeOK, Restart, nodeVars, dbVars
<1> QED
  BY <1>1, <1>2, <1>3, <1>4, <1>5, <1>6, <1>7, <1>8, <1>9, <1>10, <1>11, <1>12, <1>13
  DEF Next, BulkStep, SyncStep

-----------------------------------------------------------------------------
(* Range and the cache.                                                     *)

LEMMA RangeInit ==
    ASSUME AccountAssumption, Init PROVE RangeInv
<1>1. \A a \in Accounts : docs[a] = None
  BY DEF Init
<1> QED
  BY <1>1 DEF Init, RangeInv, AccountAssumption

LEMMA RangeStep ==
    ASSUME AccountAssumption, TypeOK, RangeInv, [Next]_vars PROVE RangeInv'
<1>1. CASE UNCHANGED vars
  BY <1>1 DEF RangeInv, vars, nodeVars, bulkVars, rangeVars, dbVars, excused
<1>2. CASE NodeExtend
  BY <1>2 DEF RangeInv, NodeExtend, bulkVars, rangeVars, dbVars, excused
<1>3. CASE BulkTake
  BY <1>3 DEF RangeInv, BulkTake, nodeVars, rangeVars, dbVars, excused
<1>4. CASE BulkStore
  BY <1>4 DEF RangeInv, BulkStore, nodeVars, rangeVars, dbVars, excused
<1>5. CASE BulkAdd
  BY <1>5 DEF RangeInv, BulkAdd, nodeVars, rangeVars, dbVars, excused
<1>6. CASE SyncBlock
  BY <1>6 DEF RangeInv, SyncBlock, nodeVars, bulkVars, dbVars, excused
<1>7. ASSUME NEW a \in Accounts, Visit(a) PROVE RangeInv'
  BY <1>7 DEF RangeInv, Visit, nodeVars, bulkVars, dbVars, excused
<1>8. ASSUME NEW a \in Accounts, VisitNew(a) PROVE RangeInv'
  BY <1>8 DEF RangeInv, VisitNew, nodeVars, bulkVars, dbVars, excused
<1>9. CASE BalanceOf
  BY <1>9 DEF RangeInv, BalanceOf, nodeVars, bulkVars, dbVars
<1>10. CASE GetAccountBalance
  BY <1>10 DEF RangeInv, GetAccountBalance, nodeVars, bulkVars, dbVars, excused
<1>11. CASE AddAccountBalance
  <2>1. /\ pc = "write" /\ pc' = "range" /\ document = docs[address]
        /\ address \in visited \ (mapBalance \cup Aliases) /\ address \in Accounts
        /\ address \in addrsBalance
        /\ UNCHANGED <<addrsBalance, left, visited>>
    BY <1>11 DEF AddAccountBalance, RangeInv, TypeOK
  <2>2. mapBalance' = IF Tracked THEN mapBalance ELSE mapBalance \cup {address}
    BY <1>11 DEF AddAccountBalance
  <2>3. docs' = IF Written THEN [docs EXCEPT ![address] = answer] ELSE docs
    BY <1>11 DEF AddAccountBalance
  <2>4. \A a \in Accounts : a # address => docs'[a] = docs[a]
    BY <2>3 DEF TypeOK
  <2>5. docs'[address] = answer \/ docs'[address] = None
    BY <2>1, <2>3 DEF TypeOK, Written
  <2>6. \A a \in Aliases : docs'[a] = None
    BY <2>1, <2>4 DEF RangeInv, AccountAssumption
  <2>7. ASSUME NEW a \in Accounts, docs'[a] # None, docs'[a].kind = "staked"
        PROVE  a \in addrsBalance \ mapBalance'
    <3>1. CASE a = address
      BY <2>1, <2>2, <2>5, <2>7, <3>1 DEF Tracked
    <3>2. CASE a # address
      BY <2>2, <2>4, <2>7, <3>2 DEF RangeInv
    <3> QED
      BY <3>1, <3>2
  <2> QED
    BY <2>1, <2>2, <2>6, <2>7 DEF RangeInv
<1>12. CASE EndRefresh
  BY <1>12 DEF RangeInv, EndRefresh, Dropped, nodeVars, bulkVars, dbVars, excused
<1>13. CASE Restart
  BY <1>13 DEF RangeInv, Restart, Registered, nodeVars, dbVars
<1> QED
  BY <1>1, <1>2, <1>3, <1>4, <1>5, <1>6, <1>7, <1>8, <1>9, <1>10, <1>11, <1>12, <1>13
  DEF Next, BulkStep, SyncStep

-----------------------------------------------------------------------------
(* The node.                                                                *)

LEMMA NodeInit ==
    ASSUME AccountAssumption, Init PROVE NodeInv
<1>1. ASSUME NEW a \in Accounts, NEW h \in Heights, a \in touched[h] PROVE h <= best
  <2>1. ~ (h \in StartHeight+1..MaxHeight)
    BY <1>1 DEF Init
  <2> QED
    BY <2>1 DEF Init, Heights, AccountAssumption
<1> QED
  BY <1>1, LastTouched DEF NodeInv

LEMMA NodeStep ==
    ASSUME AccountAssumption, TypeOK, NodeInv, [Next]_vars PROVE NodeInv'
<1>1. CASE UNCHANGED nodeVars
  BY <1>1 DEF NodeInv, nodeVars
<1>2. CASE NodeExtend
  <2>1. PICK T \in SUBSET Accounts, kind \in [Accounts -> Kinds] :
           /\ touched' = [touched EXCEPT ![best + 1] = T]
           /\ state' = [a \in Accounts |->
                 IF a \in T THEN [block |-> best + 1, kind |-> kind[a]] ELSE state[a]]
    BY <1>2 DEF NodeExtend
  <2>2. best' = best + 1 /\ best \in 1..MaxHeight /\ MaxHeight \in Nat
    BY <1>2 DEF NodeExtend, TypeOK, Heights, AccountAssumption
  <2>3. SUFFICES ASSUME NEW a \in Accounts, NEW h \in Heights, a \in touched'[h]
                 PROVE  h <= best' /\ state'[a].block >= h
    BY DEF NodeInv
  <2>4. h \in 1..MaxHeight
    BY DEF Heights
  <2>5. h <= best + 1
    <3>1. CASE h = best + 1
      BY <3>1, <2>2
    <3>2. CASE h # best + 1
      <4>1. touched'[h] = touched[h]
        BY <2>1, <3>2 DEF TypeOK
      <4>2. h <= best
        BY <2>3, <4>1 DEF NodeInv
      <4> QED
        BY <4>2, <2>2, <2>4
    <3> QED
      BY <3>1, <3>2
  <2>6. state'[a].block >= h
    <3>1. CASE a \in T
      <4>1. state'[a].block = best + 1
        BY <2>1, <3>1
      <4> QED
        BY <4>1, <2>2, <2>4, <2>5
    <3>2. CASE a \notin T
      <4>1. touched'[h] = touched[h]
        <5>1. CASE h = best + 1
          BY <5>1, <2>1, <2>3, <3>2 DEF TypeOK
        <5>2. CASE h # best + 1
          BY <5>2, <2>1 DEF TypeOK
        <5> QED
          BY <5>1, <5>2
      <4>2. state'[a] = state[a]
        BY <2>1, <3>2
      <4> QED
        BY <2>3, <4>1, <4>2 DEF NodeInv
    <3> QED
      BY <3>1, <3>2
  <2> QED
    BY <2>2, <2>5, <2>6
<1>3. CASE BulkStep \/ SyncStep \/ Restart
  <2>1. UNCHANGED nodeVars
    BY <1>3 DEF BulkStep, SyncStep, BulkTake, BulkStore, BulkAdd, SyncBlock, Visit, VisitNew,
         BalanceOf, GetAccountBalance, AddAccountBalance, EndRefresh, Restart, nodeVars
  <2> QED
    BY <1>1, <2>1
<1> QED
  BY <1>1, <1>2, <1>3 DEF Next, vars, nodeVars

-----------------------------------------------------------------------------
(* What is looked up or dropped.                                            *)

(* The blocks done, being done or to be done are blocks of the chain.       *)
LEMMA AtWorkHeights ==
    ASSUME AccountAssumption, TypeOK
    PROVE  /\ \A h \in AtWork : h \in 1..best /\ h \in Heights
           /\ done \subseteq AtWork
           /\ bulk # 0 => bulk \in AtWork
<1>1. best \in 1..MaxHeight /\ MaxHeight \in Nat
  BY DEF AccountAssumption, TypeOK, Heights
<1>2. ASSUME NEW h \in AtWork PROVE h \in 1..best
  BY <1>1, <1>2 DEF AtWork, TypeOK
<1>3. ASSUME NEW h \in 1..best PROVE h \in Heights
  BY <1>1 DEF Heights
<1> QED
  BY <1>2, <1>3 DEF AtWork

(* A step that leaves the documents and what was looked up alone leaves     *)
(* Fresh alone.                                                             *)
LEMMA FreshSame ==
    ASSUME UNCHANGED dbVars, NEW a, NEW h
    PROVE  Fresh(a, h)' <=> Fresh(a, h)
BY DEF dbVars, Fresh

LEMMA FreshInit ==
    ASSUME AccountAssumption, Init PROVE FreshInv
BY DEF Init, FreshInv, BalanceFresh, AnswerFresh, DroppedFresh, StoredFresh

LEMMA FreshExtend ==
    ASSUME AccountAssumption, TypeOK, FreshInv, NodeExtend PROVE FreshInv'
<1>1. best' = best + 1 /\ best \in 1..MaxHeight /\ MaxHeight \in Nat
  BY DEF NodeExtend, TypeOK, Heights, AccountAssumption
<1>2. PICK T \in SUBSET Accounts : touched' = [touched EXCEPT ![best + 1] = T]
  BY DEF NodeExtend
<1>3. ASSUME NEW h \in AtWork PROVE touched'[h] = touched[h]
  <2>1. h \in 1..best /\ h \in Heights
    BY AtWorkHeights
  <2>2. h # best + 1
    BY <1>1, <2>1
  <2> QED
    BY <1>2, <2>1, <2>2 DEF TypeOK
<1>4. /\ UNCHANGED <<done, todo, bulk, stores, addrsBalance, pc, address, answer, mapBalance>>
      /\ UNCHANGED <<misread, lost>> /\ UNCHANGED dbVars
  BY DEF NodeExtend, bulkVars, rangeVars, excused
<1>5. AtWork' = AtWork
  BY <1>4 DEF AtWork
<1>6. \A a, h : Fresh(a, h)' <=> Fresh(a, h)
  BY <1>4, FreshSame
<1>7. BalanceFresh'
  BY <1>3, <1>4, <1>6, AtWorkHeights DEF FreshInv, BalanceFresh
<1>8. AnswerFresh'
  BY <1>3, <1>4, <1>5 DEF FreshInv, AnswerFresh
<1>9. DroppedFresh'
  BY <1>3, <1>4, <1>5, <1>6 DEF FreshInv, DroppedFresh
<1>10. StoredFresh'
  BY <1>3, <1>4, <1>6, AtWorkHeights DEF FreshInv, StoredFresh
<1> QED
  BY <1>7, <1>8, <1>9, <1>10 DEF FreshInv

(* A miner of the check and the refresh leave each other alone: the steps   *)
(* that write no balance.                                                   *)
LEMMA FreshKept ==
    ASSUME FreshInv,
           UNCHANGED <<touched, docs, checked, mapBalance, address, answer>>,
           misread \subseteq misread', lost \subseteq lost',
           AtWork' \subseteq AtWork,
           pc' \in {"get", "write"} => pc \in {"get", "write"}
    PROVE  AnswerFresh' /\ DroppedFresh'
<1>1. \A a, h : Fresh(a, h)' <=> Fresh(a, h)
  BY DEF Fresh
<1> QED
  BY <1>1 DEF FreshInv, AnswerFresh, DroppedFresh

LEMMA FreshBulk ==
    ASSUME AccountAssumption, TypeOK, FreshInv, BulkStep PROVE FreshInv'
<1>1. /\ UNCHANGED <<touched, docs, checked, mapBalance, address, answer, misread, lost, pc>>
  BY DEF BulkStep, BulkTake, BulkStore, BulkAdd, nodeVars, rangeVars, dbVars, excused
<1>2. \A a, h : Fresh(a, h)' <=> Fresh(a, h)
  BY <1>1 DEF Fresh
<1>3. CASE BulkTake
  <2>1. PICK h \in todo : todo' = todo \ {h} /\ bulk' = h /\ stores' = touched[h]
    BY <1>3 DEF BulkTake
  <2>2. bulk = 0 /\ h # 0 /\ done' = done /\ addrsBalance' = addrsBalance
    BY <1>3, <2>1 DEF BulkTake, TypeOK
  <2>3. AtWork' = AtWork
    BY <2>1, <2>2 DEF AtWork
  <2>4. BalanceFresh'
    BY <1>1, <1>2, <2>2 DEF FreshInv, BalanceFresh
  <2>5. StoredFresh'
    BY <1>1, <2>1, <2>2 DEF StoredFresh
  <2> QED
    BY <1>1, <2>3, <2>4, <2>5, FreshKept
    DEF FreshInv
<1>4. CASE BulkStore
  <2>1. PICK a \in stores : stores' = stores \ {a} /\ addrsBalance' = addrsBalance \cup {a}
    BY <1>4 DEF BulkStore
  <2>2. UNCHANGED <<done, todo, bulk>>
    BY <1>4 DEF BulkStore
  <2>3. AtWork' = AtWork
    BY <2>2 DEF AtWork
  <2>4. BalanceFresh'
    BY <1>1, <1>2, <2>1, <2>2 DEF FreshInv, BalanceFresh
  <2>5. StoredFresh'
    BY <1>1, <1>2, <2>1, <2>2 DEF FreshInv, StoredFresh
  <2> QED
    BY <1>1, <2>3, <2>4, <2>5, FreshKept DEF FreshInv
<1>5. CASE BulkAdd
  <2>1. /\ bulk # 0 /\ stores = {} /\ done' = done \cup {bulk} /\ bulk' = 0
        /\ UNCHANGED <<addrsBalance, todo>>
    BY <1>5 DEF BulkAdd
  <2>2. AtWork' = AtWork
    BY <2>1 DEF AtWork
  <2>3. BalanceFresh'
    BY <1>1, <1>2, <2>1 DEF FreshInv, BalanceFresh, StoredFresh
  <2>4. StoredFresh'
    BY <2>1 DEF StoredFresh
  <2> QED
    BY <1>1, <2>2, <2>3, <2>4, FreshKept DEF FreshInv
<1> QED
  BY <1>3, <1>4, <1>5 DEF BulkStep

LEMMA FreshSyncBlock ==
    ASSUME AccountAssumption, TypeOK, RangeInv, FreshInv, SyncBlock PROVE FreshInv'
<1>1. /\ UNCHANGED <<touched, docs, checked, misread, lost, bulk, stores, mapBalance>>
      /\ pc = "idle" /\ pc' \in {"idle", "range"}
      /\ addrsBalance' = addrsBalance \cup touched[nextSync]
      /\ done' = done \cup {nextSync}
  BY DEF SyncBlock, nodeVars, bulkVars, dbVars, excused
<1>2. \A a, h : Fresh(a, h)' <=> Fresh(a, h)
  BY <1>1 DEF Fresh
<1>3. BalanceFresh'
  BY <1>1, <1>2 DEF FreshInv, BalanceFresh
<1>4. AnswerFresh'
  BY <1>1 DEF AnswerFresh
<1>5. DroppedFresh'
  BY <1>1 DEF DroppedFresh, RangeInv
<1>6. StoredFresh'
  BY <1>1, <1>2 DEF FreshInv, StoredFresh
<1> QED
  BY <1>3, <1>4, <1>5, <1>6 DEF FreshInv

LEMMA FreshVisit ==
    ASSUME AccountAssumption, TypeOK, FreshInv, NEW a \in Accounts, Visit(a) \/ VisitNew(a)
    PROVE  FreshInv'
<1>1. /\ UNCHANGED <<touched, docs, checked, misread, lost, bulk, stores, done, todo>>
      /\ UNCHANGED addrsBalance
      /\ pc' \in {"range", "query"}
      /\ mapBalance' \ Aliases = mapBalance \ Aliases
  BY DEF Visit, VisitNew, nodeVars, bulkVars, dbVars, excused
<1>2. \A b, h : Fresh(b, h)' <=> Fresh(b, h)
  BY <1>1 DEF Fresh
<1>3. AtWork' = AtWork
  BY <1>1 DEF AtWork
<1>4. BalanceFresh' /\ StoredFresh'
  BY <1>1, <1>2 DEF FreshInv, BalanceFresh, StoredFresh
<1>5. AnswerFresh'
  BY <1>1 DEF AnswerFresh
<1>6. DroppedFresh'
  BY <1>1, <1>2, <1>3 DEF FreshInv, DroppedFresh
<1> QED
  BY <1>4, <1>5, <1>6 DEF FreshInv

LEMMA FreshBalanceOf ==
    ASSUME AccountAssumption, TypeOK, RangeInv, NodeInv, FreshInv, BalanceOf PROVE FreshInv'
<1>1. /\ UNCHANGED <<touched, docs, checked, lost, bulk, stores, done, todo>>
      /\ UNCHANGED <<addrsBalance, mapBalance, address>>
      /\ misread \subseteq misread'
  BY DEF BalanceOf, nodeVars, bulkVars, dbVars
<1>2. \A b, h : Fresh(b, h)' <=> Fresh(b, h)
  BY <1>1 DEF Fresh
<1>3. AtWork' = AtWork
  BY <1>1 DEF AtWork
<1>4. BalanceFresh' /\ StoredFresh' /\ DroppedFresh'
  BY <1>1, <1>2, <1>3 DEF FreshInv, BalanceFresh, StoredFresh, DroppedFresh
<1>5. AnswerFresh'
  <2>1. SUFFICES ASSUME address \notin misread', NEW h \in AtWork, address \in touched[h]
                 PROVE  answer'.block >= h
    BY <1>1, <1>3 DEF AnswerFresh
  <2>2. address \in Accounts
    BY DEF BalanceOf, RangeInv, TypeOK
  <2>3. answer' = state[address]
    BY <2>1 DEF BalanceOf
  <2>4. h \in Heights
    BY AtWorkHeights
  <2> QED
    BY <2>1, <2>2, <2>3, <2>4 DEF NodeInv
<1> QED
  BY <1>4, <1>5 DEF FreshInv

LEMMA FreshGet ==
    ASSUME FreshInv, GetAccountBalance PROVE FreshInv'
<1>1. /\ UNCHANGED <<touched, docs, checked, misread, lost, bulk, stores, done, todo>>
      /\ UNCHANGED <<addrsBalance, mapBalance, address, answer>>
      /\ pc = "get" /\ pc' = "write"
  BY DEF GetAccountBalance, nodeVars, bulkVars, dbVars, excused
<1>2. \A b, h : Fresh(b, h)' <=> Fresh(b, h)
  BY <1>1 DEF Fresh
<1>3. AtWork' = AtWork
  BY <1>1 DEF AtWork
<1> QED
  BY <1>1, <1>2, <1>3 DEF FreshInv, BalanceFresh, AnswerFresh, DroppedFresh, StoredFresh

(* What is written, or found to be nothing, is what was looked up.          *)
LEMMA FreshAdd ==
    ASSUME AccountAssumption, TypeOK, RangeInv, FreshInv, AddAccountBalance PROVE FreshInv'
<1>1. /\ UNCHANGED <<touched, misread, lost, bulk, stores, done, todo, addrsBalance, address>>
      /\ pc = "write" /\ pc' = "range"
      /\ mapBalance' \subseteq mapBalance \cup {address}
      /\ docs' = IF Written THEN [docs EXCEPT ![address] = answer] ELSE docs
      /\ checked' = [checked EXCEPT ![address] = answer.block]
  BY DEF AddAccountBalance, nodeVars, bulkVars, excused
<1>2. address \in Accounts /\ document = docs[address]
  BY <1>1 DEF RangeInv, TypeOK
<1>3. ASSUME NEW b \in Accounts, b # address, NEW h PROVE Fresh(b, h)' <=> Fresh(b, h)
  <2>1. docs'[b] = docs[b] /\ checked'[b] = checked[b]
    BY <1>1, <1>3 DEF TypeOK
  <2> QED
    BY <2>1 DEF Fresh
<1>4. ASSUME address \notin misread, NEW h \in AtWork, address \in touched[h]
      PROVE  Fresh(address, h)'
  <2>1. answer.block >= h
    BY <1>1, <1>4 DEF FreshInv, AnswerFresh
  <2>2. checked'[address] = answer.block
    BY <1>1, <1>2 DEF TypeOK
  <2>3. docs'[address] = answer \/ docs'[address] = None
    BY <1>1, <1>2 DEF TypeOK, Written
  <2> QED
    BY <1>1, <2>1, <2>2, <2>3 DEF Fresh
<1>5. AtWork' = AtWork
  BY <1>1 DEF AtWork
<1>6. ASSUME NEW h \in AtWork PROVE touched[h] \subseteq Accounts
  <2>1. h \in Heights
    BY AtWorkHeights
  <2> QED
    BY <2>1 DEF TypeOK
<1>7. BalanceFresh'
  <2>1. SUFFICES ASSUME NEW h \in done, NEW a \in touched[h] \ (Aliases \cup lost \cup misread)
                 PROVE  a \in addrsBalance \/ Fresh(a, h)'
    BY <1>1 DEF BalanceFresh
  <2>2. h \in AtWork /\ a \in Accounts
    BY <1>6, <2>1, AtWorkHeights
  <2>3. a \in addrsBalance \/ Fresh(a, h)
    BY <2>1 DEF FreshInv, BalanceFresh
  <2> QED
    BY <1>1, <1>3, <1>4, <2>1, <2>2, <2>3
<1>8. DroppedFresh'
  <2>1. SUFFICES ASSUME NEW a \in mapBalance' \ (Aliases \cup misread),
                        NEW h \in AtWork, a \in touched[h]
                 PROVE  Fresh(a, h)'
    BY <1>1, <1>5 DEF DroppedFresh
  <2>2. a \in Accounts
    BY <1>6, <2>1
  <2>3. CASE a = address
    BY <1>1, <1>4, <2>1, <2>3
  <2>4. CASE a # address
    BY <1>1, <1>3, <2>1, <2>2, <2>4 DEF FreshInv, DroppedFresh
  <2> QED
    BY <2>3, <2>4
<1>9. StoredFresh'
  <2>1. SUFFICES ASSUME bulk # 0,
                        NEW a \in touched[bulk] \ (stores \cup Aliases \cup lost \cup misread)
                 PROVE  a \in addrsBalance \/ Fresh(a, bulk)'
    BY <1>1 DEF StoredFresh
  <2>2. bulk \in AtWork /\ a \in Accounts
    BY <1>6, <2>1, AtWorkHeights
  <2>3. a \in addrsBalance \/ Fresh(a, bulk)
    BY <2>1 DEF FreshInv, StoredFresh
  <2> QED
    BY <1>1, <1>3, <1>4, <2>1, <2>2, <2>3
<1>10. AnswerFresh'
  BY <1>1 DEF AnswerFresh
<1> QED
  BY <1>7, <1>8, <1>9, <1>10 DEF FreshInv

LEMMA FreshEnd ==
    ASSUME AccountAssumption, TypeOK, FreshInv, EndRefresh PROVE FreshInv'
<1>1. /\ UNCHANGED <<touched, docs, checked, misread, lost, bulk, stores, done, todo>>
      /\ addrsBalance' = addrsBalance \ mapBalance
      /\ pc' = "idle" /\ mapBalance' = {}
  BY DEF EndRefresh, Dropped, nodeVars, bulkVars, dbVars, excused
<1>2. \A b, h : Fresh(b, h)' <=> Fresh(b, h)
  BY <1>1 DEF Fresh
<1>3. done \subseteq AtWork /\ (bulk # 0 => bulk \in AtWork)
  BY AtWorkHeights
<1>4. BalanceFresh'
  BY <1>1, <1>2, <1>3 DEF FreshInv, BalanceFresh, DroppedFresh
<1>5. StoredFresh'
  BY <1>1, <1>2, <1>3 DEF FreshInv, StoredFresh, DroppedFresh
<1>6. AnswerFresh' /\ DroppedFresh'
  BY <1>1 DEF AnswerFresh, DroppedFresh
<1> QED
  BY <1>4, <1>5, <1>6 DEF FreshInv

(* What was in the cache only is lost; the rest starts from its documents.  *)
LEMMA FreshRestart ==
    ASSUME AccountAssumption, TypeOK, FreshInv, Restart PROVE FreshInv'
<1>1. /\ UNCHANGED <<touched, docs, checked, misread, done>>
      /\ lost' = lost \cup {a \in addrsBalance : docs[a] = None}
      /\ addrsBalance' = Registered
      /\ bulk' = 0 /\ pc' = "idle" /\ mapBalance' = {}
  BY DEF Restart, nodeVars, dbVars
<1>2. \A b, h : Fresh(b, h)' <=> Fresh(b, h)
  BY <1>1 DEF Fresh
<1>3. BalanceFresh'
  <2>1. SUFFICES ASSUME NEW h \in done,
                        NEW a \in touched[h] \ (Aliases \cup lost' \cup misread)
                 PROVE  a \in Registered \/ Fresh(a, h)
    BY <1>1, <1>2 DEF BalanceFresh
  <2>2. a \in Accounts
    <3>1. h \in Heights
      BY AtWorkHeights
    <3> QED
      BY <3>1 DEF TypeOK
  <2>3. CASE docs[a] = None
    BY <1>1, <2>1, <2>3 DEF FreshInv, BalanceFresh
  <2>4. CASE docs[a] # None
    BY <2>2, <2>4 DEF Registered
  <2> QED
    BY <2>3, <2>4
<1>4. AnswerFresh' /\ DroppedFresh' /\ StoredFresh'
  BY <1>1 DEF AnswerFresh, DroppedFresh, StoredFresh
<1> QED
  BY <1>3, <1>4 DEF FreshInv

LEMMA FreshStep ==
    ASSUME AccountAssumption, TypeOK, RangeInv, NodeInv, FreshInv, [Next]_vars
    PROVE  FreshInv'
<1>1. CASE UNCHANGED vars
  BY <1>1 DEF FreshInv, BalanceFresh, AnswerFresh, DroppedFresh, StoredFresh, Fresh,
              AtWork, vars, nodeVars, bulkVars, rangeVars, dbVars, excused
<1>2. CASE SyncStep
  BY <1>2, FreshSyncBlock, FreshVisit, FreshBalanceOf, FreshGet, FreshAdd, FreshEnd
  DEF SyncStep
<1> QED
  BY <1>1, <1>2, FreshExtend, FreshBulk, FreshRestart DEF Next

-----------------------------------------------------------------------------
BalancesInv == TypeOK /\ RangeInv /\ NodeInv /\ FreshInv

LEMMA BalancesInvariant == Spec => []BalancesInv
<1>1. Init => BalancesInv
  BY AccountAssumption, TypeInit, RangeInit, NodeInit, FreshInit DEF BalancesInv
<1>2. BalancesInv /\ [Next]_vars => BalancesInv'
  BY AccountAssumption, TypeStep, RangeStep, NodeStep, FreshStep DEF BalancesInv
<1> QED
  BY <1>1, <1>2, PTL DEF Spec

(* The type invariant of the balances (cache.go, miner.go).                 *)
THEOREM BalancesTypeCorrect == Spec => []TypeOK
BY BalancesInvariant, PTL DEF BalancesInv

(* An account with a stake stays in the cache, also after a restart         *)
(* (cache.go:73-112, miner.go:294).                                         *)
THEOREM StakersStay == Spec => []StakersTracked
<1>1. BalancesInv => StakersTracked
  BY DEF BalancesInv, RangeInv, StakersTracked
<1> QED
  BY <1>1, BalancesInvariant, PTL

(* The balance of an account of an indexed block is of that block or a      *)
(* later one, or the account is still in the cache, while a miner of the    *)
(* check stores accounts (cache.go:73-112, miner.go:160-190): but for the   *)
(* aliases, the accounts whose query failed, and those a restart lost.      *)
THEOREM BalancesNotOlder == Spec => []BalanceFresh
<1>1. BalancesInv => BalanceFresh
  BY DEF BalancesInv, FreshInv
<1> QED
  BY <1>1, BalancesInvariant, PTL
=============================================================================
