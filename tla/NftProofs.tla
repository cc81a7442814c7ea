----------------------------- MODULE NftProofs -----------------------------
(* The document of one NFT, for every number of miners, blocks and          *)
(* transfers.                                                               *)
EXTENDS Nft, WellFoundedInduction, TLAPS

(* The largest element of a set of heights.                                 *)
LEMMA MaxOfHeights ==
    ASSUME NEW n \in Nat, NEW S \in SUBSET (0..n), S # {}
    PROVE  Max(S) \in S /\ \A x \in S : Max(S) >= x
<1> DEFINE T == {n - x : x \in S}
<1>1. T \subseteq Nat /\ T # {}
  <2>1. \A x \in S : n - x \in Nat
    OBVIOUS
  <2>2. PICK x \in S : TRUE
    OBVIOUS
  <2>3. n - x \in T
    OBVIOUS
  <2> QED
    BY <2>1, <2>3
<1>2. PICK t \in T : \A y \in T : ~ (<<y, t>> \in OpToRel(<, Nat))
  <2> HIDE DEF T
  <2> QED
    BY <1>1, NatLessThanWellFounded, WFMin
<1>3. \A y \in T : ~ (y < t)
  BY <1>1, <1>2 DEF OpToRel
<1>4. PICK x \in S : t = n - x
  BY <1>2
<1>5. \A y \in S : x >= y
  <2>1. SUFFICES ASSUME NEW y \in S PROVE x >= y
    OBVIOUS
  <2>2. n - y \in T
    OBVIOUS
  <2>3. ~ (n - y < n - x)
    BY <1>3, <1>4, <2>2
  <2> QED
    BY <2>3
<1> QED
  BY <1>4, <1>5 DEF Max


(* Heights and miners.                                                      *)
LEMMA Parameters ==
    /\ StartHeight \in Nat /\ MaxHeight \in Nat /\ StartHeight <= MaxHeight
    /\ Sync \notin BulkMiners /\ Sync \in Miners /\ BulkMiners \subseteq Miners
    /\ Heights = 1..MaxHeight /\ Heights \subseteq 0..MaxHeight /\ Heights \subseteq Nat
    /\ None \notin Doc
<1>1. /\ StartHeight \in Nat /\ MaxHeight \in Nat /\ StartHeight <= MaxHeight
      /\ Sync \notin BulkMiners /\ Sync \in Miners /\ BulkMiners \subseteq Miners
  BY HeightAssumption DEF Miners
<1>2. Heights = 1..MaxHeight /\ Heights \subseteq 0..MaxHeight /\ Heights \subseteq Nat
  BY <1>1 DEF Heights
<1>3. None \notin Doc
  BY <1>2, HeightAssumption DEF Doc
<1> QED
  BY <1>1, <1>2, <1>3

(* The owner at a height is the last one before it (QueryOwnerOf).          *)
LEMMA LastTransfer ==
    ASSUME transfers \subseteq Heights, NEW b \in Nat,
           NEW t \in transfers, t <= b
    PROVE  /\ OwnerOf(b) \in transfers /\ OwnerOf(b) <= b
           /\ \A u \in transfers : u <= b => u <= OwnerOf(b)
<1> DEFINE S == {u \in transfers : u <= b}
<1>1. S \in SUBSET (0..MaxHeight) /\ S # {}
  <2>1. S \subseteq transfers /\ t \in S
    OBVIOUS
  <2> HIDE DEF S
  <2> QED
    BY <2>1, Parameters
<1>2. Max(S) \in S /\ \A x \in S : Max(S) >= x
  <2> HIDE DEF S
  <2> QED
    BY <1>1, MaxOfHeights, Parameters
<1>3. OwnerOf(b) = Max(S)
  BY DEF OwnerOf
<1> QED
  BY <1>2, <1>3

-----------------------------------------------------------------------------
(* Types, and owners that are not older than their block.                   *)

LEMMA InvInit == Init => TypeOK /\ OwnerInv /\ SoloInv
<1> SUFFICES ASSUME Init PROVE TypeOK /\ OwnerInv /\ SoloInv
  OBVIOUS
<1>1. TypeOK
  BY Parameters DEF Init, TypeOK
<1>2. OwnerInv
  BY DEF Init, OwnerInv, OwnerNotOlder
<1>3. SoloInv
  BY Parameters DEF Init, SoloInv, Passed
<1> QED
  BY <1>1, <1>2, <1>3

(* What a miner writes is a document (ConvNFT).                             *)
LEMMA WrittenDoc ==
    ASSUME TypeOK, OwnerInv, NEW m \in Miners, pc[m] \in {"write", "update"}
    PROVE  /\ NftDoc(m) \in Doc /\ NftDoc(m).BlockNo = height[m]
           /\ NftDoc(m).Account = owner[m] /\ NftDoc(m) # None
           /\ height[m] <= owner[m] /\ owner[m] \in transfers /\ owner[m] <= best
<1>1. height[m] \in Heights /\ owner[m] \in Heights
  BY DEF TypeOK, OwnerInv
<1> QED
  BY <1>1, Parameters DEF NftDoc, Doc, OwnerInv

LEMMA TypeNext == TypeOK /\ OwnerInv /\ [Next]_vars => TypeOK'
<1> SUFFICES ASSUME TypeOK, OwnerInv, [Next]_vars PROVE TypeOK'
  OBVIOUS
<1>1. CASE NodeExtend
  BY <1>1, Parameters DEF NodeExtend, TypeOK
<1>2. CASE Refresh
  BY <1>2 DEF Refresh, TypeOK
<1>3. ASSUME NEW m \in Miners, MinerStep(m) PROVE TypeOK'
  <2>1. CASE TakeBulk(m)
    BY <2>1, Parameters DEF TakeBulk, Take, Goto, TypeOK
  <2>2. CASE m = Sync /\ TakeSync
    <3>1. nextSync \in 0..MaxHeight /\ nextSync' \in StartHeight+1..MaxHeight+1
      BY <2>2, Parameters DEF TakeSync, TypeOK
    <3> QED
      BY <2>2, <3>1, Parameters DEF TakeSync, Take, Goto, TypeOK
  <2>3. CASE QueryOwnerOf(m)
    <3>1. height[m] \in transfers /\ height[m] <= best /\ best \in Nat
      BY <2>3, Parameters DEF QueryOwnerOf, OwnerInv, TypeOK
    <3>2. OwnerOf(best) \in 0..MaxHeight
      <4>1. OwnerOf(best) \in transfers
        BY <3>1, LastTransfer DEF TypeOK
      <4> QED
        BY <4>1, Parameters DEF TypeOK
    <3> QED
      BY <2>3, <3>2 DEF QueryOwnerOf, Goto, TypeOK
  <2>4. CASE GetNFT(m)
    BY <2>4 DEF GetNFT, Goto, TypeOK
  <2>5. CASE Insert(m)
    BY <2>5, WrittenDoc DEF Insert, Goto, TypeOK
  <2>6. CASE Keep(m)
    BY <2>6 DEF Keep, Goto, TypeOK
  <2>7. CASE UpdateRead(m)
    BY <2>7 DEF UpdateRead, Goto, TypeOK
  <2>8. CASE Update(m)
    BY <2>8, WrittenDoc DEF Update, Goto, TypeOK
  <2>9. CASE Lose(m)
    <3>1. height[m] \in Heights
      BY <2>9 DEF Lose, OwnerInv, TypeOK
    <3> QED
      BY <2>9, <3>1 DEF Lose, Goto, TypeOK
  <2> QED
    BY <1>3, <2>1, <2>2, <2>3, <2>4, <2>5, <2>6, <2>7, <2>8, <2>9 DEF MinerStep
<1>4. CASE UNCHANGED vars
  BY <1>4 DEF vars, TypeOK
<1> QED
  BY <1>1, <1>2, <1>3, <1>4 DEF Next

LEMMA OwnerNext == TypeOK /\ OwnerInv /\ [Next]_vars => OwnerInv'
<1> SUFFICES ASSUME TypeOK, OwnerInv, [Next]_vars PROVE OwnerInv'
  OBVIOUS
<1>1. CASE NodeExtend
  <2>1. best \in Nat /\ best' = best + 1 /\ transfers \subseteq Nat
    BY <1>1, Parameters DEF NodeExtend, TypeOK
  <2>2. \A t \in transfers : t <= best => t <= best'
    BY <2>1
  <2> QED
    BY <1>1, <2>2 DEF NodeExtend, OwnerInv, OwnerNotOlder
<1>2. CASE Refresh \/ UNCHANGED vars
  BY <1>2 DEF Refresh, vars, OwnerInv, OwnerNotOlder
<1>3. ASSUME NEW m \in Miners, MinerStep(m) PROVE OwnerInv'
  <2>1. CASE TakeBulk(m)
    <3>1. nextBulk <= best
      BY Parameters DEF TypeOK
    <3> QED
      BY <2>1, <3>1 DEF TakeBulk, Take, Goto, OwnerInv, OwnerNotOlder, TypeOK
  <2>2. CASE m = Sync /\ TakeSync
    BY <2>2 DEF TakeSync, Take, Goto, OwnerInv, OwnerNotOlder, TypeOK
  <2>3. CASE QueryOwnerOf(m)
    <3>1. height[m] \in transfers /\ height[m] <= best /\ best \in Nat
      BY <2>3, Parameters DEF QueryOwnerOf, OwnerInv, TypeOK
    <3>2. /\ OwnerOf(best) \in transfers /\ OwnerOf(best) <= best
          /\ height[m] <= OwnerOf(best)
      BY <3>1, LastTransfer DEF TypeOK
    <3> QED
      BY <2>3, <3>1, <3>2 DEF QueryOwnerOf, Goto, OwnerInv, OwnerNotOlder, TypeOK
  <2>4. CASE GetNFT(m) \/ Keep(m) \/ UpdateRead(m) \/ Lose(m)
    BY <2>4 DEF GetNFT, Keep, UpdateRead, Lose, Goto, OwnerInv, OwnerNotOlder, TypeOK
  <2>5. CASE Insert(m)
    BY <2>5, WrittenDoc DEF Insert, Goto, OwnerInv, OwnerNotOlder, TypeOK
  <2>6. CASE Update(m)
    BY <2>6, WrittenDoc DEF Update, Goto, OwnerInv, OwnerNotOlder, TypeOK
  <2> QED
    BY <1>3, <2>1, <2>2, <2>3, <2>4, <2>5, <2>6 DEF MinerStep
<1> QED
  BY <1>1, <1>2, <1>3 DEF Next

(* The types of the miners and of the document.                             *)
THEOREM NftTypeCorrect == Spec => []TypeOK
BY InvInit, TypeNext, OwnerNext, PTL DEF Spec

(* However many miners write the document, in whatever order and over       *)
(* whatever searches find, it never says a block later than the transfer    *)
(* that made its owner one (addNFT, ConvNFT).                               *)
THEOREM OwnersNotOlder == Spec => []OwnerNotOlder
<1>1. OwnerInv => OwnerNotOlder
  BY DEF OwnerInv
<1> QED
  BY InvInit, TypeNext, OwnerNext, <1>1, PTL DEF Spec

-----------------------------------------------------------------------------
(* The stream alone.                                                        *)

LEMMA SoloNext == TypeOK /\ OwnerInv /\ SoloInv /\ [Next]_vars => SoloInv'
<1> SUFFICES ASSUME TypeOK, OwnerInv, SoloInv, [Next]_vars, StreamAlone' PROVE SoloInv'
  BY DEF SoloInv
<1>1. CASE NodeExtend \/ UNCHANGED vars
  BY <1>1 DEF NodeExtend, vars, SoloInv, StreamAlone, Passed
<1>2. CASE Refresh
  BY <1>2 DEF Refresh, SoloInv, StreamAlone, Passed
<1>3. ASSUME NEW m \in BulkMiners, MinerStep(m) PROVE SoloInv'
  <2>1. CASE TakeBulk(m)
    <3>1. height'[m] > 0
      BY <1>3, <2>1, Parameters DEF TakeBulk, Take, TypeOK
    <3> QED
      BY <1>3, <3>1 DEF StreamAlone
  <2>2. CASE height' = height
    <3>1. pc[m] = "idle"
      BY <1>3, <2>2 DEF SoloInv, StreamAlone
    <3> QED
      BY <1>3, <2>1, <3>1, Parameters
         DEF MinerStep, QueryOwnerOf, GetNFT, Insert, Keep, UpdateRead, Update, Lose
  <2> QED
    BY <1>3, <2>1, <2>2, Parameters
       DEF MinerStep, QueryOwnerOf, GetNFT, Insert, Keep, UpdateRead, Update, Lose
<1>4. ASSUME MinerStep(Sync) PROVE SoloInv'
  <2>1. StreamAlone /\ \A m \in BulkMiners : pc[m] = "idle" /\ pc'[m] = "idle"
    <3>1. \A m \in BulkMiners : height'[m] = height[m] /\ pc'[m] = pc[m]
      BY <1>4, Parameters
         DEF MinerStep, TakeBulk, TakeSync, Take, QueryOwnerOf, GetNFT, Insert, Keep,
             UpdateRead, Update, Lose, Goto, TypeOK
    <3> QED
      BY <3>1 DEF StreamAlone, SoloInv
  <2>2. /\ nextSync \in Nat /\ height[Sync] \in Nat /\ transfers \subseteq Nat
        /\ \A d \in Doc : d.BlockNo \in Nat
        /\ nft \in Doc \cup {None} /\ shown \in Doc \cup {None}
        /\ seen[Sync] \in Doc \cup {None}
    BY Parameters DEF TypeOK, Doc
  <2>3. CASE TakeSync
    <3>1. /\ nextSync' = nextSync + 1 /\ height'[Sync] = nextSync /\ pc[Sync] = "idle"
          /\ pc'[Sync] = IF nextSync \in transfers THEN "query" ELSE "idle"
          /\ UNCHANGED <<nft, shown, seen, transfers, missed>>
      BY <2>3, Parameters DEF TakeSync, Take, Goto, TypeOK
    <3>2. Passed = nextSync - 1
      BY <3>1 DEF Passed
    <3>3. CASE nextSync \in transfers
      <4>1. Passed' = nextSync - 1 /\ pc'[Sync] = "query"
        BY <2>2, <3>1, <3>3 DEF Passed
      <4> QED
        BY <2>1, <2>2, <3>1, <3>2, <4>1 DEF SoloInv
    <3>4. CASE nextSync \notin transfers
      <4>1. Passed' = nextSync /\ pc'[Sync] = "idle"
        BY <2>2, <3>1, <3>4 DEF Passed
      <4> QED
        BY <2>1, <2>2, <3>1, <3>2, <3>4, <4>1 DEF SoloInv
    <3> QED
      BY <3>3, <3>4
  <2>4. CASE QueryOwnerOf(Sync)
    <3>1. pc[Sync] = "query" /\ pc'[Sync] = "get"
      BY <2>4, Parameters DEF QueryOwnerOf, Goto, TypeOK
    <3>2. Passed' = Passed
      BY <2>4, <3>1 DEF QueryOwnerOf, Passed
    <3> QED
      BY <2>1, <2>4, <3>1, <3>2 DEF QueryOwnerOf, SoloInv
  <2>5. CASE GetNFT(Sync)
    <3>1. pc[Sync] = "get" /\ pc'[Sync] = "write" /\ seen'[Sync] = shown
      BY <2>5, Parameters DEF GetNFT, Goto, TypeOK
    <3>2. Passed' = Passed
      BY <2>5, <3>1 DEF GetNFT, Passed
    <3> QED
      BY <2>1, <2>5, <3>1, <3>2 DEF GetNFT, SoloInv
  <2>6. CASE UpdateRead(Sync)
    <3>1. pc[Sync] = "write" /\ pc'[Sync] = "update" /\ seen'[Sync] = nft
      BY <2>6, Parameters DEF UpdateRead, Goto, TypeOK
    <3>2. Passed' = Passed
      BY <2>6, <3>1 DEF UpdateRead, Passed
    <3> QED
      BY <2>1, <2>6, <3>1, <3>2 DEF UpdateRead, SoloInv
  <2>7. CASE Keep(Sync)
    <3>1. /\ seen[Sync] # None /\ ~(height[Sync] > seen[Sync].BlockNo)
          /\ pc[Sync] = "write"
      BY <2>7 DEF Keep, Newer
    <3>2. height[Sync] = nextSync - 1 /\ seen[Sync].BlockNo <= nextSync - 2
      BY <2>1, <3>1 DEF SoloInv, Passed
    <3> QED
      BY <2>2, <3>1, <3>2
  <2>8. CASE Insert(Sync) \/ Update(Sync)
    <3>1. pc[Sync] \in {"write", "update"} /\ pc'[Sync] = "idle"
          /\ UNCHANGED <<nextSync, transfers, shown, seen, missed>>
      BY <2>8, Parameters DEF Insert, Update, Goto, TypeOK
    <3>2. nft' = NftDoc(Sync)
      BY <2>1, <2>8 DEF Insert, Update, SoloInv
    <3>3. nft' # None /\ nft'.BlockNo = height[Sync]
      BY <3>1, <3>2, WrittenDoc, Parameters
    <3>4. Passed = nextSync - 2 /\ Passed' = nextSync - 1 /\ height[Sync] = nextSync - 1
      BY <2>1, <3>1 DEF Passed, SoloInv
    <3> QED
      BY <2>1, <2>2, <3>1, <3>3, <3>4 DEF SoloInv
  <2>9. CASE Lose(Sync)
    <3>1. pc[Sync] # "idle" /\ pc'[Sync] = "idle"
      BY <2>9, Parameters DEF Lose, Goto, TypeOK
    <3>2. Passed = nextSync - 2 /\ Passed' = nextSync - 1 /\ height[Sync] = nextSync - 1
      BY <2>1, <2>9, <3>1 DEF Lose, Passed, SoloInv
    <3>3. missed' = missed \cup {nextSync - 1}
          /\ UNCHANGED <<nextSync, transfers, nft, shown, seen>>
      BY <2>9, <3>2 DEF Lose
    <3> QED
      BY <2>1, <2>2, <3>1, <3>2, <3>3 DEF SoloInv
  <2> QED
    BY <1>4, <2>3, <2>4, <2>5, <2>6, <2>7, <2>8, <2>9, Parameters DEF MinerStep, TakeBulk
<1> QED
  BY <1>1, <1>2, <1>3, <1>4 DEF Next, Miners

(* A stream without a check beside it ends with the owner of the best       *)
(* block, however late the searches of the database are, unless a request   *)
(* for that last transfer itself failed (addNFT, QueryOwnerOf).             *)
THEOREM StreamHasOwner == Spec => []OwnerCurrent
<1>1. TypeOK /\ OwnerInv /\ SoloInv => OwnerCurrent
  <2> SUFFICES ASSUME TypeOK, OwnerInv, SoloInv, StreamAlone, Done,
                      NEW t \in transfers \cap StartHeight+1..best,
                      OwnerOf(best) \notin missed
               PROVE  nft # None /\ nft.Account = OwnerOf(best)
    BY DEF OwnerCurrent
  <2>1. /\ best \in Nat /\ t \in transfers /\ t <= best /\ t > StartHeight
        /\ transfers \subseteq Nat /\ StartHeight \in Nat
    BY Parameters DEF TypeOK
  <2>2. Passed = nextSync - 1 /\ nextSync - 1 >= best /\ nextSync \in Nat
    BY <2>1, Parameters DEF Done, Passed, TypeOK
  <2>3. /\ OwnerOf(best) \in transfers /\ OwnerOf(best) <= best
        /\ \A u \in transfers : u <= best => u <= OwnerOf(best)
    BY <2>1, LastTransfer DEF TypeOK
  <2>4. OwnerOf(best) > StartHeight /\ OwnerOf(best) <= Passed /\ OwnerOf(best) \in Nat
    <3>1. OwnerOf(best) \in Nat /\ t \in Nat /\ t <= OwnerOf(best)
      BY <2>1, <2>3
    <3> QED
      BY <2>1, <2>2, <2>3, <3>1
  <2>5. nft # None /\ nft.BlockNo >= OwnerOf(best)
    BY <2>3, <2>4 DEF SoloInv
  <2>6. /\ nft.BlockNo <= nft.Account /\ nft.Account \in transfers /\ nft.Account <= best
        /\ nft.BlockNo \in Nat
    BY <2>5, Parameters DEF OwnerInv, OwnerNotOlder, TypeOK, Doc
  <2>7. nft.Account <= OwnerOf(best) /\ nft.Account \in Nat
    BY <2>1, <2>3, <2>6
  <2> QED
    BY <2>4, <2>5, <2>6, <2>7
<1> QED
  BY InvInit, TypeNext, OwnerNext, SoloNext, <1>1, PTL DEF Spec
=============================================================================
