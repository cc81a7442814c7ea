-------------------------- MODULE CheckIndexProofs --------------------------
(* The check of the block index, for every width of the heights and every   *)
(* content of the index: its type invariant, its loop invariant, and what   *)
(* follows for the heights it hands over.                                   *)
EXTENDS CheckIndex, FiniteSetTheorems, SequenceTheorems, TLAPS

(* InsertBlocksInRange sends exactly the heights of a range that is not     *)
(* empty (bulk.go, the loop and the last send).                             *)
LEMMA InsertRange ==
    ASSUME NEW lo \in Nat, NEW hi \in Nat, lo <= hi
    PROVE  InsertBlocksInRange(lo, hi) = lo..hi
BY DEF InsertBlocksInRange

(* Adding a range no height of which has been handed over keeps the count   *)
(* of missing blocks exact (checkIndex, missingBlocks).                     *)
LEMMA CountRange ==
    ASSUME NEW S, IsFiniteSet(S), NEW lo \in Nat, NEW hi \in Nat, lo <= hi,
           S \cap (lo..hi) = {}
    PROVE  /\ IsFiniteSet(S \cup (lo..hi))
           /\ Cardinality(S \cup (lo..hi)) = Cardinality(S) + (hi - lo + 1)
<1>1. IsFiniteSet(lo..hi) /\ Cardinality(lo..hi) = hi - lo + 1
  BY FS_Interval
<1>2. /\ IsFiniteSet(S \cup (lo..hi))
      /\ Cardinality(S \cup (lo..hi))
            = Cardinality(S) + Cardinality(lo..hi) - Cardinality(S \cap (lo..hi))
  BY <1>1, FS_Union
<1>3. Cardinality(S \cap (lo..hi)) = 0
  BY FS_EmptySet
<1>4. Cardinality(S) \in Nat
  BY FS_CardinalityType
<1> QED
  BY <1>1, <1>2, <1>3, <1>4

(* What a call of InsertBlocksInRange on a range of heights does to the     *)
(* check: the range is handed over and counted.                             *)
LEMMA InsertEffect ==
    ASSUME TypeOK, NEW lo \in Uint, NEW hi \in Uint, lo <= hi, Insert(lo, hi)
    PROVE  /\ sent' = sent \cup (lo..hi)
           /\ missingBlocks' = missingBlocks + (hi - lo + 1)
           /\ sent' \subseteq Uint
           /\ missingBlocks' \in Nat
<1>1. lo \in Nat /\ hi \in Nat /\ lo..hi \subseteq Uint /\ hi - lo + 1 \in Nat
  BY WidthAssumption DEF Uint
<1>2. InsertBlocksInRange(lo, hi) = lo..hi
  BY <1>1, InsertRange
<1>3. sent' = sent \cup (lo..hi) /\ missingBlocks' = missingBlocks + (hi - lo + 1)
  BY <1>2 DEF Insert
<1> QED
  BY <1>1, <1>3 DEF TypeOK

(* The content of the index, read as a sorted sequence.                     *)
LEMMA DocShape ==
    ASSUME TypeOK
    PROVE  /\ Len(docs) \in Nat /\ DOMAIN docs = 1..Len(docs)
           /\ \A i \in DOMAIN docs : docs[i] \in 0..MaxHeight /\ docs[i] \in Nat
           /\ \A i, j \in DOMAIN docs : i <= j => docs[i] >= docs[j]
<1>1. docs \in Seq(0..MaxHeight) /\ NonIncreasing(docs)
  BY DEF TypeOK
<1>2. /\ Len(docs) \in Nat /\ DOMAIN docs = 1..Len(docs)
      /\ docs \in [1..Len(docs) -> 0..MaxHeight]
  BY <1>1, LenProperties
<1>3. ASSUME NEW i \in DOMAIN docs
      PROVE  docs[i] \in 0..MaxHeight /\ docs[i] \in Nat
  BY <1>2
<1>4. ASSUME NEW i \in DOMAIN docs, NEW j \in DOMAIN docs, i <= j
      PROVE  docs[i] >= docs[j]
  <2>1. CASE i < j
    BY <1>1, <2>1 DEF NonIncreasing
  <2>2. CASE i = j
    BY <1>3, <2>2
  <2> QED
    BY <1>2, <1>4, <2>1, <2>2
<1> QED
  BY <1>2, <1>3, <1>4

(* A height inside the range of the check is inside the range of the query, *)
(* as long as --to is not taken for a negative number (Scroll, From and To).*)
LEMMA RangeInQuery ==
    ASSUME TypeOK, NEW h \in 0..MaxHeight, startFrom <= h, h <= stopAt, stopAt <= MaxInt
    PROVE  InQuery(h)
BY WidthAssumption DEF TypeOK, InQuery, AsInt, Uint

-----------------------------------------------------------------------------
LEMMA TypeInit == Init => TypeOK
<1> SUFFICES ASSUME Init
             PROVE  TypeOK
  OBVIOUS
<1>1. docs \in Seq(0..MaxHeight) /\ NonIncreasing(docs)
  BY DocsAssumption DEF Init
<1>2. current \in 0..Len(docs)
  BY <1>1 DEF Init
<1>3. 0 \in Uint /\ 0 \in Nat
  BY WidthAssumption DEF Uint
<1> QED
  BY <1>1, <1>2, <1>3 DEF Init, TypeOK

LEMMA TypeNext == TypeOK /\ [Next]_vars => TypeOK'
<1> SUFFICES ASSUME TypeOK, [Next]_vars
             PROVE  TypeOK'
  OBVIOUS
<1> USE WidthAssumption DEF TypeOK, Uint, inputs
<1>1. ASSUME NEW best \in 0..MaxHeight, CheckFix(best)
      PROVE  TypeOK'
  <2>1. LastHeight(best) \in Uint
    BY DEF LastHeight, Dec
  <2> QED
    BY <1>1, <2>1 DEF CheckFix, InsertBlocksInRange
<1>2. ASSUME NEW best \in 0..MaxHeight, CheckStart(best)
      PROVE  TypeOK'
  <2>1. LastHeight(best) \in Uint
    BY DEF LastHeight, Dec
  <2> QED
    BY <1>2, <2>1 DEF CheckStart, Inc
<1>3. ASSUME NEW k \in DOMAIN docs, Scroll(k)
      PROVE  TypeOK'
  <2>1. docs[k] \in 0..MaxHeight /\ k \in 0..Len(docs)
    OBVIOUS
  <2>2. /\ UNCHANGED <<docs, fix, startFrom, stopAt, lost>>
        /\ current' = k /\ blockNo' = docs[k]
    BY <1>3 DEF Scroll, FillGap
  <2>3. CASE UNCHANGED <<missingBlocks, sent>>
    BY <1>3, <2>1, <2>2, <2>3 DEF Scroll, FillGap
  <2>4. CASE ~UNCHANGED <<missingBlocks, sent>>
    <3>1. /\ docs[k] < prevBlockNo - 1
          /\ Insert(docs[k] + 1, prevBlockNo - 1)
          /\ prevBlockNo' = docs[k]
          /\ UNCHANGED pc
      BY <1>3, <2>4 DEF Scroll, FillGap
    <3>2. /\ docs[k] + 1 \in Uint /\ prevBlockNo - 1 \in Uint
          /\ docs[k] + 1 <= prevBlockNo - 1
      BY <2>1, <3>1
    <3>3. sent' \subseteq Uint /\ missingBlocks' \in Nat
      BY <3>1, <3>2, InsertEffect
    <3> QED
      BY <2>1, <2>2, <3>1, <3>3
  <2> QED
    BY <2>3, <2>4
<1>4. CASE ScrollEOF
  BY <1>4 DEF ScrollEOF
<1>5. ASSUME NEW k \in 0..Len(docs), ScrollError(k)
      PROVE  TypeOK'
  BY <1>5 DEF ScrollError
<1>6. CASE Fill
  <2>1. CASE UNCHANGED <<missingBlocks, sent>>
    BY <1>6, <2>1 DEF Fill, FillRest
  <2>2. CASE prevBlockNo > startFrom /\ Insert(startFrom, prevBlockNo - 1)
    <3>1. /\ startFrom \in Uint /\ prevBlockNo - 1 \in Uint
          /\ startFrom <= prevBlockNo - 1
      BY <2>2
    <3>2. sent' \subseteq Uint /\ missingBlocks' \in Nat
      BY <2>2, <3>1, InsertEffect
    <3> QED
      BY <1>6, <3>2 DEF Fill, FillRest
  <2> QED
    BY <1>6, <2>1, <2>2 DEF Fill, FillRest
<1>7. CASE UNCHANGED vars
  BY <1>7 DEF vars
<1> QED
  BY <1>1, <1>2, <1>3, <1>4, <1>5, <1>6, <1>7 DEF Next, Check, Loop, Done

(* Types hold in every state of the check.                                  *)
THEOREM TypeCorrect == Spec => []TypeOK
BY TypeInit, TypeNext, PTL DEF Spec

-----------------------------------------------------------------------------
(* The loop invariant.                                                      *)

LEMMA LoopInit == Init => LoopInv
<1> SUFFICES ASSUME Init
             PROVE  LoopInv
  OBVIOUS
<1>1. IsFiniteSet(sent) /\ missingBlocks = Cardinality(sent)
  BY FS_EmptySet DEF Init
<1> QED
  BY <1>1 DEF Init, LoopInv, Cursor, SentAbove, HitsAbove, NothingSkipped, CountsOnce,
              InRangeOnly, NoHeightNoCheck, NoRework, OnlyLowestGap, InLoop

LEMMA FixStep ==
    ASSUME TypeOK, LoopInv, NEW best \in 0..MaxHeight, CheckFix(best)
    PROVE  LoopInv'
BY DEF CheckFix, inputs, LoopInv, Cursor, SentAbove, HitsAbove, NothingSkipped, CountsOnce,
       InRangeOnly, NoHeightNoCheck, NoRework, OnlyLowestGap, InLoop

LEMMA StartStep ==
    ASSUME TypeOK, LoopInv, NEW best \in 0..MaxHeight, CheckStart(best)
    PROVE  LoopInv'
<1> USE DEF inputs, InLoop
<1>1. /\ sent = {} /\ sent' = {} /\ missingBlocks' = 0
      /\ current' = 0 /\ pc' = "scroll" /\ fix' = FALSE
      /\ blockNo' = Inc(startFrom') /\ prevBlockNo' = Inc(stopAt')
  BY DEF CheckStart, LoopInv, SentAbove, HitsAbove, TypeOK
<1>2. stopAt' \in Uint /\ startFrom' \in Uint
  BY TypeNext DEF Next, Check, TypeOK
<1>3. /\ Wrapped' => prevBlockNo' = 0
      /\ ~Wrapped' => prevBlockNo' = stopAt' + 1
  BY <1>1, <1>2 DEF Wrapped, Inc
<1>4. Cursor' /\ SentAbove' /\ HitsAbove'
  BY <1>1, <1>2, <1>3, WidthAssumption DEF Cursor, SentAbove, HitsAbove, Uint
<1>5. CountsOnce'
  BY <1>1, FS_EmptySet DEF CountsOnce
<1>6. NothingSkipped'
  <2>1. ~Wrapped' => prevBlockNo'..stopAt' = {}
    BY <1>2, <1>3, WidthAssumption DEF Uint
  <2> QED
    BY <2>1 DEF NothingSkipped
<1> QED
  BY <1>1, <1>4, <1>5, <1>6 DEF LoopInv, InRangeOnly, NoHeightNoCheck, NoRework, OnlyLowestGap

(* A hit that is skipped: one at or above the cursor.                       *)
LEMMA SkipStep ==
    ASSUME TypeOK, LoopInv, NEW k \in NextHit,
           pc = "scroll", current' = k, blockNo' = docs[k],
           docs[k] >= prevBlockNo,
           UNCHANGED <<inputs, stopAt, lost, prevBlockNo, missingBlocks, sent, pc>>
    PROVE  LoopInv'
<1> USE DEF inputs, InLoop
<1>1. Indexed' = Indexed /\ blockNo' \in Indexed
  BY DEF Indexed, NextHit
<1>2. \A j \in DOMAIN docs : InQuery(docs[j])' <=> InQuery(docs[j])
  BY DEF InQuery
<1>3. Cursor'
  BY <1>1 DEF LoopInv, Cursor, Wrapped
<1>4. ASSUME ~lost, NEW j \in 1..k, InQuery(docs[j])
      PROVE  docs[j] >= prevBlockNo
  <2>1. current \in Nat /\ k \in Nat /\ current < k
    BY DEF NextHit, TypeOK
  <2>2. CASE j \in 1..current
    BY <1>4, <2>2 DEF LoopInv, HitsAbove
  <2>3. CASE j \in current+1..k-1
    BY <1>4, <2>3 DEF NextHit
  <2>4. CASE j = k
    BY <2>4
  <2> QED
    BY <2>1, <2>2, <2>3, <2>4
<1>5. HitsAbove'
  BY <1>2, <1>4 DEF HitsAbove, InQuery
<1> QED
  BY <1>1, <1>3, <1>5 DEF LoopInv, SentAbove, NothingSkipped, CountsOnce, InRangeOnly,
       NoHeightNoCheck, NoRework, OnlyLowestGap, Wrapped

(* A hit below the cursor: the heights between the two are not indexed, and *)
(* are handed over.                                                         *)
LEMMA GapStep ==
    ASSUME TypeOK, LoopInv, NEW k \in NextHit,
           pc = "scroll", current' = k, blockNo' = docs[k],
           docs[k] < prevBlockNo, docs[k] > startFrom,
           IF docs[k] < prevBlockNo - 1
             THEN Insert(docs[k] + 1, prevBlockNo - 1)
             ELSE UNCHANGED <<missingBlocks, sent>>,
           prevBlockNo' = docs[k],
           UNCHANGED <<inputs, stopAt, lost, pc>>
    PROVE  LoopInv'
<1> USE DEF inputs, InLoop
<1> DEFINE gap == (docs[k] + 1)..(prevBlockNo - 1)
<1>1. /\ docs[k] \in 0..MaxHeight /\ docs[k] \in Indexed /\ k \in DOMAIN docs
      /\ Indexed' = Indexed /\ Wrapped' = Wrapped
  <2>1. k \in DOMAIN docs
    BY DEF NextHit
  <2>2. docs[k] \in 0..MaxHeight
    BY <2>1, DocShape
  <2> QED
    BY <2>1, <2>2 DEF Indexed, Wrapped
<1>2. /\ prevBlockNo \in Nat /\ stopAt \in Nat /\ startFrom \in Nat /\ docs[k] \in Nat
      /\ ~fix /\ ~Wrapped /\ prevBlockNo <= stopAt + 1
  BY <1>1, WidthAssumption DEF LoopInv, Cursor, TypeOK, Uint
<1>3. sent \subseteq prevBlockNo..stopAt
  BY DEF LoopInv, SentAbove
<1>4. /\ sent' = sent \cup gap
      /\ IsFiniteSet(sent') /\ missingBlocks' = Cardinality(sent')
  <2>1. IsFiniteSet(sent) /\ missingBlocks = Cardinality(sent)
    BY <1>2 DEF LoopInv, CountsOnce
  <2>2. CASE docs[k] < prevBlockNo - 1
    <3>1. /\ docs[k] + 1 \in Uint /\ prevBlockNo - 1 \in Uint
          /\ docs[k] + 1 <= prevBlockNo - 1
      BY <1>1, <1>2, <2>2, WidthAssumption DEF TypeOK, Uint
    <3>2. /\ sent' = sent \cup gap
          /\ missingBlocks' = missingBlocks + (prevBlockNo - 1 - (docs[k] + 1) + 1)
      BY <2>2, <3>1, InsertEffect
    <3>3. sent \cap gap = {}
      BY <1>2, <1>3
    <3>. docs[k] + 1 \in Nat /\ prevBlockNo - 1 \in Nat
      BY <1>2, <3>1
    <3>4. /\ IsFiniteSet(sent \cup gap)
          /\ Cardinality(sent \cup gap)
                = Cardinality(sent) + (prevBlockNo - 1 - (docs[k] + 1) + 1)
      BY <2>1, <3>1, <3>3, CountRange
    <3> QED
      BY <2>1, <3>2, <3>4
  <2>3. CASE ~(docs[k] < prevBlockNo - 1)
    <3>1. gap = {}
      BY <1>2, <2>3
    <3> QED
      BY <2>1, <2>3, <3>1
  <2> QED
    BY <2>2, <2>3
<1>5. Cursor'
  BY <1>1, <1>2 DEF Cursor
<1>6. SentAbove' /\ InRangeOnly'
  <2>1. sent' \subseteq docs[k]..stopAt
    <3>1. gap \subseteq docs[k]..stopAt
      BY <1>2
    <3>2. prevBlockNo..stopAt \subseteq docs[k]..stopAt
      BY <1>2
    <3> QED
      BY <1>3, <1>4, <3>1, <3>2
  <2>2. sent' \subseteq startFrom..stopAt
    BY <1>2, <2>1
  <2> QED
    BY <2>1, <2>2 DEF SentAbove, InRangeOnly
<1>7. HitsAbove'
  <2>1. ASSUME NEW j \in 1..k
        PROVE  docs[j] >= docs[k]
    BY <1>1, <2>1 DEF TypeOK, NonIncreasing
  <2> QED
    BY <2>1 DEF HitsAbove
<1>8. NothingSkipped'
  <2>1. ASSUME NEW h \in docs[k]..stopAt
        PROVE  h \in Indexed \/ h \in sent'
    <3>1. h = docs[k] \/ h \in gap \/ h \in prevBlockNo..stopAt
      BY <1>2
    <3>2. CASE h \in prevBlockNo..stopAt
      BY <1>2, <1>4, <3>2 DEF LoopInv, NothingSkipped
    <3> QED
      BY <1>1, <1>4, <3>1, <3>2
  <2> QED
    BY <1>1, <2>1 DEF NothingSkipped
<1>9. NoRework'
  <2>1. SUFFICES ASSUME ~lost, stopAt <= MaxInt, NEW h \in sent', h \in Indexed
                 PROVE  FALSE
    BY <1>1, <1>2 DEF NoRework
  <2>2. h \in gap
    BY <1>2, <1>4, <2>1 DEF LoopInv, NoRework
  <2>3. PICK i \in DOMAIN docs : docs[i] = h
    BY <2>1 DEF Indexed
  <2>4. h \in 0..MaxHeight /\ startFrom <= h /\ h <= stopAt /\ h < prevBlockNo /\ h > docs[k]
    <3>1. h \in 0..MaxHeight
      BY <2>3, DocShape
    <3> QED
      BY <1>2, <2>2, <3>1
  <2>5. InQuery(docs[i])
    BY <2>1, <2>3, <2>4, RangeInQuery
  <2>6. i \in Nat /\ k \in Nat /\ current \in Nat /\ i >= 1 /\ current < k
    BY <1>1 DEF TypeOK, NextHit
  <2>7. CASE i <= current
    BY <2>1, <2>3, <2>4, <2>5, <2>6, <2>7, <1>2 DEF LoopInv, HitsAbove
  <2>8. CASE current < i /\ i < k
    BY <2>5, <2>6, <2>8 DEF NextHit
  <2>9. CASE i >= k
    <3>1. docs[k] >= docs[i]
      BY <1>1, <2>9, DocShape
    <3> QED
      BY <1>2, <2>3, <2>4, <3>1
  <2> QED
    BY <2>6, <2>7, <2>8, <2>9
<1> QED
  BY <1>1, <1>2, <1>4, <1>5, <1>6, <1>7, <1>8, <1>9
  DEF LoopInv, CountsOnce, NoHeightNoCheck, OnlyLowestGap

(* A hit at or below startFrom ends the loop.                               *)
LEMMA BreakStep ==
    ASSUME TypeOK, LoopInv, NEW k \in NextHit,
           pc = "scroll", current' = k, blockNo' = docs[k],
           docs[k] < prevBlockNo, docs[k] <= startFrom, pc' = "fill",
           UNCHANGED <<inputs, stopAt, lost, prevBlockNo, missingBlocks, sent>>
    PROVE  LoopInv'
<1> USE DEF inputs, InLoop
<1>1. /\ k \in DOMAIN docs /\ blockNo' \in Indexed
      /\ Indexed' = Indexed /\ Wrapped' = Wrapped
      /\ prevBlockNo \in Nat /\ startFrom \in Nat /\ k \in Nat /\ current \in Nat
  BY WidthAssumption DEF Indexed, Wrapped, NextHit, TypeOK, Uint
<1>2. \A j \in DOMAIN docs : InQuery(docs[j])' <=> InQuery(docs[j])
  BY DEF InQuery
<1>3. ASSUME ~lost, NEW j \in DOMAIN docs, InQuery(docs[j])
      PROVE  docs[j] >= prevBlockNo \/ docs[j] < startFrom \/ docs[k] = startFrom
  <2>1. j \in Nat /\ j >= 1
    BY <1>1, DocShape DEF TypeOK
  <2>2. CASE j <= current
    BY <1>1, <1>3, <2>1, <2>2 DEF LoopInv, HitsAbove
  <2>3. CASE current < j /\ j < k
    BY <1>1, <1>3, <2>1, <2>3 DEF NextHit
  <2>4. CASE j >= k
    <3>1. docs[k] >= docs[j]
      BY <1>1, <2>1, <2>4, DocShape
    <3>2. docs[j] \in Nat /\ docs[k] \in Nat
      BY <1>1, DocShape
    <3> QED
      BY <1>1, <3>1, <3>2
  <2> QED
    BY <1>1, <2>1, <2>2, <2>3, <2>4
<1>4. HitsAbove'
  BY <1>2, <1>3 DEF HitsAbove
<1>5. Cursor'
  BY <1>1 DEF LoopInv, Cursor
<1> QED
  BY <1>1, <1>4, <1>5 DEF LoopInv, SentAbove, NothingSkipped, CountsOnce, InRangeOnly,
       NoHeightNoCheck, NoRework, OnlyLowestGap

LEMMA ScrollStep ==
    ASSUME TypeOK, LoopInv, NEW k \in DOMAIN docs, Scroll(k)
    PROVE  LoopInv'
BY SkipStep, GapStep, BreakStep DEF Scroll, FillGap

LEMMA ScrollErrorStep ==
    ASSUME TypeOK, LoopInv, NEW k \in 0..Len(docs), ScrollError(k)
    PROVE  LoopInv'
<1> USE DEF inputs, InLoop, ScrollError
<1>1. Indexed' = Indexed /\ Wrapped' = Wrapped
  BY DEF Indexed, Wrapped
<1>2. ASSUME ~lost'
      PROVE  current' = current /\ ~lost
  <2>1. ~lost /\ ~(k > current)
    BY <1>2
  <2>2. k \in Int /\ current \in Int /\ k >= current
    BY DocShape DEF TypeOK
  <2> QED
    BY <2>1, <2>2
<1>3. HitsAbove'
  BY <1>2 DEF LoopInv, HitsAbove, InQuery
<1>4. Cursor'
  BY <1>1 DEF LoopInv, Cursor
<1> QED
  BY <1>1, <1>2, <1>3, <1>4 DEF LoopInv, SentAbove, NothingSkipped, CountsOnce, InRangeOnly,
       NoHeightNoCheck, NoRework, OnlyLowestGap

LEMMA ScrollEOFStep ==
    ASSUME TypeOK, LoopInv, ScrollEOF
    PROVE  LoopInv'
<1> USE DEF inputs, InLoop, ScrollEOF
<1>1. Indexed' = Indexed /\ Wrapped' = Wrapped
  BY DEF Indexed, Wrapped
<1>2. \A j \in DOMAIN docs : InQuery(docs[j])' <=> InQuery(docs[j])
  BY DEF InQuery
<1>3. ASSUME ~lost, NEW j \in DOMAIN docs, InQuery(docs[j])
      PROVE  docs[j] >= prevBlockNo
  <2>1. j \in Nat /\ j >= 1 /\ current \in Nat
    BY DocShape DEF TypeOK
  <2>2. CASE j <= current
    BY <1>3, <2>1, <2>2 DEF LoopInv, HitsAbove
  <2>3. CASE current < j
    BY <1>3, <2>3
  <2> QED
    BY <2>1, <2>2, <2>3
<1>4. HitsAbove'
  BY <1>2, <1>3 DEF HitsAbove
<1>5. Cursor'
  BY <1>1 DEF LoopInv, Cursor
<1> QED
  BY <1>1, <1>4, <1>5 DEF LoopInv, SentAbove, NothingSkipped, CountsOnce, InRangeOnly,
       NoHeightNoCheck, NoRework, OnlyLowestGap

(* What is left below the lowest hit is handed over, unless the last hit is *)
(* startFrom itself.                                                        *)
LEMMA FillStep ==
    ASSUME TypeOK, LoopInv, Fill
    PROVE  LoopInv'
<1> USE DEF inputs, InLoop
<1> DEFINE rest == startFrom..(prevBlockNo - 1)
           fills == blockNo # startFrom /\ prevBlockNo > startFrom
<1>1. /\ pc = "fill" /\ pc' = "done" /\ ~fix
      /\ UNCHANGED <<docs, fix, startFrom, stopAt, current, blockNo, prevBlockNo, lost>>
      /\ Indexed' = Indexed /\ Wrapped' = Wrapped
  BY DEF Fill, FillRest, Indexed, Wrapped, LoopInv, Cursor
<1>2. /\ prevBlockNo \in Nat /\ stopAt \in Nat /\ startFrom \in Nat
      /\ Wrapped => prevBlockNo = 0
      /\ ~Wrapped => prevBlockNo <= stopAt + 1
  BY <1>1, WidthAssumption DEF LoopInv, Cursor, TypeOK, Uint
<1>3. sent \subseteq prevBlockNo..stopAt /\ IsFiniteSet(sent) /\ missingBlocks = Cardinality(sent)
  BY <1>1 DEF LoopInv, SentAbove, CountsOnce
<1>4. CASE fills
  <2>1. /\ sent' = sent \cup rest
        /\ missingBlocks' = missingBlocks + (prevBlockNo - 1 - startFrom + 1)
    <3>1. /\ startFrom \in Uint /\ prevBlockNo - 1 \in Uint
          /\ startFrom <= prevBlockNo - 1
      BY <1>2, <1>4, WidthAssumption DEF TypeOK, Uint
    <3> QED
      BY <1>4, <3>1, InsertEffect DEF Fill, FillRest
  <2>2. CountsOnce'
    <3>1. sent \cap rest = {}
      BY <1>2, <1>3
    <3>2. startFrom <= prevBlockNo - 1 /\ prevBlockNo - 1 \in Nat
      BY <1>2, <1>4
    <3>3. /\ IsFiniteSet(sent \cup rest)
          /\ Cardinality(sent \cup rest)
                = Cardinality(sent) + (prevBlockNo - 1 - startFrom + 1)
      BY <1>2, <1>3, <3>1, <3>2, CountRange
    <3> QED
      BY <1>3, <2>1, <3>3 DEF CountsOnce
  <2>3. ~Wrapped
    BY <1>2, <1>4
  <2>4. InRangeOnly'
    <3>1. rest \subseteq startFrom..stopAt
      BY <1>2, <2>3
    <3>2. prevBlockNo..stopAt \subseteq startFrom..stopAt
      BY <1>2, <1>4
    <3> QED
      BY <1>1, <1>3, <2>1, <3>1, <3>2 DEF InRangeOnly
  <2>5. NothingSkipped'
    <3>1. \A h \in prevBlockNo..stopAt : h \in Indexed \/ h \in sent
      BY <1>1, <2>3 DEF LoopInv, NothingSkipped
    <3> QED
      BY <1>1, <2>1, <3>1 DEF NothingSkipped
  <2>6. OnlyLowestGap'
    <3>1. ASSUME NEW h \in startFrom..stopAt
          PROVE  h \in Indexed \/ h \in sent'
      <4>1. h \in rest \/ h \in prevBlockNo..stopAt
        BY <1>2
      <4> QED
        BY <1>1, <2>1, <2>3, <4>1 DEF LoopInv, NothingSkipped
    <3> QED
      BY <1>1, <3>1 DEF OnlyLowestGap
  <2>7. NoRework'
    <3>1. SUFFICES ASSUME ~lost, stopAt <= MaxInt, NEW h \in rest, h \in Indexed
                   PROVE  FALSE
      BY <1>1, <2>1, <2>3 DEF LoopInv, NoRework
    <3>2. PICK i \in DOMAIN docs : docs[i] = h
      BY <3>1 DEF Indexed
    <3>3. h \in 0..MaxHeight /\ startFrom <= h /\ h <= stopAt /\ h < prevBlockNo
      <4>1. h \in 0..MaxHeight
        BY <3>2, DocShape
      <4> QED
        BY <1>2, <2>3, <3>1, <4>1
    <3>4. InQuery(docs[i])
      BY <3>1, <3>2, <3>3, RangeInQuery
    <3>5. docs[i] >= prevBlockNo \/ docs[i] < startFrom
      BY <1>1, <1>4, <3>1, <3>4 DEF LoopInv, HitsAbove
    <3> QED
      BY <1>2, <3>2, <3>3, <3>5
  <2> QED
    BY <1>1, <2>2, <2>3, <2>4, <2>5, <2>6, <2>7
    DEF LoopInv, Cursor, SentAbove, HitsAbove, NoHeightNoCheck
<1>5. CASE ~fills
  <2>1. UNCHANGED <<sent, missingBlocks>>
    BY <1>5 DEF Fill, FillRest
  <2>2. ASSUME ~Wrapped, NEW h \in startFrom..stopAt, h \notin Indexed, h \notin sent
        PROVE  startFrom \in Indexed /\ h < prevBlockNo
    <3>1. h \notin prevBlockNo..stopAt
      BY <1>1, <2>2 DEF LoopInv, NothingSkipped
    <3>2. h < prevBlockNo /\ prevBlockNo > startFrom
      BY <1>2, <2>2, <3>1
    <3>3. blockNo = startFrom
      BY <1>5, <3>2
    <3>4. Inc(startFrom) # startFrom
      BY WidthAssumption DEF Inc, TypeOK, Uint
    <3>5. startFrom \in Indexed
      BY <1>1, <3>3, <3>4 DEF LoopInv, Cursor
    <3> QED
      BY <3>2, <3>5
  <2>3. OnlyLowestGap'
    BY <1>1, <2>1, <2>2 DEF OnlyLowestGap
  <2> QED
    BY <1>1, <2>1, <2>3
    DEF LoopInv, Cursor, SentAbove, HitsAbove, NothingSkipped, CountsOnce, InRangeOnly,
        NoHeightNoCheck, NoRework
<1> QED
  BY <1>4, <1>5

LEMMA LoopStutter ==
    ASSUME LoopInv, UNCHANGED vars
    PROVE  LoopInv'
BY DEF vars, LoopInv, Cursor, SentAbove, HitsAbove, NothingSkipped, CountsOnce, InRangeOnly,
       NoHeightNoCheck, NoRework, OnlyLowestGap, InLoop, Indexed, InQuery, Wrapped

LEMMA LoopNext == TypeOK /\ LoopInv /\ [Next]_vars => LoopInv'
<1> SUFFICES ASSUME TypeOK, LoopInv, [Next]_vars
             PROVE  LoopInv'
  OBVIOUS
<1>1. ASSUME NEW best \in 0..MaxHeight, CheckFix(best) \/ CheckStart(best)
      PROVE  LoopInv'
  BY <1>1, FixStep, StartStep
<1>2. ASSUME NEW k \in DOMAIN docs, Scroll(k)
      PROVE  LoopInv'
  BY <1>2, ScrollStep
<1>3. CASE ScrollEOF
  BY <1>3, ScrollEOFStep
<1>4. ASSUME NEW k \in 0..Len(docs), ScrollError(k)
      PROVE  LoopInv'
  BY <1>4, ScrollErrorStep
<1>5. CASE Fill
  BY <1>5, FillStep
<1>6. CASE UNCHANGED vars
  BY <1>6, LoopStutter
<1> QED
  BY <1>1, <1>2, <1>3, <1>4, <1>5, <1>6 DEF Next, Check, Loop, Done

(* The loop invariant holds throughout the check.                           *)
THEOREM LoopInvariant == Spec => []LoopInv
<1>1. Init => TypeOK /\ LoopInv
  BY TypeInit, LoopInit
<1>2. TypeOK /\ LoopInv /\ [Next]_vars => (TypeOK /\ LoopInv)'
  BY TypeNext, LoopNext
<1> QED
  BY <1>1, <1>2, PTL DEF Spec

(* The check skips no height from the cursor up (checkIndex, loop).         *)
THEOREM CheckSkipsNothing == Spec => []NothingSkipped
<1>1. LoopInv => NothingSkipped
  BY DEF LoopInv
<1> QED
  BY <1>1, LoopInvariant, PTL

(* It hands over no height that is indexed, unless a page of the scroll was *)
(* lost or the filter has wrapped (checkIndex).                             *)
THEOREM CheckReworksNothing == Spec => []NoRework
<1>1. LoopInv => NoRework
  BY DEF LoopInv
<1> QED
  BY <1>1, LoopInvariant, PTL

(* missingBlocks counts the heights handed over, none of them twice.        *)
THEOREM CheckCountsOnce == Spec => []CountsOnce
<1>1. LoopInv => CountsOnce
  BY DEF LoopInv
<1> QED
  BY <1>1, LoopInvariant, PTL

(* It keeps to the range, and without a height of the node does nothing     *)
(* (Check, checkIndex).                                                     *)
THEOREM CheckKeepsToRange == Spec => []OnlyKnownHeights
<1>1. LoopInv => OnlyKnownHeights
  BY DEF LoopInv, OnlyKnownHeights
<1> QED
  BY <1>1, LoopInvariant, PTL

(* When it ends, the only heights left out lie between an indexed startFrom *)
(* and the next indexed block above it (checkIndex, lines 76 and 86).       *)
THEOREM CheckLeavesLowestGapOnly == Spec => []OnlyLowestGap
<1>1. LoopInv => OnlyLowestGap
  BY DEF LoopInv
<1> QED
  BY <1>1, LoopInvariant, PTL
=============================================================================
