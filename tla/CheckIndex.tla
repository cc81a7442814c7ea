---------------------------- MODULE CheckIndex ----------------------------
(***************************************************************************)
(* The consistency check of the block index (indexer/run_check.go).        *)
(*                                                                         *)
(* Check scrolls over the numbers of the indexed blocks from high to low   *)
(* and hands every run of numbers it does not see to the bulk indexer.     *)
(* Fix mode hands over the whole range without looking.                    *)
(*                                                                         *)
(* Heights are the code's uint64: 0..MaxUint, with the increments and      *)
(* decrements that wrap.  The scroll filters on int(height), a signed      *)
(* number, and leaves a bound out when it is zero.                         *)
(***************************************************************************)
EXTENDS Integers, Sequences, FiniteSets

CONSTANTS
    MaxInt,      \* largest int;  2^63 - 1 in the program
    MaxUint,     \* largest uint64
    MaxHeight,   \* largest height a block can have here
    Docs         \* the contents the block index may have: its numbers, sorted
                 \* from high to low; a number occurs twice after a fork

NonIncreasing(s) == \A i, j \in DOMAIN s : i < j => s[i] >= s[j]

ASSUME WidthAssumption ==
    /\ MaxInt \in Nat \ {0}
    /\ MaxUint = 2 * MaxInt + 1
    /\ MaxHeight \in 0..MaxInt
ASSUME DocsAssumption ==
    Docs \subseteq Seq(0..MaxHeight) /\ \A s \in Docs : NonIncreasing(s)

VARIABLES
    docs,           \* the block numbers in the index when the scroll starts
    fix,            \* --fix
    startFrom,      \* --from
    stopAt,         \* --to, or the height before the best block
    current,        \* position in docs of the last hit read
    blockNo, prevBlockNo, missingBlocks,
    sent,           \* heights handed to InsertBlocksInRange
    lost,           \* a failed scroll request has skipped indexed blocks
    pc

vars == <<docs, fix, startFrom, stopAt, current, blockNo, prevBlockNo,
          missingBlocks, sent, lost, pc>>
inputs == <<docs, fix, startFrom>>

Uint == 0..MaxUint
\* Mutant: a wider integer, that does not wrap.
IncWide(n) == n + 1
Inc(n) == IF n = MaxUint THEN 0 ELSE n + 1
Dec(n) == IF n = 0 THEN MaxUint ELSE n - 1
AsInt(n) == IF n > MaxInt THEN n - MaxUint - 1 ELSE n

Indexed == {docs[i] : i \in DOMAIN docs}

(* The heights InsertBlocksInRange(from, to) hands over: its loop stops     *)
(* above from, and from itself is always sent.                              *)
InsertBlocksInRange(from, to) == {from} \cup (from..to)

(* The range query of the scroll.                                           *)
InQuery(no) ==
    /\ AsInt(startFrom) # 0 => no >= AsInt(startFrom)
    /\ AsInt(stopAt) # 0 => no <= AsInt(stopAt)

(* The position of the next hit, if there is one.                           *)
NextHit == {k \in DOMAIN docs : /\ current < k
                                /\ InQuery(docs[k])
                                /\ \A j \in current+1..k-1 : ~InQuery(docs[j])}

Init ==
    /\ docs \in Docs
    /\ fix \in BOOLEAN
    /\ startFrom \in Uint
    /\ stopAt \in Uint
    /\ current = 0
    /\ blockNo = 0
    /\ prevBlockNo = 0
    /\ missingBlocks = 0
    /\ sent = {}
    /\ lost = FALSE
    /\ pc = "check"

(* Check: stopAt == 0 means up to the block before the best one.            *)
(* GetBestBlock answers 0 when the node cannot be asked.                    *)
LastHeight(best) == IF stopAt = 0 THEN Dec(best) ELSE stopAt

CheckFix(best) ==
    /\ pc = "check"
    /\ fix
    /\ stopAt' = LastHeight(best)
    /\ sent' = InsertBlocksInRange(startFrom, LastHeight(best))
    /\ pc' = "done"
    /\ UNCHANGED <<inputs, current, blockNo, prevBlockNo, missingBlocks, lost>>

CheckStart(best) ==
    /\ pc = "check"
    /\ ~fix
    /\ stopAt' = LastHeight(best)
    /\ prevBlockNo' = Inc(LastHeight(best))
    /\ blockNo' = Inc(startFrom)
    /\ missingBlocks' = 0
    /\ pc' = "scroll"
    /\ UNCHANGED <<inputs, current, sent, lost>>

Insert(from, to) ==
    /\ sent' = sent \cup InsertBlocksInRange(from, to)
    /\ missingBlocks' = missingBlocks + (to - from + 1)

\* Mutant: a gap of one height is not seen.
FillGapOff(no) ==
    IF no < prevBlockNo - 2
    THEN Insert(no + 1, prevBlockNo - 1)
    ELSE UNCHANGED <<missingBlocks, sent>>
\* Mutant: the hit itself is handed over.
FillGapWithHit(no) ==
    IF no < prevBlockNo - 1
    THEN Insert(no, prevBlockNo - 1)
    ELSE UNCHANGED <<missingBlocks, sent>>

FillGap(no) ==
    IF no < prevBlockNo - 1
    THEN Insert(no + 1, prevBlockNo - 1)
    ELSE UNCHANGED <<missingBlocks, sent>>

(* One turn of the loop: the hit is read, and skipped, or ends the loop, or *)
(* has the numbers between it and the previous one indexed.                 *)
Scroll(k) ==
    /\ pc = "scroll"
    /\ k \in NextHit
    /\ current' = k
    /\ blockNo' = docs[k]
    /\ \/ /\ docs[k] >= prevBlockNo
          /\ UNCHANGED <<prevBlockNo, missingBlocks, sent, pc>>
       \/ /\ docs[k] < prevBlockNo
          /\ docs[k] <= startFrom
          /\ pc' = "fill"
          /\ UNCHANGED <<prevBlockNo, missingBlocks, sent>>
       \/ /\ docs[k] < prevBlockNo
          /\ docs[k] > startFrom
          /\ FillGap(docs[k])
          /\ prevBlockNo' = docs[k]
          /\ UNCHANGED pc
    /\ UNCHANGED <<inputs, stopAt, lost>>

(* A request for the next page fails and is repeated.  The cursor is kept   *)
(* by the database, which may have moved past the page it could not         *)
(* deliver.                                                                 *)
ScrollError(k) ==
    /\ pc = "scroll"
    /\ k \in current..Len(docs)
    /\ current' = k
    /\ lost' = (lost \/ k > current)
    /\ UNCHANGED <<inputs, stopAt, blockNo, prevBlockNo, missingBlocks, sent, pc>>

\* Mutant: the end of the scroll is taken for an error.
ScrollEOFRetried ==
    /\ pc = "scroll"
    /\ \A k \in DOMAIN docs : current < k => ~InQuery(docs[k])
    /\ UNCHANGED vars

ScrollEOF ==
    /\ pc = "scroll"
    /\ \A k \in DOMAIN docs : current < k => ~InQuery(docs[k])
    /\ pc' = "fill"
    /\ UNCHANGED <<inputs, stopAt, current, blockNo, prevBlockNo, missingBlocks,
                   sent, lost>>

\* Mutant: without the test of prevBlockNo.
FillRestAlways ==
    IF blockNo # startFrom
    THEN Insert(startFrom, prevBlockNo - 1)
    ELSE UNCHANGED <<missingBlocks, sent>>
\* Mutant: startFrom itself is left out.
FillRestAbove ==
    IF blockNo # startFrom /\ prevBlockNo > startFrom + 1
    THEN Insert(startFrom + 1, prevBlockNo - 1)
    ELSE UNCHANGED <<missingBlocks, sent>>

(* After the loop: what is left below the lowest hit.                       *)
FillRest ==
    IF blockNo # startFrom /\ prevBlockNo > startFrom
    THEN Insert(startFrom, prevBlockNo - 1)
    ELSE UNCHANGED <<missingBlocks, sent>>

Fill ==
    /\ pc = "fill"
    /\ FillRest
    /\ pc' = "done"
    /\ UNCHANGED <<inputs, stopAt, current, blockNo, prevBlockNo, lost>>

Done == pc = "done" /\ UNCHANGED vars

Loop == (\E k \in DOMAIN docs : Scroll(k)) \/ ScrollEOF
Check == \E best \in 0..MaxHeight : CheckFix(best) \/ CheckStart(best)
Next ==
    \/ Check
    \/ Loop
    \/ \E k \in 0..Len(docs) : ScrollError(k)
    \/ Fill
    \/ Done

Spec == Init /\ [][Next]_vars

(* A request that fails is repeated after a second, and in the end answered.*)
FairSpec == Spec /\ WF_vars(Check \/ Fill) /\ WF_vars(Loop)

-----------------------------------------------------------------------------
TypeOK ==
    /\ docs \in Seq(0..MaxHeight) /\ NonIncreasing(docs)
    /\ fix \in BOOLEAN
    /\ startFrom \in Uint /\ stopAt \in Uint
    /\ current \in 0..Len(docs)
    /\ blockNo \in Uint /\ prevBlockNo \in Uint
    /\ missingBlocks \in Nat
    /\ sent \subseteq Uint
    /\ lost \in BOOLEAN
    /\ pc \in {"check", "scroll", "fill", "done"}

(* The node could not be asked for its height (or stands at genesis) and    *)
(* no --to is given: stopAt is then the wrapped 2^64 - 1.                   *)
Wrapped == stopAt = MaxUint

(* NothingSkipped: at every moment of the check, whatever the scroll        *)
(* repeats, skips or duplicates, each height from the lowest hit processed  *)
(* up to stopAt has its block indexed or handed over (checkIndex, loop).    *)
NothingSkipped ==
    pc \in {"scroll", "fill", "done"} /\ ~fix /\ ~Wrapped =>
        \A h \in prevBlockNo..stopAt : h \in Indexed \/ h \in sent

(* NoRework: without --fix no height whose block is indexed is handed over  *)
(* again, unless a scroll request failed and its page was lost, or --to is  *)
(* 2^63 or more, which the query filter takes for a negative number.        *)
NoRework == ~fix /\ ~lost /\ (stopAt <= MaxInt \/ Wrapped) => sent \cap Indexed = {}

(* CountsOnce: missingBlocks, reported at the end, counts the heights       *)
(* handed over, so that no height is handed over twice.                     *)
CountsOnce == ~fix => /\ IsFiniteSet(sent)
                      /\ missingBlocks = Cardinality(sent)

(* InRangeOnly: checkIndex hands over heights of startFrom..stopAt only.    *)
InRangeOnly == ~fix => sent \subseteq startFrom..stopAt

(* NoHeightNoCheck: when the height of the node is not known the check      *)
(* hands over nothing, rather than heights no block has.                    *)
NoHeightNoCheck == ~fix /\ Wrapped => sent = {}

(* OnlyKnownHeights: checkIndex keeps to heights the node has been asked    *)
(* for, whatever hits the database returns outside of the range.            *)
OnlyKnownHeights == InRangeOnly /\ NoHeightNoCheck

(* OnlyLowestGap: when the check ends, a height of the range that is        *)
(* neither indexed nor handed over lies between an indexed startFrom and    *)
(* the next indexed block above it: the one gap the code may leave.         *)
OnlyLowestGap ==
    pc = "done" /\ ~fix /\ ~Wrapped =>
        \A h \in startFrom..stopAt :
            \/ h \in Indexed \/ h \in sent
            \/ startFrom \in Indexed /\ h < prevBlockNo

(* CheckEnds: the check ends, whatever the index holds.                     *)
CheckEnds == <>(pc = "done")

-----------------------------------------------------------------------------
(* The loop invariant of the check, inductive.                              *)

InLoop == pc \in {"scroll", "fill"}

\* prevBlockNo is the lowest hit processed, or one above the range.
Cursor ==
    /\ pc # "check" => (~fix => /\ Wrapped => prevBlockNo = 0
                                /\ ~Wrapped => prevBlockNo <= stopAt + 1)
    /\ InLoop => ~fix
    /\ InLoop /\ ~Wrapped /\ prevBlockNo # stopAt + 1 => prevBlockNo > startFrom
    /\ InLoop => blockNo = Inc(startFrom) \/ blockNo \in Indexed

\* What has been handed over lies above the cursor.
SentAbove ==
    /\ pc = "check" => sent = {} /\ missingBlocks = 0
    /\ InLoop => sent \subseteq prevBlockNo..stopAt

\* Every hit read is at or above the cursor; the loop is left when no other
\* hit lies above startFrom.
HitsAbove ==
    /\ pc = "check" => current = 0
    /\ pc = "scroll" /\ ~lost =>
         \A j \in 1..current : InQuery(docs[j]) => docs[j] >= prevBlockNo
    /\ pc = "fill" /\ ~lost /\ prevBlockNo > startFrom =>
         \A j \in DOMAIN docs : InQuery(docs[j]) =>
            docs[j] >= prevBlockNo \/ docs[j] < startFrom \/ blockNo = startFrom

LoopInv ==
    /\ Cursor
    /\ SentAbove
    /\ HitsAbove
    /\ NothingSkipped
    /\ CountsOnce
    /\ InRangeOnly
    /\ NoHeightNoCheck
    /\ NoRework
    /\ OnlyLowestGap
=============================================================================
