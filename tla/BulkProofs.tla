----------------------------- MODULE BulkProofs -----------------------------
(* The bulk indexer, for every number of miners, of channels and of blocks, *)
(* every bulk size, and every content of the blocks: its types, that a      *)
(* block is never in the database without its parts, that it implements     *)
(* IndexStore, how it stops, that a check which ends has indexed all it was *)
(* given, and that no account token is forgotten.                           *)
EXTENDS BulkProps, FiniteSetTheorems, SequenceTheorems, TLAPS

LEMMA Params ==
    /\ MinerNum \in Nat \ {0} /\ BulkSize \in Nat \ {0} /\ MaxHeight \in Nat
    /\ Block \in Channels /\ Main \in Procs /\ Channels \subseteq Procs
    /\ Block \notin PartSet /\ Main \notin Channels
    /\ \A i \in DOMAIN Parts : Parts[i] \in PartSet
BY SizeAssumption, ChannelAssumption DEF Channels, Procs, PartSet

(* What a miner still has to send loses its head.                           *)
LEMMA HeadTail ==
    ASSUME NEW s \in Seq(Doc), s # <<>>
    PROVE  /\ Head(s) \in Doc /\ Tail(s) \in Seq(Doc)
           /\ Head(s).ch \in PartSet /\ Head(s).id \in Ids
           /\ Range(s) \subseteq {Head(s)} \cup Range(Tail(s))
<1>1. Head(s) \in Doc /\ Tail(s) \in Seq(Doc)
  BY HeadTailProperties
<1>2. Head(s).ch \in PartSet /\ Head(s).id \in Ids
  BY <1>1 DEF Doc
<1>3. ASSUME NEW i \in DOMAIN s
      PROVE  s[i] \in {Head(s)} \cup Range(Tail(s))
  <2>1. /\ Len(s) \in Nat /\ DOMAIN s = 1..Len(s)
        /\ Len(Tail(s)) = Len(s) - 1 /\ Head(s) = s[1]
        /\ \A j \in 1..Len(s)-1 : Tail(s)[j] = s[j+1]
    BY LenProperties, HeadTailProperties
  <2>2. DOMAIN Tail(s) = 1..Len(Tail(s))
    BY <1>1, LenProperties
  <2>3. CASE i # 1
    <3>1. i - 1 \in DOMAIN Tail(s) /\ Tail(s)[i-1] = s[i]
      BY <2>1, <2>2, <2>3
    <3> QED
      BY <3>1 DEF Range
  <2> QED
    BY <2>1, <2>3
<1> QED
  BY <1>1, <1>2, <1>3 DEF Range

-----------------------------------------------------------------------------
(* Types.                                                                   *)

LEMMA TypeInit == Init => TypeOK
<1> SUFFICES ASSUME Init
             PROVE  TypeOK
  OBVIOUS
<1> USE Params DEF Init, Heights
<1>1. TypeMain
  BY DEF TypeMain
<1>2. TypeMiner
  <2>1. md \in [Miners -> Seq(Doc)]
    BY EmptySeq
  <2> QED
    BY <2>1 DEF TypeMiner
<1>3. TypeIndexer
  BY DEF TypeIndexer, Empty, IdsOf
<1>4. TypeRest
  <2>1. tpc = "top" /\ returnFlag = FALSE /\ panic = FALSE /\ crashes = 0
    OBVIOUS
  <2>2. 0 \in 0..MaxCrashes
    BY ModeAssumption
  <2> QED
    BY <2>1, <2>2 DEF TypeRest
<1> QED
  BY <1>1, <1>2, <1>3, <1>4 DEF TypeOK

LEMMA TypeMainStep ==
    ASSUME TypeOK, MainStep
    PROVE  TypeOK'
<1> USE Params DEF TypeOK, TypeMain, TypeMiner, TypeIndexer, TypeRest, Heights,
        stopVars, minerVars, bulkVars, timerVars, procVars
<1>1. ASSUME NEW lo \in Heights, NEW hi \in Heights, CallInsert(lo, hi)
      PROVE  TypeOK'
  <2>1. /\ mainpc' = "insert" /\ from' = lo /\ height' = hi /\ low' = lo /\ lo <= hi
        /\ redone' = redone \cup (lo..hi \cap index[Block])
        /\ UNCHANGED <<sent, stopVars, minerVars, bulkVars, timerVars, index, procVars>>
    BY <1>1 DEF CallInsert
  <2>2. lo \in 0..MaxHeight+1 /\ lo..hi \subseteq 0..MaxHeight
    OBVIOUS
  <2>3. TypeMain'
    BY <2>1, <2>2
  <2>4. TypeMiner' /\ TypeIndexer' /\ TypeRest'
    BY <2>1
  <2> QED
    BY <2>3, <2>4
<1>2. ASSUME NEW m \in Miners, InsertBlock(m)
      PROVE  TypeOK'
  <2>1. height' \in Heights /\ mainpc' \in {"call", "insert"} /\ (mainpc' = "insert" => from <= height')
    BY <1>2 DEF InsertBlock, Advance
  <2>2. TypeMain'
    BY <1>2, <2>1 DEF InsertBlock
  <2>3. TypeMiner'
    BY <1>2 DEF InsertBlock
  <2> QED
    BY <1>2, <2>2, <2>3 DEF InsertBlock
<1>3. CASE CallStop
  BY <1>3 DEF CallStop
<1>4. CASE CloseChannels
  BY <1>4 DEF CloseChannels
<1> QED
  BY <1>1, <1>2, <1>3, <1>4 DEF MainStep

LEMMA TypeStopStep ==
    ASSUME TypeOK, NEW p \in Procs, StopStep(p)
    PROVE  TypeOK'
<1> USE DEF TypeOK, mainVars, minerVars, bulkVars, timerVars, procVars
<1>1. CASE StopMiner(p)
  <2>1. stage' \in [Procs -> {"none", "miners", "commit", "bulks", "close"}]
    BY <1>1 DEF StopMiner, TypeMain
  <2>2. si' \in [Procs -> Nat]
    <3>1. si' = si \/ si' = [si EXCEPT ![p] = si[p] + 1]
      BY <1>1 DEF StopMiner
    <3> QED
      BY <3>1 DEF TypeMain
  <2>3. TypeMain'
    BY <1>1, <2>1, <2>2 DEF StopMiner, TypeMain
  <2>4. TypeMiner'
    BY <1>1 DEF StopMiner, TypeMiner
  <2>5. TypeIndexer' /\ TypeRest'
    BY <1>1 DEF StopMiner, TypeIndexer, TypeRest
  <2> QED
    BY <2>3, <2>4, <2>5
<1>2. CASE ForceCommit(p)
  BY <1>2, Params DEF ForceCommit, StartCommit, NothingToCommit, TypeMain, TypeMiner, TypeIndexer, TypeRest
<1>3. CASE StopIndexer(p)
  <2>1. stage' \in [Procs -> {"none", "miners", "commit", "bulks", "close"}]
    BY <1>3 DEF StopIndexer, TypeMain
  <2>2. si' \in [Procs -> Nat]
    <3>1. si' = si \/ si' = [si EXCEPT ![p] = si[p] + 1]
      BY <1>3 DEF StopIndexer
    <3> QED
      BY <3>1 DEF TypeMain
  <2>3. TypeMain'
    BY <1>3, <2>1, <2>2 DEF StopIndexer, TypeMain
  <2>4. TypeMiner' /\ TypeRest'
    BY <1>3 DEF StopIndexer, TypeMiner, TypeRest
  <2>5. TypeIndexer'
    BY <1>3 DEF StopIndexer, TypeIndexer
  <2> QED
    BY <2>3, <2>4, <2>5
<1> QED
  BY <1>1, <1>2, <1>3 DEF StopStep

LEMMA TypeReceive ==
    ASSUME TypeIndexer, NEW c \in Channels, NEW id \in IdsOf(c), Receive(c, id)
    PROVE  /\ ipc' \in [Channels -> {"recv", "order", "await", "commit", "synDone",
                                     "synFailed", "stop", "stopped"}]
           /\ total' \in [Channels -> 0..BulkSize]
           /\ bulk' \in [Channels -> SUBSET (Ids \cup Heights)]
           /\ held' \in [Channels -> SUBSET (Ids \cup Heights)]
           /\ \A e \in Channels : bulk'[e] \cup held'[e] \subseteq IdsOf(e)
<1>1. id \in Ids \cup Heights
  BY DEF IdsOf
<1>2. CASE total[c] >= BulkSize
  BY <1>1, <1>2, Params DEF Receive, Full, TypeIndexer
<1>3. CASE ~(total[c] >= BulkSize)
  <2>1. /\ UNCHANGED <<ipc, held>>
        /\ total' = [total EXCEPT ![c] = total[c] + 1]
        /\ bulk' = [bulk EXCEPT ![c] = bulk[c] \cup {id}]
    BY <1>3 DEF Receive, Full
  <2>2. total[c] + 1 \in 0..BulkSize
    BY <1>3, Params DEF TypeIndexer
  <2> QED
    BY <1>1, <2>1, <2>2 DEF TypeIndexer
<1> QED
  BY <1>2, <1>3

LEMMA TypeMinerStep ==
    ASSUME TypeOK, NEW m \in Miners, GetBlock(m) \/ MinerStep(m)
    PROVE  TypeOK'
<1> USE DEF TypeOK, mainVars, stopVars, minerVars, bulkVars, timerVars, procVars
<1>1. CASE GetBlock(m)
  BY <1>1, DocsAssumption DEF GetBlock, TypeMain, TypeMiner, TypeIndexer, TypeRest
<1>2. CASE LoadAccToken(m)
  <2>1. Tail(md[m]) \in Seq(Doc)
    BY <1>2, HeadTail DEF LoadAccToken, TypeMiner
  <2>2. TypeMiner'
    BY <1>2, <2>1 DEF LoadAccToken, TypeMiner
  <2> QED
    BY <1>2, <2>2 DEF LoadAccToken, TypeMain, TypeIndexer, TypeRest
<1>3. CASE StoreAccToken(m)
  <2>1. Head(md[m]).id \in Ids
    BY <1>3, HeadTail DEF StoreAccToken, TypeMiner
  <2>2. TypeMiner'
    BY <1>3, <2>1 DEF StoreAccToken, TypeMiner
  <2> QED
    BY <1>3, <2>2 DEF StoreAccToken, TypeMain, TypeIndexer, TypeRest
<1>4. CASE AddDoc(m)
  <2>1. /\ md[m] \in Seq(Doc) /\ md[m] # <<>>
        /\ Receive(Head(md[m]).ch, Head(md[m]).id)
    BY <1>4 DEF AddDoc, TypeMiner
  <2>2. /\ Tail(md[m]) \in Seq(Doc)
        /\ Head(md[m]).ch \in Channels /\ Head(md[m]).id \in IdsOf(Head(md[m]).ch)
    BY <2>1, HeadTail, Params DEF Channels, IdsOf
  <2>3. TypeIndexer'
    <3>1. UNCHANGED <<failed, rejected, ordered, acks, bOpen, index>>
      BY <1>4, <2>1 DEF AddDoc, Receive, Full
    <3> QED
      BY <2>1, <2>2, <3>1, TypeReceive DEF TypeIndexer
  <2>4. TypeMiner'
    BY <1>4, <2>2 DEF AddDoc, TypeMiner
  <2> QED
    BY <1>4, <2>3, <2>4 DEF AddDoc, TypeMain, TypeRest
<1>5. CASE AddBlock(m)
  <2>1. Receive(Block, mh[m]) /\ mh[m] \in IdsOf(Block)
    BY <1>5 DEF AddBlock, TypeMiner, IdsOf
  <2>2. TypeIndexer'
    <3>1. UNCHANGED <<failed, rejected, ordered, acks, bOpen, index>>
      BY <1>5, <2>1 DEF AddBlock, Receive, Full
    <3> QED
      BY <2>1, <3>1, Params, TypeReceive DEF TypeIndexer
  <2>3. TypeMiner'
    BY <1>5 DEF AddBlock, TypeMiner
  <2> QED
    BY <1>5, <2>2, <2>3 DEF AddBlock, TypeMain, TypeRest
<1> QED
  BY <1>1, <1>2, <1>3, <1>4, <1>5 DEF MinerStep

LEMMA TypeIndexerStep ==
    ASSUME TypeOK, NEW c \in Channels, IndexerStep(c) \/ CommitError(c)
    PROVE  TypeOK'
<1> USE DEF TypeOK, mainVars, stopVars, minerVars, bulkVars, timerVars, procVars
<1>1. CASE OrderCommit
  <2>1. ipc' \in [Channels -> {"recv", "order", "await", "commit", "synDone",
                               "synFailed", "stop", "stopped"}]
    BY <1>1 DEF OrderCommit, NothingToCommit, TypeIndexer
  <2>2. /\ ordered' = ordered + 1
        /\ UNCHANGED <<mainVars, stopVars, minerVars, total, bulk, held, failed, rejected,
                       acks, bOpen, timerVars, index, procVars>>
    BY <1>1 DEF OrderCommit, NothingToCommit
  <2>3. TypeIndexer'
    BY <2>1, <2>2 DEF TypeIndexer
  <2> QED
    BY <2>2, <2>3 DEF TypeMain, TypeMiner, TypeRest
<1>2. CASE SynDone(c)
  <2>1. ipc' \in [Channels -> {"recv", "order", "await", "commit", "synDone",
                               "synFailed", "stop", "stopped"}]
    <3>1. PICK x \in {"recv", "stop"}, y \in {"commit", "await"} :
             ipc' = [ipc EXCEPT ![c] = x, ![Block] = y]
      BY <1>2 DEF SynDone, Answered
    <3> QED
      BY <3>1 DEF TypeIndexer
  <2>2. CASE ipc[c] = "synDone"
    <3>1. /\ total' = [total EXCEPT ![c] = 0]
          /\ bulk' = [bulk EXCEPT ![c] = {}]
          /\ acks' = acks + 1
          /\ UNCHANGED <<mainVars, stopVars, minerVars, held, failed, rejected, ordered,
                         bOpen, timerVars, index, procVars>>
      BY <1>2, <2>2 DEF SynDone, Answered
    <3>2. TypeIndexer'
      BY <2>1, <3>1, Params DEF TypeIndexer
    <3> QED
      BY <3>1, <3>2 DEF TypeMain, TypeMiner, TypeRest
  <2>3. CASE ipc[c] # "synDone"
    <3>1. TypeIndexer'
      <4>1. acks' = acks + 1 /\ UNCHANGED <<total, bulk, held, failed, rejected, ordered, bOpen, index>>
        BY <1>2, <2>3 DEF SynDone, Answered
      <4> QED
        BY <2>1, <4>1 DEF TypeIndexer
    <3>2. TypeMain'
      BY <1>2, <2>3 DEF SynDone, Answered, TypeMain
    <3> QED
      BY <1>2, <3>1, <3>2 DEF SynDone, Answered, TypeMiner, TypeRest
  <2> QED
    BY <2>2, <2>3
<1>3. ASSUME NEW id \in bulk[c], Apply(c, id)
      PROVE  TypeOK'
  BY <1>3 DEF Apply, TypeMain, TypeMiner, TypeIndexer, TypeRest
<1>4. CASE CommitDone(c)
  <2>1. /\ index' \in [Channels -> SUBSET (Ids \cup Heights)]
        /\ \A e \in Channels : index'[e] \subseteq IdsOf(e)
        /\ rejected' \in [Channels -> SUBSET (Ids \cup Heights)]
    <3>1. PICK R \in SUBSET (bulk[c] \ index[c]) :
                 /\ index' = [index EXCEPT ![c] = index[c] \cup (bulk[c] \ R)]
                 /\ rejected' = [rejected EXCEPT ![c] = rejected[c] \cup R]
      BY <1>4 DEF CommitDone
    <3>2. /\ bulk[c] \subseteq Ids \cup Heights /\ index[c] \subseteq Ids \cup Heights
          /\ rejected[c] \subseteq Ids \cup Heights
          /\ bulk[c] \cup index[c] \subseteq IdsOf(c)
      BY DEF TypeIndexer
    <3>3. \A e \in Channels : index'[e] = IF e = c THEN index[c] \cup (bulk[c] \ R) ELSE index[e]
      BY <3>1 DEF TypeIndexer
    <3>4. \A e \in Channels : index'[e] \subseteq IdsOf(e)
      BY <3>2, <3>3 DEF TypeIndexer
    <3> QED
      BY <3>1, <3>2, <3>4 DEF TypeIndexer
  <2>2. CASE Answers(c)
    BY <1>4, <2>1, <2>2 DEF CommitDone, TypeMain, TypeMiner, TypeIndexer, TypeRest
  <2>3. CASE ~Answers(c)
    <3>1. /\ ipc' = [ipc EXCEPT ![c] = "recv"]
          /\ total' = [total EXCEPT ![c] = IF held[c] = {} THEN 0 ELSE 1]
          /\ bulk' = [bulk EXCEPT ![c] = held[c]]
          /\ held' = [held EXCEPT ![c] = {}]
          /\ ordered' \in {0, ordered} /\ acks' \in {0, acks}
          /\ UNCHANGED <<mainVars, stopVars, minerVars, failed, bOpen, tpc, procVars>>
      BY <1>4, <2>3 DEF CommitDone
    <3>2. TypeIndexer'
      BY <2>1, <3>1, Params DEF TypeIndexer
    <3>3. returnFlag' \in BOOLEAN
      BY <1>4, <2>3 DEF CommitDone
    <3> QED
      BY <3>1, <3>2, <3>3 DEF TypeMain, TypeMiner, TypeRest
  <2> QED
    BY <2>2, <2>3
<1>5. CASE CommitError(c)
  <2>1. TypeIndexer'
    BY <1>5 DEF CommitError, TypeIndexer
  <2>2. TypeMain'
    BY <1>5 DEF CommitError, TypeMain
  <2> QED
    BY <1>5, <2>1, <2>2 DEF CommitError, TypeMiner, TypeRest
<1> QED
  BY <1>1, <1>2, <1>3, <1>4, <1>5 DEF IndexerStep

LEMMA TypeTimerStep ==
    ASSUME TypeOK, TimerStep \/ Panic
    PROVE  TypeOK'
<1> USE DEF TypeOK, mainVars, stopVars, minerVars, bulkVars, timerVars, procVars
<1>1. CASE TimerTop
  BY <1>1 DEF TimerTop, TypeMain, TypeMiner, TypeIndexer, TypeRest
<1>2. ASSUME NEW elapsed \in BOOLEAN, TimerWake(elapsed)
      PROVE  TypeOK'
  BY <1>2 DEF TimerWake, TypeMain, TypeMiner, TypeIndexer, TypeRest
<1>3. CASE TimerSend
  <2>1. returnFlag' \in BOOLEAN
    BY <1>3 DEF TimerSend, StartCommit, NothingToCommit
  <2>2. TypeIndexer'
    BY <1>3, Params DEF TimerSend, StartCommit, NothingToCommit, TypeIndexer
  <2> QED
    BY <1>3, <2>1, <2>2 DEF TimerSend, TypeMain, TypeMiner, TypeRest
<1>4. CASE Panic
  BY <1>4 DEF Panic, TypeMain, TypeMiner, TypeIndexer, TypeRest
<1> QED
  BY <1>1, <1>2, <1>3, <1>4 DEF TimerStep

LEMMA TypeRestart ==
    ASSUME TypeOK, Restart
    PROVE  TypeOK'
<1> USE Params DEF TypeOK, Restart, Heights
<1>1. TypeMain'
  BY DEF TypeMain
<1>2. TypeMiner'
  <2>1. md' \in [Miners -> Seq(Doc)]
    BY EmptySeq
  <2> QED
    BY <2>1 DEF TypeMiner
<1>3. TypeIndexer'
  BY DEF TypeIndexer, Empty, IdsOf
<1>4. TypeRest'
  <2>1. tpc' = "top" /\ returnFlag' = FALSE /\ panic' = FALSE
    OBVIOUS
  <2>2. crashes' \in 0..MaxCrashes
    BY ModeAssumption DEF TypeRest
  <2> QED
    BY <2>1, <2>2 DEF TypeRest
<1> QED
  BY <1>1, <1>2, <1>3, <1>4

LEMMA TypeNext == TypeOK /\ [Next]_vars => TypeOK'
<1> SUFFICES ASSUME TypeOK, [Next]_vars
             PROVE  TypeOK'
  OBVIOUS
<1>1. ASSUME NEW m \in Miners, GetBlock(m) \/ MinerStep(m)
      PROVE  TypeOK'
  BY <1>1, TypeMinerStep
<1>2. CASE Step
  BY <1>1, <1>2, TypeMainStep, TypeStopStep, TypeIndexerStep, TypeTimerStep DEF Step
<1>3. CASE Restart
  BY <1>3, TypeRestart
<1>4. CASE UNCHANGED vars
  BY <1>4 DEF vars, mainVars, stopVars, minerVars, bulkVars, timerVars, procVars,
              TypeOK, TypeMain, TypeMiner, TypeIndexer, TypeRest
<1> QED
  BY <1>2, <1>3, <1>4 DEF Next, Ended

(* Types hold in every state of the bulk indexer.                           *)
THEOREM TypeCorrect == Spec => []TypeOK
BY TypeInit, TypeNext, PTL DEF Spec

-----------------------------------------------------------------------------
(* A block comes after its parts.                                           *)

LEMMA PartSetFinite == IsFiniteSet(PartSet)
<1>1. /\ Len(Parts) \in Nat /\ DOMAIN Parts = 1..Len(Parts)
      /\ Parts \in [1..Len(Parts) -> PartSet]
  BY ChannelAssumption, LenProperties
<1>2. Parts \in Surjection(1..Len(Parts), PartSet)
  BY <1>1 DEF Surjection, PartSet
<1>3. IsFiniteSet(1..Len(Parts))
  BY <1>1, FS_Interval
<1> QED
  BY <1>2, <1>3, FS_Surjection

LEMMA OwnDoc ==
    ASSUME NEW h \in Heights, NEW d \in OwnDocs(h)
    PROVE  /\ d \in Range(DocsOf[h]) /\ d.ch \in PartSet /\ d.id \in Ids
           /\ d.ch # AccTokens /\ d.ch # Block /\ d.ch \in Channels
           /\ \E i \in 1..Len(Parts) : d.ch = Parts[i]
<1>1. DocsOf[h] \in Seq(Doc)
  BY DocsAssumption
<1>2. d \in Doc
  BY <1>1, LenProperties DEF OwnDocs, Range
<1>3. DOMAIN Parts = 1..Len(Parts)
  BY ChannelAssumption, LenProperties
<1> QED
  BY <1>2, <1>3, Params DEF OwnDocs, Doc, PartSet, Channels

(* The blocks the indexer of the blocks has collected are heights.          *)
LEMMA Collected ==
    ASSUME TypeOK
    PROVE  bulk[Block] \cup held[Block] \cup index[Block] \subseteq Heights
BY Params DEF TypeOK, TypeIndexer, IdsOf

(* No document is lost: what has arrived stays, as the index only grows and *)
(* a bulk is emptied into it.                                               *)
LEMMA ArrivedStays ==
    ASSUME NEW d, Arrived(d),
           Failed(d) => Failed(d)',
           bulk[d.ch] \cup held[d.ch] \cup index[d.ch]
              \subseteq bulk'[d.ch] \cup held'[d.ch] \cup index'[d.ch]
    PROVE  Arrived(d)'
BY DEF Arrived, Failed

LEMMA PartsInit == Init => PartsFirst
<1> SUFFICES ASSUME Init
             PROVE  PartsFirst
  OBVIOUS
<1>1. index[Block] = {} /\ bulk[Block] = {} /\ held[Block] = {} /\ ipc[Block] = "recv"
  BY Params DEF Init, Empty
<1>2. BlockHasParts /\ CollectedArrived /\ OrderedFlushed
  BY <1>1 DEF BlockHasParts, CollectedArrived, OrderedFlushed
<1>3. MinedArrived
  BY DEF Init, MinedArrived
<1>4. AnswersCounted
  <2>1. Owing = {}
    BY Params DEF Init, Owing, Owes, Channels
  <2>2. Cardinality(Owing) = 0
    BY <2>1, FS_EmptySet
  <2> QED
    BY <1>1, <2>2 DEF Init, AnswersCounted
<1>5. Consistent
  BY DEF Init, Consistent, Empty
<1> QED
  BY <1>2, <1>3, <1>4, <1>5 DEF PartsFirst

LEMMA PartsRestart ==
    ASSUME TypeOK, PartsFirst, Restart
    PROVE  PartsFirst'
<1>1. /\ bulk'[Block] = {} /\ held'[Block] = {} /\ ipc'[Block] = "recv"
      /\ UNCHANGED <<index, failed, rejected>>
  BY Params DEF Restart, Empty
<1>2. CollectedArrived' /\ OrderedFlushed'
  BY <1>1 DEF CollectedArrived, OrderedFlushed
<1>3. BlockHasParts'
  BY <1>1 DEF PartsFirst, BlockHasParts, Failed
<1>4. MinedArrived'
  BY DEF Restart, MinedArrived
<1>5. AnswersCounted'
  <2>1. Owing' = {}
    BY Params DEF Restart, Owing, Owes, Channels
  <2>2. Cardinality(Owing') = 0
    BY <2>1, FS_EmptySet
  <2> QED
    BY <1>1, <2>2 DEF Restart, AnswersCounted
<1>6. Consistent'
  BY DEF Restart, Consistent, Empty
<1> QED
  BY <1>2, <1>3, <1>4, <1>5, <1>6 DEF PartsFirst

(* The steps that leave the bulk indexers and the database alone.           *)
indexers == <<ipc, total, bulk, held, failed, rejected, ordered, acks, index>>

LEMMA PartsQuiet ==
    ASSUME PartsFirst, MinedArrived', UNCHANGED indexers
    PROVE  PartsFirst'
<1> USE DEF indexers
<1>1. BlockHasParts'
  BY DEF PartsFirst, BlockHasParts, Failed
<1>2. CollectedArrived'
  BY DEF PartsFirst, CollectedArrived, Arrived, Failed
<1>3. OrderedFlushed'
  BY DEF PartsFirst, OrderedFlushed, Flushed, Failed, Owes
<1>4. Owing' = Owing
  BY DEF Owing, Owes
<1>5. AnswersCounted'
  BY <1>4 DEF PartsFirst, AnswersCounted
<1>6. Consistent'
  BY DEF PartsFirst, Consistent, Stored
<1> QED
  BY <1>1, <1>2, <1>3, <1>5, <1>6 DEF PartsFirst

LEMMA MinedQuiet ==
    ASSUME PartsFirst, UNCHANGED indexers, UNCHANGED <<mpc, mh, md>>
    PROVE  MinedArrived'
BY DEF indexers, PartsFirst, MinedArrived, Arrived, Failed

LEMMA PartsMainStep ==
    ASSUME TypeOK, PartsFirst, MainStep
    PROVE  PartsFirst'
<1> USE DEF stopVars, minerVars, bulkVars, timerVars, procVars, indexers
<1>1. ASSUME NEW lo \in Heights, NEW hi \in Heights, CallInsert(lo, hi)
      PROVE  PartsFirst'
  BY <1>1, MinedQuiet, PartsQuiet DEF CallInsert
<1>2. ASSUME NEW m \in Miners, InsertBlock(m)
      PROVE  PartsFirst'
  <2>1. UNCHANGED indexers
    BY <1>2 DEF InsertBlock, Advance
  <2>2. MinedArrived'
    BY <1>2, <2>1 DEF InsertBlock, Advance, TypeOK, TypeMiner, PartsFirst, MinedArrived, Arrived, Failed
  <2> QED
    BY <2>1, <2>2, PartsQuiet
<1>3. CASE CallStop
  BY <1>3, MinedQuiet, PartsQuiet DEF CallStop
<1>4. CASE CloseChannels
  BY <1>4, MinedQuiet, PartsQuiet DEF CloseChannels
<1> QED
  BY <1>1, <1>2, <1>3, <1>4 DEF MainStep

(* The steps of the miners that send nothing.                               *)
LEMMA PartsMinerQuiet ==
    ASSUME TypeOK, PartsFirst, NEW m \in Miners,
           GetBlock(m) \/ LoadAccToken(m) \/ StoreAccToken(m)
    PROVE  PartsFirst'
<1> USE DEF stopVars, minerVars, bulkVars, timerVars, procVars, indexers
<1>1. UNCHANGED indexers /\ UNCHANGED mh
  BY DEF GetBlock, LoadAccToken, StoreAccToken
<1>2. ASSUME NEW d, Arrived(d) \/ Arrived(d)'
      PROVE  Arrived(d)'
  BY <1>1, <1>2 DEF Arrived, Failed
<1>3. /\ mh \in [Miners -> Heights] /\ md \in [Miners -> Seq(Doc)]
      /\ mpc \in [Miners -> {"recv", "get", "send", "store", "claimed", "stopped"}]
  BY DEF TypeOK, TypeMiner
<1>4. SUFFICES ASSUME NEW n \in Miners, mpc'[n] \in {"send", "store", "claimed"},
                      NEW d \in OwnDocs(mh[n])
               PROVE  Arrived(d)' \/ d \in Range(md'[n])
  BY <1>1, PartsQuiet DEF MinedArrived, OwnDocs
<1>5. ASSUME mpc[n] \in {"send", "store", "claimed"}
      PROVE  Arrived(d)' \/ d \in Range(md[n])
  BY <1>2, <1>4, <1>5 DEF PartsFirst, MinedArrived
<1>6. CASE n # m
  <2>1. mpc'[n] = mpc[n] /\ md'[n] = md[n]
    BY <1>3, <1>6 DEF GetBlock, LoadAccToken, StoreAccToken
  <2> QED
    BY <1>4, <1>5, <2>1
<1>7. CASE n = m /\ GetBlock(m)
  <2>1. md'[n] = DocsOf[mh[n]]
    BY <1>3, <1>7 DEF GetBlock
  <2> QED
    BY <2>1 DEF OwnDocs
<1>8. CASE n = m /\ LoadAccToken(m)
  <2>1. mpc[m] = "send" /\ md[m] \in Seq(Doc) /\ md[m] # <<>> /\ Head(md[m]).ch = AccTokens
    BY <1>3, <1>8 DEF LoadAccToken
  <2>2. md'[m] = md[m] \/ md'[m] = Tail(md[m])
    BY <1>3, <1>8 DEF LoadAccToken
  <2>3. d # Head(md[m])
    BY <2>1 DEF OwnDocs
  <2> QED
    BY <1>5, <1>8, <2>1, <2>2, <2>3, HeadTail
<1>9. CASE n = m /\ StoreAccToken(m)
  BY <1>4, <1>5, <1>9 DEF StoreAccToken
<1> QED
  BY <1>6, <1>7, <1>8, <1>9

LEMMA PartsStopMiner ==
    ASSUME TypeOK, PartsFirst, NEW p \in Procs, StopMiner(p)
    PROVE  PartsFirst'
<1> USE DEF bulkVars, indexers
<1>1. UNCHANGED indexers
  BY DEF StopMiner
<1>2. MinedArrived'
  BY <1>1 DEF StopMiner, TypeOK, TypeMiner, PartsFirst, MinedArrived, Arrived, Failed
<1> QED
  BY <1>1, <1>2, PartsQuiet

LEMMA PartsTimerQuiet ==
    ASSUME TypeOK, PartsFirst,
           TimerTop \/ (\E elapsed \in BOOLEAN : TimerWake(elapsed)) \/ Panic
    PROVE  PartsFirst'
BY MinedQuiet, PartsQuiet
   DEF TimerTop, TimerWake, Panic, stopVars, minerVars, bulkVars, timerVars, procVars, indexers

(* An idle indexer stops, or that of the blocks starts a commit: neither    *)
(* owes an answer.                                                          *)
LEMMA PartsLeaveRecv ==
    ASSUME TypeOK, PartsFirst, NEW e, NEW x,
           ipc[e] = "recv", ipc' = [ipc EXCEPT ![e] = x],
           x \in {"recv", "order", "stopped"}, e # Block => x = "stopped",
           UNCHANGED <<total, bulk, held, failed, rejected, ordered, acks, index>>,
           UNCHANGED <<mpc, mh, md>>
    PROVE  PartsFirst'
<1>1. \A c \in Channels : ipc'[c] = IF c = e THEN x ELSE ipc[c]
  BY DEF TypeOK, TypeIndexer
<1>2. \A c \in PartSet : Owes(c)' <=> Owes(c)
  BY <1>1 DEF Owes, Channels
<1>3. \A h \in Heights : \A d \in OwnDocs(h) :
        (Arrived(d)' <=> Arrived(d)) /\ (Flushed(d)' <=> Flushed(d))
  BY <1>2, OwnDoc DEF Arrived, Flushed, Failed
<1>4. BlockHasParts'
  BY DEF PartsFirst, BlockHasParts, Failed
<1>5. MinedArrived'
  BY <1>3 DEF PartsFirst, MinedArrived, TypeOK, TypeMiner
<1>6. CollectedArrived'
  BY <1>3, Collected DEF PartsFirst, CollectedArrived
<1>7. ipc[Block] = "recv" => ordered = 0 /\ acks = 0
  BY DEF PartsFirst, AnswersCounted
<1>8. OrderedFlushed'
  <2>1. CASE e = Block
    <3>1. ipc'[Block] \notin {"await", "commit"} /\ ordered' = 0
      BY <1>1, <1>7, <2>1, Params
    <3>2. 1..ordered' = {}
      BY <3>1
    <3> QED
      BY <3>1, <3>2 DEF OrderedFlushed
  <2>2. CASE e # Block
    <3>1. ipc'[Block] = ipc[Block]
      BY <1>1, <2>2, Params
    <3> QED
      BY <1>3, <3>1, Collected DEF PartsFirst, OrderedFlushed
  <2> QED
    BY <2>1, <2>2
<1>9. AnswersCounted'
  <2>1. Owing' = Owing
    BY <1>2 DEF Owing
  <2>2. Parts # <<>> /\ Len(Parts) \in Nat /\ Len(Parts) > 0
    BY ChannelAssumption, LenProperties, EmptySeq
  <2>3. CASE e = Block
    BY <1>1, <1>7, <2>1, <2>2, <2>3, Params DEF PartsFirst, AnswersCounted
  <2>4. CASE e # Block
    <3>1. ipc'[Block] = ipc[Block]
      BY <1>1, <2>4, Params
    <3> QED
      BY <2>1, <3>1 DEF PartsFirst, AnswersCounted
  <2> QED
    BY <2>3, <2>4
<1>10. Consistent'
  BY <1>1 DEF PartsFirst, Consistent, Stored
<1> QED
  BY <1>4, <1>5, <1>6, <1>8, <1>9, <1>10 DEF PartsFirst

LEMMA PartsStartCommit ==
    ASSUME TypeOK, PartsFirst, TimerSend \/ (\E p \in Procs : ForceCommit(p))
    PROVE  PartsFirst'
<1>1. PICK x \in {"recv", "order"} : ipc' = [ipc EXCEPT ![Block] = x]
  BY DEF TimerSend, ForceCommit, StartCommit, NothingToCommit
<1>2. /\ ipc[Block] = "recv"
      /\ UNCHANGED <<total, bulk, held, failed, rejected, ordered, acks, index>>
      /\ UNCHANGED <<mpc, mh, md>>
  BY DEF TimerSend, ForceCommit, StartCommit, NothingToCommit, minerVars
<1> QED
  BY <1>1, <1>2, PartsLeaveRecv

LEMMA PartsStopStep ==
    ASSUME TypeOK, PartsFirst, NEW p \in Procs, StopStep(p)
    PROVE  PartsFirst'
<1>1. CASE StopIndexer(p)
  <2>1. /\ ipc[Channel[si[p]]] = "recv"
        /\ ipc' = [ipc EXCEPT ![Channel[si[p]]] = "stopped"]
        /\ UNCHANGED <<total, bulk, held, failed, rejected, ordered, acks, index>>
        /\ UNCHANGED <<mpc, mh, md>>
    BY <1>1 DEF StopIndexer, minerVars
  <2> QED
    BY <2>1, PartsLeaveRecv
<1> QED
  BY <1>1, PartsStopMiner, PartsStartCommit DEF StopStep

(* What receiving a document does to the indexer that receives it.          *)
LEMMA Received ==
    ASSUME TypeOK, PartsFirst, NEW c \in Channels, NEW id \in IdsOf(c), Receive(c, id)
    PROVE  /\ ipc[c] = "recv" /\ UNCHANGED <<failed, rejected, ordered, acks>>
           /\ \A e \in Channels \ {c} : /\ ipc'[e] = ipc[e] /\ total'[e] = total[e]
                                        /\ bulk'[e] = bulk[e] /\ held'[e] = held[e]
           /\ bulk'[c] \cup held'[c] = bulk[c] \cup held[c] \cup {id}
           /\ ipc'[c] \in {"recv", IF c = Block THEN "order" ELSE "commit"}
           /\ ipc'[c] = "recv" => held'[c] = {}
           /\ ipc'[c] # "recv" => held'[c] # {}
           /\ total'[c] = 0 => bulk'[c] = {}
<1>1. ipc[c] = "recv" /\ UNCHANGED <<failed, rejected, ordered, acks>>
  BY DEF Receive, Full
<1>2. held[c] = {} /\ (total[c] = 0 => bulk[c] = {})
  BY <1>1 DEF PartsFirst, Consistent
<1>3. CASE total[c] >= BulkSize
  BY <1>1, <1>2, <1>3 DEF Receive, Full, TypeOK, TypeIndexer
<1>4. CASE ~(total[c] >= BulkSize)
  <2>1. /\ UNCHANGED <<ipc, held>>
        /\ total' = [total EXCEPT ![c] = total[c] + 1]
        /\ bulk' = [bulk EXCEPT ![c] = bulk[c] \cup {id}]
    BY <1>4 DEF Receive, Full
  <2>2. total[c] \in Nat /\ total'[c] = total[c] + 1
    BY <2>1, Params DEF TypeOK, TypeIndexer
  <2>3. total'[c] # 0
    BY <2>2
  <2> QED
    BY <1>1, <1>2, <2>1, <2>3 DEF TypeOK, TypeIndexer
<1> QED
  BY <1>3, <1>4

LEMMA PartsAddDoc ==
    ASSUME TypeOK, PartsFirst, NEW m \in Miners, AddDoc(m)
    PROVE  PartsFirst'
<1> DEFINE c == Head(md[m]).ch
           id == Head(md[m]).id
<1>1. /\ mpc[m] \in {"send", "claimed"} /\ md[m] \in Seq(Doc) /\ md[m] # <<>>
      /\ Receive(c, id) /\ UNCHANGED <<mh, index>>
      /\ md' = [md EXCEPT ![m] = Tail(md[m])] /\ mpc' = [mpc EXCEPT ![m] = "send"]
  BY DEF AddDoc, TypeOK, TypeMiner
<1>2. /\ c \in PartSet /\ c \in Channels /\ c # Block /\ id \in IdsOf(c)
      /\ Range(md[m]) \subseteq {Head(md[m])} \cup Range(Tail(md[m]))
  BY <1>1, HeadTail, Params DEF Channels, IdsOf
<1> HIDE DEF c, id
<1>3. /\ ipc[c] = "recv" /\ UNCHANGED <<failed, rejected, ordered, acks>>
      /\ \A e \in Channels \ {c} : /\ ipc'[e] = ipc[e] /\ total'[e] = total[e]
                                   /\ bulk'[e] = bulk[e] /\ held'[e] = held[e]
      /\ bulk'[c] \cup held'[c] = bulk[c] \cup held[c] \cup {id}
      /\ ipc'[c] \in {"recv", "commit"}
      /\ ipc'[c] = "recv" => held'[c] = {}
      /\ ipc'[c] # "recv" => held'[c] # {}
      /\ total'[c] = 0 => bulk'[c] = {}
  BY <1>1, <1>2, Received
<1>4. \A e \in PartSet : Owes(e)' <=> Owes(e)
  BY <1>2, <1>3 DEF Owes, Channels
<1>5. \A h \in Heights : \A d \in OwnDocs(h) :
        (Arrived(d) => Arrived(d)') /\ (Flushed(d) => Flushed(d)')
  <2>1. SUFFICES ASSUME NEW h \in Heights, NEW d \in OwnDocs(h)
                 PROVE  (Arrived(d) => Arrived(d)') /\ (Flushed(d) => Flushed(d)')
    OBVIOUS
  <2>2. d.ch \in PartSet /\ d.ch \in Channels
    BY OwnDoc
  <2>3. CASE d.ch # c
    BY <1>1, <1>3, <1>4, <2>2, <2>3 DEF Arrived, Flushed, Failed
  <2>4. CASE d.ch = c
    <3>1. ~Owes(d.ch)
      BY <1>3, <2>4 DEF Owes
    <3> QED
      BY <1>1, <1>3, <2>4, <3>1 DEF Arrived, Flushed, Failed
  <2> QED
    BY <2>3, <2>4
<1>6. ASSUME NEW d, d = Head(md[m])
      PROVE  Arrived(d)'
  <2>1. d.ch = c /\ d.id = id
    BY <1>6 DEF c, id
  <2>2. id \in bulk'[c] \cup held'[c]
    BY <1>3
  <2> QED
    BY <2>1, <2>2 DEF Arrived
<1>7. BlockHasParts'
  <2>1. index' = index /\ UNCHANGED <<failed, rejected>>
    BY <1>1, <1>3
  <2> QED
    BY <2>1 DEF PartsFirst, BlockHasParts, Failed
<1>8. MinedArrived'
  <2>1. SUFFICES ASSUME NEW n \in Miners, mpc'[n] \in {"send", "store", "claimed"},
                        NEW d \in OwnDocs(mh[n])
                 PROVE  Arrived(d)' \/ d \in Range(md'[n])
    BY <1>1 DEF MinedArrived, OwnDocs
  <2>2. mpc[n] \in {"send", "store", "claimed"} /\ mh[n] \in Heights
    BY <1>1, <2>1 DEF TypeOK, TypeMiner
  <2>3. Arrived(d)' \/ d \in Range(md[n])
    BY <1>5, <2>2 DEF PartsFirst, MinedArrived
  <2>4. CASE n # m
    BY <1>1, <2>3, <2>4 DEF TypeOK, TypeMiner
  <2>5. CASE n = m
    <3>1. md'[n] = Tail(md[m])
      BY <1>1, <2>5 DEF TypeOK, TypeMiner
    <3> QED
      BY <1>2, <1>6, <2>3, <2>5, <3>1
  <2> QED
    BY <2>4, <2>5
<1>9. ipc'[Block] = ipc[Block] /\ bulk'[Block] = bulk[Block] /\ held'[Block] = held[Block]
  BY <1>2, <1>3, Params
<1>10. CollectedArrived'
  BY <1>5, <1>9, Collected DEF PartsFirst, CollectedArrived
<1>11. OrderedFlushed'
  BY <1>3, <1>5, <1>9, Collected DEF PartsFirst, OrderedFlushed
<1>12. AnswersCounted'
  <2>1. Owing' = Owing
    BY <1>4 DEF Owing
  <2> QED
    BY <1>3, <1>9, <2>1 DEF PartsFirst, AnswersCounted
<1>13. Consistent'
  BY <1>1, <1>3 DEF PartsFirst, Consistent, Stored
<1> QED
  BY <1>7, <1>8, <1>10, <1>11, <1>12, <1>13 DEF PartsFirst

LEMMA PartsAddBlock ==
    ASSUME TypeOK, PartsFirst, NEW m \in Miners, AddBlock(m)
    PROVE  PartsFirst'
<1>1. /\ mpc[m] = "send" /\ md[m] = <<>> /\ mh[m] \in Heights
      /\ Receive(Block, mh[m]) /\ UNCHANGED <<md, mh, index>>
      /\ mpc' = [mpc EXCEPT ![m] = "recv"]
  BY DEF AddBlock, TypeOK, TypeMiner
<1>2. mh[m] \in IdsOf(Block)
  BY <1>1 DEF IdsOf
<1>3. /\ ipc[Block] = "recv" /\ UNCHANGED <<failed, rejected, ordered, acks>>
      /\ \A e \in Channels \ {Block} : /\ ipc'[e] = ipc[e] /\ total'[e] = total[e]
                                       /\ bulk'[e] = bulk[e] /\ held'[e] = held[e]
      /\ bulk'[Block] \cup held'[Block] = bulk[Block] \cup held[Block] \cup {mh[m]}
      /\ ipc'[Block] \in {"recv", "order"}
      /\ ipc'[Block] = "recv" => held'[Block] = {}
      /\ total'[Block] = 0 => bulk'[Block] = {}
  BY <1>1, <1>2, Received, Params
<1>4. \A e \in PartSet : Owes(e)' <=> Owes(e)
  BY <1>3, Params DEF Owes, Channels
<1>5. ASSUME NEW h \in Heights, NEW d \in OwnDocs(h), Arrived(d)
      PROVE  Arrived(d)'
  BY <1>1, <1>3, <1>5, OwnDoc DEF Arrived, Failed
<1>6. BlockHasParts'
  <2>1. index' = index /\ UNCHANGED <<failed, rejected>>
    BY <1>1, <1>3
  <2> QED
    BY <2>1 DEF PartsFirst, BlockHasParts, Failed
<1>7. MinedArrived'
  <2>1. SUFFICES ASSUME NEW n \in Miners, mpc'[n] \in {"send", "store", "claimed"},
                        NEW d \in OwnDocs(mh[n])
                 PROVE  Arrived(d)' \/ d \in Range(md[n])
    BY <1>1 DEF MinedArrived, OwnDocs
  <2>2. mpc[n] \in {"send", "store", "claimed"} /\ mh[n] \in Heights
    BY <1>1, <2>1 DEF TypeOK, TypeMiner
  <2> QED
    BY <1>5, <2>2 DEF PartsFirst, MinedArrived
<1>8. CollectedArrived'
  <2>1. SUFFICES ASSUME NEW h \in bulk'[Block] \cup held'[Block], NEW d \in OwnDocs(h)
                 PROVE  Arrived(d)'
    BY DEF CollectedArrived, OwnDocs
  <2>2. CASE h \in bulk[Block] \cup held[Block]
    BY <1>5, <2>2, Collected DEF PartsFirst, CollectedArrived
  <2>3. CASE h = mh[m]
    <3>1. d \notin Range(md[m])
      BY <1>1 DEF Range
    <3>2. Arrived(d)
      BY <1>1, <2>3, <3>1 DEF PartsFirst, MinedArrived
    <3> QED
      BY <1>1, <1>5, <2>3, <3>2
  <2> QED
    BY <1>3, <2>2, <2>3
<1>9. ordered = 0 /\ acks = 0
  BY <1>3 DEF PartsFirst, AnswersCounted
<1>10. OrderedFlushed'
  <2>1. ipc'[Block] \notin {"await", "commit"} /\ ordered' = 0
    BY <1>3, <1>9
  <2>2. 1..ordered' = {}
    BY <2>1
  <2> QED
    BY <2>1, <2>2 DEF OrderedFlushed
<1>11. AnswersCounted'
  <2>1. Owing' = Owing
    BY <1>4 DEF Owing
  <2>2. Len(Parts) \in Nat /\ Len(Parts) > 0
    BY ChannelAssumption, LenProperties, EmptySeq
  <2> QED
    BY <1>3, <1>9, <2>1, <2>2 DEF PartsFirst, AnswersCounted
<1>12. Consistent'
  BY <1>1, <1>3 DEF PartsFirst, Consistent, Stored
<1> QED
  BY <1>6, <1>7, <1>8, <1>10, <1>11, <1>12 DEF PartsFirst

LEMMA PartsOrderCommit ==
    ASSUME TypeOK, PartsFirst, OrderCommit
    PROVE  PartsFirst'
<1>0. PICK c : c = Parts[ordered + 1]
  OBVIOUS
<1>1. /\ ipc[Block] = "order" /\ ipc[c] = "recv" /\ ordered' = ordered + 1
      /\ UNCHANGED <<mpc, mh, md, total, bulk, held, failed, rejected, acks, index>>
  BY <1>0 DEF OrderCommit, NothingToCommit, minerVars
<1>2. PICK x \in {"synDone", "commit"}, y \in {"order", "await"} :
        /\ ipc' = [ipc EXCEPT ![c] = x, ![Block] = y]
        /\ x = "synDone" => total[c] = 0
        /\ y = IF ordered + 1 = Len(Parts) THEN "await" ELSE "order"
  BY <1>0 DEF OrderCommit, NothingToCommit
<1>3. /\ ordered \in Nat /\ ordered < Len(Parts) /\ acks = 0
      /\ Len(Parts) \in Nat /\ DOMAIN Parts = 1..Len(Parts)
  BY <1>1, ChannelAssumption, LenProperties DEF PartsFirst, AnswersCounted, TypeOK, TypeIndexer
<1>4. c \in PartSet /\ c \in Channels /\ c # Block
  <2>1. ordered + 1 \in DOMAIN Parts
    BY <1>3
  <2> QED
    BY <1>0, <2>1, Params DEF Channels
<1>5. ASSUME NEW i \in 1..Len(Parts), Parts[i] = c
      PROVE  i = ordered + 1
  <2>1. ordered + 1 \in DOMAIN Parts /\ i \in DOMAIN Parts
    BY <1>3, <1>5
  <2> QED
    BY <1>0, <1>5, <2>1, ChannelAssumption
<1>6. /\ ipc'[c] = x /\ ipc'[Block] = y
      /\ \A e \in Channels \ {c, Block} : ipc'[e] = ipc[e]
  BY <1>2, <1>4, Params DEF TypeOK, TypeIndexer
<1>7. held[c] = {} /\ (total[c] = 0 => bulk[c] = {})
  BY <1>1, <1>4 DEF PartsFirst, Consistent
<1>8. ~Owes(c) /\ Owes(c)'
  BY <1>1, <1>6, <1>7 DEF Owes
<1>9. \A e \in PartSet \ {c} : Owes(e)' <=> Owes(e)
  BY <1>1, <1>6, Params DEF Owes, Channels
<1>10. ASSUME NEW d, Arrived(d)
       PROVE  Arrived(d)'
  BY <1>1, <1>10 DEF Arrived, Failed
<1>11. ASSUME NEW d, d.ch \in PartSet, Flushed(d)
       PROVE  Flushed(d)'
  BY <1>1, <1>8, <1>9, <1>11 DEF Flushed, Failed
<1>12. ASSUME NEW d, d.ch = c, Arrived(d)
       PROVE  Flushed(d)'
  BY <1>1, <1>7, <1>8, <1>12 DEF Flushed, Arrived, Failed
<1>13. BlockHasParts'
  BY <1>1 DEF PartsFirst, BlockHasParts, Failed
<1>14. MinedArrived'
  BY <1>1, <1>10 DEF PartsFirst, MinedArrived
<1>15. CollectedArrived'
  BY <1>1, <1>10 DEF PartsFirst, CollectedArrived
<1>16. OrderedFlushed'
  <2>1. ASSUME NEW h \in bulk[Block], NEW d \in OwnDocs(h), NEW i \in 1..ordered+1,
               d.ch = Parts[i]
        PROVE  Flushed(d)'
    <3>1. h \in Heights /\ d.ch \in PartSet
      BY <2>1, Collected, OwnDoc
    <3>2. CASE i = ordered + 1
      <4>1. Arrived(d)
        BY <2>1 DEF PartsFirst, CollectedArrived
      <4> QED
        BY <1>0, <1>12, <2>1, <3>2, <4>1
    <3>3. CASE i # ordered + 1
      <4>1. i \in 1..ordered
        BY <1>3, <3>3
      <4>2. Flushed(d)
        BY <1>1, <2>1, <4>1 DEF PartsFirst, OrderedFlushed
      <4> QED
        BY <1>11, <3>1, <4>2
    <3> QED
      BY <3>2, <3>3
  <2>2. ipc'[Block] = "order" =>
          \A h \in bulk'[Block] : \A i \in 1..ordered' :
             \A d \in OwnDocs(h) : d.ch = Parts[i] => Flushed(d)'
    BY <1>1, <2>1
  <2>3. ASSUME ipc'[Block] \in {"await", "commit"},
               NEW h \in bulk'[Block], NEW d \in OwnDocs(h)
        PROVE  Flushed(d)'
    <3>1. Len(Parts) = ordered + 1
      BY <1>2, <1>6, <2>3
    <3>2. PICK i \in 1..Len(Parts) : d.ch = Parts[i]
      BY <1>1, <2>3, Collected, OwnDoc
    <3> QED
      BY <1>1, <2>1, <2>3, <3>1, <3>2
  <2> QED
    BY <2>2, <2>3 DEF OrderedFlushed, OwnDocs
<1>17. AnswersCounted'
  <2>1. Owing' = Owing \cup {c} /\ c \notin Owing
    BY <1>4, <1>8, <1>9 DEF Owing
  <2>2. IsFiniteSet(Owing)
    BY PartSetFinite, FS_Subset DEF Owing
  <2>3. Cardinality(Owing') = Cardinality(Owing) + 1
    BY <2>1, <2>2, FS_AddElement
  <2>4. Cardinality(Owing) = ordered - acks
    BY DEF PartsFirst, AnswersCounted
  <2>5. Cardinality(Owing') = ordered' - acks'
    BY <1>1, <1>3, <2>3, <2>4
  <2>6. /\ ipc'[Block] = "order" => ordered' < Len(Parts)
        /\ ipc'[Block] = "await" => ordered' = Len(Parts) /\ acks' < Len(Parts)
    <3>1. y = "order" <=> ordered + 1 # Len(Parts)
      BY <1>2
    <3>2. PICK n \in Nat, o \in Nat : n = Len(Parts) /\ o = ordered /\ o < n
      BY <1>3
    <3>3. ordered' = ordered + 1 /\ acks' = 0 /\ ipc'[Block] = y
      BY <1>1, <1>3, <1>6
    <3>4. /\ ordered + 1 # Len(Parts) => ordered' < Len(Parts)
          /\ ordered + 1 = Len(Parts) => ordered' = Len(Parts) /\ acks' < Len(Parts)
      <4>1. o + 1 # n => o + 1 < n
        BY <3>2
      <4>2. 0 < n
        BY <3>2
      <4> QED
        BY <3>2, <3>3, <4>1, <4>2
    <3>5. y = "await" <=> ordered + 1 = Len(Parts)
      BY <1>2
    <3> QED
      BY <3>1, <3>3, <3>4, <3>5
  <2>7. ipc'[Block] \in {"order", "await"} /\ acks' = 0
    BY <1>1, <1>3, <1>6
  <2> QED
    BY <2>5, <2>6, <2>7 DEF AnswersCounted
<1>18. Consistent'
  <2>1. SUFFICES ASSUME NEW e \in Channels
                 PROVE  /\ total[e] = 0 => bulk[e] = {}
                        /\ ipc'[e] \in {"recv", "synDone", "synFailed", "stopped"} => held[e] = {}
                        /\ ipc'[e] = "synDone" => bulk[e] \subseteq Stored(e)
                        /\ ipc'[e] = "synFailed" => failed[e]
    BY <1>1 DEF Consistent, Stored
  <2>2. /\ total[e] = 0 => bulk[e] = {}
        /\ ipc[e] \in {"recv", "synDone", "synFailed", "stopped"} => held[e] = {}
        /\ ipc[e] = "synDone" => bulk[e] \subseteq Stored(e)
        /\ ipc[e] = "synFailed" => failed[e]
    BY DEF PartsFirst, Consistent
  <2> QED
    BY <1>2, <1>6, <1>7, <2>2
<1> QED
  BY <1>13, <1>14, <1>15, <1>16, <1>17, <1>18 DEF PartsFirst

LEMMA PartsSynDone ==
    ASSUME TypeOK, PartsFirst, NEW c \in Channels, SynDone(c)
    PROVE  PartsFirst'
<1>1. /\ ipc[Block] = "await" /\ c # Block /\ c \in PartSet /\ acks' = acks + 1
      /\ UNCHANGED <<mpc, mh, md, held, failed, rejected, ordered, index>>
  BY DEF SynDone, Answered, minerVars, Channels
<1>2. PICK x \in {"recv", "stop"}, y \in {"commit", "await"} :
        /\ ipc' = [ipc EXCEPT ![c] = x, ![Block] = y]
        /\ y = IF acks + 1 = Len(Parts) THEN "commit" ELSE "await"
  BY DEF SynDone, Answered
<1>3. /\ ipc'[c] = x /\ ipc'[Block] = y
      /\ \A e \in Channels \ {c, Block} : ipc'[e] = ipc[e]
  BY <1>1, <1>2, Params DEF TypeOK, TypeIndexer
<1>4. /\ \A e \in Channels \ {c} : total'[e] = total[e] /\ bulk'[e] = bulk[e]
      /\ \/ bulk'[c] = {} /\ bulk[c] \subseteq Stored(c)
         \/ total'[c] = total[c] /\ bulk'[c] = bulk[c] /\ failed[c]
  <2>1. CASE ipc[c] = "synDone"
    <3>1. total' = [total EXCEPT ![c] = 0] /\ bulk' = [bulk EXCEPT ![c] = {}]
      BY <2>1 DEF SynDone, Answered
    <3>2. bulk[c] \subseteq Stored(c)
      BY <2>1 DEF PartsFirst, Consistent
    <3> QED
      BY <3>1, <3>2 DEF TypeOK, TypeIndexer
  <2>2. CASE ipc[c] # "synDone"
    <3>1. ipc[c] = "synFailed" /\ UNCHANGED <<total, bulk>>
      BY <2>2 DEF SynDone, Answered
    <3>2. failed[c]
      BY <3>1 DEF PartsFirst, Consistent
    <3> QED
      BY <3>1, <3>2
  <2> QED
    BY <2>1, <2>2
<1>5. held[c] = {} /\ Owes(c) /\ ~Owes(c)'
  <2>1. ipc[c] \in {"synDone", "synFailed"}
    BY DEF SynDone, Answered
  <2> QED
    BY <1>3, <2>1 DEF Owes, PartsFirst, Consistent
<1>6. \A e \in PartSet \ {c} : Owes(e)' <=> Owes(e)
  BY <1>1, <1>3, Params DEF Owes, Channels
<1>7. ASSUME NEW d, d.ch \in Channels, Arrived(d)
      PROVE  Arrived(d)'
  BY <1>1, <1>4, <1>7 DEF Arrived, Failed, Stored
<1>8. ASSUME NEW d, d.ch \in PartSet, d.ch \in Channels, Flushed(d)
      PROVE  Flushed(d)'
  BY <1>1, <1>4, <1>6, <1>8 DEF Flushed, Failed, Stored
<1>9. BlockHasParts'
  BY <1>1 DEF PartsFirst, BlockHasParts, Failed
<1>10. MinedArrived'
  BY <1>1, <1>7, OwnDoc DEF PartsFirst, MinedArrived, TypeOK, TypeMiner
<1>11. bulk'[Block] = bulk[Block] /\ held'[Block] = held[Block]
  BY <1>1, <1>4, Params
<1>12. CollectedArrived'
  BY <1>7, <1>11, Collected, OwnDoc DEF PartsFirst, CollectedArrived
<1>13. OrderedFlushed'
  <2>1. ASSUME NEW h \in bulk[Block], NEW d \in OwnDocs(h)
        PROVE  Flushed(d)'
    <3>1. Flushed(d)
      BY <1>1 DEF PartsFirst, OrderedFlushed
    <3> QED
      BY <1>8, <3>1, Collected, OwnDoc
  <2>2. ipc'[Block] # "order"
    BY <1>3
  <2> QED
    BY <1>11, <2>1, <2>2 DEF OrderedFlushed, OwnDocs
<1>14. AnswersCounted'
  <2>1. Owing' = Owing \ {c} /\ c \in Owing
    BY <1>1, <1>5, <1>6 DEF Owing
  <2>2. IsFiniteSet(Owing)
    BY PartSetFinite, FS_Subset DEF Owing
  <2>3. Cardinality(Owing') = Cardinality(Owing) - 1
    BY <2>1, <2>2, FS_RemoveElement
  <2>4. /\ Cardinality(Owing) = ordered - acks
        /\ ordered = Len(Parts) /\ acks < Len(Parts)
    BY <1>1 DEF PartsFirst, AnswersCounted
  <2>5. ordered \in Nat /\ acks \in Nat /\ ordered' = ordered
    BY <1>1 DEF TypeOK, TypeIndexer
  <2>6. Cardinality(Owing') = ordered' - acks'
    BY <1>1, <2>3, <2>4, <2>5
  <2>7. ipc'[Block] \in {"commit", "await"} /\ ordered' = Len(Parts)
    BY <1>3, <2>4, <2>5
  <2>8. /\ ipc'[Block] = "await" => acks' < Len(Parts)
        /\ ipc'[Block] = "commit" => ordered' = acks'
    BY <1>1, <1>2, <1>3, <2>4, <2>5
  <2> QED
    BY <2>6, <2>7, <2>8 DEF AnswersCounted
<1>15. Consistent'
  <2>1. SUFFICES ASSUME NEW e \in Channels
                 PROVE  /\ total'[e] = 0 => bulk'[e] = {}
                        /\ ipc'[e] \in {"recv", "synDone", "synFailed", "stopped"} => held[e] = {}
                        /\ ipc'[e] = "synDone" => bulk'[e] \subseteq Stored(e)
                        /\ ipc'[e] = "synFailed" => failed[e]
    BY <1>1 DEF Consistent, Stored
  <2>2. /\ total[e] = 0 => bulk[e] = {}
        /\ ipc[e] \in {"recv", "synDone", "synFailed", "stopped"} => held[e] = {}
        /\ ipc[e] = "synDone" => bulk[e] \subseteq Stored(e)
        /\ ipc[e] = "synFailed" => failed[e]
    BY DEF PartsFirst, Consistent
  <2>3. CASE e = c
    BY <1>3, <1>4, <1>5, <2>2, <2>3
  <2>4. CASE e = Block
    BY <1>1, <1>3, <1>4, <2>2, <2>4
  <2>5. CASE e \notin {c, Block}
    BY <1>3, <1>4, <2>2, <2>5
  <2> QED
    BY <2>3, <2>4, <2>5
<1> QED
  BY <1>9, <1>10, <1>12, <1>13, <1>14, <1>15 DEF PartsFirst

(* When the blocks are committed no part still owes an answer: their parts  *)
(* are in the database.                                                     *)
LEMMA CommittedHaveParts ==
    ASSUME TypeOK, PartsFirst, ipc[Block] = "commit",
           NEW h \in bulk[Block], NEW d \in OwnDocs(h)
    PROVE  d.id \in index[d.ch] \/ Failed(d)
<1>1. d.ch \in PartSet
  BY Collected, OwnDoc
<1>2. Flushed(d)
  BY DEF PartsFirst, OrderedFlushed
<1>3. ordered = acks /\ Cardinality(Owing) = ordered - acks
  BY DEF PartsFirst, AnswersCounted
<1>4. Cardinality(Owing) = 0
  BY <1>3 DEF TypeOK, TypeIndexer
<1>5. Owing = {}
  BY <1>4, PartSetFinite, FS_Subset, FS_EmptySet DEF Owing
<1>6. ~Owes(d.ch)
  BY <1>1, <1>5 DEF Owing
<1> QED
  BY <1>2, <1>6 DEF Flushed, Failed

(* A bulk request is applied, in part or whole: blocks only get there with  *)
(* their parts.                                                             *)
LEMMA BlocksAdded ==
    ASSUME TypeOK, PartsFirst, NEW c \in Channels, ipc[c] = "commit",
           NEW S \in SUBSET bulk[c], index' = [index EXCEPT ![c] = index[c] \cup S],
           UNCHANGED failed, \A e \in Channels : rejected[e] \subseteq rejected'[e]
    PROVE  BlockHasParts'
<1>1. SUFFICES ASSUME NEW h \in index'[Block], NEW d \in OwnDocs(h)
               PROVE  d.id \in index'[d.ch] \/ Failed(d)'
  BY DEF BlockHasParts, OwnDocs
<1>2. \A e \in Channels : index[e] \subseteq index'[e]
  BY DEF TypeOK, TypeIndexer
<1>3. CASE h \in index[Block]
  <2>1. d.id \in index[d.ch] \/ Failed(d)
    BY <1>3 DEF PartsFirst, BlockHasParts
  <2> QED
    BY <1>2, <1>3, <2>1, Collected, OwnDoc DEF Failed
<1>4. CASE h \notin index[Block]
  <2>1. c = Block /\ h \in bulk[Block]
    BY <1>1, <1>4, Params DEF TypeOK, TypeIndexer
  <2>2. d.id \in index[d.ch] \/ Failed(d)
    BY <2>1, CommittedHaveParts
  <2> QED
    BY <1>2, <2>1, <2>2, Collected, OwnDoc DEF Failed
<1> QED
  BY <1>3, <1>4

LEMMA PartsApply ==
    ASSUME TypeOK, PartsFirst, NEW c \in Channels, NEW id, Apply(c, id)
    PROVE  PartsFirst'
<1>1. /\ ipc[c] = "commit" /\ id \in bulk[c]
      /\ index' = [index EXCEPT ![c] = index[c] \cup {id}]
      /\ UNCHANGED <<mpc, mh, md, ipc, total, bulk, held, failed, rejected, ordered, acks>>
  BY DEF Apply, minerVars, bulkVars
<1>2. BlockHasParts'
  <2>1. {id} \in SUBSET bulk[c]
    BY <1>1
  <2> QED
    BY <1>1, <2>1, BlocksAdded
<1>3. \A e \in Channels : index[e] \subseteq index'[e]
  BY <1>1 DEF TypeOK, TypeIndexer
<1>4. \A e : Owes(e)' <=> Owes(e)
  BY <1>1 DEF Owes
<1>5. ASSUME NEW d, d.ch \in Channels
      PROVE  (Arrived(d) => Arrived(d)') /\ (Flushed(d) => Flushed(d)')
  BY <1>1, <1>3, <1>4, <1>5 DEF Arrived, Flushed, Failed
<1>6. MinedArrived'
  BY <1>1, <1>5, OwnDoc DEF PartsFirst, MinedArrived, TypeOK, TypeMiner
<1>7. CollectedArrived'
  BY <1>1, <1>5, Collected, OwnDoc DEF PartsFirst, CollectedArrived
<1>8. OrderedFlushed'
  BY <1>1, <1>5, Collected, OwnDoc DEF PartsFirst, OrderedFlushed
<1>9. AnswersCounted'
  <2>1. Owing' = Owing
    BY <1>4 DEF Owing
  <2> QED
    BY <1>1, <2>1 DEF PartsFirst, AnswersCounted
<1>10. Consistent'
  BY <1>1, <1>3 DEF PartsFirst, Consistent, Stored
<1> QED
  BY <1>2, <1>6, <1>7, <1>8, <1>9, <1>10 DEF PartsFirst

(* A request that is answered leaves nothing it carried without an answer.  *)
LEMMA Committed ==
    ASSUME TypeOK, NEW c \in Channels, CommitDone(c)
    PROVE  \E R \in SUBSET (bulk[c] \ index[c]) :
              /\ index' = [index EXCEPT ![c] = index[c] \cup (bulk[c] \ R)]
              /\ rejected' = [rejected EXCEPT ![c] = rejected[c] \cup R]
              /\ failed' = failed
              /\ index'[c] \cup rejected'[c] = index[c] \cup rejected[c] \cup bulk[c]
              /\ \A e \in Channels : /\ index[e] \subseteq index'[e]
                                     /\ rejected[e] \subseteq rejected'[e]
              /\ \A e \in Channels \ {c} : index'[e] = index[e] /\ rejected'[e] = rejected[e]
<1>1. PICK R \in SUBSET (bulk[c] \ index[c]) :
         /\ index' = [index EXCEPT ![c] = index[c] \cup (bulk[c] \ R)]
         /\ rejected' = [rejected EXCEPT ![c] = rejected[c] \cup R]
  BY DEF CommitDone
<1>2. index'[c] = index[c] \cup (bulk[c] \ R) /\ rejected'[c] = rejected[c] \cup R
  BY <1>1 DEF TypeOK, TypeIndexer
<1>3. \A e \in Channels \ {c} : index'[e] = index[e] /\ rejected'[e] = rejected[e]
  BY <1>1 DEF TypeOK, TypeIndexer
<1>4. index'[c] \cup rejected'[c] = index[c] \cup rejected[c] \cup bulk[c]
  BY <1>2
<1>5. failed' = failed
  BY DEF CommitDone
<1> QED
  BY <1>1, <1>2, <1>3, <1>4, <1>5

LEMMA PartsCommitDone ==
    ASSUME TypeOK, PartsFirst, NEW c \in Channels, CommitDone(c)
    PROVE  PartsFirst'
<1>1. ipc[c] = "commit" /\ UNCHANGED <<mpc, mh, md, failed>>
  BY DEF CommitDone, minerVars
<1>3. /\ bulk[c] \subseteq index'[c] \cup rejected'[c]
      /\ \A e \in Channels : index[e] \subseteq index'[e] /\ rejected[e] \subseteq rejected'[e]
  BY Committed
<1>2. BlockHasParts'
  <2>1. PICK S \in SUBSET bulk[c] : index' = [index EXCEPT ![c] = index[c] \cup S]
    BY Committed
  <2> QED
    BY <1>1, <1>3, <2>1, BlocksAdded
<1>4. \A e \in Channels \ {c} : /\ ipc'[e] = ipc[e] /\ total'[e] = total[e]
                                /\ bulk'[e] = bulk[e] /\ held'[e] = held[e]
  BY DEF CommitDone, TypeOK, TypeIndexer
<1>5. \/ /\ Answers(c) /\ ipc'[c] = "synDone" /\ total'[c] = total[c]
         /\ bulk'[c] = bulk[c] /\ held'[c] = held[c]
      \/ /\ ~Answers(c) /\ ipc'[c] = "recv" /\ (total'[c] = 0 => held[c] = {})
         /\ bulk'[c] = held[c] /\ held'[c] = {}
  <2>1. CASE Answers(c)
    BY <2>1 DEF CommitDone, TypeOK, TypeIndexer
  <2>2. CASE ~Answers(c)
    BY <2>2 DEF CommitDone, TypeOK, TypeIndexer
  <2> QED
    BY <2>1, <2>2
<1>6. \A e \in PartSet : Owes(e)' <=> Owes(e)
  <2>1. SUFFICES ASSUME NEW e \in PartSet
                 PROVE  Owes(e)' <=> Owes(e)
    OBVIOUS
  <2>2. e \in Channels /\ e # Block
    BY Params DEF Channels
  <2>3. CASE e # c
    BY <1>4, <2>2, <2>3 DEF Owes
  <2>4. CASE e = c
    BY <1>1, <1>5, <2>2, <2>4 DEF Owes, Answers
  <2> QED
    BY <2>3, <2>4
<1>7. ASSUME NEW d, d.ch \in Channels, Arrived(d)
      PROVE  Arrived(d)'
  <2>1. CASE d.ch # c
    BY <1>1, <1>3, <1>4, <1>7, <2>1 DEF Arrived, Failed
  <2>2. CASE d.ch = c
    BY <1>1, <1>3, <1>5, <1>7, <2>2 DEF Arrived, Failed
  <2> QED
    BY <2>1, <2>2
<1>8. ASSUME NEW d, d.ch \in PartSet, d.ch \in Channels, Flushed(d)
      PROVE  Flushed(d)'
  <2>1. CASE d.ch # c
    BY <1>1, <1>3, <1>4, <1>6, <1>8, <2>1 DEF Flushed, Failed
  <2>2. CASE d.ch = c
    BY <1>1, <1>3, <1>8, <2>2 DEF Flushed, Failed
  <2> QED
    BY <2>1, <2>2
<1>9. MinedArrived'
  BY <1>1, <1>7, OwnDoc DEF PartsFirst, MinedArrived, TypeOK, TypeMiner
<1>10. bulk'[Block] \cup held'[Block] \subseteq bulk[Block] \cup held[Block]
  BY <1>4, <1>5, Params
<1>11. CollectedArrived'
  BY <1>7, <1>10, Collected, OwnDoc DEF PartsFirst, CollectedArrived
<1>12. OrderedFlushed' /\ AnswersCounted'
  <2>1. Owing' = Owing
    BY <1>6 DEF Owing
  <2>2. CASE c = Block
    <3>1. ipc'[Block] = "recv"
      BY <1>5, <2>2 DEF Answers
    <3>2. ordered' = 0 /\ acks' = 0
      BY <2>2 DEF CommitDone, Answers
    <3>3. Cardinality(Owing) = ordered - acks /\ ordered = acks
      BY <1>1, <2>2 DEF PartsFirst, AnswersCounted
    <3>4. Cardinality(Owing') = ordered' - acks'
      BY <2>1, <3>2, <3>3 DEF TypeOK, TypeIndexer
    <3> QED
      BY <3>1, <3>2, <3>4 DEF OrderedFlushed, AnswersCounted
  <2>3. CASE c # Block
    <3>1. ipc'[Block] = ipc[Block] /\ bulk'[Block] = bulk[Block]
      BY <1>4, <2>3, Params
    <3>2. ordered' = ordered /\ acks' = acks
      BY <2>3 DEF CommitDone
    <3>3. OrderedFlushed'
      BY <1>8, <3>1, <3>2, Collected, OwnDoc DEF PartsFirst, OrderedFlushed
    <3>4. AnswersCounted'
      BY <2>1, <3>1, <3>2 DEF PartsFirst, AnswersCounted
    <3> QED
      BY <3>3, <3>4
  <2> QED
    BY <2>2, <2>3
<1>13. Consistent'
  <2>1. SUFFICES ASSUME NEW e \in Channels
                 PROVE  /\ total'[e] = 0 => bulk'[e] = {}
                        /\ ipc'[e] \in {"recv", "synDone", "synFailed", "stopped"} => held'[e] = {}
                        /\ ipc'[e] = "synDone" => bulk'[e] \subseteq Stored(e)'
                        /\ ipc'[e] = "synFailed" => failed'[e]
    BY DEF Consistent
  <2>2. /\ total[e] = 0 => bulk[e] = {}
        /\ ipc[e] \in {"recv", "synDone", "synFailed", "stopped"} => held[e] = {}
        /\ ipc[e] = "synDone" => bulk[e] \subseteq Stored(e)
        /\ ipc[e] = "synFailed" => failed[e]
    BY DEF PartsFirst, Consistent
  <2>3. CASE e = c
    BY <1>3, <1>5, <2>2, <2>3 DEF Answers, Stored
  <2>4. CASE e # c
    BY <1>1, <1>3, <1>4, <2>2, <2>4 DEF Stored
  <2> QED
    BY <2>3, <2>4
<1> QED
  BY <1>2, <1>9, <1>11, <1>12, <1>13 DEF PartsFirst

LEMMA PartsCommitError ==
    ASSUME TypeOK, PartsFirst, NEW c \in Channels, CommitError(c)
    PROVE  PartsFirst'
<1>1. /\ ipc[c] = "commit" /\ failed' = [failed EXCEPT ![c] = TRUE]
      /\ UNCHANGED <<mpc, mh, md, total, bulk, held, rejected, ordered, acks, index>>
  BY DEF CommitError, minerVars
<1>2. PICK x : /\ ipc' = [ipc EXCEPT ![c] = x]
               /\ \/ Answers(c) /\ x = "synFailed"
                  \/ ~Answers(c) /\ x = "stop"
  BY DEF CommitError
<1>3. \A e \in Channels : ipc'[e] = IF e = c THEN x ELSE ipc[e]
  BY <1>2 DEF TypeOK, TypeIndexer
<1>4. failed'[c] /\ \A e \in Channels : failed[e] => failed'[e]
  BY <1>1 DEF TypeOK, TypeIndexer
<1>5. \A e \in PartSet : Owes(e)' <=> Owes(e)
  <2>1. SUFFICES ASSUME NEW e \in PartSet
                 PROVE  Owes(e)' <=> Owes(e)
    OBVIOUS
  <2>2. e \in Channels /\ e # Block
    BY Params DEF Channels
  <2>3. CASE e # c
    BY <1>1, <1>3, <2>2, <2>3 DEF Owes
  <2>4. CASE e = c
    BY <1>1, <1>2, <1>3, <2>2, <2>4 DEF Owes, Answers
  <2> QED
    BY <2>3, <2>4
<1>6. ASSUME NEW d, d.ch \in Channels, Arrived(d)
      PROVE  Arrived(d)'
  BY <1>1, <1>4, <1>6 DEF Arrived, Failed
<1>7. ASSUME NEW d, d.ch \in PartSet, d.ch \in Channels, Flushed(d)
      PROVE  Flushed(d)'
  BY <1>1, <1>4, <1>5, <1>7 DEF Flushed, Failed
<1>8. BlockHasParts'
  BY <1>1, <1>4, Collected, OwnDoc DEF PartsFirst, BlockHasParts, Failed
<1>9. MinedArrived'
  BY <1>1, <1>6, OwnDoc DEF PartsFirst, MinedArrived, TypeOK, TypeMiner
<1>10. CollectedArrived'
  BY <1>1, <1>6, Collected, OwnDoc DEF PartsFirst, CollectedArrived
<1>11. OrderedFlushed' /\ AnswersCounted'
  <2>1. Owing' = Owing
    BY <1>5 DEF Owing
  <2>2. CASE c = Block
    <3>1. ipc'[Block] = "stop"
      BY <1>2, <1>3, <2>2 DEF Answers
    <3>2. Cardinality(Owing) = ordered - acks /\ ordered = acks
      BY <1>1, <2>2 DEF PartsFirst, AnswersCounted
    <3> QED
      BY <1>1, <2>1, <3>1, <3>2 DEF OrderedFlushed, AnswersCounted
  <2>3. CASE c # Block
    <3>1. ipc'[Block] = ipc[Block]
      BY <1>3, <2>3, Params
    <3>2. OrderedFlushed'
      BY <1>1, <1>7, <3>1, Collected, OwnDoc DEF PartsFirst, OrderedFlushed
    <3>3. AnswersCounted'
      BY <1>1, <2>1, <3>1 DEF PartsFirst, AnswersCounted
    <3> QED
      BY <3>2, <3>3
  <2> QED
    BY <2>2, <2>3
<1>12. Consistent'
  <2>1. SUFFICES ASSUME NEW e \in Channels
                 PROVE  /\ total[e] = 0 => bulk[e] = {}
                        /\ ipc'[e] \in {"recv", "synDone", "synFailed", "stopped"} => held[e] = {}
                        /\ ipc'[e] = "synDone" => bulk[e] \subseteq Stored(e)
                        /\ ipc'[e] = "synFailed" => failed'[e]
    BY <1>1 DEF Consistent, Stored
  <2>2. /\ total[e] = 0 => bulk[e] = {}
        /\ ipc[e] \in {"recv", "synDone", "synFailed", "stopped"} => held[e] = {}
        /\ ipc[e] = "synDone" => bulk[e] \subseteq Stored(e)
        /\ ipc[e] = "synFailed" => failed[e]
    BY DEF PartsFirst, Consistent
  <2> QED
    BY <1>2, <1>3, <1>4, <2>2 DEF Answers
<1> QED
  BY <1>8, <1>9, <1>10, <1>11, <1>12 DEF PartsFirst

LEMMA PartsNext == TypeOK /\ PartsFirst /\ [Next]_vars => PartsFirst'
<1> SUFFICES ASSUME TypeOK, PartsFirst, [Next]_vars
             PROVE  PartsFirst'
  OBVIOUS
<1>1. CASE MainStep \/ (\E p \in Procs : StopStep(p))
  BY <1>1, PartsMainStep, PartsStopStep
<1>2. ASSUME NEW m \in Miners, GetBlock(m) \/ MinerStep(m)
      PROVE  PartsFirst'
  BY <1>2, PartsMinerQuiet, PartsAddDoc, PartsAddBlock DEF MinerStep
<1>3. ASSUME NEW c \in Channels, IndexerStep(c) \/ CommitError(c)
      PROVE  PartsFirst'
  BY <1>3, PartsOrderCommit, PartsSynDone, PartsApply, PartsCommitDone, PartsCommitError
     DEF IndexerStep
<1>4. CASE TimerStep \/ Panic
  BY <1>4, PartsTimerQuiet, PartsStartCommit DEF TimerStep
<1>5. CASE Restart
  BY <1>5, PartsRestart
<1>6. CASE UNCHANGED vars
  <2>1. UNCHANGED indexers /\ UNCHANGED <<mpc, mh, md>>
    BY <1>6 DEF vars, indexers, minerVars, bulkVars
  <2> QED
    BY <2>1, MinedQuiet, PartsQuiet
<1> QED
  BY <1>1, <1>2, <1>3, <1>4, <1>5, <1>6 DEF Next, Step, Ended

(* The inductive invariant behind the order of the commits.                 *)
THEOREM PartsFirstInvariant == Spec => []PartsFirst
<1>1. Init => TypeOK /\ PartsFirst
  BY TypeInit, PartsInit
<1>2. TypeOK /\ PartsFirst /\ [Next]_vars => (TypeOK /\ PartsFirst)'
  BY TypeNext, PartsNext
<1> QED
  BY <1>1, <1>2, PTL DEF Spec

(* A block is in the database only with all its transactions, events,       *)
(* contracts and token transfers, whenever the program is stopped and       *)
(* started again, unless a bulk request of theirs has failed or the         *)
(* database has refused the document in one that has not: BulkIndexer       *)
(* orders the parts to commit, and waits for them, before the blocks.       *)
THEOREM BlocksHaveParts == Spec => []BlockHasParts
BY PartsFirstInvariant, PTL DEF PartsFirst

-----------------------------------------------------------------------------
(* The bulk indexer implements IndexStore.                                  *)

(* A bulk request, applied in part or whole, is a step of the store.        *)
LEMMA StoreAdds ==
    ASSUME TypeOK, PartsFirst, NEW c \in Channels, ipc[c] = "commit",
           NEW S \in SUBSET bulk[c], NEW R \in SUBSET bulk[c],
           index' = [index EXCEPT ![c] = index[c] \cup S],
           rejected' = [rejected EXCEPT ![c] = rejected[c] \cup R],
           failed' = failed
    PROVE  Store!Next
<1>1. CASE c = Block
  <2>1. S \in SUBSET Heights /\ R \in SUBSET Heights
    BY <1>1, Collected
  <2>2. ASSUME NEW h \in S, NEW d \in [g \in Heights |-> OwnDocs(g)][h]
        PROVE  d.id \in index[d.ch] \/ Store!Refused(d)
    <3>1. h \in bulk[Block] /\ h \in Heights /\ d \in OwnDocs(h)
      BY <1>1, <2>1, <2>2
    <3> QED
      BY <1>1, <3>1, CommittedHaveParts DEF Failed, Store!Refused
  <2>3. Store!AddBlocks(S, R)
    BY <1>1, <2>2 DEF Store!AddBlocks, Store!Request
  <2> QED
    BY <2>1, <2>3 DEF Store!Next
<1>2. CASE c # Block
  <2>1. c \in PartSet /\ S \in SUBSET Ids /\ R \in SUBSET Ids
    BY <1>2 DEF Channels, TypeOK, TypeIndexer, IdsOf
  <2>2. Store!AddParts(c, S, R)
    BY DEF Store!AddParts, Store!Request
  <2> QED
    BY <2>1, <2>2 DEF Store!Next
<1> QED
  BY <1>1, <1>2

LEMMA StoreNext ==
    ASSUME TypeOK, PartsFirst, [Next]_vars
    PROVE  Store!Next \/ UNCHANGED <<index, failed, rejected>>
<1> USE DEF bulkVars
<1>1. CASE MainStep
  BY <1>1 DEF MainStep, CallInsert, InsertBlock, Advance, CallStop, CloseChannels
<1>2. ASSUME NEW p \in Procs, StopStep(p)
      PROVE  UNCHANGED <<index, failed, rejected>>
  BY <1>2 DEF StopStep, StopMiner, ForceCommit, StopIndexer
<1>3. ASSUME NEW m \in Miners, GetBlock(m) \/ MinerStep(m)
      PROVE  UNCHANGED <<index, failed, rejected>>
  BY <1>3 DEF MinerStep, GetBlock, LoadAccToken, StoreAccToken, AddDoc, AddBlock,
              Receive
<1>4. ASSUME NEW c \in Channels, NEW id \in bulk[c], Apply(c, id)
      PROVE  Store!Next
  <2>1. {id} \in SUBSET bulk[c] /\ {} \in SUBSET bulk[c]
    OBVIOUS
  <2>2. /\ ipc[c] = "commit" /\ index' = [index EXCEPT ![c] = index[c] \cup {id}]
        /\ UNCHANGED <<failed, rejected>>
    BY <1>4 DEF Apply
  <2>3. rejected' = [rejected EXCEPT ![c] = rejected[c] \cup {}]
    BY <2>2 DEF TypeOK, TypeIndexer
  <2> QED
    BY <2>1, <2>2, <2>3, StoreAdds
<1>5. ASSUME NEW c \in Channels, CommitDone(c)
      PROVE  Store!Next
  <2>1. PICK R \in SUBSET (bulk[c] \ index[c]) :
               /\ index' = [index EXCEPT ![c] = index[c] \cup (bulk[c] \ R)]
               /\ rejected' = [rejected EXCEPT ![c] = rejected[c] \cup R]
               /\ failed' = failed
    BY <1>5, Committed
  <2>2. bulk[c] \ R \in SUBSET bulk[c] /\ R \in SUBSET bulk[c] /\ ipc[c] = "commit"
    BY <1>5 DEF CommitDone
  <2> QED
    BY <2>1, <2>2, StoreAdds
<1>6. ASSUME NEW c \in Channels, OrderCommit \/ SynDone(c)
      PROVE  UNCHANGED <<index, failed, rejected>>
  BY <1>6 DEF OrderCommit, NothingToCommit, SynDone, Answered
<1>7. ASSUME NEW c \in Channels, CommitError(c)
      PROVE  Store!Next
  <2>1. Store!Fail(c)
    BY <1>7 DEF CommitError, Store!Fail
  <2>2. c \in PartSet \cup {Block}
    BY DEF Channels
  <2> QED
    BY <2>1, <2>2 DEF Store!Next, Store!Indices
<1>8. CASE TimerStep \/ Panic
  BY <1>8 DEF TimerStep, TimerTop, TimerWake, TimerSend, Panic, StartCommit
<1>9. CASE Restart
  BY <1>9 DEF Restart
<1>10. CASE UNCHANGED vars
  BY <1>10 DEF vars
<1> QED
  BY <1>1, <1>2, <1>3, <1>4, <1>5, <1>6, <1>7, <1>8, <1>9, <1>10
     DEF Next, Step, Ended, IndexerStep

(* The bulk indexer, failed requests, crashes and restarts included, only   *)
(* ever adds documents to the database, and adds a block once its parts are *)
(* there, but those of an index that has refused a request, and those that  *)
(* the database has refused in a request it took (commitBulk).              *)
THEOREM Implementation == Spec => ImplementsStore
<1>1. Init => Store!Init /\ TypeOK /\ PartsFirst
  <2>1. Init => Store!Init
    BY DEF Init, Store!Init, Store!Indices, Empty, Channels
  <2> QED
    BY <2>1, TypeInit, PartsInit
<1>2. TypeOK /\ PartsFirst /\ [Next]_vars =>
        (TypeOK /\ PartsFirst)' /\ [Store!Next]_<<index, failed, rejected>>
  BY TypeNext, PartsNext, StoreNext
<1> QED
  BY <1>1, <1>2, PTL DEF Spec, ImplementsStore, Store!Spec

-----------------------------------------------------------------------------
(* StopBulkChannel stops everything, once.                                  *)

LEMMA ChannelList ==
    /\ Len(Channel) = Len(Parts) + 1 /\ Len(Parts) \in Nat /\ Len(Parts) > 0
    /\ Channel[1] = Block
    /\ \A i \in 1..Len(Channel) : Channel[i] \in Channels
    /\ \A c \in Channels : \E i \in 1..Len(Channel) : c = Channel[i]
<1>1. /\ Parts \in Seq(PartSet) /\ Len(Parts) \in Nat /\ Len(Parts) > 0
      /\ DOMAIN Parts = 1..Len(Parts)
  BY ChannelAssumption, LenProperties, EmptySeq
<1>2. <<Block>> \in Seq(Channels) /\ Parts \in Seq(Channels)
  BY <1>1, LenProperties, SeqDef DEF Channels
<1>3. /\ Len(Channel) = Len(Parts) + 1 /\ Channel[1] = Block
      /\ \A i \in 1..Len(Parts) : Channel[i+1] = Parts[i]
  BY <1>1, <1>2, ConcatProperties DEF Channel
<1>4. ASSUME NEW i \in 1..Len(Channel)
      PROVE  Channel[i] \in Channels
  <2>1. CASE i = 1
    BY <1>3, <2>1, Params
  <2>2. CASE i # 1
    <3>1. i - 1 \in 1..Len(Parts) /\ i = (i - 1) + 1
      BY <1>1, <1>3, <2>2
    <3>2. Channel[i] = Parts[i-1]
      BY <1>3, <3>1
    <3> QED
      BY <1>1, <3>1, <3>2, Params DEF Channels
  <2> QED
    BY <2>1, <2>2
<1>5. ASSUME NEW c \in Channels
      PROVE  \E i \in 1..Len(Channel) : c = Channel[i]
  <2>1. CASE c = Block
    BY <1>1, <1>3, <2>1
  <2>2. CASE c # Block
    <3>1. PICK i \in 1..Len(Parts) : c = Parts[i]
      BY <1>1, <2>2 DEF Channels, PartSet
    <3>2. i + 1 \in 1..Len(Channel)
      BY <1>1, <1>3
    <3> QED
      BY <1>3, <3>1, <3>2
  <2> QED
    BY <2>1, <2>2
<1> QED
  BY <1>1, <1>3, <1>4, <1>5

LEMMA StopsInit == Init => StopsInOrder /\ StopsOnce
<1> SUFFICES ASSUME Init
             PROVE  StopsInOrder /\ StopsOnce
  OBVIOUS
<1> USE Params
<1>1. StopsInOrder
  BY DEF Init, StopsInOrder
<1>2. StopsOnce
  BY DEF Init, StopsOnce
<1> QED
  BY <1>1, <1>2

LEMMA StopsRestart ==
    ASSUME Restart
    PROVE  (StopsInOrder /\ StopsOnce)'
<1> USE Params
<1>1. StopsInOrder'
  BY DEF Restart, StopsInOrder
<1>2. StopsOnce'
  BY DEF Restart, StopsOnce
<1> QED
  BY <1>1, <1>2

(* The steps that neither stop a goroutine nor start to.                    *)
LEMMA StopsKept ==
    ASSUME StopsInOrder, StopsOnce,
           UNCHANGED <<stage, si, rOpen, bOpen, failed>>,
           mainpc' = mainpc \/ {mainpc, mainpc'} \subseteq {"call", "insert"},
           \A m \in Miners : mpc'[m] = "stopped" <=> mpc[m] = "stopped",
           \A c \in Channels : /\ ipc'[c] = "stopped" <=> ipc[c] = "stopped"
                               /\ ipc'[c] = "stop" <=> ipc[c] = "stop"
    PROVE  (StopsInOrder /\ StopsOnce)'
<1>1. (mainpc' = "done" <=> mainpc = "done") /\ (mainpc' = "stop" <=> mainpc = "stop")
  OBVIOUS
<1>2. StopsInOrder'
  <2>1. SUFFICES ASSUME NEW p \in Procs
        PROVE
         /\ stage[p] = "none" /\ (p = Main => mainpc' # "done") => si[p] = 0
         /\ stage[p] = "miners" =>
              si[p] \in Miners /\ \A m \in Miners : m < si[p] => ~rOpen[m]
         /\ stage[p] \in {"commit", "bulks", "close"} => \A m \in Miners : ~rOpen[m]
         /\ stage[p] = "bulks" =>
              /\ si[p] \in 1..Len(Channel)
              /\ \A i \in 1..Len(Channel) : i < si[p] => ipc'[Channel[i]] = "stopped"
         /\ stage[p] = "close" => \A c \in Channels : ipc'[c] = "stopped"
    BY DEF StopsInOrder
  <2>2. \A i \in 1..Len(Channel) : Channel[i] \in Channels
    BY ChannelList
  <2> QED
    BY <1>1, <2>2 DEF StopsInOrder
<1>3. StopsOnce'
  BY <1>1 DEF StopsOnce
<1> QED
  BY <1>2, <1>3

LEMMA StopsQuiet ==
    ASSUME TypeOK, PartsFirst, StopsInOrder, StopsOnce,
           \/ \E lo, hi \in Heights : CallInsert(lo, hi)
           \/ \E m \in Miners : InsertBlock(m) \/ GetBlock(m) \/ MinerStep(m)
           \/ OrderCommit \/ TimerStep \/ Panic
           \/ \E c \in Channels : (\E id \in bulk[c] : Apply(c, id)) \/ CommitDone(c)
           \/ UNCHANGED vars
    PROVE  (StopsInOrder /\ StopsOnce)'
<1> USE DEF mainVars, stopVars, minerVars, bulkVars, timerVars, procVars
<1>1. CASE \E lo, hi \in Heights : CallInsert(lo, hi)
  BY <1>1, StopsKept DEF CallInsert
<1>2. ASSUME NEW m \in Miners, InsertBlock(m) \/ GetBlock(m) \/ MinerStep(m)
      PROVE  (StopsInOrder /\ StopsOnce)'
  <2>1. /\ UNCHANGED <<stage, si, rOpen, bOpen, failed>>
        /\ mainpc' = mainpc \/ {mainpc, mainpc'} \subseteq {"call", "insert"}
    BY <1>2 DEF InsertBlock, Advance, GetBlock, MinerStep, LoadAccToken, StoreAccToken,
                AddDoc, AddBlock, Receive
  <2>2. \A n \in Miners : mpc'[n] = "stopped" <=> mpc[n] = "stopped"
    <3>1. mpc \in [Miners -> {"recv", "get", "send", "store", "claimed", "stopped"}]
      BY DEF TypeOK, TypeMiner
    <3>2. mpc[m] # "stopped"
      BY <1>2 DEF InsertBlock, GetBlock, MinerStep, LoadAccToken, StoreAccToken, AddDoc, AddBlock
    <3>3. \/ mpc' = mpc
          \/ \E x \in {"recv", "get", "send", "store", "claimed"} : mpc' = [mpc EXCEPT ![m] = x]
      BY <1>2 DEF InsertBlock, GetBlock, MinerStep, LoadAccToken, StoreAccToken, AddDoc, AddBlock
    <3> QED
      BY <3>1, <3>2, <3>3
  <2>3. \A c \in Channels : /\ ipc'[c] = "stopped" <=> ipc[c] = "stopped"
                            /\ ipc'[c] = "stop" <=> ipc[c] = "stop"
    <3>1. ASSUME NEW c, NEW id, Receive(c, id)
          PROVE  \/ ipc' = ipc
                 \/ ipc[c] = "recv" /\ \E x \in {"order", "commit"} : ipc' = [ipc EXCEPT ![c] = x]
      BY <3>1 DEF Receive
    <3>2. \/ ipc' = ipc
          \/ \E c : ipc[c] = "recv" /\ \E x \in {"order", "commit"} : ipc' = [ipc EXCEPT ![c] = x]
      BY <1>2, <3>1 DEF InsertBlock, GetBlock, MinerStep, LoadAccToken, StoreAccToken, AddDoc, AddBlock
    <3> QED
      BY <3>2 DEF TypeOK, TypeIndexer
  <2> QED
    BY <2>1, <2>2, <2>3, StopsKept
<1>3. CASE OrderCommit
  <2>1. PICK c : /\ c = Parts[ordered + 1] /\ ipc[c] = "recv" /\ ipc[Block] = "order"
                 /\ \E x \in {"synDone", "recv", "commit"}, y \in {"order", "await"} :
                       ipc' = [ipc EXCEPT ![c] = x, ![Block] = y]
    BY <1>3 DEF OrderCommit, NothingToCommit
  <2>2. \A e \in Channels : /\ ipc'[e] = "stopped" <=> ipc[e] = "stopped"
                            /\ ipc'[e] = "stop" <=> ipc[e] = "stop"
    BY <2>1 DEF TypeOK, TypeIndexer
  <2>3. UNCHANGED <<stage, si, rOpen, bOpen, failed, mainpc, mpc>>
    BY <1>3 DEF OrderCommit
  <2> QED
    BY <2>2, <2>3, StopsKept
<1>4. CASE TimerStep \/ Panic
  <2>1. UNCHANGED <<stage, si, rOpen, bOpen, failed, mainpc, mpc>>
    BY <1>4 DEF TimerStep, TimerTop, TimerWake, TimerSend, StartCommit, Panic
  <2>2. \/ ipc' = ipc
        \/ ipc[Block] = "recv" /\ \E x \in {"recv", "order"} : ipc' = [ipc EXCEPT ![Block] = x]
    BY <1>4 DEF TimerStep, TimerTop, TimerWake, TimerSend, StartCommit, NothingToCommit, Panic
  <2>3. \A e \in Channels : /\ ipc'[e] = "stopped" <=> ipc[e] = "stopped"
                            /\ ipc'[e] = "stop" <=> ipc[e] = "stop"
    BY <2>2 DEF TypeOK, TypeIndexer
  <2> QED
    BY <2>1, <2>3, StopsKept
<1>5. ASSUME NEW c \in Channels, (\E id \in bulk[c] : Apply(c, id)) \/ CommitDone(c)
      PROVE  (StopsInOrder /\ StopsOnce)'
  <2>1. UNCHANGED <<stage, si, rOpen, bOpen, failed, mainpc, mpc>>
    BY <1>5 DEF Apply, CommitDone
  <2>2. \/ ipc' = ipc
        \/ ipc[c] = "commit" /\ \E x \in {"recv", "synDone"} : ipc' = [ipc EXCEPT ![c] = x]
    BY <1>5 DEF Apply, CommitDone
  <2>3. \A e \in Channels : /\ ipc'[e] = "stopped" <=> ipc[e] = "stopped"
                            /\ ipc'[e] = "stop" <=> ipc[e] = "stop"
    BY <2>2 DEF TypeOK, TypeIndexer
  <2> QED
    BY <2>1, <2>3, StopsKept
<1>6. CASE UNCHANGED vars
  BY <1>6, StopsKept DEF vars
<1> QED
  BY <1>1, <1>2, <1>3, <1>4, <1>5, <1>6

LEMMA StopsCallStop ==
    ASSUME TypeOK, StopsInOrder, StopsOnce, CallStop
    PROVE  (StopsInOrder /\ StopsOnce)'
<1>1. /\ mainpc = "call" /\ mainpc' = "stop" /\ stage' = [stage EXCEPT ![Main] = "miners"]
      /\ UNCHANGED <<si, mpc, rOpen, ipc, failed, bOpen>>
  BY DEF CallStop, minerVars, bulkVars
<1>2. /\ stage[Main] = "none" /\ stage'[Main] = "miners" /\ si[Main] = 0
      /\ \A p \in Procs \ {Main} : stage'[p] = stage[p]
  BY <1>1, Params DEF StopsInOrder, StopsOnce, TypeOK, TypeMain
<1>3. StopsInOrder'
  <2>1. 0 \in Miners /\ \A m \in Miners : ~(m < 0)
    BY Params DEF Miners
  <2> QED
    BY <1>1, <1>2, <2>1 DEF StopsInOrder
<1>4. StopsOnce'
  <2>1. \A c \in Channels : c \in Procs \ {Main}
    BY Params
  <2> QED
    BY <1>1, <1>2, <2>1 DEF StopsOnce
<1> QED
  BY <1>3, <1>4

LEMMA StopsStopMiner ==
    ASSUME TypeOK, StopsInOrder, StopsOnce, NEW p \in Procs, StopMiner(p)
    PROVE  (StopsInOrder /\ StopsOnce)'
<1> DEFINE k == si[p]
<1>1. /\ stage[p] = "miners" /\ rOpen[k]
      /\ mpc' = [mpc EXCEPT ![k] = "stopped"] /\ rOpen' = [rOpen EXCEPT ![k] = FALSE]
      /\ UNCHANGED <<mainpc, ipc, failed, bOpen>>
  BY DEF StopMiner, mainVars, bulkVars
<1>2. k \in Miners /\ \A m \in Miners : m < k => ~rOpen[m]
  BY <1>1 DEF StopsInOrder
<1>3. /\ ~rOpen'[k] /\ mpc'[k] = "stopped"
      /\ \A m \in Miners \ {k} : rOpen'[m] = rOpen[m] /\ mpc'[m] = mpc[m]
  BY <1>1, <1>2 DEF TypeOK, TypeMiner
<1>4. \/ /\ k = MinerNum - 1 /\ stage'[p] = "commit" /\ si' = si
         /\ \A q \in Procs \ {p} : stage'[q] = stage[q]
      \/ /\ k # MinerNum - 1 /\ stage' = stage /\ si'[p] = k + 1
         /\ \A q \in Procs \ {p} : si'[q] = si[q]
  <2>1. CASE k = MinerNum - 1
    BY <2>1 DEF StopMiner, TypeOK, TypeMain
  <2>2. CASE k # MinerNum - 1
    BY <2>2 DEF StopMiner, TypeOK, TypeMain
  <2> QED
    BY <2>1, <2>2
<1> HIDE DEF k
<1>5. /\ k # MinerNum - 1 => k + 1 \in Miners
      /\ k = MinerNum - 1 => \A m \in Miners : m < k \/ m = k
      /\ \A m \in Miners : m < k + 1 <=> m < k \/ m = k
  BY <1>2, Params DEF Miners
<1>6. StopsInOrder'
  <2>1. \A m \in Miners : rOpen'[m] <=> mpc'[m] # "stopped"
    BY <1>3 DEF StopsInOrder
  <2>2. SUFFICES ASSUME NEW q \in Procs
        PROVE
         /\ stage'[q] = "none" /\ (q = Main => mainpc # "done") => si'[q] = 0
         /\ stage'[q] = "miners" =>
              si'[q] \in Miners /\ \A m \in Miners : m < si'[q] => ~rOpen'[m]
         /\ stage'[q] \in {"commit", "bulks", "close"} => \A m \in Miners : ~rOpen'[m]
         /\ stage'[q] = "bulks" =>
              /\ si'[q] \in 1..Len(Channel)
              /\ \A i \in 1..Len(Channel) : i < si'[q] => ipc[Channel[i]] = "stopped"
         /\ stage'[q] = "close" => \A c \in Channels : ipc[c] = "stopped"
    BY <1>1, <2>1 DEF StopsInOrder
  <2>3. CASE q # p
    <3>1. stage'[q] = stage[q] /\ si'[q] = si[q]
      BY <1>4, <2>3
    <3>2. \A m \in Miners : ~rOpen[m] => ~rOpen'[m]
      BY <1>3
    <3> QED
      BY <3>1, <3>2 DEF StopsInOrder
  <2>4. CASE q = p
    <3>1. stage'[p] = "miners" => k # MinerNum - 1 /\ si'[p] = k + 1
      BY <1>4
    <3>2. stage'[p] \in {"commit", "miners"}
      BY <1>1, <1>4
    <3>3. stage'[p] = "commit" => k = MinerNum - 1
      BY <1>1, <1>4
    <3>4. \A m \in Miners : m < k \/ m = k => ~rOpen'[m]
      BY <1>2, <1>3
    <3> QED
      BY <1>5, <2>4, <3>1, <3>2, <3>3, <3>4
  <2> QED
    BY <2>3, <2>4
<1>7. StopsOnce'
  <2>1. p # Main => p \in Channels
    BY DEF Procs
  <2>2. stage'[Main] = "none" <=> mainpc # "stop"
    BY <1>1, <1>4, Params DEF StopsOnce
  <2>3. bOpen <=> mainpc # "done"
    BY DEF StopsOnce
  <2>4. ~bOpen => /\ \A m \in Miners : ~rOpen'[m]
                  /\ \A c \in Channels : ipc[c] = "stopped"
    BY <1>3 DEF StopsOnce
  <2>5. \A c \in Channels : /\ stage'[c] # "none" => ipc[c] = "stop"
                            /\ ipc[c] = "stop" => failed[c]
    BY <1>1, <1>4, Params DEF StopsOnce
  <2>6. ASSUME \A c \in Channels : ipc[c] # "stop", NEW m \in Miners, ~rOpen'[m]
        PROVE  \/ mainpc = "done"
               \/ stage'[Main] \in {"commit", "bulks", "close"}
               \/ stage'[Main] = "miners" /\ m < si'[Main]
    <3>1. p = Main
      BY <1>1, <2>1, <2>6 DEF StopsOnce
    <3>2. m = k \/ mainpc = "done" \/ m < k
      BY <1>1, <1>3, <2>6, <3>1 DEF StopsOnce, k
    <3> QED
      BY <1>1, <1>4, <1>5, <2>6, <3>1, <3>2
  <2> QED
    BY <1>1, <2>2, <2>3, <2>4, <2>5, <2>6 DEF StopsOnce
<1> QED
  BY <1>6, <1>7

LEMMA StopsForceCommit ==
    ASSUME TypeOK, StopsInOrder, StopsOnce, NEW p \in Procs, ForceCommit(p)
    PROVE  (StopsInOrder /\ StopsOnce)'
<1>1. /\ stage[p] = "commit" /\ stage' = [stage EXCEPT ![p] = "bulks"]
      /\ si' = [si EXCEPT ![p] = 1] /\ ipc[Block] = "recv"
      /\ UNCHANGED <<mainpc, mpc, rOpen, failed, bOpen>>
  BY DEF ForceCommit, StartCommit, mainVars, minerVars
<1>2. PICK x \in {"recv", "order"} : ipc' = [ipc EXCEPT ![Block] = x]
  BY DEF ForceCommit, StartCommit, NothingToCommit
<1>3. \A c \in Channels : /\ ipc'[c] = "stopped" <=> ipc[c] = "stopped"
                          /\ ipc'[c] = "stop" <=> ipc[c] = "stop"
  BY <1>1, <1>2 DEF TypeOK, TypeIndexer
<1>4. /\ stage'[p] = "bulks" /\ si'[p] = 1
      /\ \A q \in Procs \ {p} : stage'[q] = stage[q] /\ si'[q] = si[q]
  BY <1>1 DEF TypeOK, TypeMain
<1>5. /\ 1 \in 1..Len(Channel) /\ \A i \in 1..Len(Channel) : ~(i < 1)
      /\ \A i \in 1..Len(Channel) : Channel[i] \in Channels
  BY ChannelList
<1>6. StopsInOrder'
  <2>1. SUFFICES ASSUME NEW q \in Procs
        PROVE
         /\ stage'[q] = "none" /\ (q = Main => mainpc # "done") => si'[q] = 0
         /\ stage'[q] = "miners" =>
              si'[q] \in Miners /\ \A m \in Miners : m < si'[q] => ~rOpen[m]
         /\ stage'[q] \in {"commit", "bulks", "close"} => \A m \in Miners : ~rOpen[m]
         /\ stage'[q] = "bulks" =>
              /\ si'[q] \in 1..Len(Channel)
              /\ \A i \in 1..Len(Channel) : i < si'[q] => ipc'[Channel[i]] = "stopped"
         /\ stage'[q] = "close" => \A c \in Channels : ipc'[c] = "stopped"
    BY <1>1 DEF StopsInOrder
  <2>2. CASE q = p
    BY <1>1, <1>4, <1>5, <2>2 DEF StopsInOrder
  <2>3. CASE q # p
    BY <1>3, <1>4, <1>5, <2>3 DEF StopsInOrder
  <2> QED
    BY <2>2, <2>3
<1>7. StopsOnce'
  <2>1. stage'[Main] = "none" <=> mainpc # "stop"
    BY <1>1, <1>4, Params DEF StopsOnce
  <2>2. \A c \in Channels : /\ stage'[c] # "none" => ipc'[c] = "stop"
                            /\ ipc'[c] = "stop" => failed[c]
    BY <1>1, <1>3, <1>4, Params DEF StopsOnce
  <2>3. ~bOpen => /\ \A m \in Miners : ~rOpen[m]
                  /\ \A c \in Channels : ipc'[c] = "stopped"
    BY <1>3 DEF StopsOnce
  <2>4. ASSUME \A c \in Channels : ipc'[c] # "stop", NEW m \in Miners, ~rOpen[m]
        PROVE  \/ mainpc = "done"
               \/ stage'[Main] \in {"commit", "bulks", "close"}
               \/ stage'[Main] = "miners" /\ m < si'[Main]
    BY <1>1, <1>3, <1>4, <2>4, Params DEF StopsOnce
  <2>5. bOpen <=> mainpc # "done"
    BY DEF StopsOnce
  <2> QED
    BY <1>1, <2>1, <2>2, <2>3, <2>4, <2>5 DEF StopsOnce
<1> QED
  BY <1>6, <1>7

LEMMA StopsStopIndexer ==
    ASSUME TypeOK, StopsInOrder, StopsOnce, NEW p \in Procs, StopIndexer(p)
    PROVE  (StopsInOrder /\ StopsOnce)'
<1> DEFINE k == si[p]
           e == Channel[k]
<1>1. /\ stage[p] = "bulks" /\ ipc[e] = "recv" /\ ipc' = [ipc EXCEPT ![e] = "stopped"]
      /\ UNCHANGED <<mainpc, mpc, rOpen, failed, bOpen>>
  BY DEF StopIndexer, mainVars, minerVars
<1>2. /\ k \in 1..Len(Channel) /\ e \in Channels
      /\ \A i \in 1..Len(Channel) : i < k => ipc[Channel[i]] = "stopped"
  BY <1>1, ChannelList DEF StopsInOrder
<1>3. /\ ipc'[e] = "stopped" /\ \A c \in Channels \ {e} : ipc'[c] = ipc[c]
  BY <1>1, <1>2 DEF TypeOK, TypeIndexer
<1>4. \/ /\ k = Len(Channel) /\ stage'[p] = "close" /\ si' = si
         /\ \A q \in Procs \ {p} : stage'[q] = stage[q]
      \/ /\ k # Len(Channel) /\ stage' = stage /\ si'[p] = k + 1
         /\ \A q \in Procs \ {p} : si'[q] = si[q]
  <2>1. CASE k = Len(Channel)
    BY <2>1 DEF StopIndexer, LastChannel, TypeOK, TypeMain
  <2>2. CASE k # Len(Channel)
    BY <2>2 DEF StopIndexer, LastChannel, TypeOK, TypeMain
  <2> QED
    BY <2>1, <2>2
<1>5. \A i \in 1..Len(Channel) : i < k \/ i = k => ipc'[Channel[i]] = "stopped"
  BY <1>2, <1>3, ChannelList DEF e
<1> HIDE DEF k, e
<1>6. /\ k # Len(Channel) => k + 1 \in 1..Len(Channel)
      /\ k = Len(Channel) => \A i \in 1..Len(Channel) : i < k \/ i = k
      /\ \A i \in 1..Len(Channel) : i < k + 1 <=> i < k \/ i = k
  BY <1>2, ChannelList
<1>7. StopsInOrder'
  <2>1. SUFFICES ASSUME NEW q \in Procs
        PROVE
         /\ stage'[q] = "none" /\ (q = Main => mainpc # "done") => si'[q] = 0
         /\ stage'[q] = "miners" =>
              si'[q] \in Miners /\ \A m \in Miners : m < si'[q] => ~rOpen[m]
         /\ stage'[q] \in {"commit", "bulks", "close"} => \A m \in Miners : ~rOpen[m]
         /\ stage'[q] = "bulks" =>
              /\ si'[q] \in 1..Len(Channel)
              /\ \A i \in 1..Len(Channel) : i < si'[q] => ipc'[Channel[i]] = "stopped"
         /\ stage'[q] = "close" => \A c \in Channels : ipc'[c] = "stopped"
    BY <1>1 DEF StopsInOrder
  <2>2. CASE q # p
    <3>1. stage'[q] = stage[q] /\ si'[q] = si[q]
      BY <1>4, <2>2
    <3>2. \A c \in Channels : ipc[c] = "stopped" => ipc'[c] = "stopped"
      BY <1>3
    <3> QED
      BY <3>1, <3>2, ChannelList DEF StopsInOrder
  <2>3. CASE q = p
    <3>1. stage'[p] \in {"bulks", "close"}
      BY <1>1, <1>4
    <3>2. stage'[p] = "bulks" => k # Len(Channel) /\ si'[p] = k + 1
      BY <1>4
    <3>3. stage'[p] = "close" => k = Len(Channel)
      BY <1>1, <1>4
    <3>4. \A m \in Miners : ~rOpen[m]
      BY <1>1 DEF StopsInOrder
    <3>5. stage'[p] = "close" => \A c \in Channels : ipc'[c] = "stopped"
      BY <1>5, <1>6, <3>3, ChannelList
    <3> QED
      BY <1>5, <1>6, <2>3, <3>1, <3>2, <3>4, <3>5
  <2> QED
    BY <2>2, <2>3
<1>8. StopsOnce'
  <2>1. stage'[Main] = "none" <=> mainpc # "stop"
    BY <1>1, <1>4, Params DEF StopsOnce
  <2>2. \A c \in Channels : ipc'[c] = "stop" <=> ipc[c] = "stop"
    BY <1>1, <1>3
  <2>3. \A c \in Channels : /\ stage'[c] # "none" => ipc'[c] = "stop"
                            /\ ipc'[c] = "stop" => failed[c]
    BY <1>1, <1>4, <2>2, Params DEF StopsOnce
  <2>4. ~bOpen => /\ \A m \in Miners : ~rOpen[m]
                  /\ \A c \in Channels : ipc'[c] = "stopped"
    BY <1>3 DEF StopsOnce
  <2>5. ASSUME \A c \in Channels : ipc'[c] # "stop", NEW m \in Miners, ~rOpen[m]
        PROVE  \/ mainpc = "done"
               \/ stage'[Main] \in {"commit", "bulks", "close"}
               \/ stage'[Main] = "miners" /\ m < si'[Main]
    BY <1>1, <1>4, <2>2, <2>5, Params DEF StopsOnce
  <2>6. bOpen <=> mainpc # "done"
    BY DEF StopsOnce
  <2> QED
    BY <1>1, <2>1, <2>3, <2>4, <2>5, <2>6 DEF StopsOnce
<1> QED
  BY <1>7, <1>8

LEMMA StopsClose ==
    ASSUME TypeOK, StopsInOrder, StopsOnce, CloseChannels
    PROVE  (StopsInOrder /\ StopsOnce)'
<1>1. /\ stage[Main] = "close" /\ stage' = [stage EXCEPT ![Main] = "none"]
      /\ bOpen' = FALSE /\ mainpc' = "done"
      /\ UNCHANGED <<si, mpc, rOpen, ipc, failed>>
  BY DEF CloseChannels, minerVars
<1>2. /\ stage'[Main] = "none" /\ \A p \in Procs \ {Main} : stage'[p] = stage[p]
  BY <1>1, Params DEF TypeOK, TypeMain
<1>3. /\ \A m \in Miners : ~rOpen[m]
      /\ \A c \in Channels : ipc[c] = "stopped"
  BY <1>1, Params DEF StopsInOrder
<1>4. StopsInOrder'
  BY <1>1, <1>2 DEF StopsInOrder
<1>5. StopsOnce'
  BY <1>1, <1>2, <1>3, Params DEF StopsOnce
<1> QED
  BY <1>4, <1>5

(* An indexer enters StopBulkChannel when its request has failed, and its   *)
(* own goroutine is the first that it can no longer stop.                   *)
LEMMA StopsFailed ==
    ASSUME TypeOK, PartsFirst, StopsInOrder, StopsOnce, NEW c \in Channels,
           SynDone(c) \/ CommitError(c)
    PROVE  (StopsInOrder /\ StopsOnce)'
<1>1. /\ ipc[c] \in {"synDone", "synFailed", "commit"}
      /\ UNCHANGED <<mainpc, si, mpc, rOpen, bOpen>>
  BY DEF SynDone, CommitError, mainVars, minerVars
<1>2. \A e \in Channels : failed[e] => failed'[e]
  BY DEF SynDone, CommitError, TypeOK, TypeIndexer
<1>3. /\ \A e \in Channels : ipc'[e] = "stopped" <=> ipc[e] = "stopped"
      /\ \A e \in Channels \ {c} : ipc'[e] = "stop" <=> ipc[e] = "stop"
      /\ ipc'[c] = "stop" => failed'[c]
  <2>1. CASE SynDone(c)
    <3>1. PICK x \in {"recv", "stop"}, y \in {"commit", "await"} :
            /\ ipc' = [ipc EXCEPT ![c] = x, ![Block] = y]
            /\ x = "stop" => ipc[c] = "synFailed"
      BY <2>1 DEF SynDone, Answered
    <3>2. ipc[Block] = "await" /\ c # Block /\ UNCHANGED <<failed>>
      BY <2>1 DEF SynDone
    <3>3. ipc[c] = "synFailed" => failed[c]
      BY DEF PartsFirst, Consistent
    <3>4. /\ ipc'[c] = x /\ ipc'[Block] = y
          /\ \A e \in Channels \ {c, Block} : ipc'[e] = ipc[e]
      BY <3>1, <3>2, Params DEF TypeOK, TypeIndexer
    <3> QED
      BY <1>1, <3>1, <3>2, <3>3, <3>4
  <2>2. CASE CommitError(c)
    <3>1. PICK x \in {"synFailed", "stop"} : ipc' = [ipc EXCEPT ![c] = x]
      BY <2>2 DEF CommitError
    <3>2. failed'[c]
      BY <2>2 DEF CommitError, TypeOK, TypeIndexer
    <3> QED
      BY <1>1, <3>1, <3>2 DEF TypeOK, TypeIndexer
  <2> QED
    BY <2>1, <2>2
<1>4. stage[c] = "none" /\ si[c] = 0
  <2>1. stage[c] = "none" /\ c \in Procs /\ c # Main
    BY <1>1, Params DEF StopsOnce
  <2> QED
    BY <2>1 DEF StopsInOrder
<1>5. /\ \A p \in Procs \ {c} : stage'[p] = stage[p]
      /\ \/ stage'[c] = "none"
         \/ stage'[c] = "miners" /\ ipc'[c] = "stop"
  <2>1. CASE SynDone(c)
    <3>1. CASE ipc[c] = "synDone"
      BY <1>4, <2>1, <3>1 DEF SynDone
    <3>2. CASE ipc[c] # "synDone"
      <4>1. stage' = [stage EXCEPT ![c] = "miners"]
        BY <2>1, <3>2 DEF SynDone
      <4>2. PICK y : ipc' = [ipc EXCEPT ![c] = "stop", ![Block] = y]
        BY <2>1, <3>2 DEF SynDone
      <4>3. c # Block
        BY <2>1 DEF SynDone
      <4> QED
        BY <4>1, <4>2, <4>3, Params DEF TypeOK, TypeMain, TypeIndexer
    <3> QED
      BY <3>1, <3>2
  <2>2. CASE CommitError(c)
    <3>1. CASE Answers(c)
      BY <1>4, <2>2, <3>1 DEF CommitError
    <3>2. CASE ~Answers(c)
      BY <2>2, <3>2, Params DEF CommitError, TypeOK, TypeMain, TypeIndexer
    <3> QED
      BY <3>1, <3>2
  <2> QED
    BY <2>1, <2>2
<1>6. StopsInOrder'
  <2>1. 0 \in Miners /\ \A m \in Miners : ~(m < 0)
    BY Params DEF Miners
  <2>2. SUFFICES ASSUME NEW q \in Procs
        PROVE
         /\ stage'[q] = "none" /\ (q = Main => mainpc # "done") => si[q] = 0
         /\ stage'[q] = "miners" =>
              si[q] \in Miners /\ \A m \in Miners : m < si[q] => ~rOpen[m]
         /\ stage'[q] \in {"commit", "bulks", "close"} => \A m \in Miners : ~rOpen[m]
         /\ stage'[q] = "bulks" =>
              /\ si[q] \in 1..Len(Channel)
              /\ \A i \in 1..Len(Channel) : i < si[q] => ipc'[Channel[i]] = "stopped"
         /\ stage'[q] = "close" => \A e \in Channels : ipc'[e] = "stopped"
    BY <1>1 DEF StopsInOrder
  <2>3. CASE q = c
    BY <1>4, <1>5, <2>1, <2>3
  <2>4. CASE q # c
    <3>1. stage'[q] = stage[q]
      BY <1>5, <2>4
    <3> QED
      BY <1>3, <3>1, ChannelList DEF StopsInOrder
  <2> QED
    BY <2>3, <2>4
<1>7. StopsOnce'
  <2>1. stage'[Main] = stage[Main]
    BY <1>5, Params
  <2>2. bOpen
    BY <1>1 DEF StopsOnce
  <2>3. \A e \in Channels : /\ stage'[e] # "none" => ipc'[e] = "stop"
                            /\ ipc'[e] = "stop" => failed'[e]
    BY <1>2, <1>3, <1>5, Params DEF StopsOnce
  <2>4. ASSUME \A e \in Channels : ipc'[e] # "stop", NEW m \in Miners, ~rOpen[m]
        PROVE  \/ mainpc = "done"
               \/ stage'[Main] \in {"commit", "bulks", "close"}
               \/ stage'[Main] = "miners" /\ m < si[Main]
    <3>1. \A e \in Channels : ipc[e] # "stop"
      BY <1>1, <1>3, <2>4
    <3> QED
      BY <2>1, <2>4, <3>1 DEF StopsOnce
  <2>5. /\ stage[Main] = "none" <=> mainpc # "stop"
        /\ bOpen <=> mainpc # "done"
    BY DEF StopsOnce
  <2> QED
    BY <1>1, <2>1, <2>2, <2>3, <2>4, <2>5 DEF StopsOnce
<1> QED
  BY <1>6, <1>7

LEMMA StopsNext ==
    ASSUME TypeOK, PartsFirst, StopsInOrder, StopsOnce, [Next]_vars
    PROVE  (StopsInOrder /\ StopsOnce)'
<1>1. CASE MainStep
  BY <1>1, StopsQuiet, StopsCallStop, StopsClose DEF MainStep
<1>2. ASSUME NEW p \in Procs, StopStep(p)
      PROVE  (StopsInOrder /\ StopsOnce)'
  BY <1>2, StopsStopMiner, StopsForceCommit, StopsStopIndexer DEF StopStep
<1>3. ASSUME NEW m \in Miners, GetBlock(m) \/ MinerStep(m)
      PROVE  (StopsInOrder /\ StopsOnce)'
  BY <1>3, StopsQuiet
<1>4. ASSUME NEW c \in Channels, IndexerStep(c) \/ CommitError(c)
      PROVE  (StopsInOrder /\ StopsOnce)'
  BY <1>4, StopsQuiet, StopsFailed DEF IndexerStep
<1>5. CASE TimerStep \/ Panic
  BY <1>5, StopsQuiet
<1>6. CASE Restart
  BY <1>6, StopsRestart
<1>7. CASE UNCHANGED vars
  BY <1>7, StopsQuiet
<1> QED
  BY <1>1, <1>2, <1>3, <1>4, <1>5, <1>6, <1>7 DEF Next, Step, Ended

-----------------------------------------------------------------------------
(* The forced commit leaves nothing behind.                                 *)

LEMMA DrainedInit == Init => Drained
<1> SUFFICES ASSUME Init
             PROVE  Drained
  OBVIOUS
<1>1. \A c \in PartSet : c \in Channels
  BY Params DEF Channels
<1> QED
  BY <1>1, Params DEF Init, Drained, Empty

LEMMA DrainedRestart ==
    ASSUME Restart
    PROVE  Drained'
<1>1. \A c \in PartSet : c \in Channels
  BY Params DEF Channels
<1> QED
  BY <1>1, Params DEF Restart, Drained, Empty

(* With no miner at work, only a bulk of the blocks can follow.             *)
LEMMA NoMiner ==
    ASSUME StopsInOrder, NEW p \in Procs, stage[p] \in {"commit", "bulks", "close"}
    PROVE  \A m \in Miners : ~MidBlock(m)
BY DEF StopsInOrder, MidBlock

LEMMA DrainedKept ==
    ASSUME Drained, UNCHANGED <<ipc, total, held, ordered>>,
           \A m \in Miners : MidBlock(m) => MidBlock(m)',
           \A p \in Procs : stage'[p] = "bulks" => stage[p] = "bulks"
    PROVE  Drained'
<1>1. \A c : Owes(c)' <=> Owes(c)
  BY DEF Owes
<1>2. \A c : Followed(c) => Followed(c)'
  BY DEF Followed
<1> QED
  BY <1>1, <1>2 DEF Drained

LEMMA DrainedQuiet ==
    ASSUME TypeOK, Drained,
           \/ MainStep \/ (\E p \in Procs : StopMiner(p))
           \/ \E m \in Miners : GetBlock(m) \/ LoadAccToken(m) \/ StoreAccToken(m)
           \/ \E c \in Channels : \E id \in bulk[c] : Apply(c, id)
           \/ TimerTop \/ (\E elapsed \in BOOLEAN : TimerWake(elapsed)) \/ Panic
           \/ UNCHANGED vars
    PROVE  Drained'
<1> USE DEF mainVars, stopVars, minerVars, bulkVars, timerVars, procVars
<1>1. UNCHANGED <<ipc, total, held, ordered>>
  BY DEF MainStep, CallInsert, InsertBlock, Advance, CallStop, CloseChannels, StopMiner, GetBlock,
         LoadAccToken, StoreAccToken, Apply, TimerTop, TimerWake, Panic, vars
<1>2. \A m \in Miners : MidBlock(m) => MidBlock(m)'
  <2>1. mpc \in [Miners -> {"recv", "get", "send", "store", "claimed", "stopped"}]
    BY DEF TypeOK, TypeMiner
  <2>2. \/ mpc' = mpc
        \/ \E k : mpc[k] = "recv" /\ \E x : mpc' = [mpc EXCEPT ![k] = x]
        \/ \E k : \E x \in {"send", "store", "claimed"} : mpc' = [mpc EXCEPT ![k] = x]
    <3>1. CASE MainStep
      BY <3>1 DEF MainStep, CallInsert, InsertBlock, CallStop, CloseChannels
    <3>2. CASE \E p \in Procs : StopMiner(p)
      <4>1. PICK p \in Procs : StopMiner(p)
        BY <3>2
      <4>2. mpc[si[p]] = "recv" /\ mpc' = [mpc EXCEPT ![si[p]] = "stopped"]
        BY <4>1 DEF StopMiner
      <4> QED
        BY <4>2
    <3>3. CASE \E m \in Miners : GetBlock(m) \/ LoadAccToken(m) \/ StoreAccToken(m)
      <4>1. PICK m \in Miners : GetBlock(m) \/ LoadAccToken(m) \/ StoreAccToken(m)
        BY <3>3
      <4>2. CASE GetBlock(m)
        BY <4>2 DEF GetBlock
      <4>3. CASE LoadAccToken(m)
        BY <4>3 DEF LoadAccToken
      <4>4. CASE StoreAccToken(m)
        BY <4>4 DEF StoreAccToken
      <4> QED
        BY <4>1, <4>2, <4>3, <4>4
    <3>4. CASE \/ \E c \in Channels : \E id \in bulk[c] : Apply(c, id)
               \/ TimerTop \/ (\E elapsed \in BOOLEAN : TimerWake(elapsed)) \/ Panic
               \/ UNCHANGED vars
      <4>1. mpc' = mpc
        BY <3>4 DEF Apply, TimerTop, TimerWake, Panic, vars
      <4> QED
        BY <4>1
    <3> QED
      BY <3>1, <3>2, <3>3, <3>4
  <2> QED
    BY <2>1, <2>2 DEF MidBlock
<1>3. \A p \in Procs : stage'[p] = "bulks" => stage[p] = "bulks"
  <2>1. \/ stage' = stage
        \/ \E q : \E x \in {"miners", "commit", "none"} : stage' = [stage EXCEPT ![q] = x]
    BY DEF MainStep, CallInsert, InsertBlock, CallStop, CloseChannels, StopMiner, GetBlock,
           LoadAccToken, StoreAccToken, Apply, TimerTop, TimerWake, Panic, vars
  <2> QED
    BY <2>1 DEF TypeOK, TypeMain
<1> QED
  BY <1>1, <1>2, <1>3, DrainedKept

(* A part that receives a document is followed by the block it is of.       *)
LEMMA DrainedAddDoc ==
    ASSUME TypeOK, PartsFirst, Drained, NEW m \in Miners, AddDoc(m)
    PROVE  Drained'
<1> DEFINE c == Head(md[m]).ch
<1>1. /\ md[m] \in Seq(Doc) /\ md[m] # <<>> /\ Receive(c, Head(md[m]).id)
      /\ mpc' = [mpc EXCEPT ![m] = "send"] /\ stage' = stage
  BY DEF AddDoc, TypeOK, TypeMiner, stopVars
<1>2. c \in PartSet /\ c \in Channels /\ c # Block
  BY <1>1, HeadTail, Params DEF Channels
<1> HIDE DEF c
<1>3. /\ ipc[c] = "recv"
      /\ \/ total[c] >= BulkSize /\ total' = total /\ ipc' = [ipc EXCEPT ![c] = "commit"]
            /\ \A e \in Channels \ {c} : held'[e] = held[e]
         \/ ipc' = ipc /\ held' = held /\ \A e \in Channels \ {c} : total'[e] = total[e]
  BY <1>1, <1>2 DEF Receive, Full, TypeOK, TypeIndexer
<1>4. MidBlock(m)'
  BY <1>1 DEF MidBlock, TypeOK, TypeMiner
<1>5. total[c] >= BulkSize => total[c] > 0
  BY <1>2, Params DEF TypeOK, TypeIndexer
<1>6. /\ \A e \in PartSet : ipc'[e] = "commit" => total'[e] > 0
      /\ \A e \in Channels : ipc'[e] = "stopped" => total'[e] = 0
  <2>1. CASE total[c] >= BulkSize /\ total' = total /\ ipc' = [ipc EXCEPT ![c] = "commit"]
    BY <1>2, <1>5, <2>1 DEF Drained, TypeOK, TypeIndexer
  <2>2. CASE ipc' = ipc /\ \A e \in Channels \ {c} : total'[e] = total[e]
    BY <1>2, <1>3, <2>2 DEF Drained, Channels
  <2> QED
    BY <1>3, <2>1, <2>2
<1>7. ipc'[Block] = ipc[Block] /\ total'[Block] = total[Block] /\ held'[Block] = held[Block]
  BY <1>2, <1>3, Params DEF TypeOK, TypeIndexer
<1>8. \A e : Followed(e)'
  BY <1>4 DEF Followed
<1> QED
  BY <1>1, <1>6, <1>7, <1>8 DEF Drained

LEMMA DrainedAddBlock ==
    ASSUME TypeOK, PartsFirst, StopsInOrder, Drained, NEW m \in Miners, AddBlock(m)
    PROVE  Drained'
<1>1. /\ mpc[m] = "send" /\ mh[m] \in IdsOf(Block) /\ Receive(Block, mh[m]) /\ stage' = stage
  BY DEF AddBlock, TypeOK, TypeMiner, stopVars, IdsOf
<1>2. /\ ipc[Block] = "recv"
      /\ \A e \in Channels \ {Block} : ipc'[e] = ipc[e] /\ total'[e] = total[e] /\ held'[e] = held[e]
  BY <1>1, Params, Received
<1>3. \/ ipc'[Block] = "order" /\ held'[Block] # {}
      \/ ipc'[Block] = "recv" /\ total'[Block] > 0
  <2>1. total[Block] \in Nat
    BY Params DEF TypeOK, TypeIndexer
  <2>2. CASE Full(Block)
    <3>1. ipc' = [ipc EXCEPT ![Block] = "order"] /\ held' = [held EXCEPT ![Block] = {mh[m]}]
      BY <1>1, <2>2 DEF Receive
    <3> QED
      BY <3>1, Params DEF TypeOK, TypeIndexer
  <2>3. CASE ~Full(Block)
    BY <1>1, <1>2, <2>1, <2>3, Params DEF Receive, TypeOK, TypeIndexer
  <2> QED
    BY <2>2, <2>3
<1>4. \A p \in Procs : stage[p] # "bulks"
  <2>1. MidBlock(m)
    BY <1>1 DEF MidBlock
  <2> QED
    BY <2>1, NoMiner
<1>5. \A e : Followed(e)'
  BY <1>3 DEF Followed
<1>6. \A e \in PartSet : e \in Channels \ {Block}
  BY Params DEF Channels
<1> QED
  BY <1>1, <1>2, <1>3, <1>4, <1>5, <1>6 DEF Drained

LEMMA DrainedStartCommit ==
    ASSUME TypeOK, PartsFirst, StopsInOrder, Drained,
           TimerSend \/ (\E p \in Procs : ForceCommit(p))
    PROVE  Drained'
<1>1. /\ ipc[Block] = "recv" /\ UNCHANGED <<mpc, total, held, ordered>>
      /\ ipc' = [ipc EXCEPT ![Block] = IF total[Block] = 0 THEN "recv" ELSE "order"]
  BY DEF TimerSend, ForceCommit, StartCommit, NothingToCommit, minerVars
<1>2. /\ ipc'[Block] = IF total[Block] = 0 THEN "recv" ELSE "order"
      /\ \A c \in Channels \ {Block} : ipc'[c] = ipc[c]
  BY <1>1, Params DEF TypeOK, TypeIndexer
<1>3. held[Block] = {} /\ ordered = 0
  BY <1>1, Params DEF PartsFirst, Consistent, AnswersCounted
<1>4. ASSUME NEW c \in PartSet
      PROVE  c \in Channels \ {Block} /\ (Owes(c)' <=> Owes(c)) /\ (Followed(c) => Followed(c)')
  <2>1. c \in Channels \ {Block}
    BY Params DEF Channels
  <2>2. Owes(c)' <=> Owes(c)
    BY <1>1, <1>2, <2>1 DEF Owes
  <2>3. ASSUME total[Block] > 0
        PROVE  Followed(c)'
    <3>1. PICK i \in 1..Len(Parts) : Parts[i] = c
      BY ChannelAssumption, LenProperties DEF PartSet
    <3>2. ordered' < i /\ ipc'[Block] = "order" /\ total'[Block] > 0
      BY <1>1, <1>2, <1>3, <2>3, ChannelList
    <3> QED
      BY <3>1, <3>2 DEF Followed
  <2>4. Followed(c) => Followed(c)'
    <3>1. ASSUME NEW n \in Miners, MidBlock(n)
          PROVE  MidBlock(n)'
      BY <1>1, <3>1 DEF MidBlock
    <3> QED
      BY <1>3, <2>3, <3>1 DEF Followed
  <2> QED
    BY <2>1, <2>2, <2>4
<1> QED
  BY <1>1, <1>2, <1>3, <1>4 DEF Drained

LEMMA DrainedStopIndexer ==
    ASSUME TypeOK, PartsFirst, StopsInOrder, Drained, NEW p \in Procs, StopIndexer(p)
    PROVE  Drained'
<1> DEFINE e == Channel[si[p]]
<1>1. /\ stage[p] = "bulks" /\ ipc[e] = "recv" /\ ipc' = [ipc EXCEPT ![e] = "stopped"]
      /\ UNCHANGED <<mpc, total, held, ordered>>
      /\ \E k : stage' = stage \/ stage' = [stage EXCEPT ![k] = "close"]
  BY DEF StopIndexer, minerVars
<1>2. /\ e \in Channels /\ si[p] \in 1..Len(Channel)
      /\ si[p] # 1 => ipc[Block] = "stopped"
      /\ si[p] = 1 => e = Block
  <2>1. 1 \in 1..Len(Channel) /\ (si[p] \in 1..Len(Channel) /\ si[p] # 1 => 1 < si[p])
    BY ChannelList
  <2> QED
    BY <1>1, <2>1, ChannelList DEF StopsInOrder
<1> HIDE DEF e
<1>3. \A m \in Miners : ~MidBlock(m)
  BY <1>1, NoMiner
<1>4. /\ ipc'[e] = "stopped" /\ \A c \in Channels \ {e} : ipc'[c] = ipc[c]
      /\ \A q \in Procs : stage'[q] = "bulks" => stage[q] = "bulks"
  BY <1>1, <1>2 DEF TypeOK, TypeIndexer, TypeMain
<1>5. held[Block] = {} /\ ipc[Block] # "stop"
  BY <1>1, <1>2, Params DEF PartsFirst, Consistent
<1>6. total[Block] = 0
  <2>1. CASE e = Block
    BY <1>1, <2>1 DEF Drained
  <2>2. CASE e # Block
    BY <1>2, <2>2, Params DEF Drained
  <2> QED
    BY <2>1, <2>2
<1>7. \A c : ~Followed(c)
  BY <1>3, <1>5, <1>6 DEF Followed
<1>8. \A c \in PartSet : total[c] > 0 => Owes(c) \/ ipc[c] = "stop"
  BY <1>5, <1>7 DEF Drained
<1>9. total[e] = 0
  <2>1. CASE e # Block
    <3>1. e \in PartSet /\ total[e] \in Nat /\ ~Owes(e) /\ ipc[e] # "stop"
      BY <1>1, <1>2, <2>1 DEF Owes, Channels, TypeOK, TypeIndexer
    <3> QED
      BY <1>8, <3>1
  <2> QED
    BY <1>6, <2>1
<1>10. \A c \in PartSet : c \in Channels /\ c # Block
  BY Params DEF Channels
<1>11. /\ \A c \in PartSet : ipc'[c] = "commit" => total[c] > 0
       /\ \A c \in Channels : ipc'[c] = "stopped" => total[c] = 0
  BY <1>4, <1>9, <1>10 DEF Drained
<1>12. \A c \in PartSet : total[c] > 0 => Owes(c)' \/ ipc'[c] = "stop"
  <2>1. ASSUME NEW c \in PartSet, total[c] > 0
        PROVE  c # e
    BY <1>9, <2>1
  <2> QED
    BY <1>1, <1>4, <1>8, <1>10, <2>1 DEF Owes
<1> QED
  BY <1>1, <1>4, <1>5, <1>6, <1>11, <1>12 DEF Drained

LEMMA DrainedOrderCommit ==
    ASSUME TypeOK, PartsFirst, Drained, OrderCommit
    PROVE  Drained'
<1>0. PICK c : c = Parts[ordered + 1]
  OBVIOUS
<1>1. /\ ipc[Block] = "order" /\ ipc[c] = "recv" /\ ordered' = ordered + 1
      /\ UNCHANGED <<mpc, total, held, stage>>
  BY <1>0 DEF OrderCommit, NothingToCommit, minerVars, stopVars
<1>2. PICK x \in {"synDone", "commit"}, y \in {"order", "await"} :
        /\ ipc' = [ipc EXCEPT ![c] = x, ![Block] = y]
        /\ x = "commit" => total[c] # 0
        /\ y = IF ordered + 1 = Len(Parts) THEN "await" ELSE "order"
  BY <1>0 DEF OrderCommit, NothingToCommit
<1>3. /\ ordered \in Nat /\ ordered < Len(Parts)
      /\ Len(Parts) \in Nat /\ DOMAIN Parts = 1..Len(Parts)
  BY <1>1, ChannelAssumption, LenProperties DEF PartsFirst, AnswersCounted, TypeOK, TypeIndexer
<1>4. c \in PartSet /\ c \in Channels /\ c # Block
  <2>1. ordered + 1 \in DOMAIN Parts
    BY <1>3
  <2> QED
    BY <1>0, <2>1, Params DEF Channels
<1>5. /\ ipc'[c] = x /\ ipc'[Block] = y
      /\ \A e \in Channels \ {c, Block} : ipc'[e] = ipc[e]
  BY <1>2, <1>4, Params DEF TypeOK, TypeIndexer
<1>6. Owes(c)'
  <2>1. held[c] = {}
    BY <1>1, <1>4 DEF PartsFirst, Consistent
  <2> QED
    BY <1>1, <1>5, <2>1 DEF Owes
<1>7. x = "commit" => total[c] > 0
  BY <1>2, <1>4 DEF TypeOK, TypeIndexer
<1>8. /\ \A e \in PartSet : ipc'[e] = "commit" => total[e] > 0
      /\ \A e \in Channels : ipc'[e] = "stopped" => total[e] = 0
  BY <1>4, <1>5, <1>7, Params DEF Drained, Channels
<1>9. ASSUME NEW e \in PartSet, total[e] > 0, ~Owes(e)', ipc'[e] # "stop"
      PROVE  Followed(e)'
  <2>1. e # c /\ e \in Channels /\ e # Block
    BY <1>6, <1>9, Params DEF Channels
  <2>2. ~Owes(e) /\ ipc[e] # "stop"
    BY <1>1, <1>5, <1>9, <2>1 DEF Owes
  <2>3. Followed(e)
    BY <1>1, <1>9, <2>2 DEF Drained
  <2>4. ASSUME NEW i \in 1..Len(Parts), ordered < i, Parts[i] = e
        PROVE  ordered' < i /\ y = "order"
    <3>1. i # ordered + 1
      BY <1>0, <2>1, <2>4
    <3> QED
      BY <1>1, <1>2, <1>3, <2>4, <3>1
  <2>5. (\E m \in Miners : MidBlock(m)) => (\E m \in Miners : MidBlock(m))'
    BY <1>1 DEF MidBlock
  <2> QED
    BY <1>1, <1>5, <2>3, <2>4, <2>5 DEF Followed
<1> QED
  BY <1>1, <1>5, <1>8, <1>9 DEF Drained

LEMMA DrainedSynDone ==
    ASSUME TypeOK, PartsFirst, StopsOnce, Drained, NEW c \in Channels, SynDone(c)
    PROVE  Drained'
<1>1. /\ ipc[Block] = "await" /\ c # Block /\ c \in PartSet
      /\ UNCHANGED <<mpc, held, ordered>>
  BY DEF SynDone, minerVars, Channels
<1>2. PICK x \in {"recv", "stop"}, y \in {"commit", "await"} :
         ipc' = [ipc EXCEPT ![c] = x, ![Block] = y]
  BY DEF SynDone, Answered
<1>3. /\ ipc'[c] = x /\ ipc'[Block] = y
      /\ \A e \in Channels \ {c, Block} : ipc'[e] = ipc[e]
  BY <1>1, <1>2, Params DEF TypeOK, TypeIndexer
<1>4. /\ \A e \in Channels \ {c} : total'[e] = total[e]
      /\ total'[c] = 0 \/ ipc'[c] = "stop"
      /\ \A p \in Procs : stage'[p] = "bulks" => stage[p] = "bulks"
  <2>1. CASE ipc[c] = "synDone"
    BY <2>1 DEF SynDone, TypeOK, TypeIndexer
  <2>2. CASE ipc[c] # "synDone"
    <3>1. stage' = [stage EXCEPT ![c] = "miners"] /\ total' = total
      BY <2>2 DEF SynDone
    <3>2. PICK z : ipc' = [ipc EXCEPT ![c] = "stop", ![Block] = z]
      BY <2>2 DEF SynDone
    <3> QED
      BY <1>1, <3>1, <3>2, Params DEF TypeOK, TypeIndexer, TypeMain
  <2> QED
    BY <2>1, <2>2
<1>5. \A e \in PartSet : e \in Channels /\ e # Block
  BY Params DEF Channels
<1>6. /\ \A e \in PartSet : ipc'[e] = "commit" => total'[e] > 0
      /\ \A e \in Channels : ipc'[e] = "stopped" => total'[e] = 0
  BY <1>3, <1>4, <1>5 DEF Drained
<1>7. ASSUME NEW e \in PartSet, total'[e] > 0, ~Owes(e)', ipc'[e] # "stop"
      PROVE  Followed(e)'
  <2>1. e # c
    BY <1>4, <1>7
  <2>2. total[e] > 0 /\ ~Owes(e) /\ ipc[e] # "stop"
    BY <1>1, <1>3, <1>4, <1>5, <1>7, <2>1 DEF Owes
  <2>3. Followed(e)
    BY <1>1, <2>2 DEF Drained
  <2>4. (\E m \in Miners : MidBlock(m)) => (\E m \in Miners : MidBlock(m))'
    BY <1>1 DEF MidBlock
  <2> QED
    BY <1>1, <2>3, <2>4 DEF Followed
<1> QED
  BY <1>1, <1>3, <1>4, <1>6, <1>7 DEF Drained

LEMMA DrainedCommitDone ==
    ASSUME TypeOK, PartsFirst, StopsOnce, Drained, NEW c \in Channels, CommitDone(c)
    PROVE  Drained'
<1>1. /\ ipc[c] = "commit" /\ UNCHANGED <<mpc, stage>>
      /\ c # Block => ordered' = ordered
  BY DEF CommitDone, minerVars, stopVars
<1>2. \A e \in Channels \ {c} : ipc'[e] = ipc[e] /\ total'[e] = total[e] /\ held'[e] = held[e]
  BY DEF CommitDone, TypeOK, TypeIndexer
<1>3. \/ Answers(c) /\ ipc'[c] = "synDone" /\ total'[c] = total[c] /\ held'[c] = held[c]
      \/ /\ ~Answers(c) /\ ipc'[c] = "recv" /\ held'[c] = {}
         /\ total'[c] = IF held[c] = {} THEN 0 ELSE 1
  <2>1. CASE Answers(c)
    BY <2>1 DEF CommitDone, TypeOK, TypeIndexer
  <2>2. CASE ~Answers(c)
    BY <2>2 DEF CommitDone, TypeOK, TypeIndexer
  <2> QED
    BY <2>1, <2>2
<1>4. \A e \in PartSet : e \in Channels /\ e # Block
  BY Params DEF Channels
<1>5. /\ \A e \in PartSet : ipc'[e] = "commit" => total'[e] > 0
      /\ \A e \in Channels : ipc'[e] = "stopped" => total'[e] = 0
  BY <1>2, <1>3, <1>4 DEF Drained
<1>6. \A p \in Procs : stage'[p] = "bulks" =>
         /\ ipc'[Block] = "recv" => total'[Block] = 0
         /\ ipc'[Block] # "stop" => held'[Block] = {}
  <2>1. CASE c = Block
    BY <1>1, <1>3, <2>1 DEF Drained, Answers
  <2>2. CASE c # Block
    BY <1>1, <1>2, <2>2, Params DEF Drained
  <2> QED
    BY <2>1, <2>2
<1>7. ASSUME ipc'[Block] # "stop",
             NEW e \in PartSet, total'[e] > 0, ~Owes(e)', ipc'[e] # "stop"
      PROVE  Followed(e)'
  <2>1. total[e] > 0 /\ ~Owes(e) /\ ipc[e] # "stop"
    <3>1. CASE e = c
      <4>1. ~Answers(c)
        BY <1>3, <1>7, <3>1 DEF Owes
      <4>2. held[c] # {} /\ total[c] > 0
        BY <1>1, <1>4, <3>1, <4>1 DEF Answers, Drained
      <4> QED
        BY <1>1, <3>1, <4>2 DEF Owes
    <3>2. CASE e # c
      BY <1>2, <1>4, <1>7, <3>2 DEF Owes
    <3> QED
      BY <3>1, <3>2
  <2>2. ipc[Block] # "stop"
    BY <1>1, <1>2, <1>7, Params
  <2>3. Followed(e)
    BY <2>1, <2>2 DEF Drained
  <2>4. (\E m \in Miners : MidBlock(m)) => (\E m \in Miners : MidBlock(m))'
    BY <1>1 DEF MidBlock
  <2>5. CASE c = Block
    <3>1. held[Block] # {} => ipc'[Block] = "recv" /\ total'[Block] > 0
      BY <1>3, <2>5 DEF Answers
    <3> QED
      BY <1>1, <2>3, <2>4, <2>5, <3>1 DEF Followed
  <2>6. CASE c # Block
    <3>1. ipc'[Block] = ipc[Block] /\ total'[Block] = total[Block] /\ held'[Block] = held[Block]
      BY <1>2, <2>6, Params
    <3> QED
      BY <1>1, <2>3, <2>4, <2>6, <3>1 DEF Followed
  <2> QED
    BY <2>5, <2>6
<1> QED
  BY <1>5, <1>6, <1>7 DEF Drained

LEMMA DrainedCommitError ==
    ASSUME TypeOK, PartsFirst, Drained, NEW c \in Channels, CommitError(c)
    PROVE  Drained'
<1>1. /\ ipc[c] = "commit" /\ UNCHANGED <<mpc, total, held, ordered>>
      /\ stage' = stage \/ stage' = [stage EXCEPT ![c] = "miners"]
  BY DEF CommitError, minerVars
<1>2. PICK x : /\ ipc' = [ipc EXCEPT ![c] = x]
               /\ \/ Answers(c) /\ x = "synFailed"
                  \/ ~Answers(c) /\ x = "stop"
  BY DEF CommitError
<1>3. /\ ipc'[c] = x /\ \A e \in Channels \ {c} : ipc'[e] = ipc[e]
      /\ \A p \in Procs : stage'[p] = "bulks" => stage[p] = "bulks"
  BY <1>1, <1>2 DEF TypeOK, TypeIndexer, TypeMain
<1>4. \A e \in PartSet : e \in Channels /\ e # Block
  BY Params DEF Channels
<1>5. /\ \A e \in PartSet : ipc'[e] = "commit" => total[e] > 0
      /\ \A e \in Channels : ipc'[e] = "stopped" => total[e] = 0
  BY <1>2, <1>3, <1>4 DEF Drained
<1>6. \A p \in Procs : stage'[p] = "bulks" =>
         /\ ipc'[Block] = "recv" => total[Block] = 0
         /\ ipc'[Block] # "stop" => held[Block] = {}
  BY <1>2, <1>3, Params DEF Drained, Answers
<1>7. ASSUME ipc'[Block] # "stop",
             NEW e \in PartSet, total[e] > 0, ~Owes(e)', ipc'[e] # "stop"
      PROVE  Followed(e)'
  <2>1. c # Block
    BY <1>2, <1>3, <1>7 DEF Answers
  <2>2. e # c
    BY <1>2, <1>3, <1>7 DEF Owes
  <2>3. ipc'[Block] = ipc[Block] /\ ~Owes(e) /\ ipc[e] # "stop"
    BY <1>1, <1>3, <1>4, <1>7, <2>1, <2>2, Params DEF Owes
  <2>4. Followed(e)
    BY <1>7, <2>3 DEF Drained
  <2>5. (\E m \in Miners : MidBlock(m)) => (\E m \in Miners : MidBlock(m))'
    BY <1>1 DEF MidBlock
  <2> QED
    BY <1>1, <2>3, <2>4, <2>5 DEF Followed
<1> QED
  BY <1>1, <1>5, <1>6, <1>7 DEF Drained

LEMMA DrainedNext ==
    ASSUME TypeOK, PartsFirst, StopInv, [Next]_vars
    PROVE  Drained'
<1> USE DEF StopInv
<1>1. CASE MainStep
  BY <1>1, DrainedQuiet
<1>2. ASSUME NEW p \in Procs, StopStep(p)
      PROVE  Drained'
  BY <1>2, DrainedQuiet, DrainedStartCommit, DrainedStopIndexer DEF StopStep
<1>3. ASSUME NEW m \in Miners, GetBlock(m) \/ MinerStep(m)
      PROVE  Drained'
  BY <1>3, DrainedQuiet, DrainedAddDoc, DrainedAddBlock DEF MinerStep
<1>4. ASSUME NEW c \in Channels, IndexerStep(c) \/ CommitError(c)
      PROVE  Drained'
  BY <1>4, DrainedQuiet, DrainedOrderCommit, DrainedSynDone, DrainedCommitDone,
     DrainedCommitError DEF IndexerStep
<1>5. CASE TimerStep \/ Panic
  BY <1>5, DrainedQuiet, DrainedStartCommit DEF TimerStep
<1>6. CASE Restart
  BY <1>6, DrainedRestart
<1>7. CASE UNCHANGED vars
  BY <1>7, DrainedQuiet
<1> QED
  BY <1>1, <1>2, <1>3, <1>4, <1>5, <1>6, <1>7 DEF Next, Step, Ended

(* The inductive invariant behind the end of StopBulkChannel.               *)
THEOREM StopInvariant == Spec => [](TypeOK /\ PartsFirst /\ StopInv)
<1>1. Init => TypeOK /\ PartsFirst /\ StopInv
  BY TypeInit, PartsInit, StopsInit, DrainedInit DEF StopInv
<1>2. TypeOK /\ PartsFirst /\ StopInv /\ [Next]_vars => (TypeOK /\ PartsFirst /\ StopInv)'
  BY TypeNext, PartsNext, StopsNext, DrainedNext DEF StopInv
<1> QED
  BY <1>1, <1>2, PTL DEF Spec

(* When StopBulkChannel closes the channels of the documents, every miner   *)
(* and every indexer has stopped, and nothing is left in a bulk.            *)
THEOREM ClosedIdle == Spec => []ClosedWhenIdle
<1>1. TypeOK /\ PartsFirst /\ StopInv => ClosedWhenIdle
  BY DEF StopInv, StopsInOrder, StopsOnce, Drained, PartsFirst, Consistent, ClosedWhenIdle
<1> QED
  BY <1>1, StopInvariant, PTL

(* The only goroutine that ever sends on a closed channel is the time-out   *)
(* of the blocks, after the end of the check, unless a request has failed.  *)
THEOREM PanicsOnlyLate == Spec => []OnlyTimerPanics
<1>1. ASSUME TypeOK, StopInv, SendOnClosed, ~Failing
      PROVE  tpc = "send" /\ mainpc = "done"
  <2>1. \A c \in Channels : ipc[c] # "stop" /\ stage[c] = "none"
    BY <1>1 DEF Failing, StopInv, StopsOnce
  <2>2. \A m \in Miners : ~rOpen[m] =>
            \/ mainpc = "done"
            \/ stage[Main] \in {"commit", "bulks", "close"}
            \/ stage[Main] = "miners" /\ m < si[Main]
    BY <1>1, <2>1 DEF StopInv, StopsOnce
  <2>3. CASE tpc = "send" /\ ~bOpen
    BY <1>1, <2>3 DEF StopInv, StopsOnce
  <2>4. ASSUME mainpc = "insert", ~rOpen[Target]
        PROVE  FALSE
    <3>1. stage[Main] = "none"
      BY <1>1, <2>4 DEF StopInv, StopsOnce
    <3>2. Target \in Miners
      BY <1>1, Params DEF Target, Miners, Heights, TypeOK, TypeMain
    <3> QED
      BY <2>2, <2>4, <3>1, <3>2
  <2>5. ASSUME NEW p \in Procs, stage[p] = "miners", ~rOpen[si[p]]
        PROVE  FALSE
    <3>1. p = Main
      BY <2>1, <2>5 DEF Procs
    <3>2. si[Main] \in Miners /\ mainpc = "stop"
      BY <1>1, <2>5, <3>1, Params DEF StopInv, StopsInOrder, StopsOnce
    <3>3. ~(si[Main] < si[Main])
      BY <3>2 DEF Miners
    <3> QED
      BY <2>2, <2>5, <3>1, <3>2, <3>3
  <2> QED
    BY <1>1, <2>3, <2>4, <2>5 DEF SendOnClosed
<1>2. TypeOK /\ StopInv => OnlyTimerPanics
  BY <1>1 DEF OnlyTimerPanics
<1> QED
  BY <1>2, StopInvariant, PTL

-----------------------------------------------------------------------------
(* What is collected stays so until it is in the database.                  *)

Grows ==
    /\ \A c \in Channels : /\ Collects(c) \subseteq Collects(c)'
                           /\ index[c] \subseteq index'[c]
                           /\ failed[c] => failed'[c]
                           /\ rejected[c] \subseteq rejected'[c]
    /\ \A c \in PartSet : Owes(c) =>
          \/ failed[c]
          \/ bulk[c] \subseteq Stored(c)'
          \/ Owes(c)' /\ bulk[c] \subseteq bulk'[c]

LEMMA GrowsQuiet ==
    ASSUME UNCHANGED <<bulk, held, failed, rejected, index>>,
           \A c \in PartSet : Owes(c) => Owes(c)'
    PROVE  Grows
BY DEF Grows, Collects, Stored

LEMMA GrowsIdle ==
    ASSUME TypeOK, NEW e, NEW x, ipc[e] = "recv", ipc' = [ipc EXCEPT ![e] = x],
           UNCHANGED <<bulk, held, failed, rejected, index>>
    PROVE  Grows
<1>1. ASSUME NEW c \in PartSet, Owes(c)
      PROVE  Owes(c)'
  <2>1. c # e /\ c \in Channels
    BY <1>1 DEF Owes, Channels
  <2> QED
    BY <1>1, <2>1 DEF Owes, TypeOK, TypeIndexer
<1> QED
  BY <1>1, GrowsQuiet

LEMMA GrowsReceive ==
    ASSUME TypeOK, PartsFirst, NEW c \in Channels, NEW id \in IdsOf(c), Receive(c, id),
           index' = index
    PROVE  Grows /\ id \in Collects(c)'
<1>1. /\ ipc[c] = "recv" /\ UNCHANGED <<failed, rejected, index>>
      /\ \A e \in Channels \ {c} : /\ ipc'[e] = ipc[e] /\ bulk'[e] = bulk[e] /\ held'[e] = held[e]
      /\ bulk'[c] \cup held'[c] = bulk[c] \cup held[c] \cup {id}
  BY Received
<1>2. \A e \in Channels : Collects(e) \subseteq Collects(e)'
  BY <1>1 DEF Collects, Stored
<1>3. ASSUME NEW e \in PartSet, Owes(e)
      PROVE  Owes(e)' /\ bulk[e] \subseteq bulk'[e]
  <2>1. e # c /\ e \in Channels
    BY <1>1, <1>3 DEF Owes, Channels
  <2> QED
    BY <1>1, <1>3, <2>1 DEF Owes
<1> QED
  BY <1>1, <1>2, <1>3 DEF Grows, Collects, Stored

LEMMA GrowsOrderCommit ==
    ASSUME TypeOK, PartsFirst, OrderCommit
    PROVE  Grows
<1>1. PICK c, x, y : /\ ipc[c] = "recv" /\ ipc' = [ipc EXCEPT ![c] = x, ![Block] = y]
                     /\ UNCHANGED <<bulk, held, failed, rejected, index>>
  BY DEF OrderCommit
<1>2. ASSUME NEW e \in PartSet, Owes(e)
      PROVE  Owes(e)'
  <2>1. e # c /\ e \in Channels /\ e # Block
    BY <1>1, <1>2, Params DEF Owes, Channels
  <2> QED
    BY <1>1, <1>2, <2>1 DEF Owes, TypeOK, TypeIndexer
<1> QED
  BY <1>1, <1>2, GrowsQuiet

LEMMA GrowsSynDone ==
    ASSUME TypeOK, PartsFirst, NEW c \in Channels, SynDone(c)
    PROVE  Grows
<1>1. /\ c # Block /\ c \in PartSet /\ UNCHANGED <<held, failed, rejected, index>>
  BY DEF SynDone, Channels
<1>2. PICK x, y : ipc' = [ipc EXCEPT ![c] = x, ![Block] = y]
  BY DEF SynDone
<1>3. \A e \in Channels \ {c, Block} : ipc'[e] = ipc[e]
  BY <1>2 DEF TypeOK, TypeIndexer
<1>4. /\ \A e \in Channels \ {c} : bulk'[e] = bulk[e]
      /\ \/ bulk'[c] = {} /\ bulk[c] \subseteq Stored(c)
         \/ bulk'[c] = bulk[c] /\ failed[c]
  <2>1. CASE ipc[c] = "synDone"
    BY <2>1 DEF SynDone, PartsFirst, Consistent, TypeOK, TypeIndexer
  <2>2. CASE ipc[c] # "synDone"
    BY <2>2 DEF SynDone, PartsFirst, Consistent
  <2> QED
    BY <2>1, <2>2
<1>5. \A e \in Channels : Collects(e) \subseteq Collects(e)'
  BY <1>1, <1>4 DEF Collects, Stored
<1>6. ASSUME NEW e \in PartSet, Owes(e)
      PROVE  failed[e] \/ bulk[e] \subseteq Stored(e)' \/ (Owes(e)' /\ bulk[e] \subseteq bulk'[e])
  <2>1. e \in Channels /\ e # Block
    BY Params DEF Channels
  <2>2. CASE e = c
    BY <1>1, <1>4, <2>2 DEF Stored
  <2>3. CASE e # c
    BY <1>1, <1>3, <1>4, <1>6, <2>1, <2>3 DEF Owes
  <2> QED
    BY <2>2, <2>3
<1> QED
  BY <1>1, <1>5, <1>6 DEF Grows, Stored

LEMMA GrowsCommit ==
    ASSUME TypeOK, PartsFirst, NEW c \in Channels,
           (\E id \in bulk[c] : Apply(c, id)) \/ CommitDone(c) \/ CommitError(c)
    PROVE  Grows
<1>1. ASSUME NEW id \in bulk[c], Apply(c, id)
      PROVE  Grows
  <2>1. index' = [index EXCEPT ![c] = index[c] \cup {id}] /\ UNCHANGED <<ipc, bulk, held, failed, rejected>>
    BY <1>1 DEF Apply, bulkVars
  <2>2. \A e \in Channels : index[e] \subseteq index'[e]
    BY <2>1 DEF TypeOK, TypeIndexer
  <2> QED
    BY <2>1, <2>2 DEF Grows, Collects, Stored, Owes
<1>2. CASE CommitDone(c)
  <2>1. PICK R \in SUBSET (bulk[c] \ index[c]) :
               /\ index' = [index EXCEPT ![c] = index[c] \cup (bulk[c] \ R)]
               /\ rejected' = [rejected EXCEPT ![c] = rejected[c] \cup R]
               /\ failed' = failed
    BY <1>2, Committed
  <2>2. /\ index'[c] = index[c] \cup (bulk[c] \ R) /\ rejected'[c] = rejected[c] \cup R
        /\ \A e \in Channels \ {c} : index'[e] = index[e] /\ rejected'[e] = rejected[e]
    BY <2>1 DEF TypeOK, TypeIndexer
  <2>3. /\ \A e \in Channels \ {c} : ipc'[e] = ipc[e] /\ bulk'[e] = bulk[e] /\ held'[e] = held[e]
        /\ held[c] \subseteq bulk'[c] \cup held'[c]
    <3>1. CASE Answers(c)
      BY <1>2, <3>1 DEF CommitDone, TypeOK, TypeIndexer
    <3>2. CASE ~Answers(c)
      BY <1>2, <3>2 DEF CommitDone, TypeOK, TypeIndexer
    <3> QED
      BY <3>1, <3>2
  <2>4. \A e \in Channels : Collects(e) \subseteq Collects(e)'
    BY <2>2, <2>3 DEF Collects, Stored
  <2>5. \A e \in PartSet : e # c /\ Owes(e) => Owes(e)' /\ bulk[e] \subseteq bulk'[e]
    BY <2>3 DEF Owes, Channels
  <2>6. bulk[c] \subseteq Stored(c)' /\ \A e \in Channels : rejected[e] \subseteq rejected'[e]
    BY <2>2 DEF Stored
  <2>7. \A e \in Channels : index[e] \subseteq index'[e] /\ (failed[e] => failed'[e])
    BY <2>1, <2>2
  <2> QED
    BY <2>4, <2>5, <2>6, <2>7 DEF Grows
<1>3. CASE CommitError(c)
  <2>1. UNCHANGED <<bulk, held, index, rejected>> /\ \A e \in Channels : failed[e] => failed'[e]
    BY <1>3 DEF CommitError, TypeOK, TypeIndexer
  <2>2. ASSUME NEW e \in PartSet, Owes(e)
        PROVE  Owes(e)'
    <3>1. PICK x : /\ ipc' = [ipc EXCEPT ![c] = x]
                   /\ Answers(c) => x = "synFailed"
      BY <1>3 DEF CommitError
    <3>2. e \in Channels /\ e # Block
      BY Params DEF Channels
    <3>3. CASE e = c
      <4>1. Answers(c)
        BY <1>3, <2>2, <3>2, <3>3 DEF Owes, Answers, CommitError
      <4> QED
        BY <3>1, <3>3, <4>1 DEF Owes, TypeOK, TypeIndexer
    <3>4. CASE e # c
      BY <2>1, <2>2, <3>1, <3>2, <3>4 DEF Owes, TypeOK, TypeIndexer
    <3> QED
      BY <3>3, <3>4
  <2> QED
    BY <2>1, <2>2 DEF Grows, Collects, Stored
<1> QED
  BY <1>1, <1>2, <1>3

(* What a miner sends is received.                                          *)
LEMMA Sends ==
    ASSUME TypeOK, PartsFirst, NEW m \in Miners
    PROVE  /\ AddDoc(m) => Grows /\ \A d : d = Head(md[m]) => d.id \in Collects(d.ch)'
           /\ AddBlock(m) => Grows /\ mh[m] \in Collects(Block)'
<1>1. ASSUME AddDoc(m), NEW d, d = Head(md[m])
      PROVE  Grows /\ d.id \in Collects(d.ch)'
  <2>1. md[m] \in Seq(Doc) /\ md[m] # <<>> /\ index' = index /\ Receive(d.ch, d.id)
    BY <1>1 DEF AddDoc, TypeOK, TypeMiner
  <2>2. d.ch \in Channels /\ d.id \in IdsOf(d.ch)
    BY <1>1, <2>1, HeadTail, Params DEF Channels, IdsOf
  <2> QED
    BY <2>1, <2>2, GrowsReceive
<1>2. ASSUME AddBlock(m)
      PROVE  Grows /\ mh[m] \in Collects(Block)'
  <2>1. mh[m] \in IdsOf(Block) /\ Receive(Block, mh[m]) /\ index' = index
    BY <1>2 DEF AddBlock, TypeOK, TypeMiner, IdsOf
  <2> QED
    BY <2>1, GrowsReceive, Params
<1> QED
  BY <1>1, <1>2

LEMMA StepGrows ==
    ASSUME TypeOK, PartsFirst, Step \/ UNCHANGED vars
    PROVE  Grows
<1> USE DEF stopVars, minerVars, bulkVars, timerVars, procVars
<1>1. ASSUME UNCHANGED <<ipc, bulk, held, failed, rejected, index>>
      PROVE  Grows
  BY <1>1 DEF Grows, Collects, Stored, Owes
<1>2. CASE MainStep
  BY <1>1, <1>2 DEF MainStep, CallInsert, InsertBlock, CallStop, CloseChannels
<1>3. ASSUME NEW p \in Procs, StopStep(p)
      PROVE  Grows
  <2>1. CASE StopMiner(p)
    BY <1>1, <2>1 DEF StopMiner
  <2>2. CASE ForceCommit(p)
    <3>1. /\ ipc[Block] = "recv" /\ UNCHANGED <<bulk, held, failed, rejected, index>>
          /\ \E x : ipc' = [ipc EXCEPT ![Block] = x]
      BY <2>2 DEF ForceCommit, StartCommit
    <3> QED
      BY <3>1, GrowsIdle
  <2>3. CASE StopIndexer(p)
    <3>1. \E e : /\ ipc[e] = "recv" /\ UNCHANGED <<bulk, held, failed, rejected, index>>
                 /\ ipc' = [ipc EXCEPT ![e] = "stopped"]
      BY <2>3 DEF StopIndexer
    <3> QED
      BY <3>1, GrowsIdle
  <2> QED
    BY <1>3, <2>1, <2>2, <2>3 DEF StopStep
<1>4. ASSUME NEW m \in Miners, GetBlock(m) \/ MinerStep(m)
      PROVE  Grows
  <2>1. CASE GetBlock(m) \/ LoadAccToken(m) \/ StoreAccToken(m)
    BY <1>1, <2>1 DEF GetBlock, LoadAccToken, StoreAccToken
  <2> QED
    BY <1>4, <2>1, Sends DEF MinerStep
<1>5. ASSUME NEW c \in Channels, IndexerStep(c) \/ CommitError(c)
      PROVE  Grows
  BY <1>5, GrowsOrderCommit, GrowsSynDone, GrowsCommit DEF IndexerStep
<1>6. CASE TimerStep \/ Panic
  <2>1. CASE TimerSend
    <3>1. /\ ipc[Block] = "recv" /\ UNCHANGED <<bulk, held, failed, rejected, index>>
          /\ \E x : ipc' = [ipc EXCEPT ![Block] = x]
      BY <2>1 DEF TimerSend, StartCommit
    <3> QED
      BY <3>1, GrowsIdle
  <2> QED
    BY <1>1, <1>6, <2>1 DEF TimerStep, TimerTop, TimerWake, Panic
<1>7. CASE UNCHANGED vars
  BY <1>1, <1>7 DEF vars
<1> QED
  BY <1>2, <1>3, <1>4, <1>5, <1>6, <1>7 DEF Step

-----------------------------------------------------------------------------
(* What has been handed over is at a miner or collected.                    *)

LEMMA AnyDoc ==
    ASSUME NEW h \in Heights, NEW d \in Range(DocsOf[h])
    PROVE  d \in Doc /\ d.ch \in PartSet /\ d.ch \in Channels /\ d.ch # Block
<1>1. DocsOf[h] \in Seq(Doc)
  BY DocsAssumption
<1>2. d \in Doc
  BY <1>1, LenProperties DEF Range
<1> QED
  BY <1>2, Params DEF Doc, Channels

LEMMA RangeHead ==
    ASSUME NEW s \in Seq(Doc), s # <<>>
    PROVE  Head(s) \in Range(s) /\ Range(Tail(s)) \subseteq Range(s)
<1>1. /\ Len(s) \in Nat /\ DOMAIN s = 1..Len(s) /\ Len(s) > 0
      /\ Tail(s) \in Seq(Doc) /\ Len(Tail(s)) = Len(s) - 1 /\ Head(s) = s[1]
      /\ \A j \in 1..Len(s)-1 : Tail(s)[j] = s[j+1]
  BY LenProperties, HeadTailProperties, EmptySeq
<1>2. DOMAIN Tail(s) = 1..Len(s)-1
  BY <1>1, LenProperties
<1>3. 1 \in DOMAIN s /\ \A j \in 1..Len(s)-1 : j + 1 \in DOMAIN s
  BY <1>1
<1> QED
  BY <1>1, <1>2, <1>3 DEF Range

LEMMA SentInit == Init => SentInv
<1> SUFFICES ASSUME Init
             PROVE  SentInv
  OBVIOUS
<1>1. /\ \A m \in Miners : mpc[m] = "recv"
      /\ accToken = {} /\ sent = {}
  BY DEF Init
<1> QED
  BY <1>1 DEF SentInv, ClaimsAcc, AccKept, BlocksKept, DocsKept, MidBlock

LEMMA SentRestart ==
    ASSUME Restart
    PROVE  SentInv'
<1>1. /\ \A m \in Miners : mpc'[m] = "recv"
      /\ accToken' = {} /\ sent' = {}
  BY DEF Restart
<1> QED
  BY <1>1 DEF SentInv, ClaimsAcc, AccKept, BlocksKept, DocsKept, MidBlock

(* A step of one miner, or of none: what it leaves has been collected, or   *)
(* is about to be.                                                          *)
Leaves(m) ==
    /\ \A n \in Miners \ {m} : mpc'[n] = mpc[n] /\ mh'[n] = mh[n] /\ md'[n] = md[n]
    /\ mpc'[m] \in {"store", "claimed"} => Head(md'[m]).ch = AccTokens
    /\ MidBlock(m)' => /\ Range(md'[m]) \subseteq Range(DocsOf[mh'[m]])
                       /\ MidBlock(m) \/ mpc[m] = "get"
    /\ mpc[m] = "claimed" =>
          \A id : id = Head(md[m]).id => Claimed(id)' \/ id \in Collects(AccTokens)'
    /\ \A id \in accToken' \ accToken : Claimed(id)'
    /\ \A h \in sent' \ sent : mpc'[m] = "get" /\ mh'[m] = h
    /\ sent \subseteq sent'
    /\ mpc[m] = "get" =>
          /\ mh'[m] = mh[m]
          /\ mpc'[m] # "get" => MidBlock(m)' /\ md'[m] = DocsOf[mh[m]]
    /\ MidBlock(m) =>
          /\ mh'[m] = mh[m]
          /\ MidBlock(m)' \/ (AddBlock(m) /\ mh[m] \in Collects(Block)')
          /\ \A d \in Range(md[m]) :
                \/ MidBlock(m)' /\ d \in Range(md'[m])
                \/ d.id \in Collects(d.ch)'
                \/ d.ch = AccTokens /\ Claimed(d.id)'

LEMMA ClaimedStays ==
    ASSUME NEW m \in Miners, Leaves(m), NEW id, Claimed(id)
    PROVE  Claimed(id)' \/ id \in Collects(AccTokens)'
<1>1. PICK n \in Miners : mpc[n] = "claimed" /\ Head(md[n]).id = id
  BY DEF Claimed
<1>2. CASE n = m
  BY <1>1, <1>2 DEF Leaves
<1>3. CASE n # m
  BY <1>1, <1>3 DEF Leaves, Claimed
<1> QED
  BY <1>2, <1>3

LEMMA SentKept ==
    ASSUME TypeOK, SentInv, Grows, NEW m \in Miners, Leaves(m), TypeOK'
    PROVE  SentInv'
<1>1. ClaimsAcc'
  <2>1. ASSUME NEW n \in Miners
        PROVE  /\ mpc'[n] \in {"store", "claimed"} => Head(md'[n]).ch = AccTokens
               /\ MidBlock(n)' => Range(md'[n]) \subseteq Range(DocsOf[mh'[n]])
    <3>1. CASE n = m
      BY <3>1 DEF Leaves
    <3>2. CASE n # m
      BY <3>2 DEF Leaves, SentInv, ClaimsAcc, MidBlock
    <3> QED
      BY <3>1, <3>2
  <2> QED
    BY <2>1 DEF ClaimsAcc
<1>2. AccTokens \in Channels
  BY ChannelAssumption DEF Channels
<1>3. AccKept'
  <2>1. SUFFICES ASSUME NEW id \in accToken'
                 PROVE  id \in Collects(AccTokens)' \/ Claimed(id)'
    BY DEF AccKept
  <2>2. CASE id \in accToken
    BY <1>2, <2>2, ClaimedStays DEF Grows, SentInv, AccKept
  <2>3. CASE id \notin accToken
    BY <2>1, <2>3 DEF Leaves
  <2> QED
    BY <2>2, <2>3
<1>4. BlocksKept'
  <2>1. SUFFICES ASSUME NEW h \in sent'
                 PROVE  (\E n \in Miners : Busy(n)' /\ mh'[n] = h) \/ h \in Collects(Block)'
    BY DEF BlocksKept
  <2>2. CASE h \notin sent
    BY <2>1, <2>2 DEF Leaves, Busy
  <2>3. CASE h \in sent /\ h \in Collects(Block)
    BY <2>3, Params DEF Grows
  <2>4. CASE h \in sent /\ h \notin Collects(Block)
    <3>1. PICK n \in Miners : Busy(n) /\ mh[n] = h
      BY <2>4 DEF SentInv, BlocksKept
    <3>2. CASE n = m
      BY <3>1, <3>2 DEF Leaves, Busy
    <3>3. CASE n # m
      BY <3>1, <3>3 DEF Leaves, Busy, MidBlock
    <3> QED
      BY <3>2, <3>3
  <2> QED
    BY <2>2, <2>3, <2>4
<1>5. DocsKept'
  <2>1. SUFFICES ASSUME NEW h \in sent', NEW d \in Range(DocsOf[h])
                 PROVE  \/ \E n \in Miners : mpc'[n] = "get" /\ mh'[n] = h
                        \/ \E n \in Miners : MidBlock(n)' /\ mh'[n] = h /\ d \in Range(md'[n])
                        \/ d.id \in Collects(d.ch)'
                        \/ d.ch = AccTokens /\ Claimed(d.id)'
    BY DEF DocsKept
  <2>2. d.ch \in Channels
    BY AnyDoc DEF TypeOK, TypeMain
  <2>3. CASE h \notin sent
    BY <2>1, <2>3 DEF Leaves
  <2>4. ASSUME h \in sent, d.id \in Collects(d.ch)
        PROVE  d.id \in Collects(d.ch)'
    BY <2>2, <2>4 DEF Grows
  <2>5. ASSUME d.ch = AccTokens, Claimed(d.id)
        PROVE  d.id \in Collects(d.ch)' \/ Claimed(d.id)'
    <3>1. PICK c, id : c = d.ch /\ id = d.id
      OBVIOUS
    <3> QED
      BY <2>5, <3>1, ClaimedStays
  <2>6. ASSUME NEW n \in Miners, mpc[n] = "get", mh[n] = h
        PROVE  \/ mpc'[n] = "get" /\ mh'[n] = h
               \/ MidBlock(n)' /\ mh'[n] = h /\ d \in Range(md'[n])
    <3>1. CASE n = m
      BY <2>1, <2>6, <3>1 DEF Leaves
    <3>2. CASE n # m
      BY <2>6, <3>2 DEF Leaves
    <3> QED
      BY <3>1, <3>2
  <2>7. ASSUME NEW n \in Miners, MidBlock(n), mh[n] = h, d \in Range(md[n])
        PROVE  \/ MidBlock(n)' /\ mh'[n] = h /\ d \in Range(md'[n])
               \/ d.id \in Collects(d.ch)'
               \/ d.ch = AccTokens /\ Claimed(d.id)'
    <3>1. CASE n = m
      BY <2>7, <3>1 DEF Leaves
    <3>2. CASE n # m
      BY <2>7, <3>2 DEF Leaves, MidBlock
    <3> QED
      BY <3>1, <3>2
  <2> QED
    BY <2>3, <2>4, <2>5, <2>6, <2>7 DEF SentInv, DocsKept
<1> QED
  BY <1>1, <1>3, <1>4, <1>5 DEF SentInv

LEMMA LeavesQuiet ==
    ASSUME SentInv, NEW m \in Miners, UNCHANGED <<mh, md, accToken, sent>>,
           \A n \in Miners \ {m} : mpc'[n] = mpc[n],
           mpc'[m] = mpc[m] \/ (mpc[m] = "recv" /\ mpc'[m] = "stopped")
    PROVE  Leaves(m)
<1>1. mpc[m] = "claimed" => \A id : id = Head(md[m]).id => Claimed(id)'
  BY DEF Claimed
<1> QED
  BY <1>1 DEF Leaves, SentInv, ClaimsAcc, MidBlock

LEMMA LeavesMiner ==
    ASSUME TypeOK, PartsFirst, SentInv, NEW m \in Miners,
           InsertBlock(m) \/ GetBlock(m) \/ MinerStep(m)
    PROVE  Leaves(m)
<1>1. /\ mpc \in [Miners -> {"recv", "get", "send", "store", "claimed", "stopped"}]
      /\ mh \in [Miners -> Heights] /\ md \in [Miners -> Seq(Doc)]
      /\ \A n \in Miners : mpc[n] \in {"store", "claimed"} => md[n] # <<>>
  BY DEF TypeOK, TypeMiner
<1>2. /\ MidBlock(m) => Range(md[m]) \subseteq Range(DocsOf[mh[m]])
      /\ mpc[m] \in {"store", "claimed"} => Head(md[m]).ch = AccTokens
  BY DEF SentInv, ClaimsAcc
<1>3. CASE InsertBlock(m)
  <2>1. /\ mpc[m] = "recv" /\ mpc' = [mpc EXCEPT ![m] = "get"]
        /\ mh' = [mh EXCEPT ![m] = height] /\ sent' = sent \cup {height}
        /\ UNCHANGED <<md, accToken>>
    BY <1>3 DEF InsertBlock
  <2> QED
    BY <1>1, <2>1 DEF Leaves, MidBlock
<1>4. CASE GetBlock(m)
  <2>1. /\ mpc[m] = "get" /\ mpc' = [mpc EXCEPT ![m] = "send"]
        /\ md' = [md EXCEPT ![m] = DocsOf[mh[m]]] /\ UNCHANGED <<sent, mh, accToken>>
    BY <1>4 DEF GetBlock, mainVars
  <2> QED
    BY <1>1, <2>1 DEF Leaves, MidBlock
<1>5. CASE LoadAccToken(m)
  <2>1. /\ mpc[m] = "send" /\ md[m] # <<>> /\ Head(md[m]).ch = AccTokens
        /\ UNCHANGED <<sent, mh, accToken, index, rejected, bulk, held>>
    BY <1>5 DEF LoadAccToken, mainVars, bulkVars
  <2>2. CASE Head(md[m]).id \in accToken
    <3>1. md' = [md EXCEPT ![m] = Tail(md[m])] /\ mpc' = mpc
      BY <1>5, <2>2 DEF LoadAccToken
    <3>2. ASSUME NEW d \in Range(md[m])
          PROVE  \/ d \in Range(md'[m])
                 \/ d.id \in Collects(d.ch)'
                 \/ d.ch = AccTokens /\ Claimed(d.id)'
      <4>1. CASE d = Head(md[m])
        <5>1. d.id \in Collects(AccTokens) \/ Claimed(d.id)
          BY <2>2, <4>1 DEF SentInv, AccKept
        <5>2. Claimed(d.id) => Claimed(d.id)'
          <6>1. PICK id : id = d.id
            OBVIOUS
          <6>2. \A n \in Miners : mpc[n] = "claimed" => n # m
            BY <2>1
          <6>3. Claimed(id) => Claimed(id)'
            BY <1>1, <3>1, <6>2 DEF Claimed
          <6> QED
            BY <6>1, <6>3
        <5>3. d.ch = AccTokens /\ \A c : Collects(c)' = Collects(c)
          BY <2>1, <4>1 DEF Collects, Stored
        <5> QED
          BY <5>1, <5>2, <5>3
      <4>2. CASE d # Head(md[m])
        BY <1>1, <2>1, <3>1, <4>2, HeadTail
      <4> QED
        BY <4>1, <4>2
    <3>3. Range(Tail(md[m])) \subseteq Range(md[m])
      BY <1>1, <2>1, RangeHead
    <3>4. Range(md'[m]) \subseteq Range(DocsOf[mh[m]])
      BY <1>1, <1>2, <2>1, <3>1, <3>3 DEF MidBlock
    <3>5. MidBlock(m)' /\ mpc[m] = "send"
      BY <2>1, <3>1 DEF MidBlock
    <3> QED
      BY <1>1, <2>1, <3>1, <3>2, <3>4, <3>5 DEF Leaves, MidBlock
  <2>3. CASE Head(md[m]).id \notin accToken
    <3>1. mpc' = [mpc EXCEPT ![m] = "store"] /\ md' = md
      BY <1>5, <2>3 DEF LoadAccToken
    <3> QED
      BY <1>1, <1>2, <2>1, <3>1 DEF Leaves, MidBlock
  <2> QED
    BY <2>2, <2>3
<1>6. CASE StoreAccToken(m)
  <2>1. /\ mpc[m] = "store" /\ mpc' = [mpc EXCEPT ![m] = "claimed"]
        /\ accToken' = accToken \cup {Head(md[m]).id} /\ UNCHANGED <<sent, mh, md>>
    BY <1>6 DEF StoreAccToken, mainVars
  <2>2. \A id : id = Head(md[m]).id => Claimed(id)'
    BY <1>1, <2>1 DEF Claimed
  <2> QED
    BY <1>1, <1>2, <2>1, <2>2 DEF Leaves, MidBlock
<1>7. CASE AddDoc(m)
  <2>1. /\ mpc[m] \in {"send", "claimed"} /\ md[m] # <<>> /\ UNCHANGED <<sent, mh, accToken>>
        /\ md' = [md EXCEPT ![m] = Tail(md[m])] /\ mpc' = [mpc EXCEPT ![m] = "send"]
    BY <1>7 DEF AddDoc, mainVars
  <2>2. \A d : d = Head(md[m]) => d.id \in Collects(d.ch)'
    BY <1>7, Sends
  <2>3. ASSUME NEW d \in Range(md[m])
        PROVE  d \in Range(md'[m]) \/ d.id \in Collects(d.ch)'
    BY <1>1, <2>1, <2>2, <2>3, HeadTail
  <2>4. ASSUME mpc[m] = "claimed", NEW id, id = Head(md[m]).id
        PROVE  id \in Collects(AccTokens)'
    <3>1. PICK d : d = Head(md[m])
      OBVIOUS
    <3>2. d.ch = AccTokens /\ d.id = id /\ d.id \in Collects(d.ch)'
      BY <1>2, <2>2, <2>4, <3>1
    <3> QED
      BY <3>2 DEF Collects, Stored
  <2>5. Range(md'[m]) \subseteq Range(DocsOf[mh[m]])
    <3>1. Range(Tail(md[m])) \subseteq Range(md[m])
      BY <1>1, <2>1, RangeHead
    <3>2. MidBlock(m)
      BY <2>1 DEF MidBlock
    <3> QED
      BY <1>1, <1>2, <2>1, <3>1, <3>2
  <2>6. MidBlock(m)'
    BY <1>1, <2>1 DEF MidBlock
  <2> QED
    BY <1>1, <2>1, <2>3, <2>4, <2>5, <2>6 DEF Leaves, MidBlock
<1>8. CASE AddBlock(m)
  <2>1. /\ mpc[m] = "send" /\ md[m] = <<>> /\ UNCHANGED <<sent, mh, md, accToken>>
        /\ mpc' = [mpc EXCEPT ![m] = "recv"]
    BY <1>8 DEF AddBlock, mainVars
  <2>2. mh[m] \in Collects(Block)'
    BY <1>8, Sends
  <2>3. Range(md[m]) = {}
    BY <2>1 DEF Range
  <2> QED
    BY <1>1, <1>8, <2>1, <2>2, <2>3 DEF Leaves, MidBlock
<1> QED
  BY <1>3, <1>4, <1>5, <1>6, <1>7, <1>8 DEF MinerStep

LEMMA StepLeaves ==
    ASSUME TypeOK, PartsFirst, SentInv, StopInv, Step \/ UNCHANGED vars
    PROVE  \E m \in Miners : Leaves(m)
<1> USE DEF mainVars, stopVars, minerVars, bulkVars, timerVars, procVars
<1>1. ASSUME UNCHANGED <<mpc, mh, md, accToken, sent>>
      PROVE  \E m \in Miners : Leaves(m)
  <2>1. 0 \in Miners
    BY Params DEF Miners
  <2> QED
    BY <1>1, <2>1, LeavesQuiet
<1>2. ASSUME NEW m \in Miners, InsertBlock(m) \/ GetBlock(m) \/ MinerStep(m)
      PROVE  \E n \in Miners : Leaves(n)
  BY <1>2, LeavesMiner
<1>3. CASE MainStep
  BY <1>1, <1>2, <1>3 DEF MainStep, CallInsert, CallStop, CloseChannels
<1>4. ASSUME NEW p \in Procs, StopStep(p)
      PROVE  \E m \in Miners : Leaves(m)
  <2>1. CASE StopMiner(p)
    <3>1. /\ mpc[si[p]] = "recv" /\ mpc' = [mpc EXCEPT ![si[p]] = "stopped"]
          /\ stage[p] = "miners" /\ UNCHANGED <<mh, md, accToken, sent>>
      BY <2>1 DEF StopMiner
    <3>2. si[p] \in Miners
      BY <3>1 DEF StopInv, StopsInOrder
    <3> QED
      BY <3>1, <3>2, LeavesQuiet DEF TypeOK, TypeMiner
  <2> QED
    BY <1>1, <1>4, <2>1 DEF StopStep, ForceCommit, StopIndexer
<1>5. ASSUME NEW c \in Channels, IndexerStep(c) \/ CommitError(c)
      PROVE  \E m \in Miners : Leaves(m)
  BY <1>1, <1>5 DEF IndexerStep, OrderCommit, SynDone, Apply, CommitDone, CommitError
<1>6. CASE TimerStep \/ Panic
  BY <1>1, <1>6 DEF TimerStep, TimerTop, TimerWake, TimerSend, Panic
<1>7. CASE UNCHANGED vars
  BY <1>1, <1>7 DEF vars
<1> QED
  BY <1>2, <1>3, <1>4, <1>5, <1>6, <1>7 DEF Step

LEMMA SentNext ==
    ASSUME TypeOK, PartsFirst, StopInv, SentInv, [Next]_vars
    PROVE  SentInv'
<1>1. TypeOK'
  BY TypeNext
<1>2. CASE Step \/ UNCHANGED vars
  BY <1>1, <1>2, StepGrows, StepLeaves, SentKept
<1>3. CASE Restart
  BY <1>3, SentRestart
<1> QED
  BY <1>2, <1>3 DEF Next, Ended

(* The inductive invariant behind AllIndexed.                               *)
THEOREM SentInvariant == Spec => [](TypeOK /\ PartsFirst /\ StopInv /\ SentInv)
<1>1. Init => TypeOK /\ PartsFirst /\ StopInv /\ SentInv
  BY TypeInit, PartsInit, StopsInit, DrainedInit, SentInit DEF StopInv
<1>2. TypeOK /\ PartsFirst /\ StopInv /\ SentInv /\ [Next]_vars =>
         (TypeOK /\ PartsFirst /\ StopInv /\ SentInv)'
  BY TypeNext, PartsNext, StopsNext, DrainedNext, SentNext DEF StopInv
<1> QED
  BY <1>1, <1>2, PTL DEF Spec

(* When StopBulkChannel returns to the check, every height handed over is   *)
(* in the database with every document of its block, but for the documents  *)
(* that the database has refused: the forced commit of the blocks flushes   *)
(* whatever any indexer still holds.                                        *)
THEOREM ChecksAllIndexed == Spec => []AllIndexed
<1>1. ASSUME TypeOK, PartsFirst, StopInv, SentInv, mainpc = "done", NEW h \in sent
      PROVE  h \in Stored(Block) /\ \A d \in Range(DocsOf[h]) : d.id \in Stored(d.ch)
  <2>1. /\ \A m \in Miners : mpc[m] = "stopped"
        /\ \A c \in Channels : bulk[c] = {} /\ held[c] = {}
    BY <1>1 DEF StopInv, StopsInOrder, StopsOnce, Drained, PartsFirst, Consistent
  <2>2. /\ \A m \in Miners : ~MidBlock(m) /\ ~Busy(m) /\ mpc[m] # "get"
        /\ \A id : ~Claimed(id)
    BY <2>1 DEF MidBlock, Busy, Claimed
  <2>3. h \in Stored(Block)
    BY <1>1, <2>1, <2>2, Params DEF SentInv, BlocksKept, Collects, Stored
  <2>4. ASSUME NEW d \in Range(DocsOf[h])
        PROVE  d.id \in Stored(d.ch)
    <3>1. d.ch \in Channels
      BY <1>1, AnyDoc DEF TypeOK, TypeMain
    <3>2. d.id \in Collects(d.ch)
      BY <1>1, <2>2 DEF SentInv, DocsKept
    <3> QED
      BY <2>1, <3>1, <3>2 DEF Collects, Stored
  <2> QED
    BY <2>3, <2>4
<1>2. TypeOK /\ PartsFirst /\ StopInv /\ SentInv => AllIndexed
  BY <1>1 DEF AllIndexed
<1> QED
  BY <1>2, SentInvariant, PTL

-----------------------------------------------------------------------------
(* What the cache of account tokens leaves out is still to come.            *)

(* What a step that brings no block does at the indexer of the blocks.      *)
AtBlock ==
    /\ bulk'[Block] \cup held'[Block] \subseteq bulk[Block] \cup held[Block]
    /\ \/ index'[Block] = index[Block]
       \/ ipc[Block] = "commit" /\ index'[Block] \subseteq index[Block] \cup bulk[Block]
    /\ \/ ipc'[Block] \notin {"order", "await", "commit"}
       \/ ipc'[Block] = "order" /\ ordered' = 0
       \/ ipc'[Block] = ipc[Block] /\ bulk'[Block] = bulk[Block] /\ ordered' = ordered
       \/ ipc[Block] = "await" /\ ipc'[Block] # "order" /\ bulk'[Block] = bulk[Block]
       \/ OrderCommit

LEMMA StepAtBlock ==
    ASSUME TypeOK, PartsFirst, Step \/ UNCHANGED vars,
           \A m \in Miners : ~AddBlock(m)
    PROVE  AtBlock
<1> USE Params DEF stopVars, minerVars, bulkVars, timerVars, procVars
<1>1. ASSUME UNCHANGED <<ipc, bulk, held, ordered, index>>
      PROVE  AtBlock
  BY <1>1 DEF AtBlock
<1>2. CASE MainStep
  BY <1>1, <1>2 DEF MainStep, CallInsert, InsertBlock, CallStop, CloseChannels
<1>3. ASSUME NEW x, ipc' = [ipc EXCEPT ![Block] = x], x \in {"recv", "order"}, ipc[Block] = "recv",
             UNCHANGED <<bulk, held, ordered, index>>
      PROVE  AtBlock
  <2>1. ipc'[Block] = x
    BY <1>3 DEF TypeOK, TypeIndexer
  <2>2. ordered = 0
    BY <1>3 DEF PartsFirst, AnswersCounted
  <2> QED
    BY <1>3, <2>1, <2>2 DEF AtBlock
<1>4. ASSUME NEW p \in Procs, StopStep(p)
      PROVE  AtBlock
  <2>1. CASE StopMiner(p)
    BY <1>1, <2>1 DEF StopMiner
  <2>2. CASE ForceCommit(p)
    BY <1>3, <2>2 DEF ForceCommit, StartCommit, NothingToCommit
  <2>3. CASE StopIndexer(p)
    <3>1. PICK e : /\ ipc' = [ipc EXCEPT ![e] = "stopped"]
                   /\ UNCHANGED <<bulk, held, ordered, index>>
      BY <2>3 DEF StopIndexer
    <3>2. ipc'[Block] = ipc[Block] \/ ipc'[Block] = "stopped"
      BY <3>1 DEF TypeOK, TypeIndexer
    <3> QED
      BY <3>1, <3>2 DEF AtBlock
  <2> QED
    BY <1>4, <2>1, <2>2, <2>3 DEF StopStep
<1>5. ASSUME NEW m \in Miners, GetBlock(m) \/ MinerStep(m)
      PROVE  AtBlock
  <2>1. CASE GetBlock(m) \/ LoadAccToken(m) \/ StoreAccToken(m)
    BY <1>1, <2>1 DEF GetBlock, LoadAccToken, StoreAccToken
  <2>2. CASE AddDoc(m)
    <3>1. PICK d \in Doc : Receive(d.ch, d.id) /\ index' = index
      BY <2>2, HeadTail DEF AddDoc, TypeOK, TypeMiner
    <3>2. d.ch \in Channels /\ d.ch # Block /\ d.id \in IdsOf(d.ch)
      BY DEF Doc, Channels, IdsOf
    <3>3. /\ ordered' = ordered /\ ipc'[Block] = ipc[Block]
          /\ bulk'[Block] = bulk[Block] /\ held'[Block] = held[Block]
      BY <3>1, <3>2, Received
    <3> QED
      BY <3>1, <3>3 DEF AtBlock
  <2> QED
    BY <1>5, <2>1, <2>2 DEF MinerStep
<1>6. CASE OrderCommit
  BY <1>6 DEF AtBlock, OrderCommit
<1>7. ASSUME NEW c \in Channels, SynDone(c)
      PROVE  AtBlock
  <2>1. PICK x, y : /\ ipc' = [ipc EXCEPT ![c] = x, ![Block] = y] /\ y \in {"commit", "await"}
                    /\ c # Block /\ ipc[Block] = "await" /\ UNCHANGED <<held, index>>
    BY <1>7 DEF SynDone
  <2>2. bulk'[Block] = bulk[Block]
    <3>1. bulk' = bulk \/ bulk' = [bulk EXCEPT ![c] = {}]
      BY <1>7 DEF SynDone
    <3> QED
      BY <2>1, <3>1 DEF TypeOK, TypeIndexer
  <2>3. ipc'[Block] = y
    BY <2>1 DEF TypeOK, TypeIndexer
  <2> QED
    BY <2>1, <2>2, <2>3 DEF AtBlock
<1>8. ASSUME NEW c \in Channels, NEW id \in bulk[c], Apply(c, id)
      PROVE  AtBlock
  <2>1. /\ ipc[c] = "commit" /\ index' = [index EXCEPT ![c] = index[c] \cup {id}]
        /\ UNCHANGED <<ipc, bulk, held, ordered>>
    BY <1>8 DEF Apply
  <2> QED
    BY <1>8, <2>1 DEF AtBlock, TypeOK, TypeIndexer
<1>9. ASSUME NEW c \in Channels, CommitDone(c)
      PROVE  AtBlock
  <2>1. /\ ipc[c] = "commit"
        /\ c # Block => ordered' = ordered
    BY <1>9 DEF CommitDone
  <2>2. /\ index'[c] \subseteq index[c] \cup bulk[c]
        /\ \A e \in Channels \ {c} : index'[e] = index[e]
    BY <1>9, Committed DEF TypeOK, TypeIndexer
  <2>3. \A e \in Channels \ {c} : ipc'[e] = ipc[e] /\ bulk'[e] = bulk[e] /\ held'[e] = held[e]
    BY <1>9 DEF CommitDone, TypeOK, TypeIndexer
  <2>6. c = Block => ipc'[c] = "recv" /\ bulk'[c] = held[c] /\ held'[c] = {}
    BY <1>9 DEF CommitDone, Answers, TypeOK, TypeIndexer
  <2>4. CASE c = Block
    BY <2>1, <2>2, <2>4, <2>6 DEF AtBlock
  <2>5. CASE c # Block
    BY <2>1, <2>2, <2>3, <2>5 DEF AtBlock
  <2> QED
    BY <2>4, <2>5
<1>10. ASSUME NEW c \in Channels, CommitError(c)
       PROVE  AtBlock
  <2>1. UNCHANGED <<bulk, held, ordered, index>>
    BY <1>10 DEF CommitError
  <2>2. ipc'[Block] = ipc[Block] \/ ipc'[Block] = "stop"
    BY <1>10 DEF CommitError, Answers, TypeOK, TypeIndexer
  <2> QED
    BY <2>1, <2>2 DEF AtBlock
<1>11. CASE TimerStep \/ Panic
  <2>1. CASE TimerSend
    BY <1>3, <2>1 DEF TimerSend, StartCommit, NothingToCommit
  <2> QED
    BY <1>1, <1>11, <2>1 DEF TimerStep, TimerTop, TimerWake, Panic
<1>12. CASE UNCHANGED vars
  BY <1>1, <1>12 DEF vars
<1> QED
  BY <1>2, <1>4, <1>5, <1>6, <1>7, <1>8, <1>9, <1>10, <1>11, <1>12 DEF Step, IndexerStep

(* A block comes to its indexer only while that one is idle.                *)
LEMMA BlockComes ==
    ASSUME TypeOK, PartsFirst, NEW m \in Miners, AddBlock(m)
    PROVE  /\ md[m] = <<>> /\ MidBlock(m) /\ UNCHANGED <<mh, index>>
           /\ mpc' = [mpc EXCEPT ![m] = "recv"]
           /\ UNCHANGED mainVars
           /\ bulk'[Block] \cup held'[Block] = bulk[Block] \cup held[Block] \cup {mh[m]}
           /\ ipc'[Block] \in {"recv", "order"} /\ ordered' = 0
<1>1. /\ mpc[m] = "send" /\ md[m] = <<>> /\ UNCHANGED <<mh, index>> /\ UNCHANGED mainVars
      /\ mpc' = [mpc EXCEPT ![m] = "recv"] /\ Receive(Block, mh[m])
  BY DEF AddBlock
<1>2. mh[m] \in IdsOf(Block)
  BY DEF TypeOK, TypeMiner, IdsOf
<1>3. /\ ipc[Block] = "recv" /\ ordered' = ordered
      /\ bulk'[Block] \cup held'[Block] = bulk[Block] \cup held[Block] \cup {mh[m]}
      /\ ipc'[Block] \in {"recv", "order"}
  BY <1>1, <1>2, Received, Params
<1>4. ordered = 0
  BY <1>3 DEF PartsFirst, AnswersCounted
<1> QED
  BY <1>1, <1>3, <1>4 DEF MidBlock

LEMMA HandedAddBlock ==
    ASSUME TypeOK, PartsFirst, HandedOnce, NEW m \in Miners, AddBlock(m)
    PROVE  HandedOnce'
<1> USE BlockComes DEF mainVars
<1>1. Busy(m) /\ ~Busy(m)' /\ \A n \in Miners \ {m} : Busy(n)' <=> Busy(n)
  BY DEF Busy, MidBlock, TypeOK, TypeMiner
<1>2. \A n \in Miners : Busy(n)' =>
         /\ mh[n] \in sent \ (bulk[Block] \cup held[Block]) /\ mh[n] # mh[m]
         /\ mh[n] \in index[Block] => mh[n] \in redone
  BY <1>1 DEF HandedOnce
<1>3. \A n \in Miners : Busy(n)' =>
         /\ mh'[n] \in sent' \ (bulk'[Block] \cup held'[Block])
         /\ mh'[n] \in index'[Block] => mh'[n] \in redone'
  BY <1>2
<1>4. bulk'[Block] \cup held'[Block] \subseteq sent'
  BY <1>1 DEF HandedOnce
<1>5. \A n, o \in Miners : Busy(n)' /\ Busy(o)' /\ mh'[n] = mh'[o] => n = o
  BY <1>1 DEF HandedOnce
<1> QED
  BY <1>3, <1>4, <1>5 DEF HandedOnce

LEMMA HandedInsertBlock ==
    ASSUME TypeOK, HandedOnce, NEW m \in Miners, InsertBlock(m)
    PROVE  HandedOnce'
<1>1. /\ mainpc = "insert" /\ mpc[m] = "recv" /\ mpc' = [mpc EXCEPT ![m] = "get"]
      /\ mh' = [mh EXCEPT ![m] = height] /\ sent' = sent \cup {height}
      /\ UNCHANGED <<from, low, redone, index, bulk, held>>
      /\ \/ height = from /\ mainpc' = "call" /\ height' = height
         \/ height # from /\ height' = height - 1 /\ mainpc' = mainpc
  BY DEF InsertBlock, Advance, bulkVars
<1>2. /\ from \in Nat /\ height \in Nat /\ low = from /\ from <= height /\ sent \subseteq Nat
      /\ \A h \in sent : h > height
      /\ from..height \cap index[Block] \subseteq redone
  BY <1>1, Params DEF HandedOnce, TypeOK, TypeMain, Heights
<1>3. mainpc' = "call" => \A h \in sent' : h >= low'
  <2>1. \A h \in sent \cup {height} : h >= height
    <3>1. \A h \in sent : h \in Nat /\ (h > height => h >= height)
      BY <1>2
    <3>2. height >= height
      BY <1>2
    <3> QED
      BY <1>2, <3>1, <3>2
  <2>2. mainpc' = "call" => low' = height
    BY <1>1, <1>2
  <2> QED
    BY <1>1, <2>1, <2>2
<1>4. mainpc' = "insert" => /\ low' = from' /\ \A h \in sent' : h > height'
                            /\ from'..height' \cap index'[Block] \subseteq redone'
  <2>1. height - 1 < height /\ \A h \in Nat : h > height => h > height - 1
    BY <1>2
  <2>2. from..(height-1) \subseteq from..height
    BY <1>2
  <2> QED
    BY <1>1, <1>2, <2>1, <2>2
<1>5. /\ height \notin sent /\ height \notin bulk[Block] \cup held[Block]
      /\ height \in index[Block] => height \in redone
  <2>1. height \in from..height /\ ~(height > height)
    BY <1>2
  <2> QED
    BY <1>2, <2>1 DEF HandedOnce
<1>6. /\ mh'[m] = height
      /\ \A n \in Miners \ {m} : (Busy(n)' <=> Busy(n)) /\ mh'[n] = mh[n]
  BY <1>1 DEF Busy, MidBlock, TypeOK, TypeMiner
<1>7. bulk'[Block] \cup held'[Block] \subseteq sent'
  BY <1>1 DEF HandedOnce
<1>8. ASSUME NEW n \in Miners, Busy(n)'
      PROVE  /\ mh'[n] \in sent' \ (bulk'[Block] \cup held'[Block])
             /\ mh'[n] \in index'[Block] => mh'[n] \in redone'
  <2>1. CASE n = m
    BY <1>1, <1>5, <1>6, <2>1
  <2>2. CASE n # m
    BY <1>1, <1>6, <1>8, <2>2 DEF HandedOnce
  <2> QED
    BY <2>1, <2>2
<1>9. ASSUME NEW n \in Miners, NEW o \in Miners, Busy(n)', Busy(o)', mh'[n] = mh'[o]
      PROVE  n = o
  <2>1. \A q \in Miners \ {m} : Busy(q)' => mh'[q] # height
    BY <1>5, <1>6 DEF HandedOnce
  <2> QED
    BY <1>6, <1>9, <2>1 DEF HandedOnce
<1> QED
  BY <1>3, <1>4, <1>7, <1>8, <1>9 DEF HandedOnce

LEMMA HandedCallInsert ==
    ASSUME TypeOK, HandedOnce,
           NEW lo \in Heights, NEW hi \in Heights, CallInsert(lo, hi)
    PROVE  HandedOnce'
<1>1. /\ mainpc = "call" /\ lo <= hi /\ hi < low
      /\ redone' = redone \cup (lo..hi \cap index[Block])
      /\ from' = lo /\ height' = hi /\ low' = lo /\ mainpc' = "insert"
      /\ UNCHANGED <<sent, mpc, mh, index, bulk, held>>
  BY DEF CallInsert, minerVars, bulkVars
<1>2. \A h \in sent : h > hi
  <2>1. \A h \in sent : h >= low /\ h \in Nat
    BY <1>1, Params DEF HandedOnce, TypeOK, TypeMain, Heights
  <2>2. low \in Nat /\ hi \in Nat
    BY Params DEF TypeOK, TypeMain, Heights
  <2> QED
    BY <1>1, <2>1, <2>2
<1>3. \A m \in Miners : Busy(m)' <=> Busy(m)
  BY <1>1 DEF Busy, MidBlock
<1>4. from'..height' \cap index'[Block] \subseteq redone'
  BY <1>1
<1> QED
  BY <1>1, <1>2, <1>3, <1>4 DEF HandedOnce

LEMMA HandedKept ==
    ASSUME TypeOK, HandedOnce, AtBlock, UNCHANGED <<from, height, low, sent, redone>>,
           mainpc' = mainpc \/ mainpc' \in {"stop", "done"},
           \A m \in Miners : Busy(m)' => Busy(m) /\ mh'[m] = mh[m]
    PROVE  HandedOnce'
<1>1. index'[Block] \subseteq index[Block] \cup bulk[Block]
  BY DEF AtBlock
<1>2. mainpc' = "insert" => from..height \cap index'[Block] \subseteq redone
  <2>1. ASSUME mainpc = "insert", NEW h \in from..height
        PROVE  h \notin bulk[Block]
    <3>1. h \in Nat /\ height \in Nat /\ ~(h > height)
      BY Params DEF TypeOK, TypeMain, Heights
    <3> QED
      BY <2>1, <3>1 DEF HandedOnce
  <2> QED
    BY <1>1, <2>1 DEF HandedOnce
<1>3. bulk'[Block] \cup held'[Block] \subseteq sent'
  BY DEF AtBlock, HandedOnce
<1>4. ASSUME NEW m \in Miners, Busy(m)'
      PROVE  /\ mh'[m] \in sent' \ (bulk'[Block] \cup held'[Block])
             /\ mh'[m] \in index'[Block] => mh'[m] \in redone'
  <2>1. /\ Busy(m) /\ mh'[m] = mh[m] /\ mh[m] \in sent \ (bulk[Block] \cup held[Block])
        /\ mh[m] \in index[Block] => mh[m] \in redone
    BY <1>4 DEF HandedOnce
  <2> QED
    BY <1>1, <2>1 DEF AtBlock
<1> QED
  BY <1>2, <1>3, <1>4 DEF HandedOnce

LEMMA HandedNext ==
    ASSUME TypeOK, PartsFirst, StopInv, HandedOnce, Step \/ UNCHANGED vars
    PROVE  HandedOnce'
<1> USE DEF mainVars, stopVars, minerVars, timerVars, procVars
<1>1. CASE \E m \in Miners : AddBlock(m)
  BY <1>1, HandedAddBlock
<1>2. CASE \E m \in Miners : InsertBlock(m)
  BY <1>2, HandedInsertBlock
<1>3. CASE \E lo, hi \in Heights : CallInsert(lo, hi)
  BY <1>3, HandedCallInsert
<1>4. ASSUME \A m \in Miners : ~AddBlock(m),
             UNCHANGED <<from, height, low, sent, redone>>,
             mainpc' = mainpc \/ mainpc' \in {"stop", "done"},
             mh' = mh,
             \/ mpc' = mpc
             \/ \E m, x : mpc' = [mpc EXCEPT ![m] = x] /\ (x = "stopped" \/ mpc[m] \notin {"recv", "stopped"})
      PROVE  HandedOnce'
  <2>1. \A m \in Miners : Busy(m)' => Busy(m)
    BY <1>4 DEF Busy, MidBlock, TypeOK, TypeMiner
  <2> QED
    BY <1>4, <2>1, StepAtBlock, HandedKept
<1>5. CASE (\A m \in Miners : ~AddBlock(m)) /\ (CallStop \/ CloseChannels)
  BY <1>4, <1>5 DEF CallStop, CloseChannels
<1>6. ASSUME NEW p \in Procs, StopStep(p), \A m \in Miners : ~AddBlock(m)
      PROVE  HandedOnce'
  BY <1>4, <1>6 DEF StopStep, StopMiner, ForceCommit, StopIndexer
<1>7. ASSUME NEW m \in Miners, GetBlock(m) \/ MinerStep(m), \A n \in Miners : ~AddBlock(n)
      PROVE  HandedOnce'
  <2>1. UNCHANGED <<from, height, low, sent, redone, mainpc, mh>>
    BY <1>7 DEF MinerStep, GetBlock, LoadAccToken, StoreAccToken, AddDoc
  <2>2. \/ mpc' = mpc
        \/ \E x : mpc' = [mpc EXCEPT ![m] = x] /\ mpc[m] \notin {"recv", "stopped"}
    BY <1>7 DEF MinerStep, GetBlock, LoadAccToken, StoreAccToken, AddDoc
  <2> QED
    BY <1>4, <1>7, <2>1, <2>2
<1>8. ASSUME NEW c \in Channels, IndexerStep(c) \/ CommitError(c), \A m \in Miners : ~AddBlock(m)
      PROVE  HandedOnce'
  BY <1>4, <1>8 DEF IndexerStep, OrderCommit, SynDone, Apply, CommitDone, CommitError
<1>9. CASE (\A m \in Miners : ~AddBlock(m)) /\ (TimerStep \/ Panic)
  BY <1>4, <1>9 DEF TimerStep, TimerTop, TimerWake, TimerSend, Panic
<1>10. CASE (\A m \in Miners : ~AddBlock(m)) /\ UNCHANGED vars
  BY <1>4, <1>10 DEF vars
<1> QED
  BY <1>1, <1>2, <1>3, <1>5, <1>6, <1>7, <1>8, <1>9, <1>10 DEF Step, MainStep

-----------------------------------------------------------------------------
LEMMA AccDoc ==
    ASSUME NEW h \in Heights, NEW d \in AccDocs(h)
    PROVE  /\ d \in Doc /\ d.ch = AccTokens /\ d.ch \in PartSet /\ d.ch \in Channels
           /\ \E i \in 1..Len(Parts) : d.ch = Parts[i]
<1>1. d \in Range(DocsOf[h]) /\ d.ch = AccTokens
  BY DEF AccDocs
<1>2. DOMAIN Parts = 1..Len(Parts)
  BY ChannelAssumption, LenProperties
<1> QED
  BY <1>1, <1>2, AnyDoc DEF PartSet

LEMMA FlushedStays ==
    ASSUME Grows, NEW d, d.ch \in PartSet, d.ch \in Channels, Flushed(d)
    PROVE  Flushed(d)'
BY DEF Grows, Flushed, Failed, Stored

(* An account token that has arrived, or that a miner is about to send,     *)
(* stays so.                                                                *)
LEMMA AccStays ==
    ASSUME Grows, NEW m \in Miners, Leaves(m), NEW d, d.ch = AccTokens, d.ch \in Channels,
           Arrived(d) \/ Claimed(d.id)
    PROVE  Arrived(d)' \/ Claimed(d.id)'
<1>1. CASE Arrived(d)
  BY <1>1 DEF Grows, Arrived, Failed, Collects, Stored
<1>2. CASE Claimed(d.id)
  <2>1. PICK id : id = d.id
    OBVIOUS
  <2>2. Claimed(id)' \/ id \in Collects(AccTokens)'
    BY <1>2, <2>1, ClaimedStays
  <2> QED
    BY <2>1, <2>2 DEF Arrived, Collects, Stored, Failed
<1> QED
  BY <1>1, <1>2

LEMMA AccArrivedNext ==
    ASSUME TypeOK, PartsFirst, StopInv, SentInv, AccArrived, Step \/ UNCHANGED vars
    PROVE  AccArrived'
<1>1. Grows /\ TypeOK'
  BY StepGrows, TypeNext DEF Next
<1>2. PICK m \in Miners : Leaves(m)
  BY StepLeaves
<1>3. ASSUME NEW n \in Miners, MidBlock(n)', NEW d \in AccDocs(mh'[n])
      PROVE  Arrived(d)' \/ d \in Range(md'[n]) \/ Claimed(d.id)'
  <2>1. d.ch = AccTokens /\ d.ch \in Channels
    BY <1>1, AccDoc DEF TypeOK, TypeMiner
  <2>2. CASE MidBlock(n)
    <3>1. mh'[n] = mh[n]
      BY <1>2, <2>2 DEF Leaves
    <3>2. Arrived(d) \/ d \in Range(md[n]) \/ Claimed(d.id)
      BY <1>3, <2>2, <3>1 DEF AccArrived
    <3>3. CASE d \in Range(md[n])
      <4>1. CASE n # m
        BY <1>2, <3>3, <4>1 DEF Leaves
      <4>2. CASE n = m
        <5>1. d \in Range(md'[m]) \/ d.id \in Collects(d.ch)' \/ Claimed(d.id)'
          BY <1>2, <2>2, <3>3, <4>2 DEF Leaves
        <5>2. d.id \in Collects(d.ch)' => Arrived(d)'
          BY DEF Collects, Stored, Arrived, Failed
        <5> QED
          BY <4>2, <5>1, <5>2
      <4> QED
        BY <4>1, <4>2
    <3> QED
      BY <1>1, <1>2, <2>1, <3>2, <3>3, AccStays
  <2>3. CASE ~MidBlock(n)
    <3>1. n = m
      BY <1>2, <1>3, <2>3 DEF Leaves, MidBlock
    <3>2. mpc[n] = "get" /\ mpc'[n] # "get"
      BY <1>2, <1>3, <2>3, <3>1 DEF Leaves, MidBlock
    <3>3. mh'[n] = mh[n] /\ md'[n] = DocsOf[mh[n]]
      BY <1>2, <3>1, <3>2 DEF Leaves
    <3> QED
      BY <1>3, <3>3 DEF AccDocs
  <2> QED
    BY <2>2, <2>3
<1>4. ASSUME NEW h \in bulk'[Block] \cup held'[Block], NEW d \in AccDocs(h)
      PROVE  Arrived(d)' \/ Claimed(d.id)'
  <2>1. ASSUME NEW n \in Miners, AddBlock(n), h = mh[n]
        PROVE  Arrived(d) \/ Claimed(d.id)
    <3>1. MidBlock(n) /\ Range(md[n]) = {}
      BY <2>1, BlockComes DEF Range
    <3> QED
      BY <1>4, <2>1, <3>1 DEF AccArrived
  <2>2. h \in bulk[Block] \cup held[Block] \/ \E n \in Miners : AddBlock(n) /\ h = mh[n]
    <3>1. CASE \E n \in Miners : AddBlock(n)
      BY <1>4, <3>1, BlockComes
    <3>2. CASE \A n \in Miners : ~AddBlock(n)
      BY <1>4, <3>2, StepAtBlock DEF AtBlock
    <3> QED
      BY <3>1, <3>2
  <2>3. Arrived(d) \/ Claimed(d.id)
    BY <1>4, <2>1, <2>2 DEF AccArrived
  <2>4. h \in Heights
    BY <1>1, <1>4, Params DEF TypeOK, TypeIndexer, IdsOf
  <2> QED
    BY <1>1, <1>2, <1>4, <2>3, <2>4, AccDoc, AccStays
<1> QED
  BY <1>3, <1>4 DEF AccArrived, AccDocs

(* A miner whose block has not come to its indexer is still at it.          *)
LEMMA LateStays ==
    ASSUME NEW m \in Miners, Leaves(m), ~AddBlock(m), NEW d, Late(d)
    PROVE  Late(d)'
<1>1. PICK n \in Miners : MidBlock(n) /\ d \in AccDocs(mh[n])
  BY DEF Late
<1>2. mh'[n] = mh[n]
  BY <1>1 DEF Leaves
<1>3. MidBlock(n)'
  <2>1. CASE n = m
    BY <1>1, <2>1 DEF Leaves
  <2>2. CASE n # m
    BY <1>1, <2>2 DEF Leaves, MidBlock
  <2> QED
    BY <2>1, <2>2
<1>4. d \in AccDocs(mh'[n])
  BY <1>1, <1>2
<1> QED
  BY <1>3, <1>4 DEF Late, AccDocs

LEMMA AccOrderedNext ==
    ASSUME TypeOK, PartsFirst, StopInv, SentInv, AccInv, Step \/ UNCHANGED vars
    PROVE  AccOrdered'
<1>1. CASE \E m \in Miners : AddBlock(m)
  <2>1. ipc'[Block] \in {"recv", "order"} /\ ordered' = 0
    BY <1>1, BlockComes
  <2>2. 1..ordered' = {}
    BY <2>1
  <2> QED
    BY <2>1, <2>2 DEF AccOrdered
<1>2. ASSUME AtBlock, \A m \in Miners : ~AddBlock(m)
      PROVE  AccOrdered'
  <2>1. Grows /\ \E m \in Miners : Leaves(m)
    BY StepGrows, StepLeaves
  <2>2. ASSUME NEW h \in Heights, NEW d \in AccDocs(h), Flushed(d) \/ Late(d)
        PROVE  Flushed(d)' \/ Late(d)'
    BY <1>2, <2>1, <2>2, AccDoc, FlushedStays, LateStays DEF AccInv
  <2>3. bulk[Block] \subseteq Heights
    BY Collected
  <2>4. CASE ipc'[Block] \notin {"order", "await", "commit"}
    BY <2>4 DEF AccOrdered
  <2>5. CASE ipc'[Block] = "order" /\ ordered' = 0
    <3>1. 1..ordered' = {}
      BY <2>5
    <3> QED
      BY <2>5, <3>1 DEF AccOrdered
  <2>6. CASE ipc'[Block] = ipc[Block] /\ bulk'[Block] = bulk[Block] /\ ordered' = ordered
    BY <2>2, <2>3, <2>6 DEF AccInv, AccOrdered, AccDocs
  <2>7. CASE ipc[Block] = "await" /\ ipc'[Block] # "order" /\ bulk'[Block] = bulk[Block]
    BY <2>2, <2>3, <2>7 DEF AccInv, AccOrdered, AccDocs
  <2>8. CASE OrderCommit
    <3>1. /\ ipc[Block] = "order" /\ ordered' = ordered + 1
          /\ UNCHANGED <<mpc, mh, md, bulk, held, failed, rejected, index>>
          /\ ipc[Parts[ordered + 1]] = "recv"
      BY <2>8 DEF OrderCommit, minerVars
    <3>2. PICK x \in {"synDone", "commit"}, y \in {"order", "await"} :
            /\ ipc' = [ipc EXCEPT ![Parts[ordered + 1]] = x, ![Block] = y]
            /\ y = IF ordered + 1 = Len(Parts) THEN "await" ELSE "order"
      BY <2>8 DEF OrderCommit, NothingToCommit
    <3>3. ordered \in Nat /\ Len(Parts) \in Nat /\ ordered < Len(Parts) /\ DOMAIN Parts = 1..Len(Parts)
      BY <3>1, ChannelAssumption, LenProperties DEF PartsFirst, AnswersCounted, TypeOK, TypeIndexer
    <3>4. ipc'[Block] = y
      BY <3>2, Params DEF TypeOK, TypeIndexer
    <3>5. ASSUME NEW h \in bulk[Block], NEW d \in AccDocs(h), NEW i \in 1..ordered+1, d.ch = Parts[i]
          PROVE  Flushed(d)' \/ Late(d)'
      <4>1. CASE i \in 1..ordered
        BY <2>2, <2>3, <3>1, <3>5, <4>1 DEF AccInv, AccOrdered
      <4>2. CASE i = ordered + 1
        <5>1. d \in Doc /\ d.ch \in PartSet /\ d.ch \in Channels /\ d.ch = AccTokens /\ d.ch # Block
          BY <2>3, <3>5, AccDoc, Params
        <5>2. held[d.ch] = {} /\ ipc'[d.ch] = x
          BY <3>1, <3>2, <3>5, <4>2, <5>1 DEF PartsFirst, Consistent, TypeOK, TypeIndexer
        <5>3. Owes(d.ch)'
          BY <3>1, <5>2 DEF Owes
        <5>4. CASE Arrived(d)
          BY <3>1, <5>2, <5>3, <5>4 DEF Arrived, Flushed, Failed
        <5>5. CASE Claimed(d.id)
          <6>1. PICK n \in Miners : mpc[n] = "claimed" /\ Head(md[n]).id = d.id
            BY <5>5 DEF Claimed
          <6>2. /\ md[n] \in Seq(Doc) /\ md[n] # <<>> /\ Head(md[n]).ch = AccTokens
                /\ MidBlock(n) /\ Range(md[n]) \subseteq Range(DocsOf[mh[n]])
            BY <6>1 DEF TypeOK, TypeMiner, SentInv, ClaimsAcc, MidBlock
          <6>3. Head(md[n]) = d
            <7>1. Head(md[n]) \in Doc
              BY <6>2, HeadTail
            <7> QED
              BY <5>1, <6>1, <6>2, <7>1 DEF Doc
          <6>4. d \in AccDocs(mh[n])
            BY <5>1, <6>2, <6>3, RangeHead DEF AccDocs
          <6>5. Late(d)
            BY <6>2, <6>4 DEF Late
          <6> QED
            BY <2>2, <2>3, <3>5, <6>5
        <5> QED
          BY <3>5, <5>4, <5>5 DEF AccInv, AccArrived
      <4> QED
        BY <3>3, <4>1, <4>2
    <3>6. ipc'[Block] = "order" =>
            \A h \in bulk'[Block] : \A i \in 1..ordered' :
               \A d \in AccDocs(h) : d.ch = Parts[i] => Flushed(d)' \/ Late(d)'
      BY <3>1, <3>5
    <3>7. ASSUME ipc'[Block] \in {"await", "commit"},
                 NEW h \in bulk'[Block], NEW d \in AccDocs(h)
          PROVE  Flushed(d)' \/ Late(d)'
      <4>1. Len(Parts) = ordered + 1
        BY <3>2, <3>4, <3>7
      <4>2. PICK i \in 1..Len(Parts) : d.ch = Parts[i]
        BY <2>3, <3>1, <3>7, AccDoc
      <4> QED
        BY <3>1, <3>5, <3>7, <4>1, <4>2
    <3> QED
      BY <3>6, <3>7 DEF AccOrdered, AccDocs
  <2> QED
    BY <1>2, <2>4, <2>5, <2>6, <2>7, <2>8 DEF AtBlock
<1> QED
  BY <1>1, <1>2, StepAtBlock

LEMMA RedoneStays ==
    ASSUME Step \/ UNCHANGED vars
    PROVE  redone \subseteq redone'
<1> USE DEF mainVars
<1>1. ASSUME NEW m \in Miners, GetBlock(m) \/ MinerStep(m)
      PROVE  redone' = redone
  BY <1>1 DEF MinerStep, GetBlock, LoadAccToken, StoreAccToken, AddDoc, AddBlock
<1>2. ASSUME NEW c \in Channels, IndexerStep(c) \/ CommitError(c)
      PROVE  redone' = redone
  BY <1>2 DEF IndexerStep, OrderCommit, SynDone, Apply, CommitDone, CommitError
<1>3. ASSUME NEW p \in Procs, StopStep(p)
      PROVE  redone' = redone
  BY <1>3 DEF StopStep, StopMiner, ForceCommit, StopIndexer
<1>4. CASE MainStep
  BY <1>4 DEF MainStep, CallInsert, InsertBlock, CallStop, CloseChannels
<1>5. CASE TimerStep \/ Panic \/ UNCHANGED vars
  BY <1>5 DEF TimerStep, TimerTop, TimerWake, TimerSend, Panic, vars
<1> QED
  BY <1>1, <1>2, <1>3, <1>4, <1>5 DEF Step

LEMMA RecoverableNext ==
    ASSUME TypeOK, PartsFirst, StopInv, SentInv, AccInv, AccRecoverable, Step \/ UNCHANGED vars
    PROVE  AccRecoverable'
<1> DEFINE Left == (Heights \ index[Block]) \cup redone
<1>1. Grows /\ TypeOK'
  BY StepGrows, TypeNext DEF Next
<1>2. index[Block] \subseteq Heights /\ index'[Block] \subseteq Heights /\ bulk[Block] \subseteq Heights
  BY <1>1, Params DEF TypeOK, TypeIndexer, IdsOf
<1>3. ASSUME NEW h \in Heights, NEW d \in AccDocs(h), d.id \in index[AccTokens] \/ Failed(d)
      PROVE  d.id \in index'[AccTokens] \/ Failed(d)'
  BY <1>1, <1>3, AccDoc DEF Grows, Failed
<1>4. redone \subseteq redone'
  BY RedoneStays
<1>5. CASE index'[Block] = index[Block]
  <2>1. Left \subseteq Left'
    BY <1>4, <1>5
  <2>2. ASSUME NEW h \in index'[Block], NEW d \in AccDocs(h)
        PROVE  \/ d.id \in index'[AccTokens] \/ Failed(d)'
               \/ \E g \in Left' : d \in AccDocs(g)
    BY <1>2, <1>3, <1>5, <2>1, <2>2 DEF AccRecoverable
  <2> QED
    BY <2>2 DEF AccRecoverable, AccDocs
<1>6. ASSUME ipc[Block] = "commit", index'[Block] \subseteq index[Block] \cup bulk[Block]
      PROVE  AccRecoverable'
  \* Every account token of a block of the bulk is in the index, or that of
  \* a block still at a miner.
  <2>1. ASSUME NEW h \in bulk[Block], NEW d \in AccDocs(h)
        PROVE  \/ d.id \in index'[AccTokens] \/ Failed(d)'
               \/ \E g \in Left' : d \in AccDocs(g)
    <3>1. d.ch = AccTokens /\ d.ch \in PartSet
      BY <1>2, <2>1, AccDoc
    <3>2. Flushed(d) \/ Late(d)
      BY <1>6, <2>1 DEF AccInv, AccOrdered
    <3>3. CASE Flushed(d)
      <4>1. ordered = acks /\ Cardinality(Owing) = ordered - acks
        BY <1>6 DEF PartsFirst, AnswersCounted
      <4>2. Cardinality(Owing) = 0
        BY <4>1 DEF TypeOK, TypeIndexer
      <4>3. Owing = {}
        BY <4>2, PartSetFinite, FS_Subset, FS_EmptySet DEF Owing
      <4>4. d.id \in index[AccTokens] \/ Failed(d)
        BY <3>1, <3>3, <4>3 DEF Owing, Flushed
      <4> QED
        BY <1>2, <1>3, <2>1, <4>4
    <3>4. CASE Late(d)
      <4>1. PICK m \in Miners : MidBlock(m) /\ d \in AccDocs(mh[m])
        BY <3>4 DEF Late
      <4>2. /\ mh[m] \in Heights /\ mh[m] \notin bulk[Block]
            /\ mh[m] \in index[Block] => mh[m] \in redone
        BY <4>1 DEF AccInv, HandedOnce, Busy, TypeOK, TypeMiner
      <4>3. mh[m] \in Left'
        BY <1>4, <1>6, <4>2
      <4> QED
        BY <4>1, <4>3
    <3> QED
      BY <3>2, <3>3, <3>4
  <2>2. ASSUME NEW h \in index[Block], NEW d \in AccDocs(h)
        PROVE  \/ d.id \in index'[AccTokens] \/ Failed(d)'
               \/ \E g \in Left' : d \in AccDocs(g)
    <3>1. CASE d.id \in index[AccTokens] \/ Failed(d)
      BY <1>2, <1>3, <2>2, <3>1
    <3>2. ASSUME NEW g \in Left, d \in AccDocs(g)
          PROVE  \/ d.id \in index'[AccTokens] \/ Failed(d)'
                 \/ \E k \in Left' : d \in AccDocs(k)
      <4>1. CASE g \in bulk[Block]
        BY <2>1, <3>2, <4>1
      <4>2. CASE g \notin bulk[Block]
        <5>1. g \in Left'
          BY <1>4, <1>6, <3>2, <4>2
        <5> QED
          BY <3>2, <5>1
      <4> QED
        BY <4>1, <4>2
    <3> QED
      BY <2>2, <3>1, <3>2 DEF AccRecoverable
  <2> QED
    BY <1>6, <2>1, <2>2 DEF AccRecoverable, AccDocs
<1>7. CASE \E m \in Miners : AddBlock(m)
  BY <1>5, <1>7, BlockComes
<1> QED
  BY <1>5, <1>6, <1>7, StepAtBlock DEF AtBlock

LEMMA AccInit == Init => AccInv /\ AccRecoverable
<1> SUFFICES ASSUME Init
             PROVE  AccInv /\ AccRecoverable
  OBVIOUS
<1>1. /\ bulk[Block] = {} /\ held[Block] = {} /\ index[Block] = {} /\ sent = {}
      /\ ipc[Block] = "recv" /\ mainpc = "call"
      /\ \A m \in Miners : ~MidBlock(m) /\ ~Busy(m)
  BY Params DEF Init, Empty, MidBlock, Busy
<1> QED
  BY <1>1 DEF AccInv, HandedOnce, AccArrived, AccOrdered, AccRecoverable

LEMMA AccRestart ==
    ASSUME AccRecoverable, Restart
    PROVE  AccInv' /\ AccRecoverable'
<1>1. /\ bulk'[Block] = {} /\ held'[Block] = {} /\ sent' = {}
      /\ ipc'[Block] = "recv" /\ mainpc' = "call" /\ UNCHANGED <<index, failed, rejected, redone>>
      /\ \A m \in Miners : ~MidBlock(m)' /\ ~Busy(m)'
  BY Params DEF Restart, Empty, MidBlock, Busy
<1>2. AccRecoverable'
  BY <1>1 DEF AccRecoverable, AccDocs, Failed
<1> QED
  BY <1>1, <1>2 DEF AccInv, HandedOnce, AccArrived, AccOrdered

(* An account token of a block in the database is there as well, or is one  *)
(* of a block that a later check will send, or that was handed over though  *)
(* it was indexed, by a check that lost a page of its scroll or was told to *)
(* --fix: apart from that the cache never makes it forgotten, whenever the  *)
(* program is stopped and started again, unless a bulk request of account   *)
(* tokens fails or the database refuses the document (getAccTokens).        *)
THEOREM TokensRecoverable == Spec => []AccRecoverable
<1> DEFINE Inv == TypeOK /\ PartsFirst /\ StopInv /\ SentInv /\ AccInv /\ AccRecoverable
<1>1. Init => Inv
  BY TypeInit, PartsInit, StopsInit, DrainedInit, SentInit, AccInit DEF StopInv
<1>2. Inv /\ [Next]_vars => Inv'
  <2> SUFFICES ASSUME Inv, [Next]_vars
               PROVE  Inv'
    OBVIOUS
  <2>1. (TypeOK /\ PartsFirst /\ StopInv /\ SentInv)'
    BY TypeNext, PartsNext, StopsNext, DrainedNext, SentNext DEF StopInv
  <2>2. CASE Step \/ UNCHANGED vars
    <3>1. AccInv'
      BY <2>2, HandedNext, AccArrivedNext, AccOrderedNext DEF AccInv
    <3> QED
      BY <2>1, <2>2, <3>1, RecoverableNext
  <2>3. CASE Restart
    BY <2>1, <2>3, AccRestart
  <2> QED
    BY <2>2, <2>3 DEF Next, Ended
<1>3. Inv => AccRecoverable
  OBVIOUS
<1> HIDE DEF Inv
<1> QED
  BY <1>1, <1>2, <1>3, PTL DEF Spec
=============================================================================
