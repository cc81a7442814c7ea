---------------------------- MODULE OnSyncProofs ----------------------------
(* Following the node (OnSync), and the program as a whole (ModeAll), for   *)
(* every length of the chain, every number of reorganisations,              *)
(* announcements and restarts.                                              *)
EXTENDS ModeAll, WellFoundedInduction, SequenceTheorems, TLAPS

(* The largest element of a set of heights.                                 *)
LEMMA MaxOfHeights ==
    ASSUME NEW n \in Nat, NEW S \in SUBSET (0..n), S # {}
    PROVE  Max(S) \in S /\ \A x \in S : Max(S) >= x
<1> DEFINE T == {n - x : x \in S}
<1>1. T \subseteq Nat /\ T # {}
  <2>1. \A x \in S : n - x \in Nat
    OBVIOUS
  <2>2. PICK x \in S : TRUE
    OBVIOUS
  <2>3. n - x \in T
    OBVIOUS
  <2> QED
    BY <2>1, <2>3
<1>2. PICK t \in T : \A y \in T : ~ (<<y, t>> \in OpToRel(<, Nat))
  <2> HIDE DEF T
  <2> QED
    BY <1>1, NatLessThanWellFounded, WFMin
<1>3. \A y \in T : ~ (y < t)
  BY <1>1, <1>2 DEF OpToRel
<1>4. PICK x \in S : t = n - x
  BY <1>2
<1>5. \A y \in S : x >= y
  <2>1. SUFFICES ASSUME NEW y \in S PROVE x >= y
    OBVIOUS
  <2>2. n - y \in T
    OBVIOUS
  <2>3. ~ (n - y < n - x)
    BY <1>3, <1>4, <2>2
  <2> QED
    BY <2>3
<1> QED
  BY <1>4, <1>5 DEF Max


LEMMA Parameters ==
    /\ MaxHeight \in Nat \ {0} /\ MaxFork \in Nat /\ MaxQueue \in Nat /\ MaxFaults \in Nat
    /\ MaxUint \in Nat /\ MaxUint > MaxHeight + 1
    /\ MaxOther \in Nat /\ Heights = 0..MaxHeight /\ Forks = 0..MaxFork
BY BoundAssumption DEF Heights, Forks

(* The best block of the database (GetBestBlockFromDb).                     *)
LEMMA BestOfDb ==
    ASSUME shown \subseteq Heights \X Forks, shown # {}
    PROVE  /\ DbBest \in Heights
           /\ \E b \in shown : b[1] = DbBest
           /\ \A b \in shown : b[1] <= DbBest
<1> DEFINE S == {b[1] : b \in shown}
<1>1. S \in SUBSET (0..MaxHeight) /\ S # {}
  BY DEF Heights
<1>2. Max(S) \in S /\ \A x \in S : Max(S) >= x
  <2> HIDE DEF S
  <2> QED
    BY <1>1, MaxOfHeights, Parameters
<1>3. DbBest = Max(S)
  BY DEF DbBest
<1> QED
  BY <1>1, <1>2, <1>3, Parameters

(* The height before the best block, or none.                               *)
LEMMA StartOfStream ==
    ASSUME best \in Heights, NEW h \in StartHeights
    PROVE  h \in Heights \cup {MaxUint} /\ (h # MaxUint => h = best - 1 /\ best > 0)
BY Parameters DEF StartHeights

(* The queue of a stream.                                                   *)
LEMMA QueueTail ==
    ASSUME queue \in Seq(Heights), queue # <<>>
    PROVE  /\ Head(queue) \in Heights /\ Head(queue) = queue[1] /\ 1 \in DOMAIN queue
           /\ Tail(queue) \in Seq(Heights) /\ Len(Tail(queue)) = Len(queue) - 1
           /\ \A i \in DOMAIN Tail(queue) :
                 i \in Nat /\ i + 1 \in DOMAIN queue /\ Tail(queue)[i] = queue[i+1]
BY HeadTailProperties, LenProperties, EmptySeq

LEMMA QueueAppend ==
    ASSUME queue \in Seq(Heights), NEW h \in Heights
    PROVE  /\ Append(queue, h) \in Seq(Heights) /\ Len(Append(queue, h)) = Len(queue) + 1
           /\ \A i \in DOMAIN Append(queue, h) :
                 \/ i \in DOMAIN queue /\ Append(queue, h)[i] = queue[i]
                 \/ i = Len(queue) + 1 /\ Append(queue, h)[i] = h
           /\ \A i \in DOMAIN queue : i \in Nat /\ i < Len(queue) + 1
BY AppendProperties, LenProperties

-----------------------------------------------------------------------------
(* Types.                                                                   *)

LEMMA TypeInit == Init => TypeOK
<1> SUFFICES ASSUME Init PROVE TypeOK
  OBVIOUS
<1>1. best \in Heights
  BY Parameters DEF Init
<1> QED
  BY <1>1, StartOfStream, Parameters DEF Init, TypeOK

(* The heights, as numbers.                                                 *)
LEMMA Numbers ==
    ASSUME TypeOK
    PROVE  /\ {best, newHeight, cblock, mh} \subseteq 0..MaxHeight
           /\ lastHeight \in Nat /\ base \in Nat /\ next \in 0..MaxHeight+1
           /\ \A h \in {lastHeight, base} : h = MaxUint \/ h \in 0..MaxHeight
           /\ MaxHeight \in Nat \ {0} /\ MaxUint \in Nat /\ MaxUint > MaxHeight + 1
BY Parameters DEF TypeOK

LEMMA TypeNext == TypeOK /\ [Next]_vars => TypeOK'
<1> SUFFICES ASSUME TypeOK, [Next]_vars PROVE TypeOK'
  OBVIOUS
<1> USE DEF nodeVars, streamVars, syncVars, minerVars, dbVars, history,
        shownVars, otherVars
<1>0. /\ shown' \subseteq Heights \X Forks /\ shownTxs' \subseteq Heights \X Forks
      /\ writing' \subseteq Heights \X Forks /\ others' \in 0..MaxOther
  <2>1. CASE UNCHANGED <<shown, shownTxs, writing, others>>
    BY <2>1 DEF TypeOK
  <2>2. ASSUME NEW h \in Heights, OtherTx(h), UNCHANGED <<shown, shownTxs>> PROVE <1>0!:
    <3>1. <<h, chain[h]>> \in Heights \X Forks
      BY DEF TypeOK
    <3>2. others' \in 0..MaxOther
      BY <2>2, Parameters DEF OtherTx, TypeOK
    <3> QED
      BY <2>2, <3>1, <3>2 DEF OtherTx, TypeOK
  <2>3. CASE OtherBlock /\ UNCHANGED <<shown, shownTxs>>
    BY <2>3 DEF OtherBlock, TypeOK
  <2>4. CASE Refresh
    BY <2>4 DEF Refresh, TypeOK
  <2> QED
    BY <2>1, <2>2, <2>3, <2>4 DEF Next, Alone, OtherStep, vars
<1>1. CASE NodeExtend
  <2>1. best + 1 \in Heights /\ best' = best + 1
    BY <1>0, <1>1, Parameters DEF NodeExtend, TypeOK
  <2>2. chain' \in [Heights -> Forks]
    BY <1>0, <1>1 DEF NodeExtend, TypeOK
  <2>3. queue' \in Seq(Heights) /\ Len(queue') <= MaxQueue
    <3>1. CASE queue' = queue
      BY <3>1 DEF TypeOK
    <3>2. CASE Len(queue) < MaxQueue /\ queue' = Append(queue, best + 1)
      BY <2>1, <3>2, QueueAppend, LenProperties, Parameters DEF TypeOK
    <3> QED
      BY <1>1, <3>1, <3>2 DEF NodeExtend
  <2> QED
    BY <1>0, <1>1, <2>1, <2>2, <2>3 DEF NodeExtend, TypeOK
<1>2. CASE \E h \in Heights : NodeRewind(h)
  <2>1. best' \in Heights /\ fork' \in Forks
    BY <1>2, Parameters DEF NodeRewind, TypeOK
  <2> QED
    BY <1>0, <1>2, <2>1 DEF NodeRewind, TypeOK
<1>3. CASE StreamBreaks \/ OpenStream \/ RecvError \/ RecvNil \/ DiscardNil
  <2>1. queue' = queue \/ queue' = <<>>
    BY <1>3 DEF StreamBreaks, OpenStream, RecvError, RecvNil, DiscardNil
  <2>2. queue' \in Seq(Heights) /\ Len(queue') <= MaxQueue
    <3>1. queue \in Seq(Heights) /\ Len(queue) <= MaxQueue
      BY DEF TypeOK
    <3>2. <<>> \in Seq(Heights) /\ Len(<<>>) = 0
      OBVIOUS
    <3>3. CASE queue' = queue
      BY <3>1, <3>3
    <3>4. CASE queue' = <<>>
      BY <3>2, <3>4, Parameters
    <3> QED
      BY <2>1, <3>3, <3>4
  <2>3. CASE StreamBreaks
    BY <1>0, <2>2, <2>3 DEF StreamBreaks, TypeOK
  <2>4. CASE OpenStream
    BY <1>0, <2>2, <2>4 DEF OpenStream, TypeOK
  <2>5. CASE RecvError \/ RecvNil \/ DiscardNil
    BY <1>0, <2>2, <2>5 DEF RecvError, RecvNil, DiscardNil, TypeOK
  <2> QED
    BY <1>3, <2>3, <2>4, <2>5
<1>4. CASE Recv
  <2>1. /\ queue' \in Seq(Heights) /\ Len(queue') <= MaxQueue
        /\ newHeight' \in Heights /\ newHeight' = Head(queue)
    BY <1>0, <1>4, QueueTail, LenProperties, Parameters DEF Recv, TypeOK
  <2>2. next' \in 0..MaxHeight+1
    <3>1. next' = next \/ (~(Head(queue) < lastHeight) /\ next' = lastHeight + 1)
      BY <1>4 DEF Recv
    <3> QED
      BY <2>1, <3>1, Numbers, Parameters
  <2>3. /\ pc' \in {"delete", "send"}
        /\ UNCHANGED <<nodeVars, live, lastHeight, cblock, isNil, drain, base, minerVars,
                       dbVars, history, crashes>>
    BY <1>4 DEF Recv
  <2> QED
    BY <1>0, <2>1, <2>2, <2>3 DEF TypeOK
<1>5. CASE DeleteBlocks
  <2>1. blocks' \subseteq blocks /\ dbError' \in BOOLEAN
    BY <1>0, <1>5 DEF DeleteBlocks, Fails, TypeOK
  <2>2. undone' \subseteq Heights
    BY <1>0, <1>5 DEF DeleteBlocks, TypeOK
  <2>3. isNil' \in BOOLEAN /\ unseen' \subseteq Heights \X Forks
    BY <1>0, <1>5 DEF DeleteBlocks, TypeOK
  <2>4. raced' \subseteq Heights
    <3>1. \A h : Fresh(h) => h \in Heights
      BY DEF Fresh, InFlight, TypeOK
    <3> QED
      BY <1>0, <1>5, <3>1 DEF DeleteBlocks, TypeOK
  <2> QED
    BY <1>0, <1>5, <2>1, <2>2, <2>3, <2>4 DEF DeleteBlocks, TypeOK
<1>6. CASE DeleteTxs
  <2>1. txs' \subseteq txs /\ dbError' \in BOOLEAN
    BY <1>0, <1>6 DEF DeleteTxs, Fails, TypeOK
  <2> QED
    BY <1>0, <1>6, <2>1, Parameters DEF DeleteTxs, TypeOK
<1>7. CASE SendGap \/ SendNew
  <2>1. next' \in 0..MaxHeight+1 /\ mh' \in Heights
    BY <1>7, Numbers, Parameters DEF SendGap, SendNew, Hand, GapFrom
  <2> QED
    BY <1>0, <1>7, <2>1 DEF SendGap, SendNew, Hand, GapFrom, TypeOK
<1>8. CASE AskDb
  BY <1>0, <1>8 DEF AskDb, TypeOK
<1>9. CASE SleepGrown \/ WakeUp
  <2>1. shown \subseteq Heights \X Forks /\ shown # {}
    BY <1>0, <1>9 DEF SleepGrown, WakeUp, DbHas, Caught, TypeOK
  <2>2. DbBest \in Heights
    BY <2>1, BestOfDb
  <2>3. CASE SleepGrown
    BY <1>0, <2>2, <2>3 DEF SleepGrown, TypeOK
  <2>4. CASE WakeUp
    BY <1>0, <2>2, <2>4 DEF WakeUp, TypeOK
  <2> QED
    BY <1>9, <2>3, <2>4
<1>10. CASE Discard
  <2>1. queue' \in Seq(Heights) /\ Len(queue') <= MaxQueue
    <3>1. CASE queue' = queue
      BY <3>1 DEF TypeOK
    <3>2. CASE queue # <<>> /\ queue' = Tail(queue)
      BY <3>2, QueueTail, LenProperties, Parameters DEF TypeOK
    <3> QED
      BY <1>10, <3>1, <3>2 DEF Discard
  <2> QED
    BY <1>0, <1>10, <2>1 DEF Discard, TypeOK
<1>11. CASE MinerGet
  BY <1>0, <1>11 DEF MinerGet, TypeOK
<1>12. CASE MinerAdd
  <2>1. <<mh, mv>> \in Heights \X Forks
    BY DEF TypeOK
  <2>2. /\ blocks' \subseteq blocks \cup {<<mh, mv>>} /\ txs' \subseteq txs \cup {<<mh, mv>>}
        /\ dbError' \in BOOLEAN /\ mpc' \in {"block", "recv"}
    BY <1>0, <1>12 DEF MinerAdd, Fails, TypeOK
  <2> QED
    BY <1>0, <1>12, <2>1, <2>2 DEF MinerAdd, TypeOK
<1>13. CASE (\E h \in Heights : OtherTx(h)) \/ OtherBlock \/ Refresh
  <2>1. ASSUME NEW h \in Heights, OtherTx(h) PROVE TypeOK'
    <3>1. <<h, chain[h]>> \in Heights \X Forks
      BY DEF TypeOK
    <3>2. txs' \subseteq Heights \X Forks /\ raced' \subseteq Heights
      BY <2>1, <3>1 DEF OtherTx, TypeOK
    <3> QED
      BY <1>0, <2>1, <3>2 DEF OtherTx, TypeOK
  <2>2. CASE OtherBlock
    <3>1. blocks' \subseteq Heights \X Forks /\ unseen' \subseteq Heights \X Forks
      BY <2>2 DEF OtherBlock, TypeOK
    <3>2. holes' \subseteq Heights
      BY <2>2 DEF OtherBlock, TypeOK
    <3> QED
      BY <1>0, <2>2, <3>1, <3>2 DEF OtherBlock, TypeOK
  <2>3. CASE Refresh
    BY <1>0, <2>3 DEF Refresh, TypeOK
  <2> QED
    BY <1>13, <2>1, <2>2, <2>3
<1>14. CASE Restart
  <2>1. {lastHeight', base'} \subseteq Heights \cup {MaxUint}
    BY <1>0, <1>14, StartOfStream DEF Restart, TypeOK
  <2>2. crashes' \in Nat /\ crashes' <= MaxFaults
    BY <1>0, <1>14, Parameters DEF Restart, Faults, TypeOK
  <2>3. queue' \in Seq(Heights) /\ Len(queue') <= MaxQueue
    BY <1>14, Parameters DEF Restart
  <2>4. 0 \in Heights /\ 0 \in Forks /\ 0 \in 0..MaxHeight+1
    BY Parameters
  <2> QED
    BY <1>0, <1>14, <2>1, <2>2, <2>3, <2>4 DEF Restart, TypeOK
<1>15. CASE UNCHANGED vars
  BY <1>0, <1>15 DEF vars, TypeOK
<1> QED
  BY <1>1, <1>2, <1>3, <1>4, <1>5, <1>6, <1>7, <1>8, <1>9, <1>10, <1>11, <1>12, <1>13,
     <1>14, <1>15
     DEF Next, Alone, OtherStep, SyncStep, MinerStep

(* The types of the stream, its miner and the database.                     *)
THEOREM OnSyncTypeCorrect == Spec => []TypeOK
BY TypeInit, TypeNext, PTL DEF Spec
-----------------------------------------------------------------------------
(* A block has its transactions.                                            *)

LEMMA TxsInit == Init => TxsInv
BY DEF Init, TxsInv

LEMMA TxsNext == TypeOK /\ TxsInv /\ [Next]_vars => TxsInv'
<1> SUFFICES ASSUME TypeOK, TxsInv, [Next]_vars, ~dbError' PROVE TxsInv'
  BY DEF TxsInv
<1> USE DEF nodeVars, streamVars, syncVars, minerVars, dbVars, history, otherVars
<1> DEFINE Quiet == writing' = writing
<1>1. CASE Quiet /\ (NodeExtend \/ (\E h \in Heights : NodeRewind(h)) \/ StreamBreaks)
  BY <1>1 DEF NodeExtend, NodeRewind, StreamBreaks, TxsInv, Rewound, InFlight
<1>2. CASE Quiet /\ (OpenStream \/ RecvError \/ RecvNil \/ Recv \/ Discard \/ DiscardNil)
  BY <1>2 DEF OpenStream, RecvError, RecvNil, Recv, Discard, DiscardNil, TxsInv,
             InFlight, Rewound
<1>3. CASE Quiet /\ (SleepGrown \/ WakeUp \/ AskDb)
  BY <1>3 DEF SleepGrown, WakeUp, AskDb, TxsInv
<1>4. CASE Quiet /\ DeleteBlocks
  <2>1. /\ ~dbError /\ blocks' = blocks \ (Rewound \cap shown) /\ txs' = txs /\ Rewound' = Rewound
        /\ raced' = raced \cup {h \in newHeight+1..lastHeight : Fresh(h)}
        /\ UNCHANGED <<mpc, mh, mv, newHeight, lastHeight>>
    BY <1>4 DEF DeleteBlocks, Fails, Rewound, TypeOK
  <2>2. \A b \in (blocks' \cup writing) \cap Rewound : b[1] \in raced'
    BY <2>1 DEF Rewound, Fresh
  <2>3. InFlight(newHeight+1..lastHeight) => mh \in raced'
    BY <2>1 DEF Fresh, InFlight
  <2> QED
    BY <1>4, <2>1, <2>2, <2>3 DEF TxsInv, InFlight
<1>5. CASE Quiet /\ DeleteTxs
  <2>1. /\ ~dbError /\ txs' = txs \ (Rewound \cap shownTxs) /\ blocks' = blocks /\ raced' = raced
        /\ pc = "deleteTx" /\ pc' = "recv" /\ UNCHANGED <<mpc, mh, mv>>
    BY <1>5 DEF DeleteTxs, Fails, TypeOK
  <2>2. \A b \in blocks \cup writing : b \in txs' \/ b[1] \in raced
    BY <2>1 DEF TxsInv
  <2>3. mpc = "block" => <<mh, mv>> \in txs' \/ mh \in raced
    BY <2>1 DEF TxsInv, Rewound, InFlight
  <2> QED
    BY <1>5, <2>1, <2>2, <2>3 DEF TxsInv
<1>6. CASE Quiet /\ (SendGap \/ SendNew)
  BY <1>6 DEF SendGap, SendNew, Hand, TxsInv
<1>7. CASE Quiet /\ MinerGet
  BY <1>7 DEF MinerGet, TxsInv, InFlight, Rewound
<1>8. CASE Quiet /\ MinerAdd
  <2>1. ~dbError /\ raced' = raced /\ UNCHANGED <<mh, mv, pc, newHeight, lastHeight>>
    BY <1>8 DEF MinerAdd, Fails, TypeOK
  <2>2. CASE mpc = "tx"
    <3>1. blocks' = blocks /\ txs' = txs \cup {<<mh, mv>>}
      BY <1>8, <2>1, <2>2 DEF MinerAdd, Fails
    <3> QED
      BY <1>8, <2>1, <2>2, <3>1 DEF MinerAdd, TxsInv, InFlight, Rewound
  <2>3. CASE mpc = "block"
    <3>1. blocks' = blocks \cup {<<mh, mv>>} /\ txs' = txs /\ mpc' = "recv"
      BY <1>8, <2>1, <2>3 DEF MinerAdd, Fails
    <3>2. pc = "deleteTx" /\ <<mh, mv>> \in Rewound => mh \in raced
      BY <2>1, <2>3 DEF TxsInv, InFlight, Rewound
    <3> QED
      BY <1>8, <2>1, <2>3, <3>1, <3>2 DEF TxsInv, InFlight, Rewound
  <2> QED
    BY <1>8, <2>2, <2>3 DEF MinerAdd
<1>9. ASSUME NEW k \in Heights, OtherTx(k) PROVE TxsInv'
  <2>1. /\ writing = {} /\ writing' = {<<k, chain[k]>>} /\ txs' = txs \cup {<<k, chain[k]>>}
        /\ raced \subseteq raced' /\ (pc = "deleteTx" => k \in raced')
        /\ UNCHANGED <<blocks, mpc, mh, mv, pc, newHeight, lastHeight, dbError>>
    BY <1>9 DEF OtherTx
  <2> QED
    BY <2>1 DEF TxsInv, InFlight, Rewound
<1>10. CASE OtherBlock
  <2>1. /\ blocks' = blocks \cup writing /\ writing' = {}
        /\ UNCHANGED <<txs, raced, mpc, mh, mv, pc, newHeight, lastHeight, dbError>>
    BY <1>10 DEF OtherBlock
  <2> QED
    BY <2>1 DEF TxsInv, InFlight, Rewound
<1>11. CASE Refresh
  BY <1>11 DEF Refresh, TxsInv, InFlight, Rewound
<1>12. CASE Quiet /\ Restart
  BY <1>12 DEF Restart, TxsInv
<1>13. CASE UNCHANGED vars
  BY <1>13 DEF vars, TxsInv, InFlight, Rewound
<1> QED
  BY <1>1, <1>2, <1>3, <1>4, <1>5, <1>6, <1>7, <1>8, <1>9, <1>10, <1>11, <1>12, <1>13
     DEF Next, Alone, OtherStep, SyncStep, MinerStep

(* A block in the database has its transactions there, whatever the node,   *)
(* the stream and another instance do and however late searches see it,     *)
(* but at the heights of a rewind that met a block being written, or not    *)
(* yet shown, and if no request fails (Miner and DeleteBlocksInRange).      *)
THEOREM BlocksHaveTxs == Spec => []BlockHasTxs
<1>1. TxsInv => BlockHasTxs
  BY DEF TxsInv, BlockHasTxs
<1> QED
  BY TypeInit, TypeNext, TxsInit, TxsNext, <1>1, PTL DEF Spec
-----------------------------------------------------------------------------
(* What a rewind leaves.                                                    *)

LEMMA LeavesInit == Init => LeavesInv
BY DEF Init, LeavesInv

LEMMA LeavesNext == TypeOK /\ LeavesInv /\ [Next]_vars => LeavesInv'
<1> SUFFICES ASSUME TypeOK, LeavesInv, [Next]_vars, pc' = "deleteTx", ~dbError'
             PROVE  LeavesInv'
  BY DEF LeavesInv
<1> USE DEF nodeVars, streamVars, syncVars, minerVars, dbVars, history
<1>1. CASE NodeExtend \/ (\E h \in Heights : NodeRewind(h)) \/ StreamBreaks \/ Discard
           \/ MinerGet \/ Refresh \/ UNCHANGED vars
  BY <1>1 DEF NodeExtend, NodeRewind, StreamBreaks, Discard, MinerGet, Refresh, vars, LeavesInv
<1>2. CASE DeleteBlocks
  <2>1. blocks' = blocks \ (Rewound \cap shown) /\ unseen' = blocks \ shown
    BY <1>2 DEF DeleteBlocks, Fails
  <2> QED
    BY <1>2, <2>1 DEF DeleteBlocks, Rewound, LeavesInv, TypeOK
<1>3. CASE MinerAdd
  <2>1. blocks' \subseteq blocks \cup {<<mh, mv>>}
    BY <1>3 DEF MinerAdd
  <2> QED
    BY <1>3, <2>1 DEF MinerAdd, Fails, LeavesInv, TypeOK
<1>4. CASE \E k \in Heights : OtherTx(k)
  BY <1>4 DEF OtherTx, LeavesInv
<1>5. CASE OtherBlock
  BY <1>5 DEF OtherBlock, LeavesInv
<1> QED
  BY <1>1, <1>2, <1>3, <1>4, <1>5
     DEF Next, Alone, OtherStep, SyncStep, MinerStep, OpenStream, RecvError, RecvNil, Recv,
         DeleteTxs, SendGap, SendNew, AskDb, SleepGrown, WakeUp, DiscardNil, Restart

(* A rewind leaves above the new height only a block that was being         *)
(* written meanwhile, or was written after the search for blocks was last   *)
(* refreshed (DeleteBlocksInRange, and the channel of the miner).           *)
THEOREM RewindLeaves == Spec => RewindLeavesOnlyMined
<1>1. LeavesInv => [pc = "deleteTx" /\ pc' = "recv" /\ crashes' = crashes /\ ~dbError =>
         \A b \in blocks : b[1] \in newHeight+1..lastHeight => b[1] = mh \/ b \in unseen]_vars
  BY DEF LeavesInv
<1> QED
  BY TypeInit, TypeNext, LeavesInit, LeavesNext, <1>1, PTL DEF Spec, RewindLeavesOnlyMined
-----------------------------------------------------------------------------
(* What the stream has passed.                                              *)

LEMMA UnstartedInit == TypeOK /\ Init => Unstarted
BY DEF Init, Unstarted

LEMMA UnstartedNext == TypeOK /\ Unstarted /\ [Next]_vars => Unstarted'
<1> SUFFICES ASSUME TypeOK, Unstarted, [Next]_vars PROVE Unstarted'
  OBVIOUS
<1> USE DEF nodeVars, streamVars, syncVars, minerVars, dbVars, history,
        shownVars, otherVars
<1>1. CASE Recv
  <2>1. Head(queue) < MaxUint
    BY <1>1, QueueTail, Numbers, Parameters DEF Recv, TypeOK
  <2> QED
    BY <1>1, <2>1 DEF Recv, Unstarted
<1>2. CASE DeleteTxs
  <2>1. newHeight < MaxUint /\ base \in Nat /\ newHeight \in Nat /\ MaxUint \in Nat
    BY Numbers
  <2>2. lastHeight' # MaxUint /\ base' # MaxUint
    BY <1>2, <2>1 DEF DeleteTxs
  <2> QED
    BY <1>2, <2>2 DEF Unstarted
<1>3. CASE SendGap \/ SendNew
  BY <1>3, Numbers DEF SendGap, SendNew, Hand, Unstarted
<1>4. CASE SleepGrown \/ WakeUp
  <2>1. shown \subseteq Heights \X Forks /\ shown # {}
    BY <1>4 DEF SleepGrown, WakeUp, DbHas, Caught, TypeOK
  <2>2. DbBest # MaxUint
    BY <2>1, BestOfDb, Parameters
  <2> QED
    BY <1>4, <2>2 DEF SleepGrown, WakeUp, Unstarted
<1>5. CASE OpenStream \/ RecvError \/ RecvNil \/ DeleteBlocks \/ AskDb \/ DiscardNil
  BY <1>5 DEF OpenStream, RecvError, RecvNil, DeleteBlocks, AskDb, DiscardNil, Unstarted
<1>6. CASE NodeExtend \/ (\E h \in Heights : NodeRewind(h)) \/ StreamBreaks \/ Discard
           \/ (\E k \in Heights : OtherTx(k)) \/ OtherBlock \/ Refresh
           \/ UNCHANGED vars
  BY <1>6 DEF NodeExtend, NodeRewind, StreamBreaks, Discard, OtherTx, OtherBlock, Refresh, vars, Unstarted
<1>7. CASE MinerGet \/ MinerAdd \/ Restart
  BY <1>7 DEF MinerGet, MinerAdd, Restart, Unstarted
<1> QED
  BY <1>1, <1>2, <1>3, <1>4, <1>5, <1>6, <1>7 DEF Next, Alone, OtherStep, SyncStep, MinerStep

LEMMA AnnouncedInit == TypeOK /\ Init => Announced
<1> SUFFICES ASSUME TypeOK, Init PROVE Announced
  OBVIOUS
<1>1. base # MaxUint => base <= best
  BY StartOfStream, Numbers, Parameters DEF Init, TypeOK
<1> QED
  BY <1>1, Numbers DEF Init, Announced

LEMMA AnnouncedNext == TypeOK /\ Announced /\ Unstarted /\ [Next]_vars => Announced'
<1> SUFFICES ASSUME TypeOK, Announced, Unstarted, [Next]_vars, fork' = 0 PROVE Announced'
  BY DEF Announced
<1> USE DEF nodeVars, streamVars, syncVars, minerVars, dbVars, history,
        shownVars, otherVars
<1>1. CASE NodeExtend
  <2>1. fork = 0 /\ best' = best + 1 /\ best \in Nat /\ newHeight \in Nat /\ base \in Nat
    BY <1>1, Numbers DEF NodeExtend
  <2>2. queue \in Seq(Heights) /\ best + 1 \in Heights /\ Heights \subseteq Nat
    BY <1>1, Parameters DEF NodeExtend, TypeOK
  <2>3. \A i \in DOMAIN queue : queue[i] \in Nat
    BY <2>2, LenProperties
  <2>4. CASE queue' = queue
    BY <1>1, <2>1, <2>3, <2>4 DEF NodeExtend, Announced
  <2>5. CASE queue' = Append(queue, best + 1)
    <3>1. \A i \in DOMAIN queue' :
             \/ i \in DOMAIN queue /\ queue'[i] = queue[i]
             \/ i = Len(queue) + 1 /\ queue'[i] = best + 1
      BY <2>2, <2>5, QueueAppend
    <3>2. \A i \in DOMAIN queue : i \in Nat /\ i < Len(queue) + 1
      BY <2>2, QueueAppend
    <3>3. Len(queue) \in Nat
      BY <2>2, LenProperties
    <3>4. \A i \in DOMAIN queue' :
             /\ newHeight < queue'[i] /\ queue'[i] <= best + 1
             /\ base # MaxUint => base < queue'[i]
      BY <2>1, <2>3, <3>1 DEF Announced
    <3>5. \A i, j \in DOMAIN queue' : i < j => queue'[i] < queue'[j]
      BY <2>1, <2>3, <3>1, <3>2, <3>3 DEF Announced
    <3> QED
      BY <1>1, <2>1, <3>4, <3>5 DEF NodeExtend, Announced
  <2> QED
    BY <1>1, <2>4, <2>5 DEF NodeExtend
<1>2. CASE \E h \in Heights : NodeRewind(h)
  BY <1>2, Parameters DEF NodeRewind, TypeOK
<1>3. CASE StreamBreaks \/ OpenStream
  BY <1>3 DEF StreamBreaks, OpenStream, Announced
<1>4. CASE Recv
  <2>1. queue \in Seq(Heights) /\ queue # <<>> /\ fork = 0 /\ Heights \subseteq Nat
    BY <1>4, Parameters DEF Recv, TypeOK
  <2>2. /\ newHeight' = queue[1] /\ 1 \in DOMAIN queue /\ queue' = Tail(queue)
        /\ \A i \in DOMAIN queue' :
              i \in Nat /\ i + 1 \in DOMAIN queue /\ queue'[i] = queue[i+1]
    BY <1>4, <2>1, QueueTail DEF Recv
  <2>3. \A i \in DOMAIN queue' : 1 < i + 1 /\ queue[1] < queue[i+1]
    <3>1. \A i \in DOMAIN queue' : i # 0
      BY <2>1, <2>2, QueueTail, LenProperties
    <3> QED
      BY <2>1, <2>2, <3>1 DEF Announced
  <2>4. pc' = "delete" => newHeight' < lastHeight
    BY <1>4, <2>1, <2>2, QueueTail DEF Recv
  <2>5. \A i, j \in DOMAIN queue' : i < j => queue'[i] < queue'[j]
    BY <2>1, <2>2 DEF Announced
  <2>6. \A i \in DOMAIN queue' :
           /\ newHeight' < queue'[i] /\ queue'[i] <= best
           /\ base # MaxUint => base < queue'[i]
    BY <2>1, <2>2, <2>3 DEF Announced
  <2>7. newHeight' <= best /\ (base # MaxUint => base < newHeight' /\ base <= best)
    BY <2>1, <2>2 DEF Announced
  <2>8. pc' \in {"delete", "send"}
    BY <1>4 DEF Recv
  <2> QED
    BY <1>4, <2>1, <2>4, <2>5, <2>6, <2>7, <2>8 DEF Recv, Announced
<1>5. CASE Discard
  <2>1. CASE queue' = queue
    BY <1>5, <2>1 DEF Discard, Announced
  <2>2. CASE queue # <<>> /\ queue' = Tail(queue)
    <3>1. \A i \in DOMAIN queue' :
             i \in Nat /\ i + 1 \in DOMAIN queue /\ queue'[i] = queue[i+1]
      BY <2>2, QueueTail DEF TypeOK
    <3> QED
      BY <1>5, <3>1 DEF Discard, Announced
  <2> QED
    BY <1>5, <2>1, <2>2 DEF Discard
<1>6. CASE DeleteTxs
  <2>1. fork = 0 /\ newHeight \in Nat /\ base \in Nat /\ MaxUint \in Nat /\ newHeight < MaxUint
    BY <1>6, Numbers DEF DeleteTxs
  <2>2. base' = base \/ base' = newHeight
    BY <1>6 DEF DeleteTxs
  <2> QED
    BY <1>6, <2>1, <2>2 DEF DeleteTxs, Announced
<1>7. CASE Restart
  <2>1. base' # MaxUint => base' <= best
    BY <1>7, StartOfStream, Numbers, Parameters DEF Restart, TypeOK
  <2> QED
    BY <1>7, <2>1, Numbers DEF Restart, Announced
<1>8. CASE DeleteBlocks
  BY <1>8 DEF DeleteBlocks, Announced
<1>9. CASE RecvError \/ RecvNil \/ SendGap \/ SendNew \/ AskDb \/ SleepGrown \/ WakeUp
           \/ DiscardNil
  BY <1>9 DEF RecvError, RecvNil, SendGap, SendNew, AskDb, SleepGrown, WakeUp, DiscardNil,
              Announced
<1>10. CASE MinerGet \/ MinerAdd \/ (\E k \in Heights : OtherTx(k)) \/ OtherBlock \/ Refresh
           \/ UNCHANGED vars
  BY <1>10 DEF MinerGet, MinerAdd, OtherTx, OtherBlock, Refresh, vars, Announced
<1> QED
  BY <1>1, <1>2, <1>3, <1>4, <1>5, <1>6, <1>7, <1>8, <1>9, <1>10
     DEF Next, Alone, OtherStep, SyncStep, MinerStep
(* A height that is kept stays so, until the program is restarted.          *)
LEMMA KeptStays ==
    ASSUME TypeOK, [Next]_vars, ~Restart, ~dbError', NEW h \in Nat, Kept(h)
    PROVE  Kept(h)'
<1> USE DEF nodeVars, streamVars, syncVars, minerVars, dbVars, history, shownVars,
        otherVars, InFlight, Kept
<1>1. CASE DeleteBlocks
  <2>1. h \in undone => h \in undone'
    BY <1>1 DEF DeleteBlocks
  <2>2. ASSUME NEW f \in Forks, <<h, f>> \in blocks
        PROVE  <<h, f>> \in blocks' \/ h \in undone'
    <3>1. CASE <<h, f>> \in blocks'
      BY <3>1
    <3>2. CASE <<h, f>> \in blocks \ blocks'
      <4>1. <<h, f>>[1] \in {b[1] : b \in blocks \ blocks'}
        BY <3>2
      <4> QED
        BY <1>1, <4>1 DEF DeleteBlocks
    <3> QED
      BY <2>2, <3>1, <3>2
  <2> QED
    BY <1>1, <2>1, <2>2 DEF DeleteBlocks
<1>2. CASE MinerAdd
  <2>1. mh \in Heights /\ mv \in Forks
    BY DEF TypeOK
  <2> QED
    BY <1>2, <2>1 DEF MinerAdd, Fails, TypeOK
<1>3. CASE (\E k \in Heights : OtherTx(k)) \/ OtherBlock \/ Refresh
  BY <1>3 DEF OtherTx, OtherBlock, Refresh
<1>4. CASE SendGap \/ SendNew
  BY <1>4 DEF SendGap, SendNew, Hand
<1>5. CASE MinerGet
  BY <1>5 DEF MinerGet
<1>6. CASE DeleteTxs \/ NodeExtend \/ (\E k \in Heights : NodeRewind(k)) \/ StreamBreaks
           \/ Discard \/ UNCHANGED vars
  BY <1>6 DEF DeleteTxs, NodeExtend, NodeRewind, StreamBreaks, Discard, vars
<1>7. CASE OpenStream \/ RecvError \/ RecvNil \/ Recv \/ AskDb \/ SleepGrown \/ WakeUp
           \/ DiscardNil
  BY <1>7 DEF OpenStream, RecvError, RecvNil, Recv, AskDb, SleepGrown, WakeUp, DiscardNil
<1> QED
  BY <1>1, <1>2, <1>3, <1>4, <1>5, <1>6, <1>7 DEF Next, Alone, OtherStep, SyncStep, MinerStep

(* The node never returns to its first fork.                                *)
LEMMA ForkStays == ASSUME TypeOK, [Next]_vars, fork' = 0 PROVE fork = 0
<1> USE DEF nodeVars, streamVars, syncVars, minerVars, dbVars, history
<1>1. CASE \E h \in Heights : NodeRewind(h)
  <2>1. fork \in Nat /\ fork' = fork + 1
    BY <1>1, Parameters DEF NodeRewind, TypeOK
  <2> QED
    BY <2>1
<1>2. CASE fork' = fork
  BY <1>2
<1> QED
  BY <1>1, <1>2 DEF Next, Alone, OtherStep, SyncStep, MinerStep, NodeExtend, StreamBreaks,
     OpenStream, RecvError, RecvNil, Recv, DeleteBlocks, DeleteTxs, SendGap, SendNew, AskDb,
     SleepGrown, WakeUp, Discard, DiscardNil, MinerGet, MinerAdd, OtherTx, OtherBlock, Refresh,
     Restart, vars

(* The start of the stream moves once, when it is not yet known, to the     *)
(* first height that is announced.                                          *)
LEMMA BaseMoves ==
    ASSUME TypeOK, Announced, [Next]_vars, ~Restart, fork = 0
    PROVE  base' = base \/ (base = MaxUint /\ DeleteTxs /\ base' = newHeight)
<1> USE DEF nodeVars, streamVars, syncVars, minerVars, dbVars, history,
        shownVars, otherVars
<1>1. CASE DeleteTxs
  <2>1. base # MaxUint => base < newHeight
    BY <1>1 DEF DeleteTxs, Announced
  <2> QED
    BY <1>1, <2>1, Numbers DEF DeleteTxs
<1>2. CASE base' = base
  BY <1>2
<1> QED
  BY <1>1, <1>2
     DEF Next, Alone, OtherStep, SyncStep, MinerStep, NodeExtend, NodeRewind, StreamBreaks, OpenStream,
         RecvError, RecvNil, Recv, DeleteBlocks, SendGap, SendNew, AskDb, SleepGrown,
         WakeUp, Discard, DiscardNil, MinerGet, MinerAdd, OtherTx, OtherBlock, Refresh, vars

(* What is new in the database comes from the miner or the other instance.  *)
LEMMA NewBlocks ==
    ASSUME TypeOK, [Next]_vars
    PROVE  /\ \A b \in blocks' :
                 \/ b \in blocks
                 \/ MinerAdd /\ mpc = "block" /\ b = <<mh, mv>>
                 \/ OtherBlock /\ b \in writing
           /\ blocks' \subseteq Heights \X Forks
           /\ fork' = 0 => best <= best'
<1> USE DEF nodeVars, streamVars, syncVars, minerVars, dbVars, history,
        shownVars, otherVars
<1>1. blocks' \subseteq Heights \X Forks
  BY TypeNext DEF TypeOK
<1>2. best \in Nat /\ best <= best
  BY Numbers
<1>3. CASE MinerAdd
  BY <1>1, <1>2, <1>3 DEF MinerAdd
<1>4. CASE OtherBlock
  BY <1>1, <1>2, <1>4 DEF OtherBlock
<1>5. CASE DeleteBlocks
  BY <1>1, <1>2, <1>5 DEF DeleteBlocks
<1>6. CASE NodeExtend
  BY <1>1, <1>2, <1>6 DEF NodeExtend
<1>7. CASE \E k \in Heights : NodeRewind(k)
  BY <1>1, <1>2, <1>7, Parameters DEF NodeRewind, TypeOK
<1> QED
  BY <1>1, <1>2, <1>3, <1>4, <1>5, <1>6, <1>7
     DEF Next, Alone, OtherStep, SyncStep, MinerStep, StreamBreaks, OpenStream, RecvError, RecvNil, Recv,
         DeleteTxs, SendGap, SendNew, AskDb, SleepGrown, WakeUp, Discard, DiscardNil,
         MinerGet, OtherTx, Refresh, Restart, vars

(* What searches find newly has been in the database, and what the other    *)
(* instance writes is at a height of the node.                              *)
LEMMA NewShown ==
    ASSUME TypeOK, [Next]_vars
    PROVE  /\ shown' \subseteq blocks \cup shown
           /\ \A b \in writing' : b \in writing \/ b[1] <= best
<1>1. CASE Refresh
  BY <1>1 DEF Refresh, otherVars
<1>2. ASSUME NEW k \in Heights, OtherTx(k), UNCHANGED shownVars
      PROVE  /\ shown' \subseteq blocks \cup shown
             /\ \A b \in writing' : b \in writing \/ b[1] <= best
  BY <1>2 DEF OtherTx, shownVars
<1>3. CASE OtherBlock /\ UNCHANGED shownVars
  BY <1>3 DEF OtherBlock, shownVars
<1>4. CASE UNCHANGED <<shownVars, otherVars>>
  BY <1>4 DEF shownVars, otherVars
<1> QED
  BY <1>1, <1>2, <1>3, <1>4 DEF Next, Alone, OtherStep, vars

LEMMA ShownInit == Init => ShownInv
BY DEF Init, ShownInv

LEMMA ShownNext == TypeOK /\ ShownInv /\ [Next]_vars => ShownInv'
<1> SUFFICES ASSUME TypeOK, ShownInv, [Next]_vars, NEW b \in shown'
             PROVE  b \in blocks' \/ b[1] \in undone'
  BY DEF ShownInv
<1> USE DEF nodeVars, streamVars, syncVars, minerVars, dbVars, history,
        shownVars, otherVars
<1>1. CASE b \in blocks
  <2>1. CASE DeleteBlocks
    <3>1. CASE b \in blocks \ blocks'
      <4>1. b[1] \in {c[1] : c \in blocks \ blocks'}
        BY <3>1
      <4> QED
        BY <2>1, <4>1 DEF DeleteBlocks
    <3> QED
      BY <1>1, <3>1
  <2>2. CASE MinerAdd \/ OtherBlock
    BY <1>1, <2>2 DEF MinerAdd, OtherBlock
  <2>3. CASE blocks' = blocks
    BY <1>1, <2>3
  <2> QED
    BY <2>1, <2>2, <2>3
       DEF Next, Alone, OtherStep, SyncStep, MinerStep, NodeExtend, NodeRewind, StreamBreaks,
           OpenStream, RecvError, RecvNil, Recv, DeleteTxs, SendGap, SendNew, AskDb, SleepGrown,
           WakeUp, Discard, DiscardNil, MinerGet, OtherTx, Refresh, Restart, vars
<1>2. CASE b[1] \in undone
  <2>1. CASE DeleteBlocks
    BY <1>2, <2>1 DEF DeleteBlocks
  <2>2. CASE undone' = undone
    BY <1>2, <2>2
  <2> QED
    BY <2>1, <2>2
       DEF Next, Alone, OtherStep, SyncStep, MinerStep, NodeExtend, NodeRewind, StreamBreaks,
           OpenStream, RecvError, RecvNil, Recv, DeleteTxs, SendGap, SendNew, AskDb, SleepGrown,
           WakeUp, Discard, DiscardNil, MinerGet, MinerAdd, OtherTx, OtherBlock, Refresh,
           Restart, vars
<1> QED
  BY <1>1, <1>2, NewShown DEF ShownInv

LEMMA NoHoleInit == TypeOK /\ Init => NoHole
<1> SUFFICES ASSUME TypeOK, Init PROVE NoHole
  OBVIOUS
<1>1. best \in Nat /\ base \in Nat /\ lastHeight = base
  BY Numbers DEF Init
<1> QED
  BY <1>1 DEF Init, NoHole

LEMMA NoHoleRestart ==
    ASSUME TypeOK, NoHole, ShownInv, Alone(Restart), fork = 0, ~dbError
    PROVE  NoHole'
<1> USE DEF nodeVars, dbVars, history, shownVars, otherVars, Alone
<1>1. /\ best' = best /\ blocks' = blocks /\ shown' = shown /\ writing' = writing
      /\ undone' = undone /\ queue' = <<>>
      /\ mpc' = "recv" /\ pc' = "open" /\ lastHeight' = base' /\ base' \in StartHeights
  BY DEF Restart
<1>2. best \in Heights /\ blocks \subseteq Heights \X Forks /\ shown \subseteq Heights \X Forks
      /\ MaxUint > MaxHeight /\ Heights = 0..MaxHeight /\ MaxUint \in Nat /\ MaxHeight \in Nat
  BY Parameters DEF TypeOK
<1>3. base' = MaxUint \/ base' = best - 1
  BY <1>1, <1>2, StartOfStream
<1>4. ASSUME NEW b \in blocks \cup shown, NEW h \in 0..b[1], Above(h)' PROVE Kept(h)'
  <2>1. b[1] <= best /\ b[1] \in 0..MaxHeight /\ b = <<b[1], b[2]>> /\ b[2] \in Forks
    BY <1>2 DEF NoHole
  <2>2. h > base'
    BY <1>1, <1>4 DEF Above
  <2>3. h = b[1]
    BY <1>2, <1>3, <2>1, <2>2
  <2>4. b \in blocks \/ b[1] \in undone
    BY DEF ShownInv
  <2> QED
    BY <1>1, <2>1, <2>3, <2>4 DEF Kept
<1>5. lastHeight' # MaxUint => \A h \in base'+1..lastHeight' : Kept(h)'
  BY <1>1, <1>2, <1>3
<1>6. \A b \in (blocks \cup shown \cup writing)' : b[1] <= best'
  BY <1>1 DEF NoHole
<1>7. mpc' = "recv" /\ pc' = "open"
  BY <1>1
<1>8. \A b \in (blocks \cup shown)' : \A h \in 0..b[1] : Above(h)' => Kept(h)'
  BY <1>1, <1>4
<1> QED
  BY <1>5, <1>6, <1>7, <1>8 DEF NoHole

LEMMA HeightAbove ==
    ASSUME NEW a \in Nat, NEW c \in Nat, NEW h \in a+1..c
    PROVE  h \in Nat /\ h >= 1 /\ a < c
OBVIOUS

LEMMA HeightBefore ==
    ASSUME NEW a \in Nat, NEW c \in Nat, NEW h \in a+1..c-1
    PROVE  h \in Nat
OBVIOUS

LEMMA HeightPast ==
    ASSUME NEW a \in Nat, NEW c \in Nat, NEW h \in a+1..c
    PROVE  h > a /\ h \in 0..c
OBVIOUS

(* A step moves the start of the stream upwards only.                       *)
LEMMA AboveStays ==
    ASSUME TypeOK, Announced, Unstarted, [Next]_vars, ~Restart, fork = 0,
           NEW h \in Nat, Above(h)'
    PROVE  Above(h) \/ h > best
<1> USE DEF nodeVars, streamVars, syncVars, minerVars, dbVars, history,
        shownVars, otherVars
<1>0. /\ base \in Nat /\ newHeight \in Nat /\ MaxUint \in Nat /\ best \in Nat
      /\ queue \in Seq(Heights) /\ Heights \subseteq Nat
  <2>1. base \in Nat /\ newHeight \in Nat /\ best \in Nat
    BY Numbers
  <2>2. queue \in Seq(Heights)
    BY DEF TypeOK
  <2> QED
    BY <2>1, <2>2, Parameters
<1>1. CASE NodeExtend
  <2>1. UNCHANGED <<base, pc, newHeight>>
    BY <1>1 DEF NodeExtend
  <2>2. \A i \in DOMAIN queue' : (i \in DOMAIN queue /\ queue'[i] = queue[i]) \/ queue'[i] = best + 1
    <3>1. best + 1 \in Heights
      BY <1>0, <1>1, Parameters DEF NodeExtend
    <3> QED
      BY <1>0, <1>1, <3>1, QueueAppend DEF NodeExtend
  <2> QED
    BY <1>0, <2>1, <2>2 DEF Above
<1>2. CASE Recv
  <2>1. /\ newHeight' = queue[1] /\ 1 \in DOMAIN queue /\ base' = base
        /\ \A i \in DOMAIN queue' : i + 1 \in DOMAIN queue /\ queue'[i] = queue[i+1]
    BY <1>0, <1>2, QueueTail DEF Recv
  <2>2. queue[1] \in Nat
    BY <1>0, <1>2, QueueTail DEF Recv
  <2> QED
    BY <2>1, <2>2 DEF Above
<1>3. CASE DeleteTxs
  <2>1. pc = "deleteTx" /\ pc' = "recv" /\ queue' = queue /\ (base' = base \/ base' = newHeight)
    BY <1>3 DEF DeleteTxs
  <2> QED
    BY <2>1 DEF Above
<1>4. CASE Discard
  <2>1. UNCHANGED <<base, pc, newHeight>>
    BY <1>4 DEF Discard
  <2>2. \A i \in DOMAIN queue' : \E j \in DOMAIN queue : queue'[i] = queue[j]
    BY <1>0, <1>4, QueueTail DEF Discard
  <2> QED
    BY <2>1, <2>2 DEF Above
<1>5. CASE StreamBreaks \/ OpenStream
  BY <1>5 DEF StreamBreaks, OpenStream, Above
<1>6. CASE DeleteBlocks
  BY <1>6 DEF DeleteBlocks, Above
<1>7. CASE (\E k \in Heights : NodeRewind(k)) \/ MinerGet \/ MinerAdd \/ (\E k \in Heights : OtherTx(k)) \/ OtherBlock \/ Refresh
           \/ UNCHANGED vars
  BY <1>7 DEF NodeRewind, MinerGet, MinerAdd, OtherTx, OtherBlock, Refresh, vars, Above
<1>8. CASE RecvError \/ RecvNil \/ SendGap \/ SendNew \/ AskDb \/ SleepGrown \/ WakeUp \/ DiscardNil
  BY <1>8 DEF RecvError, RecvNil, SendGap, SendNew, AskDb, SleepGrown, WakeUp, DiscardNil, Above
<1> QED
  BY <1>1, <1>2, <1>3, <1>4, <1>5, <1>6, <1>7, <1>8 DEF Next, Alone, OtherStep, SyncStep, MinerStep

LEMMA NoHoleNext == TypeOK /\ CoversInv /\ [Next]_vars => NoHole'
<1> SUFFICES ASSUME TypeOK, CoversInv, [Next]_vars, fork' = 0, ~dbError', ~Restart
             PROVE  NoHole'
  <2>1. fork' = 0 /\ Restart => fork = 0
    BY DEF Restart, nodeVars
  <2>2. ~dbError' /\ Restart => ~dbError
    BY DEF Restart, dbVars
  <2>3. [Next]_vars /\ Restart => Alone(Restart)
    <3>1. Restart => crashes' # crashes
      BY DEF Restart, TypeOK
    <3>2. UNCHANGED vars \/ Refresh \/ (\E h \in Heights : OtherTx(h)) \/ OtherBlock
             => crashes' = crashes
      BY DEF vars, Refresh, OtherTx, OtherBlock
    <3>3. Alone(NodeExtend \/ (\E h \in Heights : NodeRewind(h)) \/ StreamBreaks)
             => crashes' = crashes
      BY DEF Alone, NodeExtend, NodeRewind, StreamBreaks
    <3>4. Alone(SyncStep \/ Discard \/ DiscardNil \/ MinerStep) => crashes' = crashes
      BY DEF Alone, SyncStep, MinerStep, OpenStream, RecvError, RecvNil, Recv, DeleteBlocks,
             DeleteTxs, SendGap, SendNew, AskDb, SleepGrown, WakeUp, Discard, DiscardNil,
             MinerGet, MinerAdd
    <3> QED
      BY <3>1, <3>2, <3>3, <3>4 DEF Next, OtherStep
  <2> QED
    BY <2>1, <2>2, <2>3, NoHoleRestart DEF NoHole, CoversInv
<1> USE DEF nodeVars, streamVars, syncVars, minerVars, dbVars, history,
        shownVars, otherVars
<1>0. TypeOK'
  BY TypeNext
<1>1. fork = 0 /\ ~dbError
  <2>1. fork = 0
    BY ForkStays
  <2>2. ~dbError
    BY DEF Fails, Next, Alone, OtherStep, SyncStep, MinerStep, NodeExtend, NodeRewind, StreamBreaks,
       OpenStream, RecvError, RecvNil, Recv, DeleteBlocks, DeleteTxs, SendGap, SendNew,
       AskDb, SleepGrown, WakeUp, Discard, DiscardNil, MinerGet, MinerAdd, OtherTx, OtherBlock, Refresh, vars
  <2> QED
    BY <2>1, <2>2
<1>2. /\ Announced /\ Unstarted /\ NoHole /\ Announced' /\ Unstarted'
  BY AnnouncedNext, UnstartedNext DEF CoversInv
<1>3. \A h \in Nat : Kept(h) => Kept(h)'
  BY KeptStays
<1>4. base' = base \/ (base = MaxUint /\ DeleteTxs /\ base' = newHeight)
  BY <1>1, <1>2, BaseMoves
<1>5. /\ \A b \in blocks' \cup shown' :
            \/ b \in blocks \cup shown
            \/ MinerAdd /\ mpc = "block" /\ b = <<mh, mv>>
            \/ OtherBlock /\ b \in writing
      /\ \A b \in writing' : b \in writing \/ b[1] <= best
      /\ best <= best'
  BY NewBlocks, NewShown
<1>6. /\ best \in Nat /\ best' \in Nat /\ mh \in Nat /\ mh' \in Nat /\ base \in Nat
      /\ base' \in Nat /\ newHeight \in Nat /\ newHeight' \in Nat /\ lastHeight \in Nat
      /\ lastHeight' \in Nat /\ next \in Nat /\ next' \in Nat /\ MaxUint \in Nat
      /\ newHeight < MaxUint /\ newHeight' < MaxUint
  <2>1. Heights \subseteq Nat /\ MaxUint \in Nat /\ \A h \in Heights : h < MaxUint
    BY Parameters
  <2>2. /\ {best, best', mh, mh', newHeight, newHeight'} \subseteq Heights
        /\ {lastHeight, lastHeight', base, base'} \subseteq Heights \cup {MaxUint}
    BY <1>0 DEF TypeOK
  <2>3. next \in Nat /\ next' \in Nat
    BY <1>0, Parameters DEF TypeOK
  <2> QED
    BY <2>1, <2>2, <2>3
<1>7. \A b \in blocks \cup shown \cup writing \cup blocks' \cup shown' \cup writing' :
         b \in Heights \X Forks /\ b[1] \in Nat
  <2>1. \A b \in Heights \X Forks : b[1] \in Nat
    BY Parameters
  <2>2. blocks \cup shown \cup writing \cup blocks' \cup shown' \cup writing'
           \subseteq Heights \X Forks
    BY <1>0 DEF TypeOK
  <2> QED
    BY <2>1, <2>2
<1>8. /\ \A b \in blocks \cup shown \cup writing : b[1] <= best
      /\ mpc \in {"tx", "block"} => mh <= best
      /\ \A b \in blocks \cup shown : \A h \in 0..b[1] : Above(h) => Kept(h)
      /\ mpc # "recv" => \A h \in base+1..mh : Kept(h)
      /\ lastHeight # MaxUint => \A h \in base+1..lastHeight : Kept(h)
      /\ pc \in {"send", "hand"} => base < newHeight
      /\ pc \in {"send", "hand"} => \A h \in base+1..next-1 : Kept(h)
      /\ pc = "hand" => next >= newHeight
  BY <1>1, <1>2 DEF NoHole
<1>9. \A b \in blocks' \cup shown' \cup writing' : b[1] <= best'
  <2>1. SUFFICES ASSUME NEW b \in blocks' \cup shown' \cup writing' PROVE b[1] <= best
    BY <1>5, <1>6, <1>7
  <2> QED
    BY <1>5, <1>8, <2>1
<1>10. mpc' \in {"tx", "block"} => mh' <= best'
  <2>1. CASE MinerGet
    BY <1>6, <2>1 DEF MinerGet
  <2>2. CASE SendGap \/ SendNew
    BY <2>2 DEF SendGap, SendNew, Hand
  <2>3. CASE MinerAdd
    BY <1>5, <1>6, <1>8, <2>3 DEF MinerAdd
  <2>4. CASE mpc' = mpc /\ mh' = mh
    BY <1>5, <1>6, <1>8, <2>4
  <2> QED
    BY <2>1, <2>2, <2>3, <2>4
       DEF Next, Alone, OtherStep, SyncStep, MinerStep, NodeExtend, NodeRewind, StreamBreaks, OpenStream,
           RecvError, RecvNil, Recv, DeleteBlocks, DeleteTxs, AskDb, SleepGrown, WakeUp,
           Discard, DiscardNil, OtherTx, OtherBlock, Refresh, vars
\* Where a height is below one that is in the database, or is shown.
<1>11. \A b \in blocks' \cup shown' : \A h \in 0..b[1] : Above(h)' => Kept(h)'
  <2>1. SUFFICES ASSUME NEW b \in blocks' \cup shown', NEW h \in 0..b[1], Above(h)'
                 PROVE  Kept(h)'
    OBVIOUS
  <2>2. h \in Nat /\ b[1] \in Nat /\ h <= b[1] /\ b \in Heights \X Forks
    BY <1>7, <2>1
  <2>3. Above(h) \/ h > best
    BY <1>1, <1>2, <2>1, <2>2, AboveStays
  <2>4. CASE b \in blocks \cup shown
    <3>1. Above(h)
      BY <1>6, <1>8, <2>2, <2>3, <2>4
    <3> QED
      BY <1>3, <1>8, <2>1, <2>2, <2>4, <3>1
  <2>5. CASE MinerAdd /\ mpc = "block" /\ b = <<mh, mv>>
    <3>1. base # MaxUint
      BY <1>2, <2>5 DEF Unstarted
    <3>2. Above(h)
      BY <1>6, <1>8, <2>2, <2>3, <2>5
    <3>3. queue \in Seq(Heights) /\ Heights \subseteq Nat
      BY Parameters DEF TypeOK
    <3>4. \A i \in DOMAIN queue : queue[i] \in Nat /\ base < queue[i]
      BY <1>1, <1>2, <3>1, <3>3, LenProperties DEF Announced
    <3>5. h > base
      BY <1>1, <1>2, <1>6, <2>2, <3>1, <3>2, <3>4 DEF Above, Announced
    <3> QED
      BY <1>3, <1>6, <1>8, <2>2, <2>5, <3>5
  <2>6. CASE OtherBlock /\ b \in writing
    <3>1. CASE h = b[1]
      <4>1. b = <<b[1], b[2]>> /\ b[2] \in Forks /\ b \in blocks'
        BY <2>2, <2>6 DEF OtherBlock
      <4> QED
        BY <3>1, <4>1 DEF Kept
    <3>2. CASE h # b[1] /\ ~Kept(h)
      <4>1. h \in Heights /\ h < b[1]
        BY <2>2, <3>2, Parameters
      <4>2. h \in holes'
        BY <2>6, <3>2, <4>1 DEF OtherBlock
      <4> QED
        BY <4>2 DEF Kept
    <3> QED
      BY <1>3, <2>2, <3>1, <3>2
  <2> QED
    BY <1>5, <2>1, <2>4, <2>5, <2>6
\* What the miner is at, and what the stream has passed.
<1>12. mpc' # "recv" => \A h \in base'+1..mh' : Kept(h)'
  <2>1. SUFFICES ASSUME mpc' # "recv", NEW h \in base'+1..mh' PROVE Kept(h)'
    OBVIOUS
  <2>2. base' = base /\ h \in Nat
    <3>1. h \in Nat
      BY <1>6, <2>1, HeightAbove
    <3> QED
      BY <1>2, <1>4, <2>1, <3>1 DEF Unstarted, DeleteTxs
  <2>3. CASE SendGap
    <3>1. pc = "send" /\ mh' = next /\ mpc' = "get"
      BY <2>3 DEF SendGap, Hand, GapFrom
    <3>2. CASE h = next
      BY <3>1, <3>2 DEF Kept, InFlight
    <3> QED
      BY <1>3, <1>6, <1>8, <2>1, <2>2, <3>1, <3>2
  <2>4. CASE SendNew
    <3>1. pc \in {"send", "hand"} /\ mh' = newHeight /\ mpc' = "get"
      BY <2>4 DEF SendNew, Hand
    <3>2. next >= newHeight
      BY <1>8, <2>4 DEF SendNew, GapFrom
    <3>3. CASE h = newHeight
      BY <3>1, <3>3 DEF Kept, InFlight
    <3> QED
      BY <1>3, <1>6, <1>8, <2>1, <2>2, <3>1, <3>2, <3>3
  <2>5. CASE mpc # "recv" /\ mh' = mh
    BY <1>3, <1>8, <2>1, <2>2, <2>5
  <2> QED
    BY <2>1, <2>3, <2>4, <2>5
       DEF Next, Alone, OtherStep, SyncStep, MinerStep, NodeExtend, NodeRewind, StreamBreaks, OpenStream,
           RecvError, RecvNil, Recv, DeleteBlocks, DeleteTxs, AskDb, SleepGrown, WakeUp,
           Discard, DiscardNil, MinerGet, MinerAdd, OtherTx, OtherBlock, Refresh, vars
<1>13. lastHeight' # MaxUint => \A h \in base'+1..lastHeight' : Kept(h)'
  <2>1. SUFFICES ASSUME lastHeight' # MaxUint, NEW h \in base'+1..lastHeight'
                 PROVE  Kept(h)'
    OBVIOUS
  <2>2. h \in Nat
    BY <1>6, <2>1, HeightAbove
  <2>3. CASE DeleteTxs
    <3>1. lastHeight' = newHeight /\ pc = "deleteTx"
      BY <2>3 DEF DeleteTxs
    <3>2. base' = base /\ base # MaxUint
      <4>1. base' < newHeight
        BY <1>6, <2>1, <3>1, HeightAbove
      <4>2. base' # newHeight /\ base' # MaxUint
        BY <1>6, <4>1
      <4> QED
        BY <1>4, <4>2
    <3>3. h <= lastHeight
      BY <1>1, <1>2, <1>6, <2>1, <3>1 DEF Announced
    <3>4. lastHeight # MaxUint
      BY <1>2, <3>2 DEF Unstarted
    <3> QED
      BY <1>3, <1>6, <1>8, <2>1, <2>2, <3>2, <3>3, <3>4
  <2>4. CASE SendNew
    <3>1. mh' = newHeight /\ mpc' = "get" /\ lastHeight' = newHeight
      BY <2>4 DEF SendNew, Hand
    <3> QED
      BY <1>12, <2>1, <3>1
  <2>5. CASE WakeUp
    <3>1. shown \subseteq Heights \X Forks /\ shown # {} /\ lastHeight' = DbBest
      BY <2>5 DEF WakeUp, Caught, TypeOK
    <3>2. shown \subseteq shown'
      BY <2>5 DEF WakeUp, Next, Alone, OtherStep, OtherTx, OtherBlock, Refresh, Restart, vars
    <3>3. PICK b \in shown : b[1] = DbBest
      BY <3>1, BestOfDb
    <3>4. h > base' /\ h \in 0..b[1]
      BY <1>6, <2>1, <3>1, <3>3, HeightPast
    <3>5. Above(h)'
      BY <3>4 DEF Above
    <3> QED
      BY <1>11, <3>2, <3>4, <3>5
  <2>6. CASE lastHeight' = lastHeight /\ base' = base
    BY <1>3, <1>8, <2>1, <2>2, <2>6
  <2> QED
    BY <2>3, <2>4, <2>5, <2>6
       DEF Next, Alone, OtherStep, SyncStep, MinerStep, NodeExtend, NodeRewind, StreamBreaks, OpenStream,
           RecvError, RecvNil, Recv, DeleteBlocks, SendGap, AskDb, SleepGrown,
           Discard, DiscardNil, MinerGet, MinerAdd, OtherTx, OtherBlock, Refresh, vars
<1>14. pc' \in {"send", "hand"} => base' < newHeight'
  <2>1. CASE Recv
    <3>1. newHeight' = queue[1] /\ 1 \in DOMAIN queue /\ base' = base
      BY <2>1, QueueTail DEF Recv, TypeOK
    <3>2. base' = MaxUint => pc' \notin {"send", "hand"}
      BY <1>2 DEF Unstarted
    <3> QED
      BY <1>1, <1>2, <3>1, <3>2 DEF Announced
  <2>2. CASE pc \in {"send", "hand"} /\ base' = base /\ newHeight' = newHeight
    BY <1>8, <2>2
  <2>3. CASE pc' \notin {"send", "hand"}
    BY <2>3
  <2> QED
    BY <2>1, <2>2, <2>3
       DEF Next, Alone, OtherStep, SyncStep, MinerStep, NodeExtend, NodeRewind, StreamBreaks, OpenStream,
           RecvError, RecvNil, SendGap, SendNew, DeleteBlocks, DeleteTxs, AskDb, SleepGrown,
           WakeUp, Discard, DiscardNil, MinerGet, MinerAdd, OtherTx, OtherBlock, Refresh, vars
<1>15. pc' \in {"send", "hand"} => \A h \in base'+1..next'-1 : Kept(h)'
  <2>1. SUFFICES ASSUME pc' \in {"send", "hand"}, NEW h \in base'+1..next'-1
                 PROVE  Kept(h)'
    OBVIOUS
  <2>2. h \in Nat /\ base' = base
    <3>1. h \in Nat
      BY <1>6, <2>1, HeightBefore
    <3> QED
      BY <1>4, <2>1, <3>1 DEF DeleteTxs
  <2>3. CASE Recv
    <3>1. next' = lastHeight + 1 /\ pc' = "send"
      BY <2>1, <2>3 DEF Recv
    <3>2. lastHeight # MaxUint
      <4>1. base # MaxUint
        BY <1>2, <2>2, <3>1 DEF Unstarted
      <4> QED
        BY <1>2, <4>1 DEF Unstarted
    <3> QED
      BY <1>3, <1>6, <1>8, <2>1, <2>2, <3>1, <3>2
  <2>4. CASE SendGap
    <3>1. pc = "send" /\ mh' = next /\ mpc' = "get" /\ next' = next + 1
      BY <2>4 DEF SendGap, Hand, GapFrom
    <3>2. CASE h = next
      BY <3>1, <3>2 DEF Kept, InFlight
    <3> QED
      BY <1>3, <1>6, <1>8, <2>1, <2>2, <3>1, <3>2
  <2>5. CASE pc \in {"send", "hand"} /\ next' = next
    BY <1>3, <1>8, <2>1, <2>2, <2>5
  <2> QED
    BY <2>1, <2>3, <2>4, <2>5
       DEF Next, Alone, OtherStep, SyncStep, MinerStep, NodeExtend, NodeRewind, StreamBreaks, OpenStream,
           RecvError, RecvNil, SendNew, DeleteBlocks, DeleteTxs, AskDb, SleepGrown, WakeUp,
           Discard, DiscardNil, MinerGet, MinerAdd, OtherTx, OtherBlock, Refresh, vars
<1>16. pc' = "hand" => next' >= newHeight'
  <2>1. CASE AskDb
    BY <2>1 DEF AskDb, GapFrom
  <2>2. CASE pc = "hand" /\ next' = next /\ newHeight' = newHeight
    BY <1>8, <2>2
  <2> QED
    BY <2>1, <2>2
       DEF Next, Alone, OtherStep, SyncStep, MinerStep, NodeExtend, NodeRewind, StreamBreaks, OpenStream,
           RecvError, RecvNil, Recv, SendGap, SendNew, DeleteBlocks, DeleteTxs, SleepGrown,
           WakeUp, Discard, DiscardNil, MinerGet, MinerAdd, OtherTx, OtherBlock, Refresh, vars
<1> QED
  BY <1>9, <1>10, <1>11, <1>12, <1>13, <1>14, <1>15, <1>16 DEF NoHole

(* Whatever is lost, discarded, taken over from another instance or cut off *)
(* by a restart, and however late searches see what is written, the stream  *)
(* leaves no height behind but those that instance has left out below a     *)
(* block of its own and those it has itself deleted, on one fork and        *)
(* without failed requests (SyncBlock and sleepStream).                     *)
THEOREM StreamCoversHeights == Spec => []SyncCovers
<1>1. TypeOK /\ Init => CoversInv
  BY UnstartedInit, AnnouncedInit, ShownInit, NoHoleInit DEF CoversInv
<1>2. TypeOK /\ CoversInv /\ [Next]_vars => CoversInv'
  BY UnstartedNext, AnnouncedNext, ShownNext, NoHoleNext DEF CoversInv
<1>3. CoversInv => SyncCovers
  BY DEF CoversInv, NoHole, SyncCovers
<1> QED
  BY TypeInit, TypeNext, <1>1, <1>2, <1>3, PTL DEF Spec

-----------------------------------------------------------------------------
(* The stream and the check together (ModeAll).                             *)

(* A step is a restart, one of the stream or of the node, or one of the     *)
(* check, which leaves the stream alone.                                    *)
LEMMA AllSteps ==
    ASSUME TypeOK, [NextAll]_allVars
    PROVE  \/ RestartAll
           \/ /\ [Next]_vars /\ ~Restart /\ UNCHANGED otherVars /\ UNCHANGED checkVars
              /\ crashes' = crashes
           \/ /\ CheckBest \/ CheckScroll \/ CheckHand \/ (\E h \in asked : CheckGet(h)) \/ CheckEnd
              /\ UNCHANGED vars /\ ~Restart
           \/ \E b \in collected : CheckCommit(b)
<1> USE DEF nodeVars, streamVars, syncVars, minerVars, dbVars, history,
        shownVars, otherVars
<1>0. ASSUME crashes' = crashes PROVE ~Restart
  BY <1>0 DEF Restart, TypeOK
<1>1. CASE Alone(NodeStep) /\ UNCHANGED checkVars
  <2>1. Next
    BY <1>1 DEF NodeStep, Next
  <2>2. UNCHANGED otherVars /\ crashes' = crashes
    BY <1>1 DEF Alone, NodeStep, NodeExtend, NodeRewind, StreamBreaks
  <2> QED
    BY <1>0, <1>1, <2>1, <2>2
<1>2. CASE Alone(StreamStep) /\ UNCHANGED checkVars
  <2>1. Next
    BY <1>2 DEF StreamStep, Next
  <2>2. UNCHANGED otherVars /\ crashes' = crashes
    BY <1>2 DEF Alone, StreamStep, SyncStep, MinerStep, OpenStream, RecvError, RecvNil, Recv,
          DeleteBlocks, DeleteTxs, SendGap, SendNew, AskDb, SleepGrown, WakeUp, Discard,
          DiscardNil, MinerGet, MinerAdd
  <2> QED
    BY <1>0, <1>2, <2>1, <2>2
<1>3. CASE UNCHANGED allVars
  BY <1>0, <1>3 DEF allVars, vars
<1>4. CASE CheckStep
  <2>1. CASE CheckBest \/ CheckScroll \/ CheckHand \/ (\E h \in asked : CheckGet(h)) \/ CheckEnd
    <3>1. UNCHANGED vars
      BY <2>1 DEF CheckBest, CheckScroll, CheckHand, CheckGet, CheckEnd
    <3> QED
      BY <1>0, <2>1, <3>1 DEF vars
  <2> QED
    BY <1>4, <2>1 DEF CheckStep
<1>5. CASE Refresh /\ UNCHANGED checkVars
  <2>1. Next
    BY <1>5 DEF Next
  <2> QED
    BY <1>0, <1>5, <2>1 DEF Refresh
<1> QED
  BY <1>1, <1>2, <1>3, <1>4, <1>5 DEF NextAll, Step

(* The other instance does nothing there.                                   *)
LEMMA NoOther ==
    ASSUME TypeOK, UNCHANGED otherVars
    PROVE  ~OtherBlock /\ \A h \in Heights : ~OtherTx(h)
<1>1. others \in Nat
  BY Parameters DEF TypeOK
<1> QED
  BY <1>1 DEF otherVars, OtherBlock, OtherTx

-----------------------------------------------------------------------------
(* Types.                                                                   *)

LEMMA TypeAllInit == InitAll => TypeAll
<1> SUFFICES ASSUME InitAll PROVE TypeAll
  OBVIOUS
<1>1. TypeOK
  BY TypeInit DEF InitAll
<1>2. 0 \in Heights
  BY Parameters
<1> QED
  BY <1>1, <1>2 DEF InitAll, TypeAll, TypeOK

(* The height that is handed over next.                                     *)
LEMMA HandedHeight ==
    ASSUME TypeAll, missing # {}
    PROVE  Max(missing) \in missing
<1>1. MaxHeight \in Nat /\ missing \in SUBSET (0..MaxHeight)
  BY Parameters DEF TypeAll
<1> QED
  BY <1>1, MaxOfHeights

LEMMA TypeAllNext == TypeAll /\ [NextAll]_allVars => TypeAll'
<1> SUFFICES ASSUME TypeAll, [NextAll]_allVars PROVE TypeAll'
  OBVIOUS
<1>0. TypeOK /\ Heights = 0..MaxHeight /\ MaxHeight \in Nat
  BY Parameters DEF TypeAll
<1>1. CASE RestartAll
  <2>1. TypeOK'
    BY <1>0, <1>1, TypeNext DEF RestartAll, Next
  <2>2. fork' \in Forks /\ lastHeight' \in Heights \cup {MaxUint} /\ fork' = fork
    BY <1>1, <2>1 DEF TypeOK, RestartAll, Alone, Restart, nodeVars
  <2> QED
    BY <1>0, <1>1, <2>1, <2>2 DEF RestartAll, Started, TypeAll
<1>2. CASE [Next]_vars /\ UNCHANGED checkVars
  BY <1>0, <1>2, TypeNext DEF TypeAll, checkVars
<1>3. CASE UNCHANGED vars /\ CheckBest
  BY <1>0, <1>3, TypeNext, StartOfStream DEF TypeAll, TypeOK, CheckBest
<1>4. CASE UNCHANGED vars /\ CheckScroll
  <2>1. missing' \subseteq Heights /\ left' \subseteq Heights
    <3>1. CASE stopAt = MaxUint
      BY <1>4, <3>1 DEF CheckScroll
    <3>2. CASE stopAt # MaxUint
      <4>1. stopAt \in 0..MaxHeight
        BY <1>0, <3>2 DEF TypeAll
      <4>2. CheckRange \subseteq Heights /\ LowestGap \subseteq Heights
        BY <1>0, <4>1 DEF CheckRange, LowestGap
      <4> QED
        BY <1>4, <3>2, <4>2 DEF CheckScroll
    <3> QED
      BY <3>1, <3>2
  <2> QED
    BY <1>0, <1>4, <2>1, TypeNext DEF TypeAll, CheckScroll
<1>5. CASE UNCHANGED vars /\ CheckHand
  <2>1. Max(missing) \in missing
    BY <1>5, HandedHeight DEF CheckHand
  <2> QED
    BY <1>0, <1>5, <2>1, TypeNext DEF TypeAll, CheckHand
<1>6. ASSUME UNCHANGED vars, NEW h \in asked, CheckGet(h) PROVE TypeAll'
  <2>1. h \in Heights /\ chain[h] \in Forks
    BY DEF TypeAll, TypeOK
  <2> QED
    BY <1>0, <1>6, <2>1, TypeNext DEF TypeAll, CheckGet
<1>7. CASE UNCHANGED vars /\ CheckEnd
  BY <1>0, <1>7, TypeNext DEF TypeAll, CheckEnd
<1>8. ASSUME NEW b \in collected, CheckCommit(b) PROVE TypeAll'
  <2>1. b \in Heights \X Forks
    BY DEF TypeAll
  <2>2. blocks' \subseteq Heights \X Forks /\ txs' \subseteq Heights \X Forks
    BY <1>0, <1>8, <2>1 DEF CheckCommit, TypeOK
  <2>3. TypeOK'
    BY <1>0, <1>8, <2>2 DEF CheckCommit, TypeOK, nodeVars, streamVars, syncVars, minerVars,
          shownVars, otherVars, history
  <2>4. collected' \subseteq Heights \X Forks
    BY <1>8 DEF TypeAll, CheckCommit
  <2> QED
    BY <1>8, <2>3, <2>4 DEF TypeAll, CheckCommit
<1> QED
  BY <1>0, <1>1, <1>2, <1>3, <1>4, <1>5, <1>6, <1>7, <1>8, AllSteps

(* The types of the program as a whole: the check keeps to the heights      *)
(* there are, whatever the node says at its start.                          *)
THEOREM ModeAllTypeCorrect == SpecAll => []TypeAll
BY TypeAllInit, TypeAllNext, PTL DEF SpecAll

-----------------------------------------------------------------------------
(* What the check has to bring.                                             *)

(* A height is handed over, fetched and committed: on its way it is lost    *)
(* at no step.                                                              *)
LEMMA PendingStays ==
    ASSUME TypeAll, CheckHand \/ (\E h \in asked : CheckGet(h))
    PROVE  Pending' = Pending /\ blocks' = blocks
<1>1. CASE CheckHand
  <2>1. Max(missing) \in missing
    BY <1>1, HandedHeight DEF CheckHand
  <2>2. missing' \cup asked' = missing \cup asked
    BY <1>1, <2>1 DEF CheckHand
  <2> QED
    BY <1>1, <2>2 DEF CheckHand, Pending, vars, dbVars
<1>2. ASSUME NEW h \in asked, CheckGet(h)
      PROVE  Pending' = Pending /\ blocks' = blocks
  <2>1. asked' = asked \ {h} /\ missing' = missing /\ blocks' = blocks
        /\ collected' = collected \cup {<<h, chain[h]>>}
    BY <1>2 DEF CheckGet, vars, dbVars
  <2>2. \A b \in collected' : b \in collected \/ b[1] = h
    BY <2>1
  <2>3. <<h, chain[h]>> \in collected' /\ <<h, chain[h]>>[1] = h
    BY <2>1
  <2>4. \A k : k \in {b[1] : b \in collected'} <=> k \in {b[1] : b \in collected} \/ k = h
    BY <2>1, <2>2, <2>3
  <2>5. {b[1] : b \in collected'} = {b[1] : b \in collected} \cup {h}
    BY <2>4
  <2> QED
    BY <2>1, <2>5 DEF Pending
<1> QED
  BY <1>1, <1>2

LEMMA CommitMoves ==
    ASSUME TypeAll, NEW b \in collected, CheckCommit(b)
    PROVE  /\ Pending' \subseteq Pending
           /\ \A h \in Pending : h \in Pending' \/ (h = b[1] /\ Covered(h)')
           /\ b[1] \in Pending /\ blocks' = blocks \cup {b}
           /\ \A h : Covered(h) => Covered(h)'
<1>1. b = <<b[1], b[2]>> /\ b[2] \in Forks
  BY DEF TypeAll
<1>2. missing' = missing /\ asked' = asked /\ collected' = collected \ {b}
      /\ blocks' = blocks \cup {b}
  BY DEF CheckCommit
<1>3. Covered(b[1])'
  BY <1>1, <1>2 DEF Covered
<1> QED
  BY <1>2, <1>3 DEF Pending, Covered

(* What is covered stays so, or has been deleted, and what is in flight     *)
(* arrives, until the program is started again.                             *)
LEMMA AccountStays ==
    ASSUME TypeAll, RangeInv, [NextAll]_allVars, ~RestartAll, ~dbError',
           NEW h \in Nat, Account(h)
    PROVE  Account(h)'
<1>0. TypeOK
  BY DEF TypeAll
<1>1. CASE [Next]_vars /\ ~Restart /\ UNCHANGED checkVars
  <2>1. Pending' = Pending
    BY <1>1 DEF Pending, checkVars
  <2> QED
    BY <1>0, <1>1, <2>1, KeptStays DEF Account
<1>2. ASSUME UNCHANGED vars, Pending \subseteq Pending'
      PROVE  Account(h)'
  BY <1>2 DEF Account, Kept, InFlight, vars, minerVars, dbVars, history,
        shownVars, otherVars
<1>3. CASE UNCHANGED vars /\ (CheckHand \/ \E k \in asked : CheckGet(k))
  BY <1>2, <1>3, PendingStays
<1>4. CASE UNCHANGED vars /\ (CheckBest \/ CheckScroll \/ CheckEnd)
  <2>1. Pending \subseteq Pending'
    BY <1>4 DEF CheckBest, CheckScroll, CheckEnd, RangeInv, Pending
  <2> QED
    BY <1>2, <1>4, <2>1
<1>5. ASSUME NEW b \in collected, CheckCommit(b) PROVE Account(h)'
  <2>1. UNCHANGED <<mpc, mh, undone, holes>>
    BY <1>5 DEF CheckCommit, minerVars, history
  <2> QED
    BY <1>5, <2>1, CommitMoves DEF Account, Kept, InFlight, Covered
<1>6. CASE UNCHANGED vars
           /\ (CheckBest \/ CheckScroll \/ CheckHand \/ (\E k \in asked : CheckGet(k)) \/ CheckEnd)
  BY <1>3, <1>4, <1>6
<1>7. CASE \E b \in collected : CheckCommit(b)
  BY <1>5, <1>7
<1> QED
  BY <1>0, <1>1, <1>6, <1>7, AllSteps

(* What is in the database stays there, or has been deleted.                *)
LEMMA CoveredStays ==
    ASSUME TypeAll, [NextAll]_allVars, NEW h \in Heights, Covered(h) \/ h \in undone
    PROVE  Covered(h)' \/ h \in undone'
<1> USE DEF nodeVars, streamVars, syncVars, minerVars, dbVars, history,
        shownVars, otherVars
<1>0. TypeOK
  BY DEF TypeAll
<1>1. CASE DeleteBlocks
  <2>1. undone \subseteq undone'
    BY <1>1 DEF DeleteBlocks
  <2>2. ASSUME NEW f \in Forks, <<h, f>> \in blocks \ blocks' PROVE h \in undone'
    <3>1. <<h, f>>[1] \in {b[1] : b \in blocks \ blocks'}
      BY <2>2
    <3> QED
      BY <1>1, <3>1 DEF DeleteBlocks
  <2> QED
    BY <2>1, <2>2 DEF Covered
<1>2. CASE MinerAdd \/ OtherBlock
  BY <1>2 DEF MinerAdd, OtherBlock, Covered
<1>3. CASE blocks' = blocks /\ undone' = undone
  BY <1>3 DEF Covered
<1>4. ASSUME NEW b \in collected, CheckCommit(b) PROVE Covered(h)' \/ h \in undone'
  BY <1>4 DEF CheckCommit, Covered
<1>5. CASE [Next]_vars
  BY <1>1, <1>2, <1>3, <1>5
     DEF Next, Alone, OtherStep, SyncStep, MinerStep, NodeExtend, NodeRewind, StreamBreaks, OpenStream, RecvError,
         RecvNil, Recv, DeleteTxs, SendGap, SendNew, AskDb, SleepGrown, WakeUp, Discard,
         DiscardNil, MinerGet, OtherTx, Refresh, Restart, vars
<1> QED
  BY <1>0, <1>4, <1>5, AllSteps DEF RestartAll, Next

-----------------------------------------------------------------------------
(* The range of the check.                                                  *)

LEMMA RangeInit == InitAll => RangeInv
<1> SUFFICES ASSUME InitAll PROVE RangeInv
  OBVIOUS
<1>1. Pending = {} /\ main \in {"check", "wait"} /\ (main = "wait" => mode = "onsync")
  BY DEF InitAll, Pending
<1> QED
  BY <1>1 DEF RangeInv

LEMMA RangeNext == TypeAll /\ RangeInv /\ ShownInv /\ [NextAll]_allVars => RangeInv'
<1> SUFFICES ASSUME TypeAll, RangeInv, ShownInv, [NextAll]_allVars PROVE RangeInv'
  OBVIOUS
<1>0. TypeOK /\ TypeAll' /\ Heights = 0..MaxHeight /\ MaxHeight \in Nat
  BY TypeAllNext, Parameters DEF TypeAll
<1>s. ASSUME stopAt # MaxUint, NEW h \in 0..stopAt PROVE h \in Heights
  BY <1>0, <1>s DEF TypeAll
<1>1. CASE RestartAll
  BY <1>1 DEF RestartAll, Started, RangeInv, Pending
<1>2. CASE [Next]_vars /\ UNCHANGED checkVars
  <2>1. Pending' = Pending /\ UNCHANGED <<main, mode, stopAt, left>>
    BY <1>2 DEF checkVars, Pending
  <2>2. ASSUME main \in {"loop", "wait", "exit"}, mode # "onsync", stopAt # MaxUint,
               NEW h \in 0..stopAt
        PROVE  Covered(h)' \/ h \in Pending \cup left \cup undone'
    BY <1>s, <2>2, CoveredStays DEF RangeInv
  <2> QED
    BY <2>1, <2>2 DEF RangeInv
<1>3. CASE UNCHANGED vars /\ CheckBest
  <2>1. main' = "scroll" /\ Pending' = Pending /\ Pending = {}
    BY <1>3 DEF CheckBest, RangeInv, Pending
  <2> QED
    BY <2>1 DEF RangeInv
<1>4. CASE UNCHANGED vars /\ CheckScroll
  <2>1. main' = "loop" /\ stopAt' = stopAt /\ blocks' = blocks /\ undone' = undone
    BY <1>4 DEF CheckScroll, vars, dbVars, history
  <2>2. ASSUME stopAt # MaxUint, NEW h \in 0..stopAt
        PROVE  Covered(h)' \/ h \in missing' \cup left' \cup undone'
    <3>1. CASE h \in Hits
      <4>1. PICK f \in Forks : <<h, f>> \in shown
        BY <3>1 DEF Hits
      <4>2. <<h, f>> \in blocks \/ <<h, f>>[1] \in undone
        BY <4>1 DEF ShownInv
      <4> QED
        BY <2>1, <4>2 DEF Covered
    <3>2. CASE h \notin Hits
      BY <1>4, <2>2, <3>2 DEF CheckScroll, CheckRange
    <3> QED
      BY <3>1, <3>2
  <2> QED
    BY <2>1, <2>2 DEF RangeInv, Pending
<1>5. CASE UNCHANGED vars /\ (CheckHand \/ \E k \in asked : CheckGet(k))
  <2>1. Pending' = Pending /\ blocks' = blocks /\ undone' = undone
    BY <1>5, PendingStays DEF vars, history
  <2>2. UNCHANGED <<main, mode, stopAt, left>>
    BY <1>5 DEF CheckHand, CheckGet
  <2>3. main = "loop" \/ Pending # {}
    BY <1>5 DEF CheckHand, Pending
  <2>4. main = "loop"
    BY <2>3 DEF RangeInv
  <2> QED
    BY <2>1, <2>2, <2>4 DEF RangeInv, Covered
<1>6. CASE UNCHANGED vars /\ CheckEnd
  <2>1. main = "loop" /\ Pending = {} /\ Pending' = Pending /\ UNCHANGED <<mode, stopAt, left>>
    BY <1>6 DEF CheckEnd, Pending
  <2> QED
    BY <1>6, <2>1 DEF RangeInv, Covered, vars, dbVars, history
<1>7. ASSUME NEW b \in collected, CheckCommit(b) PROVE RangeInv'
  <2>1. UNCHANGED <<main, mode, stopAt, left, undone>>
    BY <1>7 DEF CheckCommit, history
  <2>2. main = "loop"
    BY <1>7, CommitMoves DEF RangeInv
  <2> QED
    BY <1>7, <2>1, <2>2, CommitMoves DEF RangeInv
<1> QED
  BY <1>0, <1>1, <1>2, <1>3, <1>4, <1>5, <1>6, <1>7, AllSteps

(* Where the stream and the check start.                                    *)
LEMMA StartInit == InitAll => StartInv
<1> SUFFICES ASSUME InitAll PROVE StartInv
  OBVIOUS
<1>1. TypeAll /\ TypeOK /\ StartHeights = StartHeights
  BY TypeAllInit DEF TypeAll
<1>2. startHeight = base /\ base \in StartHeights /\ best \in Nat
  BY <1>1, Numbers DEF InitAll, Init
<1>3. startHeight # MaxUint => startHeight < best
  BY <1>1, <1>2, StartOfStream, Parameters DEF TypeOK
<1>4. main # "check" => mode = "onsync"
  BY DEF InitAll
<1> QED
  BY <1>2, <1>3, <1>4 DEF StartInv

LEMMA StartNext ==
    TypeAll /\ RangeInv /\ StartInv /\ Announced /\ [NextAll]_allVars => StartInv'
<1> SUFFICES ASSUME TypeAll, RangeInv, StartInv, Announced, [NextAll]_allVars, fork' = 0
             PROVE  StartInv'
  BY DEF StartInv
<1> USE DEF nodeVars, streamVars, syncVars, minerVars, dbVars, history,
        shownVars, otherVars
<1>0. /\ TypeOK /\ TypeAll' /\ best \in Heights /\ best \in Nat /\ best' \in Nat
      /\ stopAt \in Nat /\ startHeight \in Nat /\ MaxUint \in Nat
  <2>1. TypeOK /\ TypeAll' /\ TypeOK'
    BY TypeAllNext DEF TypeAll
  <2>2. best \in Heights /\ best' \in Heights
    BY <2>1 DEF TypeOK
  <2>3. stopAt \in Heights \cup {MaxUint} /\ startHeight \in Heights \cup {MaxUint}
    BY DEF TypeAll
  <2>4. Heights \subseteq Nat /\ MaxUint \in Nat
    BY Parameters
  <2> QED
    BY <2>1, <2>2, <2>3, <2>4
<1>1. CASE RestartAll
  <2>1. fork = 0 /\ best' = best /\ base' \in StartHeights /\ startHeight' = base'
    BY <1>1 DEF RestartAll, Alone, Restart, Started
  <2>2. startHeight' # MaxUint => startHeight' < best
    BY <1>0, <2>1, StartOfStream
  <2>3. main' # "check" => mode' = "onsync"
    BY <1>1 DEF RestartAll, Started
  <2> QED
    BY <2>1, <2>2, <2>3 DEF StartInv
<1>2. CASE [Next]_vars /\ ~Restart /\ UNCHANGED checkVars
  <2>1. Pending' = Pending /\ UNCHANGED <<main, mode, stopAt, startHeight>>
    BY <1>2 DEF checkVars, Pending
  <2>2. fork = 0
    BY <1>0, <1>2, ForkStays
  <2>3. base' = base \/ base = MaxUint
    BY <1>0, <1>2, <2>2, BaseMoves
  <2>4. best <= best'
    BY <1>0, <1>2, NewBlocks
  <2>5. startHeight # MaxUint => base' = startHeight
    BY <2>2, <2>3 DEF StartInv
  <2> QED
    BY <1>0, <2>1, <2>2, <2>4, <2>5 DEF StartInv
<1>3. CASE UNCHANGED vars /\ CheckBest
  <2>1. /\ fork = 0 /\ best' = best /\ base' = base /\ main = "check"
        /\ stopAt' \in StartHeights /\ UNCHANGED <<mode, startHeight>>
    BY <1>3 DEF CheckBest, vars
  <2>2. Pending' = {}
    BY <1>3 DEF CheckBest, RangeInv, Pending
  <2>3. stopAt' # MaxUint => stopAt' = best - 1
    BY <1>0, <2>1, StartOfStream
  <2>4. startHeight # MaxUint => startHeight <= best - 1
    BY <1>0, <2>1 DEF StartInv
  <2> QED
    BY <1>0, <2>1, <2>2, <2>3, <2>4 DEF StartInv
<1>4. CASE UNCHANGED vars /\ CheckScroll
  <2>1. /\ fork = 0 /\ best' = best /\ base' = base /\ main = "scroll"
        /\ UNCHANGED <<mode, startHeight, stopAt, asked, collected>>
    BY <1>4 DEF CheckScroll, vars
  <2>2. stopAt = MaxUint => Pending' = {}
    BY <1>4, <2>1 DEF CheckScroll, RangeInv, Pending
  <2> QED
    BY <2>1, <2>2 DEF StartInv
<1>5. CASE UNCHANGED vars /\ (CheckHand \/ (\E k \in asked : CheckGet(k)) \/ CheckEnd)
  <2>1. /\ fork = 0 /\ best' = best /\ base' = base
        /\ UNCHANGED <<mode, startHeight, stopAt>>
    BY <1>5 DEF CheckHand, CheckGet, CheckEnd, vars
  <2>2. Pending' = Pending /\ (main' # "check" => main # "check")
    BY <1>5, PendingStays DEF CheckHand, CheckGet, CheckEnd, Pending
  <2> QED
    BY <2>1, <2>2 DEF StartInv
<1>6. ASSUME NEW b \in collected, CheckCommit(b) PROVE StartInv'
  <2>1. /\ fork = 0 /\ best' = best /\ base' = base
        /\ UNCHANGED <<main, mode, startHeight, stopAt>>
    BY <1>6 DEF CheckCommit
  <2>2. Pending' \subseteq Pending
    BY <1>6, CommitMoves
  <2> QED
    BY <2>1, <2>2 DEF StartInv
<1> QED
  BY <1>0, <1>1, <1>2, <1>3, <1>4, <1>5, <1>6, AllSteps

-----------------------------------------------------------------------------
(* What the stream and the check have passed.                               *)

LEMMA HolesInit == InitAll => HolesInv
<1> SUFFICES ASSUME InitAll PROVE HolesInv
  OBVIOUS
<1>1. TypeOK /\ Points = {} /\ mpc = "recv" /\ pc = "open" /\ lastHeight = base
  BY TypeInit DEF InitAll, Init, Points, Pending
<1>2. base \in Nat
  BY <1>1, Numbers
<1> QED
  BY <1>1, <1>2 DEF HolesInv

LEMMA HolesRestart ==
    ASSUME TypeAll, TypeAll', HolesInv, ShownInv, RestartAll, fork = 0, ~dbError
    PROVE  HolesInv'
<1> USE DEF nodeVars, dbVars, history, shownVars, otherVars
<1>1. /\ best' = best /\ blocks' = blocks /\ shown' = shown /\ undone' = undone
      /\ mpc' = "recv" /\ pc' = "open"
      /\ lastHeight' = base' /\ base' \in StartHeights /\ queue' = <<>> /\ Pending' = {}
  BY DEF RestartAll, Alone, Restart, Started, Pending
<1>2. best \in Heights /\ blocks \cup shown \subseteq Heights \X Forks /\ MaxUint > MaxHeight
      /\ Heights = 0..MaxHeight /\ MaxUint \in Nat /\ MaxHeight \in Nat
  <2>1. best \in Heights /\ blocks \cup shown \subseteq Heights \X Forks
    BY DEF TypeAll, TypeOK
  <2> QED
    BY <2>1, Parameters
<1>3. base' = MaxUint \/ base' = best - 1
  BY <1>1, <1>2, StartOfStream
<1>4. Points' = {b[1] : b \in blocks \cup shown}
  BY <1>1 DEF Points
<1>5. \A c \in Points' : c <= best' /\ c \in Nat
  <2>1. Points' \subseteq Points
    BY <1>4 DEF Points
  <2>2. \A c \in Points' : c \in Heights
    BY <1>2, <1>4
  <2> QED
    BY <1>1, <1>2, <2>1, <2>2 DEF HolesInv
<1>6. ASSUME NEW c \in Points', NEW h \in 0..c, Above(h)' PROVE Account(h)'
  <2>1. h > base'
    BY <1>1, <1>6 DEF Above
  <2>2. h = c
    BY <1>1, <1>2, <1>3, <1>5, <1>6, <2>1
  <2>3. PICK b \in blocks \cup shown : b[1] = c
    BY <1>4
  <2>4. b = <<b[1], b[2]>> /\ b[2] \in Forks /\ (b \in blocks \/ b[1] \in undone)
    BY <1>2 DEF ShownInv
  <2> QED
    BY <1>1, <2>2, <2>3, <2>4 DEF Account, Kept
<1>7. lastHeight' # MaxUint => \A h \in base'+1..lastHeight' : Account(h)'
  BY <1>1, <1>2, <1>3
<1> QED
  BY <1>1, <1>5, <1>6, <1>7 DEF HolesInv

(* The steps of the check.                                                  *)
LEMMA HolesCheck ==
    ASSUME TypeAll, TypeAll', RangeInv, StartInv, ShownInv, HolesInv, [NextAll]_allVars,
           ~RestartAll, fork = 0, ~dbError, ~dbError',
           \/ /\ CheckBest \/ CheckScroll \/ CheckHand \/ (\E h \in asked : CheckGet(h)) \/ CheckEnd
              /\ UNCHANGED vars
           \/ \E b \in collected : CheckCommit(b)
    PROVE  HolesInv'
<1>0. UNCHANGED <<nodeVars, streamVars, syncVars, minerVars, dbError, shown, undone>>
  BY DEF vars, dbVars, history, shownVars, CheckCommit
<1>1. \A h \in Nat : Account(h) => Account(h)'
  BY AccountStays
<1>2. /\ base \in Nat /\ mh \in Nat /\ lastHeight \in Nat /\ next \in Nat /\ best \in Nat
      /\ Heights = 0..MaxHeight /\ MaxHeight \in Nat
  <2>1. TypeOK
    BY DEF TypeAll
  <2> QED
    BY <2>1, Numbers, Parameters
<1>3. \A h : Above(h)' <=> Above(h)
  BY <1>0 DEF Above, streamVars, syncVars
<1>4. Points \subseteq Heights
  BY DEF Points, Pending, TypeAll, TypeOK
<1>5. /\ \A c \in Points' : c <= best
      /\ \A c \in Points' : \A h \in 0..c : Above(h) => Account(h)'
  <2>1. ASSUME Points' \subseteq Points
        PROVE  <1>5!:
    <3>1. \A c \in Points' : \A h \in 0..c : h \in Nat
      OBVIOUS
    <3> QED
      BY <1>1, <2>1, <3>1 DEF HolesInv
  <2>2. CASE CheckScroll /\ UNCHANGED vars
    <3>1. /\ main = "scroll" /\ blocks' = blocks /\ Pending = {}
          /\ asked' = asked /\ collected' = collected
      BY <2>2 DEF CheckScroll, RangeInv, vars, dbVars
    <3>5. shown' = shown
      BY <1>0
    <3>2. ASSUME NEW c \in Points' PROVE c \in Points \/ (c \in missing' /\ stopAt # MaxUint)
      <4>1. missing' # {} => stopAt # MaxUint
        BY <2>2 DEF CheckScroll
      <4> QED
        BY <3>1, <3>5, <4>1 DEF Points, Pending
    <3>3. ASSUME NEW c \in missing', stopAt # MaxUint
          PROVE  c <= best /\ \A h \in 0..c : Above(h) => Account(h)'
      <4>1. /\ c \in 0..stopAt /\ c \notin Hits /\ c \notin LowestGap
            /\ missing' = ((0..stopAt) \ Hits) \ LowestGap /\ stopAt \in 0..MaxHeight
        BY <1>2, <2>2, <3>3 DEF CheckScroll, CheckRange, TypeAll
      <4>2. stopAt <= best
        <5>1. mode # "onsync"
          BY <3>1 DEF TypeAll
        <5> QED
          BY <3>1, <3>3, <5>1 DEF StartInv
      <4>3. ASSUME NEW h \in 0..c, Above(h) PROVE Account(h)'
        <5>1. h \in 0..stopAt /\ h \in Nat
          BY <4>1
        <5>2. CASE h \in Hits
          <6>1. PICK f \in Forks : <<h, f>> \in shown
            BY <5>2 DEF Hits
          <6>2. <<h, f>> \in blocks \/ <<h, f>>[1] \in undone
            BY <6>1 DEF ShownInv
          <6>3. Account(h)
            BY <6>2 DEF Account, Kept
          <6> QED
            BY <1>1, <5>1, <6>3
        <5>3. CASE h \notin Hits /\ h \notin LowestGap
          BY <4>1, <5>1, <5>3 DEF Account, Pending
        <5>4. CASE h \in LowestGap
          <6>1. PICK g \in Hits \ {0} : ~(c < g)
            BY <4>1, <5>4 DEF LowestGap
          <6>2. h < g /\ g \in 0..stopAt
            BY <5>4, <6>1 DEF LowestGap, Hits
          <6>3. PICK f \in Forks : <<g, f>> \in shown
            BY <6>1 DEF Hits
          <6>4. g \in Points
            <7>1. <<g, f>>[1] \in {b[1] : b \in blocks \cup shown}
              BY <6>3
            <7> QED
              BY <7>1 DEF Points
          <6>5. Account(h)
            BY <4>1, <4>3, <5>1, <6>2, <6>4 DEF HolesInv
          <6> QED
            BY <1>1, <5>1, <6>5
        <5> QED
          BY <5>2, <5>3, <5>4
      <4> QED
        BY <1>2, <4>1, <4>2, <4>3
    <3>4. \A c \in Points : c <= best /\ \A h \in 0..c : Above(h) => Account(h)'
      <4>1. \A c \in Points : \A h \in 0..c : h \in Nat
        OBVIOUS
      <4> QED
        BY <1>1, <4>1 DEF HolesInv
    <3> QED
      BY <3>2, <3>3, <3>4
  <2>3. CASE UNCHANGED vars /\ (CheckHand \/ \E h \in asked : CheckGet(h))
    BY <1>0, <2>1, <2>3, PendingStays DEF Points
  <2>4. CASE UNCHANGED vars /\ (CheckBest \/ CheckEnd)
    BY <1>0, <2>1, <2>4 DEF CheckBest, CheckEnd, Points, Pending, vars, dbVars
  <2>5. ASSUME NEW b \in collected, CheckCommit(b) PROVE <1>5!:
    <3>1. Points' \subseteq Points
      BY <1>0, <2>5, CommitMoves DEF Points
    <3> QED
      BY <2>1, <3>1
  <2> QED
    BY <2>2, <2>3, <2>4, <2>5
<1>6. /\ mpc # "recv" => \A h \in base+1..mh : Account(h)'
      /\ lastHeight # MaxUint => \A h \in base+1..lastHeight : Account(h)'
      /\ pc \in {"send", "hand"} => \A h \in base+1..next-1 : Account(h)'
  <2>1. /\ \A h \in base+1..mh : h \in Nat
        /\ \A h \in base+1..lastHeight : h \in Nat
        /\ \A h \in base+1..next-1 : h \in Nat
    BY <1>2
  <2> QED
    BY <1>1, <2>1 DEF HolesInv
<1> QED
  BY <1>0, <1>3, <1>5, <1>6 DEF HolesInv, nodeVars, streamVars, syncVars, minerVars

(* The steps of the stream, of its miner and of the node.                   *)
LEMMA HolesStream ==
    ASSUME TypeAll, RangeInv, HolesInv, Announced, Unstarted, Announced', Unstarted',
           [NextAll]_allVars, ~RestartAll,
           [Next]_vars, ~Restart, UNCHANGED otherVars, UNCHANGED checkVars,
           fork = 0, fork' = 0, ~dbError, ~dbError'
    PROVE  HolesInv'
<1> USE DEF nodeVars, streamVars, syncVars, minerVars, dbVars, history,
        shownVars, otherVars
<1>0. TypeOK /\ TypeOK'
  BY TypeNext DEF TypeAll
<1>1. \A h \in Nat : Account(h) => Account(h)'
  BY AccountStays
<1>2. base' = base \/ (base = MaxUint /\ DeleteTxs /\ base' = newHeight)
  BY <1>0, BaseMoves
<1>3. /\ best \in Nat /\ best' \in Nat /\ mh \in Nat /\ mh' \in Nat /\ base \in Nat
      /\ base' \in Nat /\ newHeight \in Nat /\ newHeight' \in Nat /\ lastHeight \in Nat
      /\ lastHeight' \in Nat /\ next \in Nat /\ next' \in Nat /\ MaxUint \in Nat
      /\ newHeight < MaxUint /\ newHeight' < MaxUint
  <2>1. Heights \subseteq Nat /\ MaxUint \in Nat /\ \A h \in Heights : h < MaxUint
    BY Parameters
  <2>2. /\ {best, best', mh, mh', newHeight, newHeight'} \subseteq Heights
        /\ {lastHeight, lastHeight', base, base'} \subseteq Heights \cup {MaxUint}
    BY <1>0 DEF TypeOK
  <2>3. next \in Nat /\ next' \in Nat
    BY <1>0, Parameters DEF TypeOK
  <2> QED
    BY <2>1, <2>2, <2>3
<1>4. ~OtherBlock /\ \A k \in Heights : ~OtherTx(k)
  BY <1>0, NoOther
<1>5. /\ \A b \in blocks' \cup shown' :
            b \in blocks \cup shown \/ (MinerAdd /\ mpc = "block" /\ b = <<mh, mv>>)
      /\ best <= best'
  BY <1>0, <1>4, NewBlocks, NewShown
<1>6. \A c \in Points' : c \in Nat /\ (c \in Points \/ (MinerAdd /\ mpc = "block" /\ c = mh))
  <2>1. Pending' = Pending /\ Pending \subseteq Nat
    <3>1. Heights \subseteq Nat
      BY Parameters
    <3> QED
      BY <3>1 DEF Pending, TypeAll, checkVars
  <2>2. \A b \in blocks' \cup shown' : b[1] \in Nat
    <3>1. blocks' \cup shown' \subseteq Heights \X Forks
      BY <1>0 DEF TypeOK
    <3>2. \A b \in Heights \X Forks : b[1] \in Nat
      BY Parameters
    <3> QED
      BY <3>1, <3>2
  <2> QED
    BY <1>5, <2>1, <2>2 DEF Points
<1>7. /\ \A c \in Points : c <= best
      /\ mpc \in {"tx", "block"} => mh <= best
      /\ \A c \in Points : \A h \in 0..c : Above(h) => Account(h)
      /\ mpc # "recv" => \A h \in base+1..mh : Account(h)
      /\ lastHeight # MaxUint => \A h \in base+1..lastHeight : Account(h)
      /\ pc \in {"send", "hand"} => base < newHeight
      /\ pc \in {"send", "hand"} => \A h \in base+1..next-1 : Account(h)
      /\ pc = "hand" => next >= newHeight
  BY DEF HolesInv
<1>8. \A c \in Points' : c <= best'
  BY <1>3, <1>5, <1>6, <1>7
<1>9. mpc' \in {"tx", "block"} => mh' <= best'
  <2>1. CASE MinerGet
    BY <1>3, <2>1 DEF MinerGet
  <2>2. CASE SendGap \/ SendNew
    BY <2>2 DEF SendGap, SendNew, Hand
  <2>3. CASE MinerAdd
    BY <1>3, <1>5, <1>7, <2>3 DEF MinerAdd
  <2>4. CASE mpc' = mpc /\ mh' = mh
    BY <1>3, <1>5, <1>7, <2>4
  <2> QED
    BY <1>4, <2>1, <2>2, <2>3, <2>4
       DEF Next, Alone, OtherStep, SyncStep, MinerStep, NodeExtend, NodeRewind, StreamBreaks, OpenStream,
           RecvError, RecvNil, Recv, DeleteBlocks, DeleteTxs, AskDb, SleepGrown, WakeUp,
           Discard, DiscardNil, Refresh, vars
\* Where a height is below one that is in the database or with the check.
<1>10. \A c \in Points' : \A h \in 0..c : Above(h)' => Account(h)'
  <2>1. SUFFICES ASSUME NEW c \in Points', NEW h \in 0..c, Above(h)' PROVE Account(h)'
    OBVIOUS
  <2>2. h \in Nat /\ c \in Nat /\ h <= c
    BY <1>6, <2>1
  <2>3. Above(h) \/ h > best
    BY <1>0, <2>1, <2>2, AboveStays
  <2>4. CASE c \in Points
    <3>1. Above(h)
      BY <1>3, <1>7, <2>2, <2>3, <2>4
    <3> QED
      BY <1>1, <1>7, <2>1, <2>2, <2>4, <3>1
  <2>5. CASE MinerAdd /\ mpc = "block" /\ c = mh
    <3>1. base # MaxUint
      BY <2>5 DEF Unstarted
    <3>2. Above(h)
      BY <1>3, <1>7, <2>2, <2>3, <2>5
    <3>3. queue \in Seq(Heights) /\ Heights \subseteq Nat
      BY <1>0, Parameters DEF TypeOK
    <3>4. \A i \in DOMAIN queue : queue[i] \in Nat /\ base < queue[i]
      BY <3>1, <3>3, LenProperties DEF Announced
    <3>5. h > base
      BY <1>3, <2>2, <3>1, <3>2, <3>4 DEF Above, Announced
    <3> QED
      BY <1>1, <1>3, <1>7, <2>2, <2>5, <3>5
  <2> QED
    BY <1>6, <2>1, <2>4, <2>5
\* What the miner is at.
<1>11. mpc' # "recv" => \A h \in base'+1..mh' : Account(h)'
  <2>1. SUFFICES ASSUME mpc' # "recv", NEW h \in base'+1..mh' PROVE Account(h)'
    OBVIOUS
  <2>2. base' = base /\ h \in Nat
    <3>1. h \in Nat
      BY <1>3, <2>1, HeightAbove
    <3> QED
      BY <1>2, <2>1, <3>1 DEF Unstarted, DeleteTxs
  <2>3. CASE SendGap
    <3>1. pc = "send" /\ mh' = next /\ mpc' = "get"
      BY <2>3 DEF SendGap, Hand, GapFrom
    <3>2. CASE h = next
      BY <3>1, <3>2 DEF Account, Kept, InFlight
    <3> QED
      BY <1>1, <1>3, <1>7, <2>1, <2>2, <3>1, <3>2
  <2>4. CASE SendNew
    <3>1. pc \in {"send", "hand"} /\ mh' = newHeight /\ mpc' = "get"
      BY <2>4 DEF SendNew, Hand
    <3>2. next >= newHeight
      BY <1>7, <2>4 DEF SendNew, GapFrom
    <3>3. CASE h = newHeight
      BY <3>1, <3>3 DEF Account, Kept, InFlight
    <3> QED
      BY <1>1, <1>3, <1>7, <2>1, <2>2, <3>1, <3>2, <3>3
  <2>5. CASE mpc # "recv" /\ mh' = mh
    BY <1>1, <1>7, <2>1, <2>2, <2>5
  <2> QED
    BY <1>4, <2>1, <2>3, <2>4, <2>5
       DEF Next, Alone, OtherStep, SyncStep, MinerStep, NodeExtend, NodeRewind, StreamBreaks, OpenStream,
           RecvError, RecvNil, Recv, DeleteBlocks, DeleteTxs, AskDb, SleepGrown, WakeUp,
           Discard, DiscardNil, MinerGet, MinerAdd, Refresh, vars
\* What the stream has passed.
<1>12. lastHeight' # MaxUint => \A h \in base'+1..lastHeight' : Account(h)'
  <2>1. SUFFICES ASSUME lastHeight' # MaxUint, NEW h \in base'+1..lastHeight'
                 PROVE  Account(h)'
    OBVIOUS
  <2>2. h \in Nat
    BY <1>3, <2>1, HeightAbove
  <2>3. CASE DeleteTxs
    <3>1. lastHeight' = newHeight /\ pc = "deleteTx"
      BY <2>3 DEF DeleteTxs
    <3>2. base' = base /\ base # MaxUint
      <4>1. base' < newHeight
        BY <1>3, <2>1, <3>1, HeightAbove
      <4>2. base' # newHeight /\ base' # MaxUint
        BY <1>3, <4>1
      <4> QED
        BY <1>2, <4>2
    <3>3. h <= lastHeight
      BY <1>3, <2>1, <3>1 DEF Announced
    <3>4. lastHeight # MaxUint
      BY <3>2 DEF Unstarted
    <3> QED
      BY <1>1, <1>3, <1>7, <2>1, <2>2, <3>2, <3>3, <3>4
  <2>4. CASE SendNew
    <3>1. mh' = newHeight /\ mpc' = "get" /\ lastHeight' = newHeight
      BY <2>4 DEF SendNew, Hand
    <3> QED
      BY <1>11, <2>1, <3>1
  <2>5. CASE WakeUp
    <3>1. shown \subseteq Heights \X Forks /\ shown # {} /\ lastHeight' = DbBest
      BY <1>0, <2>5 DEF WakeUp, Caught, TypeOK
    <3>2. PICK b \in shown : b[1] = DbBest
      BY <3>1, BestOfDb
    <3>3. lastHeight' \in Points'
      <4>1. b \in shown'
        BY <1>4, <2>5 DEF WakeUp, Next, Alone, OtherStep, Refresh, Restart, vars
      <4> QED
        BY <3>1, <3>2, <4>1 DEF Points
    <3>4. h > base' /\ h \in 0..lastHeight'
      BY <1>3, <2>1, HeightPast
    <3>5. Above(h)'
      BY <3>4 DEF Above
    <3> QED
      BY <1>10, <3>3, <3>4, <3>5
  <2>6. CASE lastHeight' = lastHeight /\ base' = base
    BY <1>1, <1>7, <2>1, <2>2, <2>6
  <2> QED
    BY <1>4, <2>3, <2>4, <2>5, <2>6
       DEF Next, Alone, OtherStep, SyncStep, MinerStep, NodeExtend, NodeRewind, StreamBreaks, OpenStream,
           RecvError, RecvNil, Recv, DeleteBlocks, SendGap, AskDb, SleepGrown,
           Discard, DiscardNil, MinerGet, MinerAdd, Refresh, vars
<1>13. pc' \in {"send", "hand"} => base' < newHeight'
  <2>1. CASE Recv
    <3>1. newHeight' = queue[1] /\ 1 \in DOMAIN queue /\ base' = base
      BY <1>0, <2>1, QueueTail DEF Recv, TypeOK
    <3>2. base' = MaxUint => pc' \notin {"send", "hand"}
      BY DEF Unstarted
    <3> QED
      BY <3>1, <3>2 DEF Announced
  <2>2. CASE pc \in {"send", "hand"} /\ base' = base /\ newHeight' = newHeight
    BY <1>7, <2>2
  <2>3. CASE pc' \notin {"send", "hand"}
    BY <2>3
  <2> QED
    BY <1>4, <2>1, <2>2, <2>3
       DEF Next, Alone, OtherStep, SyncStep, MinerStep, NodeExtend, NodeRewind, StreamBreaks, OpenStream,
           RecvError, RecvNil, SendGap, SendNew, DeleteBlocks, DeleteTxs, AskDb, SleepGrown,
           WakeUp, Discard, DiscardNil, MinerGet, MinerAdd, Refresh, vars
<1>14. pc' \in {"send", "hand"} => \A h \in base'+1..next'-1 : Account(h)'
  <2>1. SUFFICES ASSUME pc' \in {"send", "hand"}, NEW h \in base'+1..next'-1
                 PROVE  Account(h)'
    OBVIOUS
  <2>2. h \in Nat /\ base' = base
    <3>1. h \in Nat
      BY <1>3, <2>1, HeightBefore
    <3> QED
      BY <1>2, <2>1, <3>1 DEF DeleteTxs
  <2>3. CASE Recv
    <3>1. next' = lastHeight + 1 /\ pc' = "send"
      BY <2>1, <2>3 DEF Recv
    <3>2. lastHeight # MaxUint
      BY <2>2, <3>1 DEF Unstarted
    <3> QED
      BY <1>1, <1>3, <1>7, <2>1, <2>2, <3>1, <3>2
  <2>4. CASE SendGap
    <3>1. pc = "send" /\ mh' = next /\ mpc' = "get" /\ next' = next + 1
      BY <2>4 DEF SendGap, Hand, GapFrom
    <3>2. CASE h = next
      BY <3>1, <3>2 DEF Account, Kept, InFlight
    <3> QED
      BY <1>1, <1>3, <1>7, <2>1, <2>2, <3>1, <3>2
  <2>5. CASE pc \in {"send", "hand"} /\ next' = next
    BY <1>1, <1>7, <2>1, <2>2, <2>5
  <2> QED
    BY <1>4, <2>1, <2>3, <2>4, <2>5
       DEF Next, Alone, OtherStep, SyncStep, MinerStep, NodeExtend, NodeRewind, StreamBreaks, OpenStream,
           RecvError, RecvNil, SendNew, DeleteBlocks, DeleteTxs, AskDb, SleepGrown, WakeUp,
           Discard, DiscardNil, MinerGet, MinerAdd, Refresh, vars
<1>15. pc' = "hand" => next' >= newHeight'
  <2>1. CASE AskDb
    BY <2>1 DEF AskDb, GapFrom
  <2>2. CASE pc = "hand" /\ next' = next /\ newHeight' = newHeight
    BY <1>7, <2>2
  <2> QED
    BY <1>4, <2>1, <2>2
       DEF Next, Alone, OtherStep, SyncStep, MinerStep, NodeExtend, NodeRewind, StreamBreaks, OpenStream,
           RecvError, RecvNil, Recv, SendGap, SendNew, DeleteBlocks, DeleteTxs, SleepGrown,
           WakeUp, Discard, DiscardNil, MinerGet, MinerAdd, Refresh, vars
<1> QED
  BY <1>8, <1>9, <1>10, <1>11, <1>12, <1>13, <1>14, <1>15 DEF HolesInv

LEMMA StreamNext ==
    TypeAll /\ Announced /\ Unstarted /\ ShownInv /\ [NextAll]_allVars =>
        (Announced /\ Unstarted /\ ShownInv)'
<1> SUFFICES ASSUME TypeAll, Announced, Unstarted, ShownInv, [NextAll]_allVars
             PROVE  (Announced /\ Unstarted /\ ShownInv)'
  OBVIOUS
<1>0. TypeOK
  BY DEF TypeAll
<1>1. CASE [Next]_vars
  BY <1>0, <1>1, AnnouncedNext, UnstartedNext, ShownNext
<1>2. ASSUME NEW b \in collected, CheckCommit(b) PROVE (Announced /\ Unstarted /\ ShownInv)'
  <2>1. (Announced /\ Unstarted)'
    BY <1>2 DEF CheckCommit, Announced, Unstarted, nodeVars, streamVars, syncVars, minerVars
  <2>2. ShownInv'
    BY <1>2 DEF CheckCommit, ShownInv, shownVars, history
  <2> QED
    BY <2>1, <2>2
<1> QED
  BY <1>0, <1>1, <1>2, AllSteps DEF RestartAll, Next

(* There is no other instance.                                              *)
LEMMA SoloNext == TypeAll /\ Solo /\ [NextAll]_allVars => Solo'
<1> SUFFICES ASSUME TypeAll, Solo, [NextAll]_allVars PROVE Solo'
  OBVIOUS
<1> USE DEF nodeVars, streamVars, syncVars, minerVars, dbVars, history,
        shownVars, otherVars
<1>0. TypeOK
  BY DEF TypeAll
<1>1. CASE RestartAll
  BY <1>1 DEF RestartAll, Alone, Restart, Solo
<1>2. CASE [Next]_vars /\ ~Restart /\ UNCHANGED otherVars
  <2>1. ~OtherBlock /\ \A k \in Heights : ~OtherTx(k)
    BY <1>0, <1>2, NoOther
  <2> QED
    BY <1>2, <2>1 DEF Solo, Next, Alone, OtherStep, SyncStep, MinerStep, NodeExtend, NodeRewind,
       StreamBreaks, OpenStream, RecvError, RecvNil, Recv, DeleteBlocks, DeleteTxs, SendGap,
       SendNew, AskDb, SleepGrown, WakeUp, Discard, DiscardNil, MinerGet, MinerAdd, Refresh, vars
<1>3. CASE UNCHANGED vars
  BY <1>3 DEF vars, Solo
<1>4. ASSUME NEW b \in collected, CheckCommit(b) PROVE Solo'
  BY <1>4 DEF CheckCommit, Solo
<1> QED
  BY <1>0, <1>1, <1>2, <1>3, <1>4, AllSteps

(* Neither a reorganisation nor a failed request is ever undone.            *)
LEMMA HistoryStays ==
    ASSUME TypeAll, [NextAll]_allVars
    PROVE  /\ fork' = 0 => fork = 0
           /\ ~dbError' => ~dbError
           /\ ~DbErrors /\ ~dbError => ~dbError'
<1> USE DEF nodeVars, streamVars, syncVars, minerVars, dbVars, history,
        shownVars, otherVars
<1>0. TypeOK
  BY DEF TypeAll
<1>1. ASSUME NEW b \in collected, CheckCommit(b) PROVE fork' = fork /\ dbError' = dbError
  BY <1>1 DEF CheckCommit
<1>2. ASSUME [Next]_vars PROVE fork' = 0 => fork = 0
  BY <1>0, <1>2, ForkStays
<1>3. ASSUME [Next]_vars
      PROVE  (~dbError' => ~dbError) /\ (~DbErrors /\ ~dbError => ~dbError')
  <2>1. CASE DeleteBlocks \/ DeleteTxs \/ MinerAdd
    BY <2>1 DEF DeleteBlocks, DeleteTxs, MinerAdd, Fails
  <2>2. CASE dbError' = dbError
    BY <2>2
  <2> QED
    BY <1>3, <2>1, <2>2 DEF Next, Alone, OtherStep, SyncStep, MinerStep, NodeExtend, NodeRewind,
       StreamBreaks, OpenStream, RecvError, RecvNil, Recv, SendGap,
       SendNew, AskDb, SleepGrown, WakeUp, Discard, DiscardNil, MinerGet, OtherTx, OtherBlock,
       Refresh, Restart, vars
<1>4. [Next]_vars \/ \E b \in collected : CheckCommit(b)
  BY <1>0, AllSteps DEF RestartAll, Next
<1> QED
  BY <1>1, <1>2, <1>3, <1>4

LEMMA HolesNext == TypeAll /\ AllInv /\ [NextAll]_allVars => HolesInv'
<1> SUFFICES ASSUME TypeAll, AllInv, [NextAll]_allVars, fork' = 0, ~dbError' PROVE HolesInv'
  BY DEF HolesInv
<1>0. fork = 0 /\ ~dbError /\ TypeOK /\ TypeAll'
  BY HistoryStays, TypeAllNext DEF TypeAll
<1>1. CASE RestartAll
  BY <1>0, <1>1, HolesRestart DEF AllInv
<1>2. CASE ~RestartAll /\ [Next]_vars /\ ~Restart /\ UNCHANGED otherVars /\ UNCHANGED checkVars
  BY <1>0, <1>2, StreamNext, HolesStream DEF AllInv
<1>3. CASE ~RestartAll /\ UNCHANGED vars
           /\ (CheckBest \/ CheckScroll \/ CheckHand \/ (\E h \in asked : CheckGet(h)) \/ CheckEnd)
  BY <1>0, <1>3, HolesCheck DEF AllInv
<1>4. CASE ~RestartAll /\ \E b \in collected : CheckCommit(b)
  BY <1>0, <1>4, HolesCheck DEF AllInv
<1> QED
  BY <1>0, <1>1, <1>2, <1>3, <1>4, AllSteps

LEMMA AllInvNext == TypeAll /\ AllInv /\ [NextAll]_allVars => (TypeAll /\ AllInv)'
BY TypeAllNext, RangeNext, StartNext, StreamNext, HolesNext, SoloNext DEF AllInv

(* The inductive invariant of the stream and the check together.            *)
THEOREM ModeAllInvariant == SpecAll => [](TypeAll /\ AllInv)
<1>1. InitAll => TypeAll /\ AllInv
  <2>1. InitAll => TypeOK /\ Init
    BY TypeInit DEF InitAll
  <2>2. Init => Solo
    BY DEF Init, Solo
  <2> QED
    BY <2>1, <2>2, TypeAllInit, RangeInit, StartInit, AnnouncedInit, UnstartedInit, ShownInit,
       HolesInit DEF AllInv
<1> QED
  BY <1>1, AllInvNext, PTL DEF SpecAll

(* When the check is done and the node has not reorganised its chain, there *)
(* is a block for every height of its range and, with the stream, for every *)
(* height up to the last one it has passed, whatever earlier runs have left *)
(* out: but for the lowest gap, blocks that were deleted, and requests that *)
(* failed (Start, checkIndex, SyncBlock).                                   *)
THEOREM ChecksRepair == SpecAll => [](~dbError => CheckRepairs)
<1>1. ASSUME TypeAll, AllInv, ~dbError, Checked, NEW h \in Reached
      PROVE  Covered(h) \/ InFlight({h}) \/ h \in left \cup undone
  <2>0. /\ stopAt \in Nat /\ base \in Nat /\ lastHeight \in Nat
    <3>1. TypeOK /\ Heights \subseteq Nat /\ MaxUint \in Nat
      BY <1>1, Parameters DEF TypeAll
    <3> QED
      BY <1>1, <3>1, Numbers DEF TypeAll
  <2>1. Pending = {} /\ main \in {"wait", "exit"} /\ mode # "onsync" /\ stopAt # MaxUint
    BY <1>1 DEF AllInv, RangeInv, Checked
  <2>2. CASE h \in 0..stopAt
    BY <1>1, <2>1, <2>2 DEF AllInv, RangeInv
  <2>3. CASE h \notin 0..stopAt
    <3>1. Followed /\ h \in 0..lastHeight
      BY <1>1, <2>3 DEF Reached
    <3>2. /\ fork = 0 /\ lastHeight # MaxUint
          /\ base = startHeight /\ startHeight <= stopAt
      BY <1>1, <2>1, <3>1 DEF Followed, AllInv, StartInv
    <3>3. h \in base+1..lastHeight
      BY <2>0, <2>3, <3>1, <3>2
    <3>4. Account(h)
      BY <1>1, <3>2, <3>3 DEF AllInv, HolesInv
    <3> QED
      BY <1>1, <2>1, <3>4 DEF Account, Kept, Covered, AllInv, Solo
  <2> QED
    BY <2>2, <2>3
<1>2. TypeAll /\ AllInv => (~dbError => CheckRepairs)
  BY <1>1 DEF CheckRepairs
<1> QED
  BY <1>2, ModeAllInvariant, PTL

(* What the program has, as the range of the stream and the heights that    *)
(* are in the database or on their way.                                     *)
LEMMA AccountedHeights ==
    ASSUME TypeAll, NEW h
    PROVE  h \in Accounted <=>
              \/ h \in Heights /\ (Covered(h) \/ InFlight({h}) \/ h \in Pending)
              \/ pc \in {"send", "hand"} /\ h \in next..newHeight
<1>1. {b[1] : b \in collected} \subseteq Heights
  BY DEF TypeAll
<1>2. h \in Pending <=> h \in missing \cup asked \/ h \in {b[1] : b \in collected}
  BY DEF Pending
<1> QED
  BY <1>1, <1>2 DEF Accounted

LEMMA AccountedStays ==
    ASSUME TypeAll, TypeAll', AllInv, AllInv', [NextAll]_allVars, ~RestartAll,
           fork = 0, ~dbError, ~dbError', NEW h \in Accounted, h \notin Accounted'
    PROVE  h \in undone'
<1> USE DEF nodeVars, streamVars, syncVars, minerVars, dbVars, history,
        shownVars, otherVars
<1>0. /\ TypeOK /\ base \in Nat /\ next \in Nat /\ newHeight \in Nat /\ newHeight \in Heights
      /\ Heights = 0..MaxHeight /\ MaxHeight \in Nat
  <2>1. TypeOK
    BY DEF TypeAll
  <2>2. newHeight \in Heights
    BY <2>1 DEF TypeOK
  <2> QED
    BY <2>1, <2>2, Numbers, Parameters
<1>1. ASSUME Account(h), h \in Heights PROVE h \in undone'
  <2>1. Account(h)'
    BY <1>0, <1>1, AccountStays DEF AllInv
  <2>2. ~Covered(h)' /\ ~InFlight({h})' /\ h \notin Pending'
    BY <1>1 DEF Accounted, Pending
  <2> QED
    BY <2>1, <2>2 DEF Account, Kept, Covered, AllInv, Solo
<1>2. CASE h \in Heights /\ (Covered(h) \/ InFlight({h}) \/ h \in Pending)
  BY <1>1, <1>2 DEF Account, Kept, Covered
<1>3. CASE pc \in {"send", "hand"} /\ h \in next..newHeight
  <2>0. h \in Nat /\ h <= newHeight /\ h \in Heights
    BY <1>0, <1>3
  <2>1. ~InFlight({h})' /\ ~(pc' \in {"send", "hand"} /\ h \in next'..newHeight')
    BY <2>0 DEF Accounted
  <2>2. CASE SendGap
    <3>1. mh' = next /\ mpc' = "get" /\ next' = next + 1 /\ newHeight' = newHeight /\ pc' = pc
      BY <2>2 DEF SendGap, Hand, GapFrom
    <3> QED
      BY <1>0, <1>3, <2>0, <2>1, <3>1 DEF InFlight
  <2>3. CASE SendNew
    <3>1. mh' = newHeight /\ mpc' = "get"
      BY <2>3 DEF SendNew, Hand
    <3>2. next >= newHeight
      BY <2>3 DEF SendNew, GapFrom, AllInv, HolesInv
    <3> QED
      BY <1>0, <1>3, <2>0, <2>1, <3>1, <3>2 DEF InFlight
  <2>4. CASE AskDb
    <3>1. pc' \in {"sleep", "hand"} /\ next' = next /\ newHeight' = newHeight /\ next >= newHeight
      BY <2>4 DEF AskDb, GapFrom
    <3>2. pc' = "sleep" /\ DbHas(newHeight) /\ h = newHeight
      BY <1>0, <1>3, <2>0, <2>1, <2>4, <3>1 DEF AskDb
    <3>3. PICK b \in shown : b[1] = DbBest
      BY <1>0, <3>2, BestOfDb DEF DbHas, TypeOK
    <3>4. DbBest \in Points /\ h \in 0..DbBest
      <4>1. DbBest \in Nat /\ DbBest >= newHeight
        BY <1>0, <3>2, BestOfDb DEF DbHas, TypeOK
      <4> QED
        BY <2>0, <3>2, <3>3, <4>1 DEF Points
    <3>5. h > base
      BY <1>0, <1>3, <3>2 DEF AllInv, HolesInv
    <3>6. Account(h)
      BY <3>4, <3>5 DEF AllInv, HolesInv, Above
    <3> QED
      BY <1>1, <2>0, <3>6
  <2>5. CASE pc' = pc /\ next' = next /\ newHeight' = newHeight
    BY <1>3, <2>1, <2>5
  <2>6. CASE [Next]_vars /\ ~Restart
    BY <1>3, <2>2, <2>3, <2>4, <2>5, <2>6
       DEF Next, Alone, OtherStep, SyncStep, MinerStep, NodeExtend, NodeRewind, StreamBreaks, OpenStream,
           RecvError, RecvNil, Recv, DeleteBlocks, DeleteTxs, SleepGrown, WakeUp, Discard,
           DiscardNil, MinerGet, MinerAdd, OtherTx, OtherBlock, Refresh, vars
  <2>7. ASSUME NEW b \in collected, CheckCommit(b) PROVE h \in undone'
    BY <2>5, <2>7 DEF CheckCommit
  <2> QED
    BY <1>0, <2>6, <2>7, AllSteps
<1> QED
  BY <1>2, <1>3, AccountedHeights

(* Until the node reorganises its chain, a height the program has is let go *)
(* of only by a rewind or when the program is started again: not when the   *)
(* stream takes a block of its own check for one of another indexer, and    *)
(* stops handing it over (SyncBlock, sleepStream), if no request fails and  *)
(* no other instance is at work.                                            *)
THEOREM HeightsStay == ASSUME DbErrors = FALSE PROVE SpecAll => HeightsKept
<1>1. InitAll => ~dbError
  BY DEF InitAll, Init
<1>2. TypeAll /\ AllInv /\ ~dbError /\ [NextAll]_allVars => ~dbError'
  BY HistoryStays
<1>3. TypeAll /\ AllInv /\ ~dbError /\ [NextAll]_allVars =>
         [fork = 0 /\ crashes' = crashes => Accounted \ Accounted' \subseteq undone']_allVars
  <2>1. SUFFICES ASSUME TypeAll, AllInv, ~dbError, [NextAll]_allVars, fork = 0, crashes' = crashes,
                        NEW h \in Accounted, h \notin Accounted'
                 PROVE  h \in undone'
    OBVIOUS
  <2>2. ~RestartAll
    BY <2>1 DEF RestartAll, Alone, Restart, TypeAll, TypeOK
  <2> QED
    BY <1>2, <2>1, <2>2, AllInvNext, AccountedStays
<1> QED
  BY <1>1, <1>2, <1>3, ModeAllInvariant, PTL DEF SpecAll, HeightsKept
=============================================================================
