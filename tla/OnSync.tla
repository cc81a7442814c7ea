------------------------------ MODULE OnSync ------------------------------
(***************************************************************************)
(* Following the node (indexer/run_onsync.go).                             *)
(*                                                                         *)
(* The stream announces new blocks.  SyncBlock hands their heights, and    *)
(* those it has missed, to a miner of its own, which fetches each block    *)
(* and writes its transactions and then the block.  A height below the     *)
(* last one means that the node has rewound: the documents above it are    *)
(* deleted.  When the database already has the block, another indexer is   *)
(* at work, and the stream sleeps until that one stops.                    *)
(*                                                                         *)
(* A search of the database, the one that deletes included, sees each      *)
(* index as it was when it was last refreshed, which the program never     *)
(* asks for: a document may be missed after it has been written, and still *)
(* found after it has been deleted.                                        *)
(*                                                                         *)
(* The other indexer is a second instance of this program on the same      *)
(* database: its check, which works downwards and fills holes, and its     *)
(* stream write blocks of the node in any order, and leave out any.  A     *)
(* rewind of its own, and its failed requests, are left out: what it       *)
(* deletes is not put down to this instance.                               *)
(*                                                                         *)
(* The node and its stream are external: the node extends its chain and    *)
(* announces each block, or goes back to a fork and extends that; the      *)
(* stream may break and loses what it holds.                               *)
(***************************************************************************)
EXTENDS Integers, Sequences, FiniteSets, FiniteSetsExt

CONSTANTS
    MaxHeight,      \* bound on the height of the chain
    MaxFork,        \* bound on the number of reorganisations
    MaxQueue,       \* bound on the announcements the stream holds
    MaxFaults,      \* bound on reorganisations, restarts and failed requests together
    MaxUint,        \* largest uint64
    MaxRewind,      \* a longer rewind is taken for an error of the node; 1000
    DbErrors,       \* a request to the database may fail
    MaxOther        \* bound on the blocks another instance writes

ASSUME BoundAssumption ==
    /\ MaxHeight \in Nat \ {0} /\ MaxFork \in Nat /\ MaxQueue \in Nat /\ MaxFaults \in Nat
    /\ MaxRewind \in Nat /\ MaxOther \in Nat
    /\ MaxUint \in Nat /\ MaxUint > MaxHeight + 1
    /\ DbErrors \in BOOLEAN

VARIABLES
    \* the node
    chain, best,    \* chain[h]: the block (its fork) at height h, up to best
    fork,           \* the fork the node extends
    queue,          \* heights announced and not yet received
    live,           \* the stream is connected
    \* the goroutine of the stream
    pc, newHeight, lastHeight,
    next,           \* the next height to hand to the miner
    cblock,         \* CBlockNo of sleepStream
    isNil,          \* ns.stream has been set to nil by Stop
    drain,          \* the goroutine of sleepStream that discards blocks
    \* the miner
    mpc, mh, mv,
    \* the database: blocks, as height and fork, and those with transactions
    blocks, txs,
    shown, shownTxs,    \* what searches find of them
    \* the other instance
    writing,        \* the block it has written the transactions of
    others,         \* number of blocks it has begun
    \* history
    base,           \* heights up to base are left to the check
    dbError,        \* a request to the database has failed
    unseen,         \* blocks the search of a rewind did not find, or written since
    raced,          \* heights rewound while a block was being written, or not shown
    undone,         \* heights of blocks that were deleted
    holes,          \* heights missing below a block the other instance wrote
    crashes

nodeVars == <<chain, best, fork>>
streamVars == <<queue, live>>
syncVars == <<pc, newHeight, lastHeight, next, cblock, isNil, drain, base>>
minerVars == <<mpc, mh, mv>>
dbVars == <<blocks, txs, dbError>>
shownVars == <<shown, shownTxs>>
otherVars == <<writing, others>>
history == <<unseen, raced, undone, holes>>
vars == <<nodeVars, streamVars, syncVars, minerVars, dbVars, shownVars, otherVars, history, crashes>>

Heights == 0..MaxHeight
Forks == 0..MaxFork

\* A panic of one goroutine ends the program.
Running == pc # "panic"

\* The miner is at one of these heights.
InFlight(heights) == mpc # "recv" /\ mh \in heights

\* A height is in the database or with the miner, or has been deleted, or is
\* one the other instance has left out.
Kept(h) ==
    InFlight({h}) \/ h \in undone \cup holes \/ \E f \in Forks : <<h, f>> \in blocks

Faults == fork + crashes + IF dbError THEN 1 ELSE 0

\* A request to the database that changes it fails, and is only logged.
Fails == DbErrors /\ ~dbError /\ Faults < MaxFaults /\ dbError' = TRUE

(* Indexer.Start: the height before the best block.  GetBestBlock answers 0 *)
(* when it fails, and the height wraps.                                     *)
\* Mutant: the height before the first block is negative.
StartHeightsSigned == {best - 1, MaxUint}
StartHeights == {IF best = 0 THEN MaxUint ELSE best - 1, MaxUint}

Init ==
    /\ chain = [h \in Heights |-> 0] /\ best \in {0, 1} /\ fork = 0
    /\ queue = <<>> /\ live = FALSE
    /\ pc = "open" /\ newHeight = 0
    /\ lastHeight \in StartHeights /\ base = lastHeight
    /\ next = 0 /\ cblock = 0 /\ isNil = FALSE /\ drain = "off"
    /\ mpc = "recv" /\ mh = 0 /\ mv = 0
    /\ blocks = {} /\ txs = {}
    /\ shown = {} /\ shownTxs = {}
    /\ writing = {} /\ others = 0
    /\ dbError = FALSE /\ unseen = {} /\ raced = {} /\ undone = {} /\ holes = {}
    /\ crashes = 0

-----------------------------------------------------------------------------
(* The node.  What a full stream does not take is lost.                     *)
NodeExtend ==
    /\ best < MaxHeight
    /\ best' = best + 1
    /\ chain' = [chain EXCEPT ![best + 1] = fork]
    /\ queue' = IF live /\ Len(queue) < MaxQueue THEN Append(queue, best + 1) ELSE queue
    /\ UNCHANGED <<fork, live, syncVars, minerVars, dbVars, history, crashes>>

NodeRewind(h) ==
    /\ fork < MaxFork /\ Faults < MaxFaults
    /\ h \in 0..best-1
    /\ fork' = fork + 1
    /\ best' = h
    /\ UNCHANGED <<chain, streamVars, syncVars, minerVars, dbVars, history, crashes>>

StreamBreaks ==
    /\ live
    /\ live' = FALSE /\ queue' = <<>>
    /\ UNCHANGED <<nodeVars, syncVars, minerVars, dbVars, history, crashes>>

-----------------------------------------------------------------------------
(* startStream and SyncBlock.                                               *)

(* openStream, and a receive that fails: the stream is opened again.  A     *)
(* goroutine left over by sleepStream ends with the old stream, or has not  *)
(* yet read ns.stream.                                                      *)
OpenStream ==
    /\ pc = "open"
    /\ live' = TRUE /\ queue' = <<>>
    /\ pc' = "recv"
    /\ drain' \in {"off", drain}
    /\ UNCHANGED <<nodeVars, newHeight, lastHeight, next, cblock, isNil, base,
                   minerVars, dbVars, history, crashes>>

RecvError ==
    /\ pc = "recv" /\ ~live /\ ~isNil
    /\ pc' = "open"
    /\ UNCHANGED <<nodeVars, streamVars, newHeight, lastHeight, next, cblock, isNil,
                   drain, base, minerVars, dbVars, history, crashes>>

(* Stop has set the stream to nil under this goroutine.                     *)
RecvNil ==
    /\ pc = "recv" /\ isNil
    /\ pc' = "panic"
    /\ UNCHANGED <<nodeVars, streamVars, newHeight, lastHeight, next, cblock, isNil,
                   drain, base, minerVars, dbVars, history, crashes>>

Recv ==
    /\ pc = "recv" /\ ~isNil
    /\ queue # <<>>
    /\ queue' = Tail(queue)
    /\ newHeight' = Head(queue)
    /\ IF Head(queue) < lastHeight
       THEN pc' = "delete" /\ UNCHANGED next
       ELSE pc' = "send" /\ next' = lastHeight + 1
    /\ UNCHANGED <<nodeVars, live, lastHeight, cblock, isNil, drain, base, minerVars,
                   dbVars, history, crashes>>

(* DeleteBlocksInRange, called with newHeight+1 and lastHeight; it deletes  *)
(* one index after the other and only logs an error.                        *)
\* A block of height h is being written, or has not been shown yet.
Fresh(h) ==
    \/ InFlight({h})
    \/ \E b \in (blocks \ shown) \cup writing : b[1] = h

\* Mutant: the first height of the range is left out.
RewoundAbove == {b \in Heights \X Forks : b[1] \in newHeight+2..lastHeight}
Rewound == {b \in Heights \X Forks : b[1] \in newHeight+1..lastHeight}

DeleteBlocks ==
    /\ pc = "delete"
    /\ isNil' = (isNil \/ lastHeight - (newHeight + 1) > MaxRewind)
    /\ \/ blocks' = blocks \ (Rewound \cap shown) /\ UNCHANGED dbError
       \/ Fails /\ UNCHANGED blocks
    /\ unseen' = blocks \ shown
    /\ raced' = raced \cup {h \in newHeight+1..lastHeight : Fresh(h)}
    /\ undone' = undone \cup {b[1] : b \in blocks \ blocks'}
    /\ pc' = "deleteTx"
    /\ UNCHANGED <<nodeVars, streamVars, newHeight, lastHeight, next, cblock, drain,
                   base, minerVars, txs, holes, crashes>>

DeleteTxs ==
    /\ pc = "deleteTx"
    /\ \/ txs' = txs \ (Rewound \cap shownTxs) /\ UNCHANGED dbError
       \/ Fails /\ UNCHANGED txs
    /\ lastHeight' = newHeight
    /\ base' = IF base > newHeight THEN newHeight ELSE base
    /\ unseen' = {}
    /\ pc' = "recv"
    /\ UNCHANGED <<nodeVars, streamVars, newHeight, next, cblock, isNil, drain,
                   minerVars, blocks, raced, undone, holes, crashes>>

(* The channel to the miner is not buffered.                                *)
Hand(h) == mpc = "recv" /\ mpc' = "get" /\ mh' = h /\ UNCHANGED mv

\* Mutant: the gap starts one height too late.
GapFromLate == next + 1
GapFrom == next

SendGap ==
    /\ pc = "send" /\ GapFrom < newHeight
    /\ Hand(GapFrom)
    /\ next' = GapFrom + 1
    /\ UNCHANGED <<nodeVars, streamVars, pc, newHeight, lastHeight, cblock, isNil, drain,
                   base, dbVars, history, crashes>>

SendNew ==
    /\ \/ pc = "send" /\ GapFrom >= newHeight
       \/ pc = "hand"
    /\ Hand(newHeight)
    /\ lastHeight' = newHeight
    /\ pc' = "recv"
    /\ UNCHANGED <<nodeVars, streamVars, newHeight, next, cblock, isNil, drain, base,
                   dbVars, history, crashes>>

(* GetBestBlockFromDb: no block is an error.                                *)
DbBest == Max({b[1] : b \in shown})
DbHas(h) == shown # {} /\ DbBest >= h

(* Once in a while the database is asked whether it has the block already;  *)
(* an error is taken for a no.                                              *)
AskDb ==
    /\ pc = "send" /\ GapFrom >= newHeight
    /\ \/ /\ DbHas(newHeight)
          /\ pc' = "sleep" /\ drain' = "on" /\ cblock' = newHeight
       \/ /\ ~DbHas(newHeight) \/ DbErrors
          /\ pc' = "hand" /\ UNCHANGED <<drain, cblock>>
    /\ UNCHANGED <<nodeVars, streamVars, newHeight, lastHeight, next, isNil, base,
                   minerVars, dbVars, history, crashes>>

(* sleepStream: the best block of the database, every five seconds, until   *)
(* it no longer grows.                                                      *)
SleepGrown ==
    /\ pc = "sleep" /\ DbHas(cblock + 1)
    /\ cblock' = DbBest
    /\ UNCHANGED <<nodeVars, streamVars, pc, newHeight, lastHeight, next, isNil, drain,
                   base, minerVars, dbVars, history, crashes>>

(* The goroutine that discards blocks may be waiting for one more.          *)
\* Mutant: the stream waits for a block above the last one it has seen.
CaughtBelow == shown # {} /\ cblock > DbBest
Caught == shown # {} /\ cblock >= DbBest

WakeUp ==
    /\ pc = "sleep" /\ Caught
    /\ lastHeight' = DbBest
    /\ pc' = "recv"
    /\ drain' \in {"off", "last"}
    /\ UNCHANGED <<nodeVars, streamVars, newHeight, next, cblock, isNil, base, minerVars,
                   dbVars, history, crashes>>

Discard ==
    /\ Running
    /\ drain \in {"on", "last"}
    /\ queue # <<>> \/ (~live /\ drain = "last")
    /\ queue' = IF queue = <<>> THEN queue ELSE Tail(queue)
    /\ drain' = IF drain = "last" THEN "off" ELSE drain
    /\ UNCHANGED <<nodeVars, live, pc, newHeight, lastHeight, next, cblock, isNil, base,
                   minerVars, dbVars, history, crashes>>

(* ... or reads ns.stream while it is nil.                                  *)
DiscardNil ==
    /\ drain = "last" /\ pc = "open"
    /\ pc' = "panic"
    /\ UNCHANGED <<nodeVars, streamVars, newHeight, lastHeight, next, cblock, isNil, drain,
                   base, minerVars, dbVars, history, crashes>>

-----------------------------------------------------------------------------
(* The miner of the stream.                                                 *)

(* GetBlock by height, repeated until the node has it.                      *)
MinerGet ==
    /\ Running
    /\ mpc = "get" /\ mh <= best
    /\ mv' = chain[mh]
    /\ mpc' = "tx"
    /\ UNCHANGED <<nodeVars, streamVars, syncVars, mh, dbVars, history, crashes>>

(* The documents of the block are written with an upsert; an error is only  *)
(* logged.                                                                  *)
\* Mutant: the block is written first.
MinerTxLast ==
    /\ Running
    /\ \/ mpc = "tx" /\ blocks' = blocks \cup {<<mh, mv>>} /\ UNCHANGED txs /\ mpc' = "block"
       \/ mpc = "block" /\ txs' = txs \cup {<<mh, mv>>} /\ UNCHANGED blocks /\ mpc' = "recv"
    /\ UNCHANGED <<nodeVars, streamVars, syncVars, mh, mv, dbError, history, crashes>>

MinerAdd ==
    /\ Running
    /\ \/ /\ mpc = "tx" /\ mpc' = "block"
          /\ \/ txs' = txs \cup {<<mh, mv>>} /\ UNCHANGED dbError
             \/ Fails /\ UNCHANGED txs
          /\ UNCHANGED blocks
       \/ /\ mpc = "block" /\ mpc' = "recv"
          /\ \/ blocks' = blocks \cup {<<mh, mv>>} /\ UNCHANGED dbError
             \/ Fails /\ UNCHANGED blocks
          /\ UNCHANGED txs
    /\ UNCHANGED <<nodeVars, streamVars, syncVars, mh, mv, history, crashes>>

-----------------------------------------------------------------------------
(* The other instance: at any height of the node, the transactions first.   *)
OtherTx(h) ==
    /\ writing = {} /\ others < MaxOther
    /\ h <= best /\ <<h, chain[h]>> \notin blocks
    /\ others' = others + 1
    /\ writing' = {<<h, chain[h]>>}
    /\ txs' = txs \cup {<<h, chain[h]>>}
    /\ raced' = IF pc = "deleteTx" THEN raced \cup {h} ELSE raced
    /\ UNCHANGED <<nodeVars, streamVars, syncVars, minerVars, blocks, dbError, unseen, undone,
                   holes, crashes>>

(* The heights it has not filled below its block are its holes, as far as   *)
(* nobody else has them.                                                    *)
OtherBlock ==
    /\ writing # {}
    /\ blocks' = blocks \cup writing
    /\ writing' = {}
    /\ holes' = holes \cup {g \in Heights : ~Kept(g) /\ \E b \in writing : g < b[1]}
    /\ unseen' = IF pc = "deleteTx" THEN unseen \cup writing ELSE unseen
    /\ UNCHANGED <<nodeVars, streamVars, syncVars, minerVars, txs, dbError, others, raced,
                   undone, crashes>>

(* An index is refreshed: searches find what is there.                      *)
Refresh ==
    /\ \/ shown # blocks /\ shown' = blocks /\ UNCHANGED shownTxs
       \/ shownTxs # txs /\ shownTxs' = txs /\ UNCHANGED shown
    /\ UNCHANGED <<nodeVars, streamVars, syncVars, minerVars, dbVars, otherVars, history, crashes>>

(* The program ends at any moment, and is started again.                    *)
Restart ==
    /\ Faults < MaxFaults
    /\ crashes' = crashes + 1
    /\ queue' = <<>> /\ live' = FALSE
    /\ pc' = "open" /\ newHeight' = 0
    /\ lastHeight' \in StartHeights /\ base' = lastHeight'
    /\ next' = 0 /\ cblock' = 0 /\ isNil' = FALSE /\ drain' = "off"
    /\ mpc' = "recv" /\ mh' = 0 /\ mv' = 0
    /\ UNCHANGED <<nodeVars, dbVars, history>>

-----------------------------------------------------------------------------
SyncStep ==
    \/ OpenStream \/ RecvError \/ RecvNil \/ Recv
    \/ DeleteBlocks \/ DeleteTxs
    \/ SendGap \/ SendNew \/ AskDb
    \/ SleepGrown \/ WakeUp
MinerStep == MinerGet \/ MinerAdd
OtherStep == (\E h \in Heights : OtherTx(h)) \/ OtherBlock

(* What this instance, the node and a restart do leaves the rest alone.     *)
Alone(A) == A /\ UNCHANGED <<shownVars, otherVars>>

Next ==
    \/ Alone(NodeExtend \/ (\E h \in Heights : NodeRewind(h)) \/ StreamBreaks)
    \/ Alone(SyncStep \/ Discard \/ DiscardNil \/ MinerStep)
    \/ Alone(Restart)
    \/ OtherStep /\ UNCHANGED shownVars
    \/ Refresh

Spec == Init /\ [][Next]_vars

(* The goroutines are scheduled, the node and the database answer, which    *)
(* refreshes its indices, and the node extends its chain.                   *)
FairSpec ==
    /\ Spec
    /\ WF_vars(Alone(NodeExtend)) /\ WF_vars(Refresh)
    /\ WF_vars(Alone(SyncStep)) /\ WF_vars(Alone(MinerStep)) /\ WF_vars(Alone(Discard))

-----------------------------------------------------------------------------
TypeOK ==
    /\ chain \in [Heights -> Forks] /\ best \in Heights /\ fork \in Forks
    /\ queue \in Seq(Heights) /\ Len(queue) <= MaxQueue /\ live \in BOOLEAN
    /\ pc \in {"open", "recv", "delete", "deleteTx", "send", "hand", "sleep", "panic"}
    /\ newHeight \in Heights
    /\ {lastHeight, base} \subseteq Heights \cup {MaxUint}
    /\ next \in 0..MaxHeight+1 /\ cblock \in Heights
    /\ isNil \in BOOLEAN /\ drain \in {"off", "on", "last"}
    /\ mpc \in {"recv", "get", "tx", "block"} /\ mh \in Heights /\ mv \in Forks
    /\ blocks \subseteq Heights \X Forks /\ txs \subseteq Heights \X Forks
    /\ shown \subseteq Heights \X Forks /\ shownTxs \subseteq Heights \X Forks
    /\ writing \subseteq Heights \X Forks /\ others \in 0..MaxOther
    /\ dbError \in BOOLEAN /\ unseen \subseteq Heights \X Forks
    /\ raced \subseteq Heights /\ undone \subseteq Heights /\ holes \subseteq Heights
    /\ crashes \in Nat /\ crashes <= MaxFaults

(* SyncCovers: until the node reorganises its chain, and as long as no      *)
(* request to the database fails, every height the stream has passed since  *)
(* the start is in the database or with the miner, whatever is lost,        *)
(* discarded or taken over from another instance, and however late searches *)
(* see it ("SyncBlock indexes new block after checking for skipped blocks   *)
(* and reorgs", run_onsync.go:24).  The exceptions are blocks it has        *)
(* deleted, for an announcement that came late, and heights that the other  *)
(* instance has left out below a block of its own: the stream looks at the  *)
(* best block only, and takes them over as well.                            *)
SyncCovers ==
    pc = "recv" /\ lastHeight # MaxUint /\ fork = 0 /\ ~dbError =>
        \A h \in base+1..lastHeight : Kept(h)

(* BlockHasTxs: a block in the database has its transactions there: the     *)
(* miner adds it last, and rewinding deletes both ("This needs to be        *)
(* syncronous, otherwise it may delete the block we are just about to add", *)
(* run_onsync.go:32).  The exceptions are failed requests and the heights   *)
(* of a rewind at which a block is being written, by the miner or another   *)
(* instance, or has been since the index was last refreshed: the request    *)
(* that deletes the blocks does not find it, and the one that deletes the   *)
(* transactions may.                                                        *)
BlockHasTxs == ~dbError => \A b \in blocks : b \in txs \/ b[1] \in raced

(* RewindLeavesOnlyMined: when a rewind whose requests succeed ends, a      *)
(* block above the new height is one the miner was working on meanwhile, or *)
(* one that was written, by the miner or another instance, after the last   *)
(* refresh the search for blocks has seen: the channel is not buffered, so  *)
(* that no other height can still be on its way (DeleteBlocksInRange).      *)
RewindLeavesOnlyMined ==
    [][pc = "deleteTx" /\ pc' = "recv" /\ crashes' = crashes /\ ~dbError =>
        \A b \in blocks : b[1] \in newHeight+1..lastHeight => b[1] = mh \/ b \in unseen]_vars

(* ReorgIndexed: when the stream has deleted blocks for a reorganisation    *)
(* that it was told of, has followed the node to its best block, and        *)
(* everything is idle, the database has the blocks of the node ("SyncBlock  *)
(* indexes new block after checking for skipped blocks and reorgs",         *)
(* run_onsync.go:24).                                                       *)
Settled == pc = "recv" /\ live /\ queue = <<>> /\ mpc = "recv" /\ lastHeight = best
ReorgIndexed ==
    Settled /\ undone # {} => \A h \in base+1..best : <<h, chain[h]>> \in blocks

(* StreamReturns: the stream comes back to receive, whatever it was doing:  *)
(* the miner takes its heights although the node may have none of them for  *)
(* a while, and a sleeping stream wakes up once the database no longer      *)
(* grows, unless its blocks have all been deleted when it asks again        *)
(* (SyncBlock, sleepStream).                                                *)
StreamReturns == pc # "recv" ~> pc \in {"recv", "panic"} \/ (pc = "sleep" /\ blocks = {})

-----------------------------------------------------------------------------
(* The inductive invariants behind them.                                    *)

\* On one fork announcements come in order, above the start of the stream.
Announced ==
    fork = 0 =>
        /\ newHeight <= best
        /\ pc \in {"delete", "deleteTx"} => newHeight < lastHeight
        /\ \A i \in DOMAIN queue :
              /\ newHeight < queue[i] /\ queue[i] <= best
              /\ base # MaxUint => base < queue[i]
        /\ \A i, j \in DOMAIN queue : i < j => queue[i] < queue[j]
        /\ base # MaxUint =>
              base <= best /\ (pc \in {"delete", "deleteTx"} => base < newHeight)

\* A stream that does not know where it starts has handed nothing over.
Unstarted ==
    /\ lastHeight = MaxUint <=> base = MaxUint
    /\ base = MaxUint => mpc = "recv" /\ pc \in {"open", "recv", "delete", "deleteTx", "panic"}

\* Searches find nothing that has not been in the database.
ShownInv == \A b \in shown : b \in blocks \/ b[1] \in undone

\* On one fork, the database has nothing above the node, and no hole above
\* the start of the stream below anything that it has or shows, or that the
\* miner or the stream is at.
Above(h) ==
    \/ h > base
    \/ \E i \in DOMAIN queue : h >= queue[i]
    \/ pc \in {"delete", "deleteTx"} /\ h > newHeight
NoHole ==
    fork = 0 /\ ~dbError =>
        /\ \A b \in blocks \cup shown \cup writing : b[1] <= best
        /\ mpc \in {"tx", "block"} => mh <= best
        /\ \A b \in blocks \cup shown : \A h \in 0..b[1] : Above(h) => Kept(h)
        /\ mpc # "recv" => \A h \in base+1..mh : Kept(h)
        /\ lastHeight # MaxUint => \A h \in base+1..lastHeight : Kept(h)
        /\ pc \in {"send", "hand"} =>
              base < newHeight /\ \A h \in base+1..next-1 : Kept(h)
        /\ pc = "hand" => next >= newHeight
CoversInv == Announced /\ Unstarted /\ ShownInv /\ NoHole

\* What is deleted is not written at the same time, unless it is noted.
TxsInv ==
    ~dbError =>
        /\ \A b \in blocks \cup writing : b \in txs \/ b[1] \in raced
        /\ mpc = "block" => <<mh, mv>> \in txs \/ mh \in raced
        /\ pc = "deleteTx" =>
              /\ \A b \in (blocks \cup writing) \cap Rewound : b[1] \in raced
              /\ InFlight(newHeight+1..lastHeight) => mh \in raced
LeavesInv ==
    pc = "deleteTx" /\ ~dbError =>
        \A b \in blocks : b[1] \in newHeight+1..lastHeight => b[1] = mh \/ b \in unseen
=============================================================================
