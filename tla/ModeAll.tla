------------------------------ MODULE ModeAll ------------------------------
(***************************************************************************)
(* The program as a whole (main.go, indexer/indexer.go): the stream of     *)
(* OnSync and the check, which share the database and nothing else, and no *)
(* other instance.                                                         *)
(*                                                                         *)
(* Start takes the height before the best block of the node, starts the    *)
(* stream above it and runs the check up to what is the height before the  *)
(* best block by then.  The check scrolls over the block index as it was   *)
(* last refreshed, hands the missing heights to its miners and commits     *)
(* what they bring, in its own time.  The run mode says which of the two   *)
(* runs.                                                                   *)
(*                                                                         *)
(* The check is taken as CheckIndex and IndexStore promise: which heights  *)
(* it hands over, and blocks that come with their parts.                   *)
(***************************************************************************)
EXTENDS OnSync

CONSTANTS
    MinerNum,       \* number of miners of the check
    Lagging         \* searches may lag behind what is written

ASSUME MinerAssumption == MinerNum \in Nat \ {0} /\ Lagging \in BOOLEAN

VARIABLES
    mode,           \* the run mode
    main,           \* where the main goroutine is
    stopAt,         \* the end of the range of the check
    missing,        \* heights still to hand over
    asked,          \* heights the miners of the check wait for
    collected,      \* blocks that are not committed yet
    left,           \* heights of the range the check has left out (history)
    startFork,      \* the fork of the node at the start (history)
    startHeight     \* lastHeight at the start (history)

checkVars == <<mode, main, stopAt, missing, asked, collected, left, startFork, startHeight>>
allVars == <<vars, checkVars>>

Modes == {"all", "check", "onsync"}

(* Indexer.Start: what the mode runs; after it the program waits for a      *)
(* signal, or ends.                                                         *)
Started ==
    /\ mode' \in Modes
    /\ main' = IF mode' = "onsync" THEN "wait" ELSE "check"
    /\ stopAt' = 0 /\ missing' = {} /\ asked' = {} /\ collected' = {} /\ left' = {}
    /\ startFork' = fork /\ startHeight' = lastHeight'

InitAll ==
    /\ Init
    /\ mode \in Modes
    /\ main = IF mode = "onsync" THEN "wait" ELSE "check"
    /\ stopAt = 0 /\ missing = {} /\ asked = {} /\ collected = {} /\ left = {}
    /\ startFork = fork /\ startHeight = lastHeight

RestartAll == Alone(Restart) /\ Started

-----------------------------------------------------------------------------
(* The check.                                                               *)
CheckBest ==
    /\ main = "check"
    /\ stopAt' \in StartHeights
    /\ main' = "scroll"
    /\ UNCHANGED <<vars, mode, missing, asked, collected, left, startFork, startHeight>>

(* checkIndex: with block 0 in the index the gap above it is not filled;    *)
(* an unknown height of the node leaves nothing to do.                      *)
Hits == {h \in 0..stopAt : \E f \in Forks : <<h, f>> \in shown}
LowestGap ==
    IF 0 \notin Hits THEN {}
    ELSE {h \in 1..stopAt : \A g \in Hits \ {0} : h < g}

\* Mutant: the last height of the range is left out.
CheckRangeOpen == 0..stopAt-1
CheckRange == 0..stopAt

CheckScroll ==
    /\ main = "scroll"
    /\ main' = "loop"
    /\ IF stopAt = MaxUint
       THEN missing' = {} /\ left' = {}
       ELSE missing' = (CheckRange \ Hits) \ LowestGap /\ left' = LowestGap
    /\ UNCHANGED <<vars, mode, stopAt, asked, collected, startFork, startHeight>>

CheckHand ==
    /\ main = "loop" /\ missing # {}
    /\ Cardinality(asked) < MinerNum
    /\ asked' = asked \cup {Max(missing)}
    /\ missing' = missing \ {Max(missing)}
    /\ UNCHANGED <<vars, mode, main, stopAt, collected, left, startFork, startHeight>>

CheckGet(h) ==
    /\ h \in asked /\ h <= best
    /\ asked' = asked \ {h}
    /\ collected' = collected \cup {<<h, chain[h]>>}
    /\ UNCHANGED <<vars, mode, main, stopAt, missing, left, startFork, startHeight>>

CheckCommit(b) ==
    /\ b \in collected
    /\ collected' = collected \ {b}
    /\ blocks' = blocks \cup {b}
    /\ txs' = txs \cup {b}
    /\ UNCHANGED <<nodeVars, streamVars, syncVars, minerVars, dbError, shownVars, otherVars,
                   history, crashes, mode, main, stopAt, missing, asked, left, startFork, startHeight>>

(* StopBulkChannel has flushed everything.                                  *)
CheckEnd ==
    /\ main = "loop" /\ missing = {} /\ asked = {} /\ collected = {}
    /\ main' = IF mode = "all" THEN "wait" ELSE "exit"
    /\ UNCHANGED <<vars, mode, stopAt, missing, asked, collected, left, startFork, startHeight>>

-----------------------------------------------------------------------------
CheckStep ==
    \/ CheckBest \/ CheckScroll \/ CheckHand
    \/ \E h \in asked : CheckGet(h)
    \/ \E b \in collected : CheckCommit(b)
    \/ CheckEnd

NodeStep == NodeExtend \/ (\E h \in Heights : NodeRewind(h)) \/ StreamBreaks
StreamStep == SyncStep \/ Discard \/ DiscardNil \/ MinerStep

Step ==
    \/ Alone(NodeStep) /\ UNCHANGED checkVars
    \/ mode # "check" /\ Alone(StreamStep) /\ UNCHANGED checkVars
    \/ Running /\ CheckStep
    \/ RestartAll

NextAll ==
    \/ (Lagging \/ shown = blocks) /\ Step
    \/ Refresh /\ UNCHANGED checkVars

SpecAll == InitAll /\ [][NextAll]_allVars

\* What the properties below, and all guards, depend on.
AllView ==
    <<nodeVars, streamVars, syncVars, minerVars, blocks, shown, undone, crashes, checkVars>>

-----------------------------------------------------------------------------
Covered(h) == \E f \in Forks : <<h, f>> \in blocks
Calm == fork = startFork

(* What the program has reached: the range of the check, when it is done,   *)
(* and with the stream all heights below the one it waits for.              *)
Checked == main \in {"wait", "exit"} /\ mode # "onsync" /\ stopAt # MaxUint
Followed == pc = "recv" /\ MaxUint \notin {startHeight, lastHeight} /\ fork = 0
Reached == (0..stopAt) \cup (IF mode = "all" /\ Followed THEN 0..lastHeight ELSE {})

(* CheckRepairs: when the check is done and the node has not reorganised    *)
(* its chain meanwhile, there is a block in the database, or with the miner *)
(* of the stream, for every height reached, whatever an earlier run or a    *)
(* crash has left out ("Done with consistency check", run_check.go:92).     *)
(* The exceptions are the lowest gap above block 0, which the check leaves, *)
(* and blocks the stream has deleted.                                       *)
CheckRepairs ==
    Checked /\ Calm =>
        \A h \in Reached : Covered(h) \/ InFlight({h}) \/ h \in left \cup undone

(* NoHeightLost: the same without that exception, for what the stream takes *)
(* for indexed, and will not ask for again: as long as the node has not     *)
(* reorganised its chain at all, it is ("SyncBlock indexes new block after  *)
(* checking for skipped blocks and reorgs", run_onsync.go:24).              *)
NoHeightLost ==
    Checked /\ mode = "all" /\ Followed =>
        \A h \in 0..lastHeight : Covered(h) \/ InFlight({h}) \/ h \in left

(* HeightsKept: a height the program has, in the database, with a miner, or *)
(* still to be handed to one, is let go of only by a rewind or when the     *)
(* program is started again, until the node reorganises its chain: in       *)
(* particular, not when the stream believes that another indexer has taken  *)
(* a block over (SyncBlock, sleepStream).                                   *)
Accounted ==
    {h \in Heights : Covered(h) \/ InFlight({h}) \/ h \in missing \cup asked}
        \cup {b[1] : b \in collected}
        \cup (IF pc \in {"send", "hand"} THEN next..newHeight ELSE {})
HeightsKept ==
    [][fork = 0 /\ crashes' = crashes => Accounted \ Accounted' \subseteq undone']_allVars

-----------------------------------------------------------------------------
(* The inductive invariants behind them.                                    *)
TypeAll ==
    /\ TypeOK
    /\ mode \in Modes /\ main \in {"check", "scroll", "loop", "wait", "exit"}
    /\ mode = "onsync" => main = "wait"
    /\ stopAt \in Heights \cup {MaxUint} /\ startHeight \in Heights \cup {MaxUint}
    /\ missing \subseteq Heights /\ asked \subseteq Heights /\ left \subseteq Heights
    /\ collected \subseteq Heights \X Forks
    /\ startFork \in Forks

\* Heights the check still has to bring, and those with a block besides.
Pending == missing \cup asked \cup {b[1] : b \in collected}
Points == Pending \cup {b[1] : b \in blocks \cup shown}
Account(h) == Kept(h) \/ h \in Pending

\* The check has its whole range, but for the gap it leaves.
RangeInv ==
    /\ main # "loop" => Pending = {}
    /\ main \in {"loop", "wait", "exit"} /\ mode # "onsync" /\ stopAt # MaxUint =>
          \A h \in 0..stopAt : Covered(h) \/ h \in Pending \cup left \cup undone

\* On one fork the range of the check reaches to where the stream starts.
StartInv ==
    fork = 0 =>
        /\ startHeight # MaxUint => base = startHeight /\ startHeight < best
        /\ main # "check" /\ mode # "onsync" /\ stopAt # MaxUint =>
              stopAt <= best /\ (startHeight # MaxUint => startHeight <= stopAt)
        /\ main # "check" /\ mode # "onsync" /\ stopAt = MaxUint => Pending = {}

\* On one fork there is nothing above the node, and no hole above the start
\* of the stream below anything in the database, with the check, with the
\* miner or with the stream.
HolesInv ==
    fork = 0 /\ ~dbError =>
        /\ \A c \in Points : c <= best
        /\ mpc \in {"tx", "block"} => mh <= best
        /\ \A c \in Points : \A h \in 0..c : Above(h) => Account(h)
        /\ mpc # "recv" => \A h \in base+1..mh : Account(h)
        /\ lastHeight # MaxUint => \A h \in base+1..lastHeight : Account(h)
        /\ pc \in {"send", "hand"} =>
              base < newHeight /\ \A h \in base+1..next-1 : Account(h)
        /\ pc = "hand" => next >= newHeight

\* No other instance is at work.
Solo == writing = {} /\ holes = {}

AllInv == RangeInv /\ StartInv /\ Announced /\ Unstarted /\ ShownInv /\ HolesInv /\ Solo
=============================================================================
