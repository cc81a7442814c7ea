------------------------------- MODULE Bulk -------------------------------
(***************************************************************************)
(* The bulk indexer (indexer/bulk.go), the miners that feed it             *)
(* (indexer/miner.go) and the check that drives it (indexer/run_check.go). *)
(*                                                                         *)
(* The main goroutine hands block heights to the miners.  A miner fetches  *)
(* a block and sends one document per part (transaction, event, contract,  *)
(* token transfer, account token) to the goroutine that collects the       *)
(* documents of that part, then the block document to the goroutine of the *)
(* blocks.  Each of these indexers commits its documents in bulk requests; *)
(* the one of the blocks first orders the others to commit, so that a      *)
(* block is only seen by a later check once its parts are in the database. *)
(*                                                                         *)
(* All channels are unbuffered: a send and the receive that takes it are   *)
(* one step.                                                               *)
(***************************************************************************)
EXTENDS Integers, Sequences, FiniteSets

CONSTANTS
    MinerNum,       \* number of miners
    Parts,          \* the channels of the parts, in the order of commitBulk
    AccTokens,      \* the one among them that getAccTokens filters
    Block,          \* the channel of the blocks
    Main,           \* the goroutine of Check
    BulkSize,       \* documents that make a full bulk
    MaxHeight,
    Ids,            \* ids of the documents of the parts
    DocsOf,         \* DocsOf[h]: the documents of block h, in the order sent
    MaxErrors,      \* bound on the indices with a failed request and refused documents
    MaxCrashes      \* bound on the restarts of the program

Heights == 0..MaxHeight
PartSet == {Parts[i] : i \in DOMAIN Parts}
Channels == PartSet \cup {Block}
Channel == <<Block>> \o Parts
Procs == Channels \cup {Main}
Miners == 0..MinerNum-1
Doc == [ch : PartSet, id : Ids]

ASSUME SizeAssumption ==
    MinerNum \in Nat \ {0} /\ BulkSize \in Nat \ {0} /\ MaxHeight \in Nat
ASSUME ChannelAssumption ==
    /\ Parts \in Seq(PartSet) /\ Parts # <<>>
    /\ \A i, j \in DOMAIN Parts : Parts[i] = Parts[j] => i = j
    /\ AccTokens \in PartSet /\ Block \notin PartSet /\ Main \notin Channels
ASSUME DocsAssumption == DocsOf \in [Heights -> Seq(Doc)]
ASSUME ModeAssumption ==
    MaxErrors \in Nat /\ MaxCrashes \in Nat

VARIABLES
    \* the main goroutine
    mainpc,         \* "call", "insert", "stop" or "done"
    from,           \* the range being handed over ...
    height,         \* ... and the height to send next
    low,            \* every height from here on has been handed over
    sent,           \* heights handed to the miners since the start
    redone,         \* heights handed over while they were indexed (history)
    \* StopBulkChannel, called by Main or by an indexer whose commit failed
    stage,          \* stage[p]: "none" when p is not in StopBulkChannel
    si,             \* si[p]: the channel the stage has reached
    \* the miners
    mpc, mh, md,    \* state, height and documents still to send
    accToken,       \* the cache of account-token ids
    rOpen,          \* rOpen[m]: RChannel[m] is open
    \* the bulk indexers
    ipc,            \* ipc[c]: what the indexer of c is doing
    total, bulk,    \* size and content of the bulk request it has collected
    held,           \* the document whose arrival found the bulk full
    failed,         \* failed[c]: a bulk request of c has failed (history)
    rejected,       \* rejected[c]: ids refused in a request that did not (history)
    ordered, acks,  \* of commitBulk of Block: commits ordered, SynDone received
    bOpen,          \* the bulk channels are open
    \* the time-out goroutine of Block
    tpc, returnFlag,
    \* the database, and the process
    index,          \* index[c]: ids of the documents in the index of c
    panic,          \* a goroutine has sent on a closed channel
    crashes

mainVars == <<mainpc, from, height, low, sent, redone>>
stopVars == <<stage, si>>
minerVars == <<mpc, mh, md, accToken, rOpen>>
bulkVars == <<ipc, total, bulk, held, failed, rejected, ordered, acks, bOpen>>
timerVars == <<tpc, returnFlag>>
procVars == <<panic, crashes>>
vars == <<mainVars, stopVars, minerVars, bulkVars, timerVars, index, procVars>>

Empty(S) == [x \in S |-> {}]

(* StartBulkChannel: what a new process starts with.                        *)
Init ==
    /\ mainpc = "call" /\ from = 0 /\ height = 0
    /\ low = MaxHeight + 1 /\ sent = {} /\ redone = {}
    /\ stage = [p \in Procs |-> "none"] /\ si = [p \in Procs |-> 0]
    /\ mpc = [m \in Miners |-> "recv"] /\ mh = [m \in Miners |-> 0]
    /\ md = [m \in Miners |-> <<>>] /\ accToken = {}
    /\ rOpen = [m \in Miners |-> TRUE]
    /\ ipc = [c \in Channels |-> "recv"] /\ total = [c \in Channels |-> 0]
    /\ bulk = Empty(Channels) /\ held = Empty(Channels)
    /\ failed = [c \in Channels |-> FALSE] /\ rejected = Empty(Channels)
    /\ ordered = 0 /\ acks = 0 /\ bOpen = TRUE
    /\ tpc = "top" /\ returnFlag = FALSE
    /\ index = Empty(Channels)
    /\ panic = FALSE /\ crashes = 0

-----------------------------------------------------------------------------
(* The main goroutine: ranges from high to low, then StopBulkChannel.       *)

(* checkIndex hands over the heights it has not seen in the block index,    *)
(* which are indexed all the same when a page of its scroll was lost, and   *)
(* fixIndex hands over all.                                                 *)
CallInsert(lo, hi) ==
    /\ mainpc = "call"
    /\ lo <= hi /\ hi < low
    /\ from' = lo /\ height' = hi /\ low' = lo
    /\ redone' = redone \cup (lo..hi \cap index[Block])
    /\ mainpc' = "insert"
    /\ UNCHANGED <<sent, stopVars, minerVars, bulkVars, timerVars, index, procVars>>

(* InsertBlocksInRange spreads the heights over the miners; the last one    *)
(* goes to RChannel[0].                                                     *)
Target == IF height = from THEN 0 ELSE height % MinerNum

Advance ==
    IF height = from
    THEN mainpc' = "call" /\ UNCHANGED height
    ELSE height' = height - 1 /\ UNCHANGED mainpc

InsertBlock(m) ==
    /\ mainpc = "insert"
    /\ m = Target
    /\ rOpen[m] /\ mpc[m] = "recv"
    /\ mpc' = [mpc EXCEPT ![m] = "get"]
    /\ mh' = [mh EXCEPT ![m] = height]
    /\ sent' = sent \cup {height}
    /\ Advance
    /\ UNCHANGED <<from, low, redone, stopVars, md, accToken, rOpen, bulkVars, timerVars,
                   index, procVars>>

\* Mutant: go StopBulkChannel().
CallStopAsync ==
    /\ mainpc = "call" /\ stage[Main] = "none" /\ bOpen
    /\ stage' = [stage EXCEPT ![Main] = "miners"]
    /\ UNCHANGED <<mainVars, si, minerVars, bulkVars, timerVars, index, procVars>>

CallStop ==
    /\ mainpc = "call"
    /\ mainpc' = "stop"
    /\ stage' = [stage EXCEPT ![Main] = "miners"]
    /\ UNCHANGED <<from, height, low, sent, redone, si, minerVars, bulkVars, timerVars,
                   index, procVars>>

-----------------------------------------------------------------------------
(* StopBulkChannel, run by p.                                               *)

(* RChannel[i] <- StopMiner, then close.                                    *)
StopMiner(p) ==
    /\ stage[p] = "miners"
    /\ rOpen[si[p]] /\ mpc[si[p]] = "recv"
    /\ mpc' = [mpc EXCEPT ![si[p]] = "stopped"]
    /\ rOpen' = [rOpen EXCEPT ![si[p]] = FALSE]
    /\ IF si[p] = MinerNum - 1
       THEN stage' = [stage EXCEPT ![p] = "commit"] /\ UNCHANGED si
       ELSE si' = [si EXCEPT ![p] = @ + 1] /\ UNCHANGED stage
    /\ UNCHANGED <<mainVars, mh, md, accToken, bulkVars, timerVars, index, procVars>>

(* commitBulk(true) as the receiver of a Commit message starts it: with     *)
(* nothing collected a part answers at once.                                *)
NothingToCommit(c) == IF c = Block THEN "recv" ELSE "synDone"

StartCommit(c) ==
    /\ ipc[c] = "recv"
    /\ ipc' = [ipc EXCEPT ![c] =
                 IF total[c] = 0 THEN NothingToCommit(c)
                 ELSE IF c = Block THEN "order" ELSE "commit"]
    /\ returnFlag' = (returnFlag \/ (c = Block /\ total[c] = 0))

\* Mutant: without "Force commit".
ForceCommitNone(p) ==
    /\ stage[p] = "commit"
    /\ stage' = [stage EXCEPT ![p] = "bulks"] /\ si' = [si EXCEPT ![p] = 1]
    /\ UNCHANGED <<mainVars, minerVars, bulkVars, timerVars, index, procVars>>

ForceCommit(p) ==
    /\ stage[p] = "commit"
    /\ StartCommit(Block)
    /\ stage' = [stage EXCEPT ![p] = "bulks"]
    /\ si' = [si EXCEPT ![p] = 1]
    /\ UNCHANGED <<mainVars, minerVars, total, bulk, held, failed, rejected, ordered, acks,
                   bOpen, tpc, index, procVars>>

\* Mutant: the last channel gets no stop message.
LastChannelEarly == Len(Channel) - 1
LastChannel == Len(Channel)

StopIndexer(p) ==
    /\ stage[p] = "bulks"
    /\ ipc[Channel[si[p]]] = "recv"
    /\ ipc' = [ipc EXCEPT ![Channel[si[p]]] = "stopped"]
    /\ IF si[p] = LastChannel
       THEN stage' = [stage EXCEPT ![p] = "close"] /\ UNCHANGED si
       ELSE si' = [si EXCEPT ![p] = @ + 1] /\ UNCHANGED stage
    /\ UNCHANGED <<mainVars, minerVars, total, bulk, held, failed, rejected, ordered, acks,
                   bOpen, timerVars, index, procVars>>

CloseChannels ==
    /\ stage[Main] = "close"
    /\ bOpen' = FALSE
    /\ stage' = [stage EXCEPT ![Main] = "none"]
    /\ mainpc' = "done"
    /\ UNCHANGED <<from, height, low, sent, redone, si, minerVars, ipc, total, bulk, held,
                   failed, rejected, ordered, acks, timerVars, index, procVars>>

-----------------------------------------------------------------------------
(* The miners.                                                              *)

(* GetBlock, repeated every 100 ms until the node answers.                  *)
GetBlock(m) ==
    /\ mpc[m] = "get"
    /\ mpc' = [mpc EXCEPT ![m] = "send"]
    /\ md' = [md EXCEPT ![m] = DocsOf[mh[m]]]
    /\ UNCHANGED <<mainVars, stopVars, mh, accToken, rOpen, bulkVars, timerVars,
                   index, procVars>>

(* getAccTokens loads the id, and when it is absent stores it in a second   *)
(* step; two miners may both find it absent.                                *)
LoadAccToken(m) ==
    /\ mpc[m] = "send" /\ md[m] # <<>>
    /\ Head(md[m]).ch = AccTokens
    /\ IF Head(md[m]).id \in accToken
       THEN md' = [md EXCEPT ![m] = Tail(@)] /\ UNCHANGED mpc
       ELSE mpc' = [mpc EXCEPT ![m] = "store"] /\ UNCHANGED md
    /\ UNCHANGED <<mainVars, stopVars, mh, accToken, rOpen, bulkVars, timerVars,
                   index, procVars>>

StoreAccToken(m) ==
    /\ mpc[m] = "store"
    /\ accToken' = accToken \cup {Head(md[m]).id}
    /\ mpc' = [mpc EXCEPT ![m] = "claimed"]
    /\ UNCHANGED <<mainVars, stopVars, mh, md, rOpen, bulkVars, timerVars,
                   index, procVars>>

\* Mutant: > for >=.
FullLate(c) == total[c] > BulkSize
Full(c) == total[c] >= BulkSize

(* BulkIndexer receives a document: with the bulk full it commits first,    *)
(* and keeps the document aside until it has.                               *)
Receive(c, id) ==
    /\ ipc[c] = "recv"
    /\ IF Full(c)
       THEN /\ ipc' = [ipc EXCEPT ![c] = IF c = Block THEN "order" ELSE "commit"]
            /\ held' = [held EXCEPT ![c] = {id}]
            /\ UNCHANGED <<total, bulk>>
       ELSE /\ total' = [total EXCEPT ![c] = @ + 1]
            /\ bulk' = [bulk EXCEPT ![c] = @ \cup {id}]
            /\ UNCHANGED <<ipc, held>>
    /\ UNCHANGED <<failed, rejected, ordered, acks, bOpen>>

AddDoc(m) ==
    /\ mpc[m] \in {"send", "claimed"} /\ md[m] # <<>>
    /\ Head(md[m]).ch = AccTokens => mpc[m] = "claimed"
    /\ Receive(Head(md[m]).ch, Head(md[m]).id)
    /\ md' = [md EXCEPT ![m] = Tail(@)]
    /\ mpc' = [mpc EXCEPT ![m] = "send"]
    /\ UNCHANGED <<mainVars, stopVars, mh, accToken, rOpen, timerVars, index, procVars>>

AddBlock(m) ==
    /\ mpc[m] = "send" /\ md[m] = <<>>
    /\ Receive(Block, mh[m])
    /\ mpc' = [mpc EXCEPT ![m] = "recv"]
    /\ UNCHANGED <<mainVars, stopVars, mh, md, accToken, rOpen, timerVars, index, procVars>>

-----------------------------------------------------------------------------
(* commitBulk.                                                              *)

(* The indexer of the blocks sends Commit to each part in turn ...          *)
OrderCommit ==
    /\ ipc[Block] = "order"
    /\ LET c == Parts[ordered + 1] IN
       /\ ipc[c] = "recv"
       /\ ipc' = [ipc EXCEPT ![c] = IF total[c] = 0 THEN NothingToCommit(c) ELSE "commit",
                             ![Block] = IF ordered + 1 = Len(Parts) THEN "await" ELSE @]
    /\ ordered' = ordered + 1
    /\ UNCHANGED <<mainVars, stopVars, minerVars, total, bulk, held, failed, rejected, acks,
                   bOpen, timerVars, index, procVars>>

(* ... and then waits for as many answers.                                  *)

\* Mutant: waits for one answer less.
AnsweredEarly == acks + 2 >= Len(Parts)
\* Mutant: waits for one answer more.
AnsweredLate == acks = Len(Parts)
Answered == acks + 1 = Len(Parts)

SynDone(c) ==
    /\ ipc[Block] = "await"
    /\ c # Block /\ ipc[c] \in {"synDone", "synFailed"}
    /\ acks' = acks + 1
    /\ ipc' = [ipc EXCEPT ![c] = IF @ = "synDone" THEN "recv" ELSE "stop",
                          ![Block] = IF Answered THEN "commit" ELSE @]
    /\ IF ipc[c] = "synDone"
       THEN /\ total' = [total EXCEPT ![c] = 0]
            /\ bulk' = [bulk EXCEPT ![c] = {}]
            /\ UNCHANGED stage
       ELSE /\ stage' = [stage EXCEPT ![c] = "miners"]
            /\ UNCHANGED <<total, bulk>>
    /\ UNCHANGED <<mainVars, si, minerVars, held, failed, rejected, ordered, bOpen, timerVars,
                   index, procVars>>

(* A bulk request is applied document by document.  It creates documents:   *)
(* one whose id exists is left as it is.                                    *)
Apply(c, id) ==
    /\ ipc[c] = "commit"
    /\ id \in bulk[c] \ index[c]
    /\ index' = [index EXCEPT ![c] = @ \cup {id}]
    /\ UNCHANGED <<mainVars, stopVars, minerVars, bulkVars, timerVars, procVars>>

(* A part that was ordered to commit, and holds no document aside, answers  *)
(* with SynDone.                                                            *)
Answers(c) == c # Block /\ held[c] = {}

Errors ==
    Cardinality({c \in Channels : failed[c]})
        + Cardinality({e \in Channels \X (Ids \cup Heights) : e[2] \in rejected[e[1]]})

(* Commit looks for an error of the request only, not for the documents     *)
(* that the answer says were refused.                                       *)
CommitDone(c) ==
    /\ ipc[c] = "commit"
    /\ \E R \in SUBSET (bulk[c] \ index[c]) :
         /\ R # {} => Errors + Cardinality(R) <= MaxErrors
         /\ index' = [index EXCEPT ![c] = @ \cup (bulk[c] \ R)]
         /\ rejected' = [rejected EXCEPT ![c] = @ \cup R]
    /\ IF Answers(c)
       THEN /\ ipc' = [ipc EXCEPT ![c] = "synDone"]
            /\ UNCHANGED <<total, bulk, held, ordered, acks, returnFlag>>
       ELSE /\ ipc' = [ipc EXCEPT ![c] = "recv"]
            /\ total' = [total EXCEPT ![c] = IF held[c] = {} THEN 0 ELSE 1]
            /\ bulk' = [bulk EXCEPT ![c] = held[c]]
            /\ held' = [held EXCEPT ![c] = {}]
            /\ ordered' = IF c = Block THEN 0 ELSE ordered
            /\ acks' = IF c = Block THEN 0 ELSE acks
            /\ returnFlag' = (returnFlag \/ c = Block)
    /\ UNCHANGED <<mainVars, stopVars, minerVars, failed, bOpen, tpc, procVars>>

(* bulk.Commit returns an error: SynDone is sent all the same, then the     *)
(* indexer itself runs StopBulkChannel.                                     *)
CommitError(c) ==
    /\ Errors < MaxErrors
    /\ ipc[c] = "commit"
    /\ failed' = [failed EXCEPT ![c] = TRUE]
    /\ ipc' = [ipc EXCEPT ![c] = IF Answers(c) THEN "synFailed" ELSE "stop"]
    /\ stage' = IF Answers(c) THEN stage ELSE [stage EXCEPT ![c] = "miners"]
    /\ UNCHANGED <<mainVars, si, minerVars, total, bulk, held, rejected, ordered, acks,
                   bOpen, timerVars, index, procVars>>

-----------------------------------------------------------------------------
(* The time-out goroutine: it ends once returnFlag is set, which every      *)
(* commitBulk does.                                                         *)
TimerTop ==
    /\ tpc = "top"
    /\ tpc' = IF returnFlag THEN "done" ELSE "sleep"
    /\ UNCHANGED <<mainVars, stopVars, minerVars, bulkVars, returnFlag, index, procVars>>

(* batchTime later.  Without a commit since the start, more than batchTime  *)
(* has passed; after one, it may or may not.                                *)

\* Mutant: a single block is not worth a commit.
PendingMany == total[Block] > 1
Pending == total[Block] > 0

TimerWake(elapsed) ==
    /\ tpc = "sleep"
    /\ elapsed \/ returnFlag
    /\ tpc' = IF Pending /\ elapsed THEN "send" ELSE "top"
    /\ UNCHANGED <<mainVars, stopVars, minerVars, bulkVars, returnFlag, index, procVars>>

TimerSend ==
    /\ tpc = "send" /\ bOpen
    /\ StartCommit(Block)
    /\ tpc' = "top"
    /\ UNCHANGED <<mainVars, stopVars, minerVars, total, bulk, held, failed, rejected, ordered,
                   acks, bOpen, index, procVars>>

-----------------------------------------------------------------------------
(* A send on a closed channel ends the program.                             *)
SendOnClosed ==
    \/ tpc = "send" /\ ~bOpen
    \/ mainpc = "insert" /\ ~rOpen[Target]
    \/ \E p \in Procs : stage[p] = "miners" /\ ~rOpen[si[p]]

Panic ==
    /\ SendOnClosed
    /\ panic' = TRUE
    /\ UNCHANGED <<mainVars, stopVars, minerVars, bulkVars, timerVars, index, crashes>>

(* The program ends at any moment and is started again: the index stays.    *)
Restart ==
    /\ crashes < MaxCrashes
    /\ crashes' = crashes + 1
    /\ mainpc' = "call" /\ from' = 0 /\ height' = 0
    /\ low' = MaxHeight + 1 /\ sent' = {}
    /\ stage' = [p \in Procs |-> "none"] /\ si' = [p \in Procs |-> 0]
    /\ mpc' = [m \in Miners |-> "recv"] /\ mh' = [m \in Miners |-> 0]
    /\ md' = [m \in Miners |-> <<>>] /\ accToken' = {}
    /\ rOpen' = [m \in Miners |-> TRUE]
    /\ ipc' = [c \in Channels |-> "recv"] /\ total' = [c \in Channels |-> 0]
    /\ bulk' = Empty(Channels) /\ held' = Empty(Channels)
    /\ ordered' = 0 /\ acks' = 0 /\ bOpen' = TRUE
    /\ tpc' = "top" /\ returnFlag' = FALSE
    /\ panic' = FALSE
    /\ UNCHANGED <<redone, failed, rejected, index>>

Ended ==
    /\ panic \/ mainpc = "done"
    /\ UNCHANGED vars

-----------------------------------------------------------------------------
MainStep ==
    \/ \E lo, hi \in Heights : CallInsert(lo, hi)
    \/ \E m \in Miners : InsertBlock(m)
    \/ CallStop
    \/ CloseChannels
StopStep(p) == StopMiner(p) \/ ForceCommit(p) \/ StopIndexer(p)
MinerStep(m) == LoadAccToken(m) \/ StoreAccToken(m) \/ AddDoc(m) \/ AddBlock(m)
IndexerStep(c) ==
    \/ c = Block /\ OrderCommit
    \/ SynDone(c)
    \/ \E id \in bulk[c] : Apply(c, id)
    \/ CommitDone(c)
TimerStep == TimerTop \/ (\E elapsed \in BOOLEAN : TimerWake(elapsed)) \/ TimerSend

Step ==
    /\ ~panic
    /\ \/ MainStep
       \/ \E p \in Procs : StopStep(p)
       \/ \E m \in Miners : GetBlock(m) \/ MinerStep(m)
       \/ \E c \in Channels : IndexerStep(c) \/ CommitError(c)
       \/ TimerStep
       \/ Panic

Next == Step \/ Restart \/ Ended

Spec == Init /\ [][Next]_vars

(* Every goroutine is scheduled, and the database answers.  The node may    *)
(* keep a miner waiting for its block for ever.  Nothing is asked of an     *)
(* indexer whose request has failed, in StopBulkChannel.                    *)
FairSpec ==
    /\ Spec
    /\ WF_vars(~panic /\ (MainStep \/ StopStep(Main)))
    /\ \A m \in Miners : WF_vars(~panic /\ MinerStep(m))
    /\ \A c \in Channels : WF_vars(~panic /\ IndexerStep(c))
    /\ WF_vars(~panic /\ TimerStep)
=============================================================================
