----------------------------- MODULE BulkProps -----------------------------
(* What the bulk indexer promises.                                          *)
EXTENDS Bulk, Functions

(* The parts a block document is said to come after: its account tokens are *)
(* shared between blocks, and only sent by the first miner to see them.     *)
OwnDocs(h) == {d \in Range(DocsOf[h]) : d.ch # AccTokens}
AccDocs(h) == {d \in Range(DocsOf[h]) : d.ch = AccTokens}

TypeMain ==
    /\ mainpc \in {"call", "insert", "stop", "done"}
    /\ from \in Heights /\ height \in Heights /\ low \in 0..MaxHeight+1
    /\ mainpc = "insert" => from <= height
    /\ sent \subseteq Heights /\ redone \subseteq Heights
    /\ stage \in [Procs -> {"none", "miners", "commit", "bulks", "close"}]
    /\ si \in [Procs -> Nat]

TypeMiner ==
    /\ mpc \in [Miners -> {"recv", "get", "send", "store", "claimed", "stopped"}]
    /\ mh \in [Miners -> Heights]
    /\ md \in [Miners -> Seq(Doc)]
    /\ \A m \in Miners : mpc[m] \in {"store", "claimed"} => md[m] # <<>>
    /\ accToken \subseteq Ids
    /\ rOpen \in [Miners -> BOOLEAN]

IdsOf(c) == IF c = Block THEN Heights ELSE Ids
TypeIndexer ==
    /\ ipc \in [Channels -> {"recv", "order", "await", "commit", "synDone",
                             "synFailed", "stop", "stopped"}]
    /\ total \in [Channels -> 0..BulkSize]
    /\ bulk \in [Channels -> SUBSET (Ids \cup Heights)]
    /\ held \in [Channels -> SUBSET (Ids \cup Heights)]
    /\ index \in [Channels -> SUBSET (Ids \cup Heights)]
    /\ \A c \in Channels : bulk[c] \cup held[c] \cup index[c] \subseteq IdsOf(c)
    /\ failed \in [Channels -> BOOLEAN]
    /\ rejected \in [Channels -> SUBSET (Ids \cup Heights)]
    /\ ordered \in Nat /\ acks \in Nat
    /\ bOpen \in BOOLEAN

TypeRest ==
    /\ tpc \in {"top", "sleep", "send", "done"} /\ returnFlag \in BOOLEAN
    /\ panic \in BOOLEAN /\ crashes \in 0..MaxCrashes

TypeOK == TypeMain /\ TypeMiner /\ TypeIndexer /\ TypeRest

\* A request the document may have been in has failed, or it was refused in one
\* that did not.
Failed(d) == failed[d.ch] \/ d.id \in rejected[d.ch]

(* BlockHasParts: a block in the index has its transactions, events,        *)
(* contracts and token transfers in theirs, at every moment, a crash         *)
(* included, unless a bulk request of that part has failed, or the database *)
(* has refused the document in a request that has not (the answer of Commit *)
(* is not looked at).                                                       *)
BlockHasParts ==
    \A h \in index[Block] : \A d \in OwnDocs(h) :
        d.id \in index[d.ch] \/ Failed(d)

(* AccRecoverable: an account token of an indexed block that is not in the  *)
(* index, and that no failed request and no refusal has kept out of it, is  *)
(* still that of a block that is not indexed, so that a later check sends   *)
(* it, or that of a block that was handed over although it was indexed: the *)
(* cache makes it forgotten over no restart but where a check that lost a   *)
(* page, or one with --fix, gives it to such a block (getAccTokens).        *)
AccRecoverable ==
    \A h \in index[Block] : \A d \in AccDocs(h) :
        \/ d.id \in index[AccTokens] \/ Failed(d)
        \/ \E g \in (Heights \ index[Block]) \cup redone : d \in AccDocs(g)

(* ImplementsStore: every step of the bulk indexer, a crash included, adds  *)
(* documents to one index, blocks only after all their parts but those the  *)
(* database has refused, or leaves the database alone (commitBulk,          *)
(* EsBulkInstance.Commit).                                                  *)
Store == INSTANCE IndexStore WITH Needs <- [h \in Heights |-> OwnDocs(h)]
ImplementsStore == Store!Spec

(* AllIndexed: when StopBulkChannel returns, every height handed over and   *)
(* every document of it is in the database, or was refused by it: the one   *)
(* forced commit flushes all the channels (bulk.go, Force commit).  After a *)
(* failed request it never returns: the indexer that calls it is one it     *)
(* waits for.                                                               *)
Stored(c) == index[c] \cup rejected[c]
AllIndexed ==
    mainpc = "done" =>
        \A h \in sent : /\ h \in Stored(Block)
                        /\ \A d \in Range(DocsOf[h]) : d.id \in Stored(d.ch)

(* OnlyTimerPanics: a send on a closed channel is the late time-out of the  *)
(* block channel, and no other, unless a bulk request fails.                *)
Failing == \E c \in Channels : failed[c]
OnlyTimerPanics == SendOnClosed /\ ~Failing => tpc = "send" /\ mainpc = "done"

(* ClosedWhenIdle: the channels are closed only after every miner and every *)
(* indexer has stopped, with nothing left in any of them, which an indexer  *)
(* whose request failed never does (StopBulkChannel).                       *)
ClosedWhenIdle ==
    ~bOpen => /\ \A m \in Miners : mpc[m] = "stopped"
              /\ \A c \in Channels : ipc[c] = "stopped" /\ total[c] = 0 /\ held[c] = {}

(* Terminates: with every goroutine scheduled, a check for which the node   *)
(* answers every miner in the end hands its heights over, stops all the     *)
(* goroutines and returns, or the late time-out ends the program, unless a  *)
(* bulk request fails; so does each check after a restart.                  *)
NodeAnswers == \A m \in Miners : []<>(mpc[m] # "get")
Terminates == NodeAnswers => []<>(mainpc = "done" \/ panic \/ Failing)

(* FirstFlush: blocks are not left collected for ever before the first      *)
(* commit, even if the node never answers again and no other block comes    *)
(* (the time-out goroutine of BulkIndexer, which ends with that commit).    *)
FirstFlush == []<>(total[Block] = 0 \/ returnFlag \/ panic \/ Failing)

-----------------------------------------------------------------------------
(* The inductive invariant behind BlockHasParts and ImplementsStore.        *)

Arrived(d) == Failed(d) \/ d.id \in index[d.ch] \cup bulk[d.ch] \cup held[d.ch]

\* A part has been ordered to commit and has not answered yet.
Owes(c) == ipc[c] \in {"synDone", "synFailed"} \/ (ipc[c] = "commit" /\ held[c] = {})
Owing == {c \in PartSet : Owes(c)}

Flushed(d) ==
    \/ Failed(d) \/ d.id \in index[d.ch]
    \/ Owes(d.ch) /\ d.id \in bulk[d.ch]

\* A miner has sent every part of its block but those it still holds.
MinedArrived ==
    \A m \in Miners : mpc[m] \in {"send", "store", "claimed"} =>
        \A d \in OwnDocs(mh[m]) : Arrived(d) \/ d \in Range(md[m])

\* A block reaches its indexer after all its parts have reached theirs.
CollectedArrived ==
    \A h \in bulk[Block] \cup held[Block] : \A d \in OwnDocs(h) : Arrived(d)

\* The parts that have been ordered to commit have committed, or are about
\* to commit, every part of the blocks the order is for.
OrderedFlushed ==
    /\ ipc[Block] = "order" =>
         \A h \in bulk[Block] : \A i \in 1..ordered :
            \A d \in OwnDocs(h) : d.ch = Parts[i] => Flushed(d)
    /\ ipc[Block] \in {"await", "commit"} =>
         \A h \in bulk[Block] : \A d \in OwnDocs(h) : Flushed(d)

\* Every order is answered once: the answers still to come are counted.
AnswersCounted ==
    /\ Cardinality(Owing) = ordered - acks
    /\ ipc[Block] \in {"recv", "stopped"} => ordered = 0 /\ acks = 0
    /\ ipc[Block] = "order" => ordered < Len(Parts) /\ acks = 0
    /\ ipc[Block] = "await" => ordered = Len(Parts) /\ acks < Len(Parts)
    /\ ipc[Block] \in {"commit", "stop"} => ordered = acks
    /\ ipc[Block] \notin {"synDone", "synFailed"}

\* A document is held only during the commit its arrival started, and the
\* bulk is emptied only when the database has answered for all of it.
Consistent ==
    \A c \in Channels :
        /\ total[c] = 0 => bulk[c] = {}
        /\ ipc[c] \in {"recv", "synDone", "synFailed", "stopped"} => held[c] = {}
        /\ ipc[c] = "synDone" => bulk[c] \subseteq Stored(c)
        /\ ipc[c] = "synFailed" => failed[c]

PartsFirst ==
    /\ BlockHasParts
    /\ MinedArrived
    /\ CollectedArrived
    /\ OrderedFlushed
    /\ AnswersCounted
    /\ Consistent

-----------------------------------------------------------------------------
(* The inductive invariants behind ClosedWhenIdle and OnlyTimerPanics.      *)

MidBlock(m) == mpc[m] \in {"send", "store", "claimed"}
Busy(m) == mpc[m] = "get" \/ MidBlock(m)

\* Whoever stops the goroutines stops the miners from the first to the last,
\* and then the indexers, that of the blocks first.
StopsInOrder ==
    /\ \A m \in Miners : rOpen[m] <=> mpc[m] # "stopped"
    /\ \A p \in Procs :
         /\ stage[p] = "none" /\ (p = Main => mainpc # "done") => si[p] = 0
         /\ stage[p] = "miners" =>
              si[p] \in Miners /\ \A m \in Miners : m < si[p] => ~rOpen[m]
         /\ stage[p] \in {"commit", "bulks", "close"} => \A m \in Miners : ~rOpen[m]
         /\ stage[p] = "bulks" =>
              /\ si[p] \in 1..Len(Channel)
              /\ \A i \in 1..Len(Channel) : i < si[p] => ipc[Channel[i]] = "stopped"
         /\ stage[p] = "close" => \A c \in Channels : ipc[c] = "stopped"

\* The main goroutine stops them once; an indexer does so only after a failed
\* request, and then stays there.
StopsOnce ==
    /\ stage[Main] = "none" <=> mainpc # "stop"
    /\ bOpen <=> mainpc # "done"
    /\ ~bOpen => /\ \A m \in Miners : ~rOpen[m]
                 /\ \A c \in Channels : ipc[c] = "stopped"
    /\ \A c \in Channels :
         /\ stage[c] # "none" => ipc[c] = "stop"
         /\ ipc[c] = "stop" => failed[c]
    /\ (\A c \in Channels : ipc[c] # "stop") =>
         \A m \in Miners : ~rOpen[m] =>
            \/ mainpc = "done"
            \/ stage[Main] \in {"commit", "bulks", "close"}
            \/ stage[Main] = "miners" /\ m < si[Main]

\* What a part has collected and is not writing is followed by a block, which
\* a miner still holds, or whose commit has not come to this part yet.
Followed(c) ==
    \/ \E m \in Miners : MidBlock(m)
    \/ held[Block] # {}
    \/ /\ total[Block] > 0
       /\ \/ ipc[Block] = "recv"
          \/ ipc[Block] = "order" /\ \E i \in 1..Len(Parts) : ordered < i /\ Parts[i] = c

\* The forced commit leaves the indexer of the blocks, and so all others,
\* with nothing.
Drained ==
    /\ \A c \in PartSet : ipc[c] = "commit" => total[c] > 0
    /\ \A c \in Channels : ipc[c] = "stopped" => total[c] = 0
    /\ \A p \in Procs : stage[p] = "bulks" =>
         /\ ipc[Block] = "recv" => total[Block] = 0
         /\ ipc[Block] # "stop" => held[Block] = {}
    /\ ipc[Block] # "stop" =>
         \A c \in PartSet :
            total[c] > 0 /\ ~Owes(c) /\ ipc[c] # "stop" => Followed(c)

StopInv == StopsInOrder /\ StopsOnce /\ Drained

-----------------------------------------------------------------------------
(* The inductive invariant behind AllIndexed.                               *)

Collects(c) == Stored(c) \cup bulk[c] \cup held[c]
Claimed(id) == \E m \in Miners : mpc[m] = "claimed" /\ Head(md[m]).id = id

\* What a miner stores in the cache of account tokens is one of its block.
ClaimsAcc ==
    /\ \A m \in Miners : mpc[m] \in {"store", "claimed"} => Head(md[m]).ch = AccTokens
    /\ \A m \in Miners : MidBlock(m) => Range(md[m]) \subseteq Range(DocsOf[mh[m]])

\* Only what has been sent, or is about to be, is kept in the cache.
AccKept == \A id \in accToken : id \in Collects(AccTokens) \/ Claimed(id)

\* A height handed over is at a miner, or its block has been collected; so
\* is each of its documents, or another miner is about to send it.
BlocksKept ==
    \A h \in sent : (\E m \in Miners : Busy(m) /\ mh[m] = h) \/ h \in Collects(Block)
DocsKept ==
    \A h \in sent : \A d \in Range(DocsOf[h]) :
        \/ \E m \in Miners : mpc[m] = "get" /\ mh[m] = h
        \/ \E m \in Miners : MidBlock(m) /\ mh[m] = h /\ d \in Range(md[m])
        \/ d.id \in Collects(d.ch)
        \/ d.ch = AccTokens /\ Claimed(d.id)

SentInv == ClaimsAcc /\ AccKept /\ BlocksKept /\ DocsKept

-----------------------------------------------------------------------------
(* The inductive invariant behind AccRecoverable.                           *)

\* A block is handed over once, and one that is indexed is remembered in redone.
HandedOnce ==
    /\ mainpc = "call" => \A h \in sent : h >= low
    /\ mainpc = "insert" =>
         /\ low = from
         /\ \A h \in sent : h > height
         /\ from..height \cap index[Block] \subseteq redone
    /\ bulk[Block] \cup held[Block] \subseteq sent
    /\ \A m \in Miners : Busy(m) =>
         /\ mh[m] \in sent \ (bulk[Block] \cup held[Block])
         /\ mh[m] \in index[Block] => mh[m] \in redone
    /\ \A m, n \in Miners : Busy(m) /\ Busy(n) /\ mh[m] = mh[n] => m = n

\* The account token of a block that is mined or collected has arrived, or a
\* miner is about to send it ...
AccArrived ==
    /\ \A m \in Miners : MidBlock(m) =>
         \A d \in AccDocs(mh[m]) : Arrived(d) \/ d \in Range(md[m]) \/ Claimed(d.id)
    /\ \A h \in bulk[Block] \cup held[Block] :
         \A d \in AccDocs(h) : Arrived(d) \/ Claimed(d.id)

\* ... and when its indexer has been ordered to commit, it is one of those
\* flushed, or the block it was sent for is still at a miner.
Late(d) == \E m \in Miners : MidBlock(m) /\ d \in AccDocs(mh[m])
AccOrdered ==
    /\ ipc[Block] = "order" =>
         \A h \in bulk[Block] : \A i \in 1..ordered :
            \A d \in AccDocs(h) : d.ch = Parts[i] => Flushed(d) \/ Late(d)
    /\ ipc[Block] \in {"await", "commit"} =>
         \A h \in bulk[Block] : \A d \in AccDocs(h) : Flushed(d) \/ Late(d)

AccInv == HandedOnce /\ AccArrived /\ AccOrdered
=============================================================================
