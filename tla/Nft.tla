-------------------------------- MODULE Nft --------------------------------
(***************************************************************************)
(* The document of one NFT (indexer/miner.go, dto.go).                     *)
(*                                                                         *)
(* For a transfer a miner asks the node for the owner, then asks the       *)
(* database for the document, and then inserts or updates it.  Several     *)
(* miners do so at once: the one of the stream takes the blocks as they    *)
(* come, those of the check take the blocks before it from high to low.    *)
(* A search of the database sees what it has refreshed last, and an update *)
(* that meets another write is dropped.                                    *)
(*                                                                         *)
(* Any of these requests may fail: the event then leaves no document, or   *)
(* the document it found, and nothing tries it again.                      *)
(*                                                                         *)
(* Owners are told apart by the block of the transfer that made them one.  *)
(* The node only extends its chain here: it does not reorganise it.        *)
(***************************************************************************)
EXTENDS Integers, FiniteSets, FiniteSetsExt

CONSTANTS
    BulkMiners,     \* the miners of the check
    Sync,           \* the miner of the stream
    StartHeight,    \* the check takes the blocks up to this one
    MaxHeight,      \* bound on the height of the chain
    None            \* no document

ASSUME HeightAssumption ==
    /\ StartHeight \in Nat /\ MaxHeight \in Nat /\ StartHeight <= MaxHeight
    /\ Sync \notin BulkMiners
    /\ None \notin [BlockNo : Nat, Account : Nat]

VARIABLES
    transfers,      \* the blocks with a transfer of the NFT
    best,           \* the height of the node
    nextBulk,       \* the next height the check hands over
    nextSync,       \* ... and the stream
    pc, height,     \* each miner and the block it works on
    owner,          \* the owner it has been told
    seen,           \* the document it has found
    nft,            \* the document in the database
    shown,          \* the document a search finds
    missed          \* history: the blocks whose transfer was lost to a failed request

vars == <<transfers, best, nextBulk, nextSync, pc, height, owner, seen, nft, shown, missed>>

Miners == BulkMiners \cup {Sync}
Heights == 1..MaxHeight
Doc == [BlockNo : Heights, Account : Heights]

(* The owner at the best block of the node.                                 *)
OwnerOf(b) == Max({t \in transfers : t <= b})

Init ==
    /\ transfers \in SUBSET Heights
    /\ best = StartHeight
    /\ nextBulk \in {0, StartHeight}      \* with or without a check
    /\ nextSync = StartHeight + 1
    /\ pc = [m \in Miners |-> "idle"]
    /\ height = [m \in Miners |-> 0]
    /\ owner = [m \in Miners |-> 0]
    /\ seen = [m \in Miners |-> None]
    /\ nft = None /\ shown = None
    /\ missed = {}

Goto(m, l) == pc' = [pc EXCEPT ![m] = l]

NodeExtend ==
    /\ best < MaxHeight
    /\ best' = best + 1
    /\ UNCHANGED <<transfers, nextBulk, nextSync, pc, height, owner, seen, nft, shown, missed>>

(* A block without a transfer of the NFT leaves it alone.                   *)
Take(m, h) ==
    /\ pc[m] = "idle"
    /\ height' = [height EXCEPT ![m] = h]
    /\ Goto(m, IF h \in transfers THEN "query" ELSE "idle")
    /\ UNCHANGED <<transfers, best, owner, seen, nft, shown, missed>>

\* Mutant: one block too many.
TakeBulkPast(m) ==
    /\ m \in BulkMiners
    /\ nextBulk' = nextBulk - 1
    /\ Take(m, nextBulk)
    /\ UNCHANGED nextSync

TakeBulk(m) ==
    /\ m \in BulkMiners
    /\ nextBulk > 0
    /\ nextBulk' = nextBulk - 1
    /\ Take(m, nextBulk)
    /\ UNCHANGED nextSync

TakeSync ==
    /\ nextSync <= best
    /\ nextSync' = nextSync + 1
    /\ Take(Sync, nextSync)
    /\ UNCHANGED nextBulk

(* MinerEventByName: QueryOwnerOf answers for the best block of the node.   *)
QueryOwnerOf(m) ==
    /\ pc[m] = "query"
    /\ owner' = [owner EXCEPT ![m] = OwnerOf(best)]
    /\ Goto(m, "get")
    /\ UNCHANGED <<transfers, best, nextBulk, nextSync, height, seen, nft, shown, missed>>

(* addNFT.                                                                  *)
GetNFT(m) ==
    /\ pc[m] = "get"
    /\ seen' = [seen EXCEPT ![m] = shown]
    /\ Goto(m, "write")
    /\ UNCHANGED <<transfers, best, nextBulk, nextSync, height, owner, nft, shown, missed>>

\* Mutant: the highest block is kept with any owner, as addAccountBalance does.
NftDocHighest(m) ==
    [BlockNo |-> IF seen[m] = None THEN height[m] ELSE Max({seen[m].BlockNo, height[m]}),
     Account |-> owner[m]]
NftDoc(m) == [BlockNo |-> height[m], Account |-> owner[m]]

\* Mutant: the comparison is the wrong way round.
OlderOnly(m) == height[m] < seen[m].BlockNo
Newer(m) == height[m] > seen[m].BlockNo

Insert(m) ==
    /\ pc[m] = "write" /\ seen[m] = None
    /\ nft' = NftDoc(m)
    /\ Goto(m, "idle")
    /\ UNCHANGED <<transfers, best, nextBulk, nextSync, height, owner, seen, shown, missed>>

Keep(m) ==
    /\ pc[m] = "write" /\ seen[m] # None /\ ~Newer(m)
    /\ Goto(m, "idle")
    /\ UNCHANGED <<transfers, best, nextBulk, nextSync, height, owner, seen, nft, shown, missed>>

(* The database reads the document, and writes it if it is still the same;  *)
(* the conflict is ignored otherwise.                                       *)
UpdateRead(m) ==
    /\ pc[m] = "write" /\ seen[m] # None /\ Newer(m)
    /\ seen' = [seen EXCEPT ![m] = nft]
    /\ Goto(m, "update")
    /\ UNCHANGED <<transfers, best, nextBulk, nextSync, height, owner, nft, shown, missed>>

Update(m) ==
    /\ pc[m] = "update"
    /\ nft' = IF nft = seen[m] THEN NftDoc(m) ELSE nft
    /\ Goto(m, "idle")
    /\ UNCHANGED <<transfers, best, nextBulk, nextSync, height, owner, seen, shown, missed>>

(* A request fails.  An owner that cannot be had makes the event one of     *)
(* another type of token, which has no NFT (QueryOwnerOf); a search that    *)
(* fails returns; a write that fails is logged.                             *)
Lose(m) ==
    /\ pc[m] # "idle"
    /\ pc[m] = "write" /\ seen[m] # None => Newer(m)
    /\ missed' = missed \cup {height[m]}
    /\ Goto(m, "idle")
    /\ UNCHANGED <<transfers, best, nextBulk, nextSync, height, owner, seen, nft, shown>>

(* The database refreshes its search once in a while.                       *)
Refresh ==
    /\ shown # nft
    /\ shown' = nft
    /\ UNCHANGED <<transfers, best, nextBulk, nextSync, pc, height, owner, seen, nft, missed>>

MinerStep(m) ==
    \/ TakeBulk(m) \/ (m = Sync /\ TakeSync)
    \/ QueryOwnerOf(m) \/ GetNFT(m)
    \/ Insert(m) \/ Keep(m) \/ UpdateRead(m) \/ Update(m)
    \/ Lose(m)

Next == NodeExtend \/ Refresh \/ \E m \in Miners : MinerStep(m)

Spec == Init /\ [][Next]_vars

-----------------------------------------------------------------------------
TypeOK ==
    /\ transfers \subseteq Heights /\ best \in StartHeight..MaxHeight
    /\ nextBulk \in 0..StartHeight /\ nextSync \in StartHeight+1..MaxHeight+1
    /\ pc \in [Miners -> {"idle", "query", "get", "write", "update"}]
    /\ height \in [Miners -> 0..MaxHeight] /\ owner \in [Miners -> 0..MaxHeight]
    /\ seen \in [Miners -> Doc \cup {None}]
    /\ nft \in Doc \cup {None} /\ shown \in Doc \cup {None}
    /\ missed \subseteq Heights

(* OwnerNotOlder: the document never says a block later than the transfer   *)
(* that made its owner one: every miner asks the node after the node has    *)
(* the block, and owner and block are written together (MinerEventByName,   *)
(* ConvNFT, addNFT).                                                        *)
OwnerNotOlder == nft # None => nft.BlockNo <= nft.Account

(* OwnerCurrent: without a check, when the stream has passed a transfer and *)
(* taken all blocks of the node, the document has the owner of the best     *)
(* block, however late the searches are (addNFT updates a document only     *)
(* from a newer block, dto.go:117), unless a request for the last transfer  *)
(* itself failed: no other event makes up for it.                           *)
StreamAlone == \A m \in BulkMiners : height[m] = 0
Done == nextSync > best /\ nextBulk = 0 /\ \A m \in Miners : pc[m] = "idle"
OwnerCurrent ==
    StreamAlone /\ Done /\ transfers \cap StartHeight+1..best # {} =>
        \/ nft # None /\ nft.Account = OwnerOf(best)
        \/ OwnerOf(best) \in missed
-----------------------------------------------------------------------------
(* The inductive invariants behind them.                                    *)

\* A miner works on a transfer the node has, and is told no earlier owner.
OwnerInv ==
    /\ OwnerNotOlder
    /\ nft # None => nft.Account \in transfers /\ nft.Account <= best
    /\ \A m \in Miners :
          /\ pc[m] # "idle" => height[m] \in transfers /\ height[m] <= best
          /\ pc[m] \in {"get", "write", "update"} =>
                height[m] <= owner[m] /\ owner[m] \in transfers /\ owner[m] <= best

\* What a search finds, of the stream alone, is older than the block it is
\* at, so that it writes: the document is no older than any transfer passed
\* whose requests went well.
Passed == IF pc[Sync] = "idle" THEN nextSync - 1 ELSE nextSync - 2
SoloInv ==
    StreamAlone =>
        /\ \A m \in BulkMiners : pc[m] = "idle"
        /\ pc[Sync] # "idle" => height[Sync] = nextSync - 1
        /\ nft # None => nft.BlockNo <= Passed
        /\ shown # None => shown.BlockNo <= Passed
        /\ seen[Sync] # None => seen[Sync].BlockNo <= Passed
        /\ pc[Sync] = "update" => seen[Sync] = nft
        /\ \A t \in transfers :
              t > StartHeight /\ t <= Passed /\ t \notin missed =>
                  nft # None /\ nft.BlockNo >= t
=============================================================================
