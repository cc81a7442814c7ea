# A TLA+ model of aergo-indexer 2.0

The indexer reads blocks from an Aergo node over gRPC and keeps documents about
them in Elasticsearch.  This directory holds a model of it: TLA+ modules, TLC
configurations, and proofs checked by TLAPS.  File and line references are to the
sources beside it, under `src/`.

## 1. The system

| part | state it keeps | operations | talks to |
|---|---|---|---|
| start, options (`main.go`, `indexer/indexer.go`, `option.go`) | run mode, `--from`, `--to`, `lastHeight`, `indexNamePrefix` | `Start`, `Stop`, `InitIndex`, `ValidChainInfo`, `CreateIndexIfNotExists` | node, database, all parts below |
| consistency check (`run_check.go`) | a scroll over the block index, `prevBlockNo`, `blockNo`, `missingBlocks` | `Check`, `checkIndex`, `fixIndex` | database; hands heights to the bulk indexer |
| bulk indexer (`bulk.go`) | one unbuffered channel and one goroutine per index, `total`, the bulk request, `return_flag`, `SynDone` | `StartBulkChannel`, `InsertBlocksInRange`, `StopBulkChannel`, `BulkIndexer`, `commitBulk` | miners send to it; it writes to the database |
| miners (`miner.go`, `dto.go`) | the block being read | `Miner`, `MinerTx`, `MinerEvent*`, `add*` | node; send documents to the bulk indexer or write them to the database |
| cache (`cache.go`) | `accToken`, `peerId`, `addrsBalance` | `getAccTokens`, `registerVariables`, `refreshVariables` | used by all miners |
| stream (`run_onsync.go`) | the block stream, `lastHeight` | `SyncBlock`, `sleepStream`, `DeleteBlocksInRange` | node; hands heights to a miner of its own; deletes from the database |
| tokens and holders (`miner.go`, `dto.go`, `cache.go`) | the token and account token indices, `accToken` | `addToken`, `updateToken`, `addAccountTokens`, the events behind them | node, bulk indexer, database |
| verified tokens and contracts (`miner.go`, `cache.go`) | the whitelist index | `MinerEventByAddr`, `refreshVariables`, `MinerTokenVerified`, `MinerContractVerified` | node, database |
| database access (`db/elasticsearch.go`) | aliases, scrolls, bulk requests | `Scroll`, `Next`, `Add`, `Commit`, `Update`, `UpdateAlias` ... | Elasticsearch |
| documents and parsing (`documents/`, `transaction/`) | none | conversions of blocks, transactions, events | called by miners |
| node client (`client/client.go`) | a connection | queries | node |

Three kinds of process run at once in mode `all`: the stream with its miner, the
check with its miners and bulk indexers, and the time-out goroutine of the block
channel.  They share the database and the cache, and nothing else but channels.

What is hard, and what makes each part correct:

* **the check** walks block numbers of type uint64 from high to low with
  increments, decrements and a filter that wrap or change sign at the ends of the
  range; the scroll may fail and repeat.  Correct: nothing indexed is redone, no
  height is handed over twice or outside the range, and nothing is left out.
* **the bulk indexer**: seven kinds of goroutine that rendezvous on unbuffered
  channels, a flush ordered by one for all others, a crash at any moment.  A block
  document is the mark by which a later check knows a height is done.  Correct: a
  block is never in the database before its parts, nothing is lost at the end of a
  check, the goroutines end, and none sends on a closed channel.
* **the stream**: rewinds, gaps, lost connections, another instance at work, a miner
  that runs beside it, deletions that find only what the index was last refreshed to.
  Correct: heights below `lastHeight` are indexed, rewound
  blocks are gone, and the stream always comes back to receive.
* **stream and check on one database**: each finds what the other has written, and
  neither can tell it from what another instance wrote; each asks the node for its best
  block by itself.  Correct: no height between the two, and none lost by one of them.
* **token and holder documents**: the stream overwrites them at once, the check sends what
  it was told earlier in requests that may come much later, heights are worked on in any
  order.  Correct: a document does not fall behind what is indexed, and is complete.
* **start**: two instances, another chain, or a crash between the creation of an index
  and that of its alias.  Correct: one index per alias, all indices of one prefix and
  one chain, and no index with data deleted.
* **NFT and balance documents, whitelist**: read, then write, from several
  goroutines.  Correct: the document ends with what the node has, and an account or a
  claim that has changed is not forgotten.
* **the documents of a transaction**: many early returns, queries that may fail, event
  arguments of several shapes.  Correct: what belongs together is added together, and
  the transaction after its parts.

## 2. Modules

| module | models |
|---|---|
| `CheckIndex` | `Check`, `checkIndex`, `fixIndex` and the scroll, one action per exit of the loop body |
| `MCCheckIndex` | its finite instance |
| `CheckIndexProofs` | theorems about `CheckIndex` |
| `IndexStore` | the abstract promise of the bulk indexer: documents are added, a block once its parts are there |
| `Bulk` | all goroutines of a check, `bulk.go` with the sending side of `miner.go`, `dto.go` and `cache.go` |
| `BulkProps` | its properties, its inductive invariant, and the refinement of `IndexStore` |
| `MCBulk` | its finite instance |
| `BulkProofs` | theorems about `Bulk` |
| `OnSync` | the stream: `SyncBlock`, `openStream`, `sleepStream`, `DeleteBlocksInRange`, and its miner |
| `OnSyncProofs` | theorems about `OnSync` and `ModeAll` |
| `ModeAll` | the program: `OnSync` and the check on one database, in any run mode |
| `InitIndex` | the start: prefixes, indices, aliases, chain info |
| `InitIndexProofs` | theorems about `InitIndex` |
| `TxParse` | operators: category of a transaction, token heuristics, event arguments |
| `MinerTx` | the documents of one transaction, EXTENDS `TxParse` |
| `Tokens` | the documents of one token and its holders, between the stream and the check |
| `TokensProofs` | theorems about `Tokens` |
| `Nft` | the document of one NFT between several miners |
| `NftProofs` | theorems about `Nft` |
| `Balances` | the cache of accounts and the balance documents |
| `BalancesProofs` | theorems about `Balances` |
| `Whitelist` | verified tokens and contracts |
| `MinerProofs` | theorems about `MinerTx` and `Whitelist` |

**`CheckIndex`.** `docs` is what the block index holds, in the order the scroll
returns it; a height may occur twice, as block ids are hashes and a fork leaves both
(`documents/conv.go`).  `Inc`, `Dec` and `AsInt` are the conversions the code makes
between uint64 and int.  `Scroll(k)` is one turn of the loop and has the three exits
of the code in its order; `ScrollError` is the branch that sleeps and continues;
`ScrollEOF` the break; `Fill` the statement after the loop.  `sent` collects what
`InsertBlocksInRange` receives, and that operator gives its quirk: the lower end is
always sent.

**`Bulk`.** A send on an unbuffered channel and the receive that takes it are one action, so
`ipc[c] = "recv"` is "the goroutine of `c` is at the head of its loop". `commitBulk` is
spread over `StartCommit`, `OrderCommit`, `SynDone`, `Apply`, `CommitDone` and
`CommitError`: the points at which another goroutine, or the database, can be seen by
others.  A bulk request is applied document by document (`Apply`), and acknowledged
afterwards (`CommitDone`).  `Commit` looks for an error of the request only, so that an
acknowledged request may have refused any of its documents (`rejected`). `CallInsert` hands
over any range below the last one, of heights that are indexed as well: a page of the scroll
that was lost (`run_check.go:63`) makes them look missing, and `--fix` takes them all.
`redone` keeps those.  `stage[p]` is the program counter of `StopBulkChannel` run by `p`: by
the main goroutine, or by an indexer whose commit failed.  `getAccTokens` is a load and a
store.  `Restart` is a crash at any moment followed by a new start; only the database and
the history variables `failed`, `rejected` and `redone` survive.

The ten-second sleeps in `StopBulkChannel` are not modelled: correctness must not rest on
them.  `GetBlock` may be answered never.  `DocsOf[h]` is what a miner sends for a block, and
stands for the whole content of the node; the documents written to the database directly
(names, tokens, NFTs, whitelist) do not go through these channels and are left out here.

**`OnSync`.** The node extends its chain or goes back and extends another fork, and
announces each new block in `queue`; a block is a height and its fork.  `pc` is the
program counter of the goroutine of the stream, `mpc` that of its miner; `Hand` is the
send on the unbuffered channel between them.  `base` is the height above which the stream
is responsible: that of the start, or of the last rewind below it.  `AskDb` is
the branch the code takes when the clock ends in a zero, and may be taken always.
`drain` is the goroutine `sleepStream` leaves behind; that it may still be inside `Recv`
when the stream is read again is kept as one more announcement it may discard
(`"last"`); what gRPC does with two concurrent `Recv` beyond that is left out.  Index by
index deletion is `DeleteBlocks` and `DeleteTxs`; the other kinds behave like
transactions.  Searches find `shown` and `shownTxs`, what each index had when it was last
refreshed (`Refresh`): so do the query for the best block and the delete by query
(`elasticsearch.go:91`), which therefore misses a document that has just been written, and
the program never asks for a refresh.

The other instance runs this same program on the same database: its check works downwards
from the tip and fills holes, its stream follows the node.  It is taken as what these write:
any block of the node in any order, the transactions in one step and the block in another
(`OtherTx`, `OtherBlock`).  It may stop, leave heights out for ever, or be in the middle of
a block when this one rewinds.  `holes` collects the heights that nobody has when it writes
a block above them.  Its own rewinds and failed requests are left out: what they take away is
not put down to this instance.

**`ModeAll`.** `CheckBest` is the second time the program asks for the best block,
`CheckScroll` the loop of `checkIndex` as a whole, with what `CheckIndex` shows it to hand
over: the missing heights of the range but for the lowest gap above block 0 (`left`).
`CheckHand`, `CheckGet` and `CheckCommit` are what miners and bulk indexers do to the
heights, with what `Bulk` shows: blocks come with their parts, in any order.  The steps of
the stream are those of `OnSync`, without another instance.  The scroll and the stream both
search, and see `shown`; with `Lagging = FALSE` an index is refreshed before anything else
happens.  `AllView` leaves out the transactions, which neither property nor any guard looks
at.  A restart chooses the run mode anew.

**`Tokens`.** A supply, or the holdings of an account, are told apart by the block that
changed them last, and `event[h]` is what one block does to the token: `Chains` holds every
history.  A miner asks and writes in two steps (`Ask`, then `AddToken`, `UpdateToken`,
`InsertAccount` or `SendAccount`); what the check sends is in `held` until the request is
committed, in any order but before the blocks (`CommitAccounts`, `CommitBlocks`, which is
what `Bulk` shows).  `Created` is the request that only creates, and whose refusals nobody
looks at.  A query for the supply or the holdings that fails reads as 0 (`Ask`).  One for the
owner of an id that is no number ends a transfer or a burn before anything is written
(`NoOwner`, `miner.go:225`, `:257`), one for the name ends a creation (`NoTokenInfo`), and a
write that fails is only logged (`WriteFails`).  The first shows as 0 in the document, the
others leave an older document standing and are kept in `lost`; `beside` keeps the heights
that the stream and the check took while the other was at work.  A mint that is told as a
transfer from the zero address makes no miner ask for the supply (`event.go:152`), and is a
transfer here.

**`InitIndex`.** A prefix is the second (`clock`) of the start, 0 the empty prefix before
it.  Each request to the database is a step, and `RequestFails` bounds those that fail.
`UpdateAlias` is three requests, as in the code, and its last one is made also when the
one before it has failed.  A document written to an index that is not there creates it,
which is what Elasticsearch does.

**`TxParse`, `MinerTx`.** `Rules` is the cascade of `DetectTxCategory` in its order.
A payload is told apart by its call name or keywords, an event argument by its JSON kind;
a string is an address, the zero address or a number.  `MinerTx` has one action per path
through `MinerTx` and `MinerEventByName`; `Return` is the deferred `addTx`.  What a query
answers is a choice, failure included; the standard a token keeps is fixed in `standard`.
In the check (`blockType`) the balance of an account is added only if the cache does not have
its id, which is the account and the token without the type (`dto.go:69`, `conv.go:222`):
`cached` is what it has of the ids this transaction meets, and `Meet` lets other transactions
have marked any of them by then (`others`).
The node decides which transactions have events (`MayEmit`): system calls do, and
anything that runs a contract.

**`Nft`.** Owners are told apart by the block of the transfer that made them one;
`QueryOwnerOf` answers for the best block of the node.  `nft` is the document, `shown`
what a search finds until the next refresh; `UpdateRead` and `Update` are the two halves
of an Elasticsearch update, which is dropped if another write came between.  Any of the
requests may fail (`Lose`): a failed `ownerOf` makes the event one of an ARC1 token, which has
no NFT (`client.go:164`), a failed search returns (`dto.go:114`), a failed write is logged;
`missed` keeps the blocks.  The node does not reorganise its chain here.

**`Balances`.** A balance is the block that changed it last and its kind.  `Visit` and
`VisitNew` follow the contract of `sync.Map.Range`: every key that stays is visited once,
a key stored meanwhile may or may not be.  The lag of searches and database errors are left
out; what a failing query of the node turns into is a choice of `BalanceOf`.

**`Whitelist`.** `claim` is what the node has, `whitelist` and `docs` what the database has.
`MinerVerified` holds `MinerTokenVerified` and `MinerContractVerified`, which differ in the
code url only (`Skipped`); one token of a refresh is one step.  `rounds` counts the
refreshes since the last change from outside, for the properties say what two undisturbed
refreshes achieve.  An update that fails and is only logged (`dto.go:143`), while the
whitelist goes on as if it had not, is left out.  `Held` names a token that has left a
contract and waits for the document of the next one: it does not let go of the contract it
has left, and takes its mark away in every refresh, also the mark of another token.

## 3. Runs

| run | checks | shows |
|---|---|---|
| `check_index` | `CheckIndex` over every index of four blocks and every range, with failing scrolls | what is left out is at most the gap above an indexed `--from` height; the check ends |
| `bulk` | `Bulk` with a failing bulk request or a refused document, a crash, a node that may not answer, indexed heights handed over again | a part is missing only after a failed request of its channel or its refusal; a check that returns has indexed all but what was refused; the refinement of `IndexStore`; the first flush by the time-out |
| `on_sync` | `OnSync` with a reorganisation, another instance, searches that lag, failing requests and a restart | no height is skipped before a reorganisation but the holes of the other instance; a rewind leaves the block at the miner and what its search did not show; the stream comes back to receive |
| `on_sync_reorg_indexed` (violation) | that the database has the chain of the node after a reorganisation | the block that announces it is not indexed |
| `mode_all` | stream and check on one database in any run mode, searches that lag, a reorganisation or a restart | no hole behind the check, at its seam with the stream neither; heights at work are let go of by a rewind only |
| `mode_all_lost` (violation) | that a height taken for indexed is so | the stream deletes a block of its own check, and passes over it |
| `init_index` | two instances, failing requests, a crash | one prefix and one chain unless two instances start at once; every start ends unless it meets an index without an alias |
| `tx_documents` | all kinds of transactions, two events of every shape, in the stream and in the check | order and completeness of the documents |
| `tokens` | every history of a token on three blocks, stream and two miners of the check or of `--fix`, late bulk requests, failing queries and writes, a restart | holdings and supply do not fall behind what is indexed, the token document is whole |
| `nft` | the stream and two miners of the check, late searches, failing requests | owner and block are consistent; the stream alone ends with the current owner unless a request for the last transfer failed |
| `balances` | the cache of accounts between stream, check and restart | no balance falls behind an indexed block, stakers stay tracked |
| `whitelist` | claims, events, late and deleted documents, restarts | after two undisturbed refreshes marks and claims agree |

A violation is a disagreement between the code and a comment or document of the
repository; `PROJECT.json` quotes it under `findings`.

A property that the code keeps only under a condition states it, with a history
variable that records whether it has been broken, so that one run explores both.  The
conditions are results as well; dropping one gives a counterexample:

* `SyncCovers`, `~dbError` and `fork = 0`: after a reorganisation the one block a rewind
  leaves above it makes the database look further than it is, and the stream sleeps over
  the heights below.  `holes`: another instance that has only later blocks, as one that
  has just been started, does the same at any time: the stream looks at the best block of
  the database only (`run_onsync.go:121`).
  An announcement that comes after the stream has slept reads as a rewind, and what it
  deletes is not indexed again (`undone`; `mode_all_lost` is where that leads).
* `CheckRepairs`, `left`: with block 0 in the index the check leaves the lowest gap; as it
  works downwards, a check that is cut off leaves its missing heights exactly there
  (`run_check.go:76`, `:86`).
* `BlockHasParts`, `AccRecoverable`, `AllIndexed`, `rejected`: the answer to a bulk request
  is thrown away (`elasticsearch.go:281`), so a document refused in it is lost without an
  error.  `AccRecoverable`, `redone`: a page of the scroll that is lost gives an account
  token to a block that is indexed already; after a crash nobody sends it again.
* `HoldingFresh`, the value 0: a query that fails reads as 0 (`client.go:124`), and the
  stream writes that over what was known.
* `SupplyFresh`, `beside`: two miners ask for the supply, and the one who asked first
  writes last.  A stream alone does not meet this, nor a check alone, whose miners ask the
  same node and cannot be told less than the height they are at.
* `HoldingFresh`, `SupplyFresh`, `TokenWhole`, `lost`: an event that is given up and a write
  that fails are tried by no check again, as their block is indexed.
* `HoldersWritten`, `HeldBack`: an account whose token was once taken for ARC1 keeps that
  type in the check, and the balance is not added a second time.
* `OwnerCurrent`, `missed`: an event whose owner cannot be asked for has no NFT document.
* `BlockHasTxs`, `raced`: a rewind deletes the transactions of a block that its miner, or
  another instance, is about to add, or that its search for blocks does not show yet.
  `RewindLeavesOnlyMined`, `unseen`: what the search does not show stays.
* `StreamReturns`, `blocks = {}`: a stream that sleeps asks for the best block, and no block
  is an error, after which it goes on sleeping.
* `OnePrefix`, `OneChain`, `NothingDropped`, `~overlap`: of two instances that start
  together one deletes the indices of the other; the lock `README.md:22` speaks of is
  not in the code.  `OneChain`, `~unread`: a query of the chain info that fails lets a
  node of another chain in.
* `InitEnds`, `Orphaned`: a crash or a failing request between the first index and its
  alias, and every retry, of this instance or of another one with the same prefix, finds
  the index there and fails.  That nothing else keeps a start from ending is what is shown.
* `BalanceFresh`, `misread`: a query of the node that fails is taken for an empty
  account; `lost`: an account that was in the cache only is lost with it.
* `NoStaleMark`, `"event"`: a second event of a token on the whitelist makes it forget
  the contract it has marked.  `ClaimsMarked`, `"delete"`: a token waits for ever for the
  deleted document of the contract it leaves; `Held`: one that waits for the document of its
  next contract unmarks the one it has left again and again (`miner.go:304`, `:325`).
  `CodeVerified`, `"code"`: the code that could once not be had is not asked for again.
* `Terminates`, `Failing`: an indexer whose bulk request fails runs `StopBulkChannel`
  itself (`bulk.go:170`), and the forced commit, or the stop message for its own channel,
  waits for this very goroutine: the program hangs.  `AllIndexed` and `ClosedWhenIdle` hold
  with failed requests only because it does.
* `FirstFlush`, `returnFlag`: the flag that ends the time-out goroutine is set by every
  commit, so that a flush in time is promised up to the first one only.
* `OwnerCurrent`, the stream alone: `addNFT` searches and then inserts, so that a miner of
  the check which has found nothing overwrites a newer document (`dto.go:117`).

Bounds.  `CheckIndex`: an eight-valued uint64 (`MaxInt` 3) holds every relation
between `--from`, `--to`, zero, the sign bit and the wrap; four documents over four
heights hold gaps at both ends, in the middle, of one and of more heights, and forks.
`Bulk`: two miners race for one account token; two part channels, as the order among
more adds only more of the same rendezvous (the proofs are for any number); three heights
and bulks of one document are enough for a full bulk, for a commit between any two
documents, and for a rest that is left to the time-out or the forced commit; one request
that fails or one document that is refused; one crash, as a second one starts from a
database the first one could have left.

`OnSync`: heights 0 to 2 hold a gap, a rewind and one block more; two faults out of a
reorganisation, a restart and a failed request; one block of the other instance, which is
enough for a hole below it and for a race with a rewind; one announcement in the queue, the
others are lost; `MaxUint` 9 is beyond every height. `ModeAll`: heights 0 to 3, which add a
rewind of two and a gap of two, one reorganisation or restart, and two miners for the check;
no failed request of the stream, of which the properties say nothing, and no other instance,
as the check is the second writer. `on_sync_reorg_indexed` needs four heights and a
reorganisation of the node, nothing else; `mode_all_lost` seven heights, two announcements
and no lag.  `Tokens`: three blocks are a creation, a change and one more, over every
history; two miners of the check and the stream; one account, as accounts do not share
anything but the miner (the proofs are for any number); one fault (`MaxFaults`): a restart into
any mode, or a height whose event or write is lost, and any number of failed queries.
`InitIndex`: three types are the chain info, one index
and the whitelist; two instances on either chain; two failures, so that one can hit the
repair of another; one crash; two seconds, so that two starts may share a prefix or not.
`MinerTx`: two events, as they share the cache, with up to three arguments, which is what
the longest event needs; two accounts, of which one is a token and sends the transaction.
`Nft`: two blocks for the check and two for the stream, with every set of transfers; two
miners of the check are the smallest race among themselves.  `Balances`: a refresh every
second block, two accounts, one of which is given on the command line or an alias.
`Whitelist`: two tokens and two contracts give every exchange of claims; two events, two
claims and one more claim or document are what a token that waits needs to take a mark from
another one, so five changes, and four would hide it; one restart; tokens are alike.

Fairness.  `CheckIndex!FairSpec`: the loop goes on, and a request that fails is in
the end answered (the code repeats it every second, forever).  `Bulk!FairSpec`: weak
fairness for every goroutine, which the Go scheduler gives, and a database that
answers, with an error or not.  `StopBulkChannel` gets fairness where the main goroutine
runs it, not where an indexer does, which is stuck.  Nothing is assumed about the node:
`Terminates` names the answers it needs (`NodeAnswers`), and `FirstFlush` holds without
any.  `TimerWake` may find the time elapsed or not once a commit has happened.

`OnSync!FairSpec`: both goroutines and the one that discards blocks are scheduled, the
node extends its chain up to the bound, and Elasticsearch refreshes its indices, as it does
every second by itself; nothing about connections, which may stay broken as long as they
like, nor about the other instance, which may stop anywhere.  `InitIndex!FairSpec`: the
steps of an instance at work are taken (`StartStep`), so every request is answered, with an
error or not; nothing about crashes, and nothing starts a crashed instance again.

`CHECK_DEADLOCK FALSE` stands where the system may stop: in `bulk`, where the program
hangs after a failed request, and in the runs of the other modules, whose environment
(heights, changes, restarts, failures) is bounded, so that nothing is left to do in the
end, and where a panic or an exit ends the program.  That `Bulk` does not stop before it
should is `Terminates`.

## 4. What is proved

All theorems hold for every value of the constants that satisfies the named
assumptions of the modules (`WidthAssumption`, `DocsAssumption`, `SizeAssumption`,
`ChannelAssumption`, `ModeAssumption`, `BoundAssumption`, `TokensAssumption`,
`HeightAssumption`, `AccountAssumption`, `MinerAssumption`, `InitAssumption`,
`MinerTxAssumption`, `AccountsAssumption`, `WhitelistAssumption`): any width of the integers,
any number of heights, miners, channels, forks, announcements, instances, events, tokens,
contracts, accounts, restarts.  They say that bounds are natural numbers, and that values
that stand for different things differ (no account is called `"MINT"`, account tokens have
a channel of their own, `Nil` is no document).  The inductive invariants have been checked
by TLC on the instances of the runs before they were proved.

* `CheckIndexProofs`: `TypeCorrect`, `LoopInvariant`, and from it `CheckSkipsNothing`,
  `CheckReworksNothing`, `CheckKeepsToRange`, `CheckCountsOnce` and
  `CheckLeavesLowestGapOnly`.  `NothingSkipped` and the others are not inductive:
  they need to know where `prevBlockNo` stands (`Cursor`), that all that was sent
  lies above it (`SentAbove`) and that every hit read does too (`HitsAbove`).  For
  `CountsOnce` the number of heights of an interval is added to that of a disjoint set.
* `BulkProofs`: `TypeCorrect`, `PartsFirstInvariant`, `BlocksHaveParts` and
  `Implementation`.  The invariant `PartsFirst` follows a document from the miner to
  the database: what a miner no longer holds has arrived at its indexer
  (`MinedArrived`); a block arrives after its parts (`CollectedArrived`); the parts
  ordered to commit are, for the blocks the order is for, in the database or in a
  request that has not been answered (`OrderedFlushed`); and the requests not answered
  are exactly `ordered - acks` (`AnswersCounted`), so that with all answers received
  none is left.  A refused document counts as arrived (`Failed`, `Stored`).
  `Implementation` says that every step, failed requests, refused documents, crashes and
  restarts included, is a step of `IndexStore` or leaves the database alone.
  `ClosedIdle` and `PanicsOnlyLate` rest on `StopInvariant`: the stages of
  `StopBulkChannel` come in their order whoever runs it, and what a stage closes or tells
  is closed or told once (`StopsInOrder`, `StopsOnce`); what is in a channel has a
  goroutine that still takes it (`Drained`).  `ChecksAllIndexed` rests on `SentInvariant`:
  every document of a height handed over is at a miner, at its indexer, in a request or in
  the database, and an account token that is in the cache is one of these.
  `TokensRecoverable` is about crashes: an account token may be left to the block of
  another miner only if that block is not in the database yet (`AccOrdered`), or was handed
  over although it was (`redone`).
* `OnSyncProofs`: `OnSyncTypeCorrect`, `StreamCoversHeights`, `BlocksHaveTxs`,
  `RewindLeaves`.  For `SyncCovers` the invariant is `CoversInv`: on one fork the
  announcements held are increasing, above the last one taken and above the start
  (`Announced`), which a restart or a lost connection only empties; a stream that does not
  know its start has handed nothing over (`Unstarted`), so that `base` moves once only; and
  (`NoHole`) below every block of the database, the miner, the last and the next height,
  down to `base`, every height is kept, or is one of the `holes` noted when the other
  instance wrote a block above it.  The last is what makes waking up at the best
  block of the database right; as that is the best block a search shows, it is needed for
  what is `shown` as well, and `ShownInv` says that this has been in the database.  A height
  once kept stays so (`KeptStays`), and the sleeping, discarding and rewinding steps need
  nothing else.  The theorem assumes nothing of the other instance.  `TxsInv` and
  `LeavesInv` note what may be written while blocks are deleted, and what the search of the
  rewind could not find.
  The same module has `ModeAllTypeCorrect`, `ModeAllInvariant`, `ChecksRepair` and
  `HeightsStay`.  A height of the range of the check goes from `missing` to `asked` to
  `collected` to `blocks` (`Pending`, `RangeInv`).  That nothing is missing between the check
  and the stream needs `StartInv`: the two ask for the best block one after the other, and on
  one fork it only grows, so the range reaches the start of the stream.  `HolesInv` takes
  the place of `NoHole`: with the check at work from the top, a block in the database no
  longer means that what is below it is there, but that it is there or with the check, above
  the start of the stream, or above an announcement the stream may yet start from (`Above`).
  `Solo` says that there is no other instance, and so no hole of one.
  `ChecksRepair` has the hypothesis `~dbError` and `HeightsStay` the assumption
  `DbErrors = FALSE`: a request of the stream that fails is only logged, and its block is lost.
* `InitIndexProofs`: `StartTypeCorrect`, `AliasInvariant`, `PrefixIsOne`, `NoIndexDropped`,
  `ChainIsOne`.  By `AliasInv` one instance starts at a time and all aliases are of the prefix
  it has read or made; it creates an index only where there is no alias, so that it finds
  no old index to drop, even when it meets the remains of a start that was interrupted
  between an index and its alias.  `ChainInv` says that whoever has passed `ValidChainInfo`
  has seen the only chain info of its prefix, or written it into an empty index.
* `MinerProofs`: `TxInvariant`, `TxComesLast`, `HoldersAreWritten`, `WhitelistInvariant`,
  `MarksNotStale`, `ClaimsAreMarked`, `CodeIsVerified`.  `TxInv`: until the deferred `addTx`
  all that has been added is `Parts`: no document of the transaction, and each transfer
  followed by the balances of its accounts, unless the cache has them (`HeldBack`).  Each
  exit adds parts to parts; what an event adds is shown for its arguments in any shape, the
  zero address and null included.  For the whitelist, `MarksInv`: a mark is the contract
  remembered of its token, or to be written back, and once the token has been looked at the
  one it claims.  `SettledInv`: the first refresh without a change leaves only what is
  claimed, or waited for, remembered, so that the second one writes nothing back and
  (`ClaimsInv`) leaves no contract it has marked before.  `UrlInv`: what has a code url has
  a mark, so that the contracts whose code is not asked for again are marked already.
  Without `Held` the step of `ClaimsInv` for a token that waits cannot be proved, and is
  false.
* `TokensProofs`: `TokensTypeCorrect`, `HoldingsStayFresh`, `SupplyStaysFresh`,
  `TokensStayWhole`.  `HoldingInv` adds to `HoldingFresh` that an event the stream has
  taken is written or still to do, and that what it is told is not older than what it has
  written.  `SupplyInv` says the same of all miners at once: whoever asks is told what is
  not older than any height that is indexed, at a miner, or, for the check, still to be
  taken.  `WholeInv` follows the creation from the miner to the database.  Heights in `lost`
  are excepted throughout, and `lost` only grows.
* `NftProofs`: `NftTypeCorrect`, `OwnersNotOlder`, `StreamHasOwner`.  `OwnerInv`: a miner at
  work has a transfer the node has, and is told no earlier owner.  `SoloInv`: with the
  stream alone whatever a search finds is older than the block at work, so that the
  comparison in `addNFT` lets it write, and no update meets another; so the document is no
  older than any transfer passed whose requests went well.
* `BalancesProofs`: `BalancesTypeCorrect`, `StakersStay`, `BalancesNotOlder`.  The node
  knows every change up to its best block (`NodeInv`), so that a balance is, when it is
  looked up, not older than any block whose accounts are stored.  `Range` visits an account
  once in a refresh (`RangeInv`), and from then to the end of the refresh no later block
  is begun by the stream, while a miner of the check works on blocks below its start: what
  is dropped in the end is fresh for every block done or being done (`FreshInv`).

Only model-checked: liveness, which is `CheckEnds`, `Terminates`, `FirstFlush`,
`StreamReturns` and `InitEnds`.  Liveness under fairness, `ENABLED`, and facts that need
induction over data are out of the reach of the provers used.  Every invariant and every
action property of a run that passes has a theorem.

## 5. Not modelled, and the plan

Not modelled: flag parsing and options; loops that wait until the node or database is
there; the contents of documents and their Elasticsearch mappings; address encoding; the
cccv token; the Lua compiler client (only its failure).  Two thirds of the lines under
`src/` are protocol types written by protoc (`types/*.pb.go`) and keep no state of the
indexer; `documents.go` is a list of fields and mappings.  Left out of modelled parts: the
rewinds and failed requests of another instance (`OnSync`); a reorganisation of the node in
`Nft`, `Tokens` and `Balances`; a mint told as a transfer from the zero address, after which
the supply is not asked for (`event.go:152`); failed database requests and late searches of
`Balances`, and failed updates of `Whitelist` (`dto.go:143`).  A scroll over
tokens, contracts, balances or the whitelist that keeps failing spins without a pause
(`dto.go:273`); its loop has no state but the cursor.

Where code and documents differ without a run of its own: a failed bulk request hangs the
program (`bulk.go:170`; see `Terminates` above); a miner of the check overwrites a newer
NFT document (`dto.go:117`); `--fix` does not overwrite what exists, as bulk requests only
create (`main.go:54`, `elasticsearch.go:275`); the check leaves the gap above block 0
(`run_check.go:86`) and says nothing of it (`run_check.go:92`); there is no lock between
instances (`README.md:22`); a token whose next document is not there should "wait until
tokenDoc added" (`miner.go:325`), and takes the mark off the one before at every refresh
meanwhile, whoever has set it (`miner.go:304`; `Held` above).

Modelled without a property of its own: the time-out goroutine ends with the first
commit, so that a block collected later waits for the node (`bulk.go:180`); `NotMined`
drops the events of governance transactions, of transfers to a contract and of
redeployments (`miner.go:87`); a JSON number is not an amount (`event.go:265`); a failing
query for an owner makes an NFT an ARC1 token (`client.go:164`); tokens of the command
line are written before the prefix is known (`cache.go:26`); a rewind taken for an error
of the node is carried out nevertheless (`run_onsync.go:141`).

Next, in this order:

1. Rewinds and the kinds of documents that are never deleted (events, contracts, account
   tokens): `Tokens` and `Nft` with a chain that is reorganised.
2. An abstract specification of a register with a version for `Nft`, `Tokens` and
   `Balances` (the latest block wins), and the parts of it each of them implements.
3. Theorems about both, as far as they hold for every value of the constants.
