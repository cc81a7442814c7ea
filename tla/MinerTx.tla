------------------------------ MODULE MinerTx ------------------------------
(***************************************************************************)
(* The documents of one transaction (indexer/miner.go, client/client.go).  *)
(*                                                                         *)
(* A miner asks the node for the receipt, and adds the documents of the    *)
(* transaction, of its contract, of its events and of the tokens they      *)
(* move.  What the node answers to a query is a choice, a failure as well; *)
(* the standard a token keeps to is not.                                   *)
(*                                                                         *)
(* A miner of the check adds the balance of an account only if the cache   *)
(* does not know the account and the token, whatever type of token they    *)
(* were met under (dto.go:69, cache.go:119); other transactions are mined  *)
(* meanwhile, and mark them as well.                                       *)
(***************************************************************************)
EXTENDS TxParse

CONSTANTS
    MaxEvents,      \* bound on the events of a receipt
    MaxArgs,        \* bound on the arguments of an event
    ArgValues,      \* the values of the arguments
    TxTypes,        \* the types of the transactions
    TokenContracts, \* the token contracts
    Creator         \* the account that sends the transaction

ASSUME MinerTxAssumption ==
    /\ MaxEvents \in Nat /\ MaxArgs \in Nat
    /\ ArgValues \subseteq Values /\ TxTypes \subseteq Types
    /\ TokenContracts \subseteq Accounts /\ Creator \in Accounts

VARIABLES
    tx,             \* the transaction
    standard,       \* the standard of each token
    stage,          \* "start", "events", "done" or "panic"
    receipt,        \* the node has answered with the receipt
    count,          \* the number of its events
    mined,          \* how many of them have been mined
    sent,           \* the documents in the order they are added
    blockType,      \* "bulk" in the check, "sync" in the stream
    cached,         \* the account tokens it has met that are in the cache
    others          \* history: those another transaction has marked

txVars == <<tx, standard, stage, receipt, count, mined, sent, blockType, cached, others>>

Txs == {t \in Tx : t.type \in TxTypes /\ ValidTx(t)}
Standards == {"ARC1", "ARC2"}
Event == [name : EventNames, contract : TokenContracts,
          args : UNION {[1..n -> ArgValues] : n \in 0..MaxArgs}]

\* A document: its kind, the token or contract, the accounts, the token type.
Doc(kind, c, from, to, type) ==
    [kind |-> kind, contract |-> c, from |-> from, to |-> to, type |-> type]
Plain(kind, c) == Doc(kind, c, None, None, "none")
AccountTokens(c, account, type) == Doc("account_tokens", c, account, None, type)
TxDoc == Plain("tx", None)

InitTx ==
    /\ tx \in Txs
    /\ standard \in [TokenContracts -> Standards]
    /\ stage = "start" /\ receipt = FALSE /\ count = 0
    /\ mined = 0 /\ sent = <<>>
    /\ blockType \in {"bulk", "sync"}
    /\ cached = {} /\ others = {}

-----------------------------------------------------------------------------
(* MinerTx.                                                                 *)
Mined(category) == category \in {"call", "deploy", "payload", "multicall"}
IsName == tx.type = "GOVERNANCE" /\ tx.recipient = "aergo.name"

\* The document of the transaction is added when MinerTx returns or panics.
\* Mutant: it is added first.
ReturnFirst(docs) == <<TxDoc>> \o docs
Return(docs) == docs \o <<TxDoc>>

\* What runs on the node and may emit events.
MayEmit == tx.type = "GOVERNANCE" \/ tx.recipient = "contract" \/ tx.payload # "none"

GetReceipt ==
    /\ stage = "start"
    /\ receipt' \in BOOLEAN
    /\ count' \in IF receipt' /\ MayEmit THEN 0..MaxEvents ELSE {0}
    /\ UNCHANGED <<tx, standard, mined, blockType, cached, others>>

MineName ==
    /\ GetReceipt
    /\ IsName
    /\ stage' = "done" /\ sent' = Return(<<Plain("name", None)>>)

NotMined ==
    /\ GetReceipt
    /\ ~IsName /\ ~Mined(DetectTxCategory(tx))
    /\ stage' = "done" /\ sent' = Return(<<>>)

\* receipt.ContractAddress of a receipt that is nil.
Panic ==
    /\ GetReceipt
    /\ ~IsName /\ DetectTxCategory(tx) = "deploy" /\ ~receipt'
    /\ stage' = "panic" /\ sent' = Return(<<>>)

MineDeploy ==
    /\ GetReceipt
    /\ ~IsName /\ DetectTxCategory(tx) = "deploy" /\ receipt'
    /\ \E c \in Accounts : sent' = <<Plain("contract", c)>>
    /\ stage' = "events"

MineCall ==
    /\ GetReceipt
    /\ ~IsName /\ Mined(DetectTxCategory(tx)) /\ DetectTxCategory(tx) # "deploy"
    /\ stage' = "events" /\ sent' = <<>>

-----------------------------------------------------------------------------
(* QueryOwnerOf: a token whose ownerOf answers is ARC2, any other ARC1.     *)
(* The amount of an ARC2 transfer is the owner, which is always there.      *)
OwnerOfAnswers(c) == IF standard[c] = "ARC2" THEN {"ARC2", "ARC1"} ELSE {"ARC1"}
AmountKnown(type, amountOrId) == type = "ARC2" \/ amountOrId \in {"100", "1111"}

(* getAccTokens: an account token is added once, under the first type.      *)
Id(d) == <<d.contract, d.from>>
Mark(d, C) == IF blockType = "bulk" THEN C \cup {Id(d)} ELSE C
AddAccountTokens(d, C) == IF Id(d) \in C THEN <<>> ELSE <<d>>

\* Mutant: the sender of a transfer is forgotten.
HoldersTo(name, c, e, type) == <<AccountTokens(c, e.to, type)>>
Holders(name, c, e, type) ==
    CASE name = "mint" -> <<AccountTokens(c, e.to, type)>>
      [] name = "transfer" -> <<AccountTokens(c, e.to, type), AccountTokens(c, e.from, type)>>
      [] name = "burn" -> <<AccountTokens(c, e.from, type)>>

\* What is added of one or two of them, and the cache afterwards.
Added(h, C) ==
    IF Len(h) = 1 THEN AddAccountTokens(h[1], C)
    ELSE AddAccountTokens(h[1], C) \o AddAccountTokens(h[2], Mark(h[1], C))
Marked(h, C) == IF Len(h) = 1 THEN Mark(h[1], C) ELSE Mark(h[2], Mark(h[1], C))

TransferDocs(name, c, e, type, C) ==
    <<Doc("token_transfer", c, e.from, e.to, type)>>
    \o (IF name = "transfer" THEN <<>> ELSE <<Plain("supply", c)>>)
    \o Added(Holders(name, c, e, type), C)
    \o (IF type = "ARC2" THEN <<Plain("nft", c)>> ELSE <<>>)

NewToken(c, type, account) ==
    <<Plain("token", c)>> \o account \o <<Plain("contract", c)>>

(* MinerEvent, MinerEventByName: the document of the event, then those of   *)
(* the token.                                                               *)
MoreEvents == stage = "events" /\ mined < count

MinerEvent ==
    /\ mined' = mined + 1
    /\ UNCHANGED <<tx, standard, stage, receipt, count, blockType>>

AddEvent(docs) == sent' = sent \o <<Plain("event", None)>> \o docs
NoHolders == UNCHANGED <<cached, others>>

\* The other miners have marked the account tokens m of h.
Meet(h, m) ==
    /\ m \subseteq {Id(h[i]) : i \in DOMAIN h} \ cached
    /\ blockType = "sync" => m = {}
    /\ others' = others \cup m
    /\ cached' = Marked(h, cached \cup m)

\* An account that is no token has no token info.
IgnoreEvent(e) ==
    /\ MinerEvent
    /\ \/ e.name = "other"
       \/ /\ e.name \in {"new_arc1_token", "new_arc2_token"}
          /\ UnmarshalEventNewArcToken(e.args) \notin TokenContracts
       \/ /\ e.name \in {"mint", "transfer", "burn"}
          /\ UnmarshalEvent(e.name, e.args) = Failed
    /\ AddEvent(<<>>) /\ NoHolders

NewArcToken(e) ==
    LET c == UnmarshalEventNewArcToken(e.args)
        type == IF e.name = "new_arc1_token" THEN "ARC1" ELSE "ARC2"
        h == <<AccountTokens(c, Creator, type)>> IN
    /\ MinerEvent
    /\ e.name \in {"new_arc1_token", "new_arc2_token"} /\ c \in TokenContracts
    /\ type = standard[c]
    /\ \* QueryTokenInfo has an answer, or not
       \/ \E m \in SUBSET {Id(h[1])} :
             Meet(h, m) /\ AddEvent(NewToken(c, type, Added(h, cached \cup m)))
       \/ AddEvent(<<>>) /\ NoHolders

TokenTransfer(e) ==
    LET parsed == UnmarshalEvent(e.name, e.args)
        c == e.contract IN
    /\ MinerEvent
    /\ e.name \in {"mint", "transfer", "burn"} /\ parsed # Failed
    /\ \E type \in OwnerOfAnswers(c) :
          LET h == Holders(e.name, c, parsed, type) IN
          IF e.name = "mint" \/ AmountKnown(type, parsed.amountOrId)
          THEN \E m \in SUBSET {Id(h[i]) : i \in DOMAIN h} :
                  Meet(h, m) /\ AddEvent(TransferDocs(e.name, c, parsed, type, cached \cup m))
          ELSE AddEvent(<<>>) /\ NoHolders

(* Policy 2: the code of the contract looks like a token.                   *)
NoToken ==
    /\ stage = "events" /\ mined = count
    /\ stage' = "done" /\ sent' = Return(sent)
    /\ UNCHANGED <<tx, standard, receipt, count, mined, blockType, cached, others>>

PolicyTwo ==
    /\ stage = "events" /\ mined = count /\ MaybeTokenCreation(tx) # "none"
    /\ \E i \in DOMAIN sent :
          /\ i = 1 /\ sent[i].kind = "contract"
          /\ sent' = Return(sent \o NewToken(sent[i].contract, MaybeTokenCreation(tx), <<>>))
    /\ stage' = "done"
    /\ UNCHANGED <<tx, standard, receipt, count, mined, blockType, cached, others>>

NextTx ==
    \/ MineName \/ NotMined \/ Panic \/ MineDeploy \/ MineCall
    \/ MoreEvents /\ \E e \in Event : IgnoreEvent(e) \/ NewArcToken(e) \/ TokenTransfer(e)
    \/ NoToken \/ PolicyTwo

SpecTx == InitTx /\ [][NextTx]_txVars

-----------------------------------------------------------------------------
SentKind(k) == {i \in DOMAIN sent : sent[i].kind = k}

(* TxLast: on every path through MinerTx, early returns and the panic       *)
(* included, the document of the transaction is added once, after all of    *)
(* its parts ("add tx doc ( defer )", miner.go:67).                         *)
TxLast ==
    /\ stage \in {"start", "events"} => SentKind("tx") = {}
    /\ stage \in {"done", "panic"} => SentKind("tx") = {Len(sent)}

(* HoldersWritten: an account named by a transfer document has its balance  *)
(* written after it, under the token type of the transfer (miner.go:203,    *)
(* 230, 235, 267).  In the check the cache may hold it back, but only if    *)
(* the balance of that account is added by this transaction or by another:  *)
(* then under the type which that one was told (cache.go:119, conv.go:222). *)
WrittenAs(i, a) ==
    \E j \in SentKind("account_tokens") :
        j > i /\ sent[j] = AccountTokens(sent[i].contract, a, sent[i].type)
HeldBack(i, a) ==
    /\ blockType = "bulk"
    /\ \/ <<sent[i].contract, a>> \in others
       \/ \E j \in SentKind("account_tokens") : Id(sent[j]) = <<sent[i].contract, a>>
HoldersWritten ==
    \A i \in SentKind("token_transfer") :
        \A a \in {sent[i].from, sent[i].to} \cap Accounts : WrittenAs(i, a) \/ HeldBack(i, a)

-----------------------------------------------------------------------------
(* The documents and the state have their types.                            *)
Parties == Strings \cup {"MINT", "BURN", None}
DocKinds == {"tx", "name", "contract", "event", "token", "token_transfer", "supply",
             "account_tokens", "nft"}
Docs == [kind : DocKinds, contract : Accounts \cup {None}, from : Parties, to : Parties,
         type : Standards \cup {"none"}]

TxTypeOK ==
    /\ standard \in [TokenContracts -> Standards]
    /\ stage \in {"start", "events", "done", "panic"}
    /\ sent \in Seq(Docs)
    /\ blockType \in {"bulk", "sync"}
    /\ blockType = "sync" => cached = {}
=============================================================================
