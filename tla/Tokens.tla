------------------------------- MODULE Tokens -------------------------------
(***************************************************************************)
(* The holdings and the supply of one token (indexer/miner.go, dto.go,     *)
(* cache.go, db/elasticsearch.go).                                         *)
(*                                                                         *)
(* For each event of the token a miner asks the node for the supply or for *)
(* the holdings of an account, and then writes what it has been told.  The *)
(* miner of the stream overwrites the document of an account; those of the *)
(* check send it, once per account, to a bulk request that only creates    *)
(* documents.  Both write the document of the token itself.                *)
(*                                                                         *)
(* A supply or the holdings of an account are told apart by the block that *)
(* changed them last; 0 is what a query that fails is taken for, which is  *)
(* "0" in the code as well.  A query for the name or the owner that fails  *)
(* gives up the event, and a write that fails is only logged: the heights  *)
(* it happened to are in lost.  The chain of the node is not reorganised   *)
(* here.  A supply changes by the events that say so; a mint that is told  *)
(* as a transfer from the zero address makes no miner ask for the supply,  *)
(* and is a transfer here.                                                 *)
(***************************************************************************)
EXTENDS Integers, Sequences, FiniteSets, FiniteSetsExt, SequencesExt

CONSTANTS
    Accounts,
    BulkMiners,     \* the miners of the check
    Sync,           \* the miner of the stream
    StartHeight,    \* the height of the node at the first start
    MaxHeight,      \* bound on the height of the node
    MaxFaults,      \* bound on the restarts and the heights with a loss, together
    None            \* no document

ASSUME TokensAssumption ==
    /\ StartHeight \in Nat \ {0} /\ MaxHeight \in Nat /\ StartHeight <= MaxHeight
    /\ MaxFaults \in Nat
    /\ Sync \notin BulkMiners /\ {"token", "supply"} \cap Accounts = {}
    /\ None \notin Nat /\ None \notin [whole : BOOLEAN, supply : Nat]

VARIABLES
    \* the node
    event,          \* event[h]: what block h does to the token
    best,
    \* the program
    mode,           \* the run mode
    check,          \* whether the check still is before its scroll over the block index
    toCheck,        \* heights the check still has to hand over
    nextSync,       \* the next height of the stream
    pc, height, todo, answer,       \* the miners
    accToken,       \* the cache
    held,           \* account documents and blocks in the bulk requests
    mined,
    \* the database
    token, account, \* the documents of the token and of the accounts
    indexed,        \* heights with a block document
    \* history
    bySync,         \* heights whose events the stream has written
    beside,         \* heights the stream took beside the check, or the other way
    lost,           \* heights whose event was given up, or with a write that failed
    restarts

nodeVars == <<event, best>>
runVars == <<mode, check, toCheck, nextSync, accToken, held, mined>>
minerVars == <<pc, height, todo, answer>>
dbVars == <<token, account, indexed>>
history == <<bySync, beside, lost, restarts>>
vars == <<nodeVars, runVars, minerVars, dbVars, history>>

Miners == BulkMiners \cup {Sync}
Heights == 1..MaxHeight
Modes == {"all", "check", "onsync"}

-----------------------------------------------------------------------------
(* The node.  An event is what it makes the miner ask and write: the        *)
(* creation of the token, a mint or a burn, a transfer (of which one side   *)
(* may be an account that is not looked at), or none.                       *)
Creation == {<<"token", a>> : a \in Accounts}
Supplying == {<<"supply", a>> : a \in Accounts}
Transfers == {<<a>> : a \in Accounts} \cup {s \in Accounts \X Accounts : s[1] # s[2]}
Nothing == <<>>

Touches(h, x) == x \in ToSet(event[h])
Changes(h, item) ==
    IF item \in Accounts THEN Touches(h, item)
    ELSE event[h] \in Creation \cup Supplying

(* What the node answers at its best block.                                 *)
Answer(item) == Max({0} \cup {h \in 1..best : Changes(h, item)})

Chains ==
    {c \in [Heights -> {Nothing} \cup Creation \cup Supplying \cup Transfers] :
        \E b \in Heights : /\ c[b] \in Creation
                           /\ \A h \in 1..b-1 : c[h] = Nothing
                           /\ \A h \in b+1..MaxHeight : c[h] \notin Creation}

NodeExtend ==
    /\ best < MaxHeight
    /\ best' = best + 1
    /\ UNCHANGED <<event, runVars, minerVars, dbVars, history>>

-----------------------------------------------------------------------------
(* Indexer.Start: the stream begins above the height before the best one.   *)
Init ==
    /\ event \in Chains /\ best = StartHeight
    /\ mode \in Modes
    /\ check = "before" /\ toCheck = {} /\ nextSync = best
    /\ accToken = {} /\ held = {} /\ mined = {}
    /\ pc = [m \in Miners |-> "idle"] /\ height = [m \in Miners |-> 0]
    /\ todo = [m \in Miners |-> <<>>] /\ answer = [m \in Miners |-> 0]
    /\ token = None /\ account = [a \in Accounts |-> None] /\ indexed = {}
    /\ bySync = {} /\ beside = {} /\ lost = {} /\ restarts = 0

Restart ==
    /\ restarts + Cardinality(lost) < MaxFaults
    /\ restarts' = restarts + 1
    /\ mode' \in Modes
    /\ check' = "before" /\ toCheck' = {} /\ nextSync' = best
    /\ accToken' = {} /\ held' = {} /\ mined' = {}
    /\ pc' = [m \in Miners |-> "idle"] /\ height' = [m \in Miners |-> 0]
    /\ todo' = [m \in Miners |-> <<>>] /\ answer' = [m \in Miners |-> 0]
    /\ UNCHANGED <<nodeVars, dbVars, bySync, beside, lost>>

(* checkIndex takes the heights without a block document, fixIndex all.     *)
Check ==
    /\ mode # "onsync" /\ check = "before"
    /\ check' = "after"
    /\ toCheck' \in {(1..best-1) \ indexed, 1..best-1}
    /\ UNCHANGED <<nodeVars, mode, nextSync, accToken, held, mined, minerVars, dbVars,
                   history>>

CheckAtWork ==
    \/ mode # "onsync" /\ check = "before"
    \/ toCheck # {} \/ \E m \in BulkMiners : pc[m] # "idle"

-----------------------------------------------------------------------------
Goto(m, l) == pc' = [pc EXCEPT ![m] = l]

Take(m, h) ==
    /\ pc[m] = "idle"
    /\ Goto(m, "event")
    /\ height' = [height EXCEPT ![m] = h]
    /\ todo' = [todo EXCEPT ![m] = event[h]]
    /\ UNCHANGED answer

TakeBulk(m) ==
    /\ m \in BulkMiners
    /\ toCheck # {}
    /\ Take(m, Max(toCheck))
    /\ toCheck' = toCheck \ {Max(toCheck)}
    /\ beside' = IF pc[Sync] # "idle" THEN beside \cup {Max(toCheck)} ELSE beside
    /\ UNCHANGED <<nodeVars, mode, check, nextSync, accToken, held, mined, dbVars,
                   bySync, lost, restarts>>

TakeSync(m) ==
    /\ m = Sync
    /\ mode # "check" /\ nextSync <= best
    /\ Take(m, nextSync)
    /\ nextSync' = nextSync + 1
    /\ beside' = IF CheckAtWork THEN beside \cup {nextSync} ELSE beside
    /\ UNCHANGED <<nodeVars, mode, check, toCheck, accToken, held, mined, dbVars,
                   bySync, lost, restarts>>

Item(m) == Head(todo[m])

(* QueryTotalSupply, QueryBalanceOf.                                        *)
\* Mutant: the supply as of the block.
AskOfBlock(m) ==
    /\ pc[m] = "event" /\ todo[m] # <<>>
    /\ \E ok \in BOOLEAN :
         answer' = [answer EXCEPT ![m] =
            IF ok THEN Max({0} \cup {h \in 1..height[m] : Changes(h, Item(m))}) ELSE 0]
    /\ Goto(m, "write")
    /\ UNCHANGED <<nodeVars, runVars, height, todo, dbVars, history>>

Ask(m) ==
    /\ pc[m] = "event" /\ todo[m] # <<>>
    /\ \E ok \in BOOLEAN :
         answer' = [answer EXCEPT ![m] = IF ok THEN Answer(Item(m)) ELSE 0]
    /\ Goto(m, "write")
    /\ UNCHANGED <<nodeVars, runVars, height, todo, dbVars, history>>

Lose(m) ==
    /\ restarts + Cardinality(lost \cup {height[m]}) <= MaxFaults
    /\ lost' = lost \cup {height[m]}

GiveUp(m) ==
    /\ pc[m] = "event" /\ todo[m] # <<>>
    /\ todo' = [todo EXCEPT ![m] = <<>>]
    /\ Lose(m)
    /\ UNCHANGED <<nodeVars, runVars, pc, height, answer, dbVars, bySync, beside, restarts>>

(* QueryTokenInfo fails, which ends the event of a creation.                *)
NoTokenInfo(m) == GiveUp(m) /\ Item(m) = "token"

(* QueryOwnerOf fails, which ends a transfer or a burn of an id that is no  *)
(* number before anything is written; a mint, which goes on, is not told    *)
(* from a burn here.                                                        *)
NoOwner(m) == GiveUp(m) /\ Item(m) # "token" /\ todo[m] = event[height[m]]

Written(m) ==
    /\ Goto(m, "event")
    /\ todo' = [todo EXCEPT ![m] = Tail(@)]
    /\ answer' = [answer EXCEPT ![m] = 0]

(* addToken replaces the document.                                          *)
AddToken(m) ==
    /\ pc[m] = "write" /\ Item(m) = "token"
    /\ token' = [whole |-> TRUE, supply |-> answer[m]]
    /\ Written(m)
    /\ UNCHANGED <<nodeVars, runVars, height, account, indexed, history>>

(* updateToken changes the supply only, and creates the document with       *)
(* nothing else when there is none.  An update that meets another write is  *)
(* dropped, which leaves what the other order of the two would leave.       *)
\* Mutant: the document is replaced.
UpdateTokenWhole(m) ==
    /\ pc[m] = "write" /\ Item(m) = "supply"
    /\ token' = [whole |-> FALSE, supply |-> answer[m]]
    /\ Written(m)
    /\ UNCHANGED <<nodeVars, runVars, height, account, indexed, history>>

UpdateToken(m) ==
    /\ pc[m] = "write" /\ Item(m) = "supply"
    /\ token' = [whole |-> token # None /\ token.whole, supply |-> answer[m]]
    /\ Written(m)
    /\ UNCHANGED <<nodeVars, runVars, height, account, indexed, history>>

(* addAccountTokens: the stream overwrites.                                 *)
InsertAccount(m) ==
    /\ m = Sync
    /\ pc[m] = "write" /\ Item(m) \in Accounts
    /\ account' = [account EXCEPT ![Item(m)] = answer[m]]
    /\ Written(m)
    /\ UNCHANGED <<nodeVars, runVars, height, token, indexed, history>>

(* A write of the document that fails is logged, and the miner goes on.     *)
WriteFails(m) ==
    /\ pc[m] = "write"
    /\ m # Sync => Item(m) \notin Accounts
    /\ Written(m)
    /\ Lose(m)
    /\ UNCHANGED <<nodeVars, runVars, height, dbVars, bySync, beside, restarts>>

(* ... the check sends what is not in the cache.                            *)
LoadAccToken(m) ==
    /\ m # Sync
    /\ pc[m] = "write" /\ Item(m) \in Accounts
    /\ IF Item(m) \in accToken
       THEN Written(m)
       ELSE Goto(m, "store") /\ UNCHANGED <<todo, answer>>
    /\ UNCHANGED <<nodeVars, runVars, height, dbVars, history>>

SendAccount(m) ==
    /\ pc[m] = "store"
    /\ accToken' = accToken \cup {Item(m)}
    /\ held' = held \cup {<<Item(m), answer[m]>>}
    /\ Written(m)
    /\ UNCHANGED <<nodeVars, mode, check, toCheck, nextSync, mined, height, dbVars,
                   history>>

AddBlock(m) ==
    /\ pc[m] = "event" /\ todo[m] = <<>>
    /\ Goto(m, "idle")
    /\ height' = [height EXCEPT ![m] = 0]
    /\ IF m = Sync
       THEN /\ indexed' = indexed \cup {height[m]}
            /\ bySync' = bySync \cup {height[m]}
            /\ UNCHANGED mined
       ELSE mined' = mined \cup {height[m]} /\ UNCHANGED <<indexed, bySync>>
    /\ UNCHANGED <<nodeVars, mode, check, toCheck, nextSync, accToken, held, todo,
                   answer, token, account, beside, lost, restarts>>

(* The bulk requests: the accounts are written before the blocks, and a     *)
(* document that exists stays as it is; one that the database rejects stays *)
(* out of it.                                                               *)
\* Mutant: the bulk requests overwrite.
CreatedOver(a) ==
    LET values == {d[2] : d \in {e \in held : e[1] = a}}
    IN  IF values = {} THEN {account[a]} ELSE values
Created(a) ==
    LET values == {d[2] : d \in {e \in held : e[1] = a}}
    IN  IF account[a] # None \/ values = {} THEN {account[a]} ELSE values \cup {None}

CommitAccounts ==
    /\ held # {}
    /\ account' \in {f \in [Accounts -> Heights \cup {0, None}] :
                        \A a \in Accounts : f[a] \in Created(a)}
    /\ held' = {}
    /\ UNCHANGED <<nodeVars, mode, check, toCheck, nextSync, accToken, mined, minerVars,
                   token, indexed, history>>

CommitBlocks ==
    /\ mined # {} /\ held = {}
    /\ indexed' = indexed \cup mined
    /\ mined' = {}
    /\ UNCHANGED <<nodeVars, mode, check, toCheck, nextSync, accToken, held, minerVars,
                   token, account, history>>

MinerStep(m) ==
    \/ TakeBulk(m) \/ TakeSync(m)
    \/ Ask(m) \/ NoTokenInfo(m) \/ NoOwner(m)
    \/ AddToken(m) \/ UpdateToken(m) \/ WriteFails(m)
    \/ InsertAccount(m) \/ LoadAccToken(m) \/ SendAccount(m)
    \/ AddBlock(m)

Next ==
    \/ NodeExtend \/ Restart \/ Check
    \/ \E m \in Miners : MinerStep(m)
    \/ CommitAccounts \/ CommitBlocks

Spec == Init /\ [][Next]_vars

\* The miners of the check are interchangeable; for TLC.
MinerSymmetry == Permutations(BulkMiners)

-----------------------------------------------------------------------------
Items == Accounts \cup {"token", "supply"}

TypeRun ==
    /\ mode \in Modes /\ check \in {"before", "after"}
    /\ toCheck \subseteq 1..best /\ nextSync \in 1..best+1
    /\ accToken \subseteq Accounts /\ held \subseteq Accounts \X (0..MaxHeight)
    /\ mined \subseteq 1..best

TypeMiner ==
    /\ pc \in [Miners -> {"idle", "event", "write", "store"}]
    /\ height \in [Miners -> 0..MaxHeight]
    /\ todo \in [Miners -> Seq(Items)] /\ answer \in [Miners -> 0..MaxHeight]
    /\ \A m \in Miners : /\ pc[m] # "idle" => height[m] \in 1..best
                         /\ pc[m] \in {"write", "store"} => todo[m] # <<>>
                         /\ pc[m] = "store" => m # Sync /\ Item(m) \in Accounts

TypeDb ==
    /\ token \in {None} \cup [whole : BOOLEAN, supply : 0..MaxHeight]
    /\ account \in [Accounts -> (0..MaxHeight) \cup {None}]
    /\ indexed \subseteq 1..best /\ bySync \subseteq 1..best

(* The types; only a miner of the check sends to the bulk requests.         *)
TypeOK == event \in Chains /\ best \in Heights /\ TypeRun /\ TypeMiner /\ TypeDb

\* The document of the account, or of the token, is not older than block h.
Fresh(h, a) == account[a] = 0 \/ account[a] \in h..MaxHeight
Settled(h) == token # None /\ (token.supply = 0 \/ token.supply >= h)
Whole == token # None /\ token.whole

(* HoldingFresh: once the stream has taken an event of an account, the      *)
(* document of the account is not older than that event, unless the event   *)
(* was given up, a write of it failed or a balance could not be asked for:  *)
(* what the check was told before is in a bulk request that does not        *)
(* overwrite, however late it is committed (addAccountTokens, and           *)
(* OpType("create") of EsBulkInstance.Add).                                 *)
HoldingFresh ==
    \A h \in bySync \ lost : \A a \in Accounts : Touches(h, a) => Fresh(h, a)

(* SupplyFresh: the supply in the document of the token is not older than   *)
(* any mint, burn or creation that is indexed, but for a failed query, for  *)
(* events that were given up or whose write failed, and for those the       *)
(* stream took while the check was at work, or the other way: who asked     *)
(* before may write later (updateToken).                                    *)
SupplyFresh ==
    \A h \in indexed \ (lost \cup beside) : Changes(h, "supply") => Settled(h)

(* TokenWhole: once the creation of a token is indexed, its document has    *)
(* name, type and block number, whatever order the updates of the supply    *)
(* came in (addToken, updateToken); unless the node did not tell the name   *)
(* or the document could not be written.                                    *)
TokenWhole == \A h \in indexed \ lost : event[h] \in Creation => Whole

-----------------------------------------------------------------------------
(* The inductive invariants behind them.                                    *)

Busy(m) == pc[m] # "idle"
Due(m, item) == item \in ToSet(todo[m])
Supplies(m) == pc[m] = "write" /\ Item(m) \in {"token", "supply"}

\* What the stream has taken is written, or still to do, and what it is told
\* is not older than what it has written.
HoldingInv ==
    /\ HoldingFresh
    /\ Busy(Sync) =>
         \A a \in Accounts : Touches(height[Sync], a) =>
            Due(Sync, a) \/ height[Sync] \in lost \/ Fresh(height[Sync], a)
    /\ pc[Sync] = "write" /\ Item(Sync) \in Accounts =>
         \A h \in bySync \cup {height[Sync]} :
            Touches(h, Item(Sync)) => answer[Sync] = 0 \/ answer[Sync] >= h

\* Who asks for the supply is told what is not older than any height that is
\* indexed or that a miner is at, or will take while the answer is on its way.
Told ==
    (indexed \cup mined \cup {height[n] : n \in {k \in Miners : Busy(k)}})
        \ (lost \cup beside)
Ahead(m) == IF m = Sync THEN {} ELSE toCheck

SupplyInv ==
    /\ \A h \in (indexed \cup mined) \ (lost \cup beside) :
         Changes(h, "supply") => Settled(h)
    /\ \A m \in Miners :
         Busy(m) /\ Changes(height[m], "supply") /\ height[m] \notin lost \cup beside =>
            Due(m, "token") \/ Due(m, "supply") \/ Settled(height[m])
    /\ \A m \in Miners : Supplies(m) =>
         \A h \in Told \cup Ahead(m) :
            Changes(h, "supply") => answer[m] = 0 \/ answer[m] >= h
    /\ check = "before" => toCheck = {} /\ \A m \in BulkMiners : ~Busy(m)

WholeInv ==
    /\ \A h \in (indexed \cup mined) \ lost : event[h] \in Creation => Whole
    /\ \A m \in Miners :
         Busy(m) /\ event[height[m]] \in Creation =>
            Due(m, "token") \/ height[m] \in lost \/ Whole
=============================================================================
