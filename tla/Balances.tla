------------------------------ MODULE Balances ------------------------------
(***************************************************************************)
(* Account balances (indexer/cache.go, miner.go, dto.go).                  *)
(*                                                                         *)
(* Every miner puts the accounts of a transaction into a cache.  The miner *)
(* of the stream goes through the cache every so many blocks, asks the     *)
(* node for the balances, writes them, and drops the accounts that have no *)
(* stake.  The cache is lost when the program ends; it starts again with   *)
(* the accounts that have a document.                                      *)
(*                                                                         *)
(* A balance is told by the block that changed it last, and by its kind:   *)
(* zero, some, or staked.                                                  *)
(***************************************************************************)
EXTENDS Integers, FiniteSets

CONSTANTS
    Accounts,
    Aliases,        \* accounts whose balance is not looked up
    Given,          \* accounts of the command line (--balance_whitelist)
    Every,          \* the cache is gone through every so many blocks; 300
    StartHeight,    \* the height of the node at the first start
    MaxHeight,      \* bound on the height of the chain
    MaxCrashes,     \* bound on the restarts
    None            \* no document

ASSUME AccountAssumption ==
    /\ Aliases \subseteq Accounts /\ Given \subseteq Accounts
    /\ Every \in Nat \ {0}
    /\ StartHeight \in Nat \ {0} /\ MaxHeight \in Nat /\ StartHeight <= MaxHeight
    /\ MaxCrashes \in Nat
    /\ None \notin [block : Nat, kind : {"zero", "some", "staked"}]

VARIABLES
    \* the node
    best,           \* its height
    touched,        \* touched[h]: the accounts of the transactions of block h
    state,          \* state[a]: the block that changed a last, and its kind
    \* the indexer
    addrsBalance,   \* the cache
    nextSync,       \* the block the stream takes next
    todo,           \* the blocks left to the check
    bulk, stores,   \* the block a miner of the check works on, accounts to store
    pc,             \* the miner of the stream
    left, visited,  \* the accounts Range has still to visit, and has visited
    address, answer, document,
    mapBalance,     \* the accounts to drop
    \* the database
    docs,           \* docs[a]: the balance document, None if there is none
    \* history
    done,           \* blocks indexed
    checked,        \* checked[a]: the block of the last balance looked up
    misread,        \* accounts for which a query of the node has failed
    lost,           \* accounts that were in the cache only, when the program ended
    crashes

nodeVars == <<best, touched, state>>
bulkVars == <<todo, bulk, stores>>
rangeVars == <<left, visited, address, answer, document, mapBalance>>
dbVars == <<docs, checked>>
excused == <<misread, lost>>
vars == <<nodeVars, addrsBalance, nextSync, bulkVars, pc, rangeVars, dbVars, done, excused,
          crashes>>

Heights == 1..MaxHeight
Kinds == {"zero", "some", "staked"}
Unused == [block |-> 0, kind |-> "zero"]

Init ==
    /\ best = StartHeight
    /\ touched \in [Heights -> SUBSET Accounts]
    /\ \A h \in StartHeight+1..MaxHeight : touched[h] = {}
    /\ state = [a \in Accounts |->
                  LET blocks == {h \in Heights : a \in touched[h]} IN
                  IF blocks = {} THEN Unused
                  ELSE [block |-> CHOOSE h \in blocks : \A g \in blocks : g <= h,
                        kind |-> "some"]]
    /\ addrsBalance = Given
    /\ nextSync = StartHeight
    /\ todo = 1..StartHeight-1
    /\ bulk = 0 /\ stores = {}
    /\ pc = "idle" /\ left = {} /\ visited = {} /\ address = None
    /\ answer = Unused /\ document = None /\ mapBalance = {}
    /\ docs = [a \in Accounts |-> None]
    /\ done = {} /\ checked = [a \in Accounts |-> 0] /\ misread = {} /\ lost = {}
    /\ crashes = 0

-----------------------------------------------------------------------------
NodeExtend ==
    /\ best < MaxHeight
    /\ best' = best + 1
    /\ \E T \in SUBSET Accounts, kind \in [Accounts -> Kinds] :
          /\ touched' = [touched EXCEPT ![best + 1] = T]
          /\ state' = [a \in Accounts |->
                         IF a \in T THEN [block |-> best + 1, kind |-> kind[a]] ELSE state[a]]
    /\ UNCHANGED <<addrsBalance, nextSync, bulkVars, pc, rangeVars, dbVars, done,
                   excused, crashes>>

-----------------------------------------------------------------------------
(* A miner of the check: MinerTx stores the accounts one after the other,   *)
(* and the block is added at the end.                                       *)
BulkTake ==
    /\ bulk = 0
    /\ \E h \in todo :
          /\ todo' = todo \ {h}
          /\ bulk' = h /\ stores' = touched[h]
    /\ UNCHANGED <<nodeVars, addrsBalance, nextSync, pc, rangeVars, dbVars, done,
                   excused, crashes>>

BulkStore ==
    /\ bulk # 0
    /\ \E a \in stores :
          /\ stores' = stores \ {a}
          /\ addrsBalance' = addrsBalance \cup {a}
    /\ UNCHANGED <<nodeVars, nextSync, todo, bulk, pc, rangeVars, dbVars, done, excused,
                   crashes>>

BulkAdd ==
    /\ bulk # 0 /\ stores = {}
    /\ done' = done \cup {bulk}
    /\ bulk' = 0
    /\ UNCHANGED <<nodeVars, addrsBalance, nextSync, todo, stores, pc, rangeVars, dbVars,
                   excused, crashes>>

-----------------------------------------------------------------------------
(* The miner of the stream: a block, and refreshVariables after every so    *)
(* many.  Range visits what is in the cache when it starts; what is stored  *)
(* meanwhile it may visit or not.                                           *)
SyncBlock ==
    /\ pc = "idle" /\ nextSync <= best
    /\ nextSync' = nextSync + 1
    /\ addrsBalance' = addrsBalance \cup touched[nextSync]
    /\ done' = done \cup {nextSync}
    /\ IF nextSync % Every = 0
       THEN pc' = "range" /\ left' = addrsBalance'
       ELSE UNCHANGED <<pc, left>>
    /\ UNCHANGED <<nodeVars, bulkVars, visited, address, answer, document, mapBalance,
                   dbVars, excused, crashes>>

Visit(a) ==
    /\ pc = "range" /\ a \in left
    /\ left' = left \ {a} /\ visited' = visited \cup {a}
    /\ address' = a
    /\ IF a \in Aliases
       THEN mapBalance' = mapBalance \cup {a} /\ UNCHANGED pc
       ELSE pc' = "query" /\ UNCHANGED mapBalance
    /\ UNCHANGED <<nodeVars, addrsBalance, nextSync, bulkVars, answer, document, dbVars,
                   done, excused, crashes>>

VisitNew(a) ==
    /\ pc = "range"
    /\ a \in addrsBalance \ (left \cup visited)
    /\ left' = left \cup {a}
    /\ UNCHANGED <<nodeVars, addrsBalance, nextSync, bulkVars, pc, visited, address,
                   answer, document, mapBalance, dbVars, done, excused, crashes>>

(* BalanceOf: what cannot be asked is taken for zero.                       *)
BalanceOf ==
    /\ pc = "query"
    /\ \/ answer' = state[address] /\ UNCHANGED misread
       \/ answer' = Unused /\ misread' = misread \cup {address}
    /\ pc' = "get"
    /\ UNCHANGED <<nodeVars, addrsBalance, nextSync, bulkVars, left, visited, address,
                   document, mapBalance, dbVars, done, lost, crashes>>

(* addAccountBalance.                                                       *)
GetAccountBalance ==
    /\ pc = "get"
    /\ document' = docs[address]
    /\ pc' = "write"
    /\ UNCHANGED <<nodeVars, addrsBalance, nextSync, bulkVars, left, visited, address,
                   answer, mapBalance, dbVars, done, excused, crashes>>

Written == document # None \/ answer.kind # "zero"

Tracked == answer.kind = "staked"

AddAccountBalance ==
    /\ pc = "write"
    /\ docs' = IF Written THEN [docs EXCEPT ![address] = answer] ELSE docs
    /\ checked' = [checked EXCEPT ![address] = answer.block]
    /\ mapBalance' = IF Tracked THEN mapBalance ELSE mapBalance \cup {address}
    /\ pc' = "range"
    /\ UNCHANGED <<nodeVars, addrsBalance, nextSync, bulkVars, left, visited, address,
                   answer, document, done, excused, crashes>>

\* Mutant: the cache is emptied.
DroppedAll == addrsBalance
Dropped == mapBalance

EndRefresh ==
    /\ pc = "range" /\ left = {}
    /\ addrsBalance' = addrsBalance \ Dropped
    /\ mapBalance' = {} /\ visited' = {}
    /\ pc' = "idle"
    /\ UNCHANGED <<nodeVars, nextSync, bulkVars, left, address, answer, document, dbVars,
                   done, excused, crashes>>

-----------------------------------------------------------------------------
(* registerVariables.                                                       *)
\* Mutant: the documents are not read.
RegisteredNone == Given
Registered == Given \cup {a \in Accounts : docs[a] # None}

(* The check takes the blocks that are missing, up to lastHeight.           *)
Missing == 1..best-1 \ done

Restart ==
    /\ crashes < MaxCrashes /\ crashes' = crashes + 1
    /\ lost' = lost \cup {a \in addrsBalance : docs[a] = None}
    /\ addrsBalance' = Registered
    /\ nextSync' = best
    /\ todo' = Missing /\ bulk' = 0 /\ stores' = {}
    /\ pc' = "idle" /\ left' = {} /\ visited' = {} /\ address' = None
    /\ answer' = Unused /\ document' = None /\ mapBalance' = {}
    /\ UNCHANGED <<nodeVars, dbVars, done, misread>>

BulkStep == BulkTake \/ BulkStore \/ BulkAdd
SyncStep ==
    \/ SyncBlock
    \/ \E a \in Accounts : Visit(a) \/ VisitNew(a)
    \/ BalanceOf \/ GetAccountBalance \/ AddAccountBalance
    \/ EndRefresh

Next == NodeExtend \/ BulkStep \/ SyncStep \/ Restart

Spec == Init /\ [][Next]_vars

-----------------------------------------------------------------------------
\* The balance looked up for a, or the document, is of block h or later.
Fresh(a, h) == IF docs[a] = None THEN checked[a] >= h ELSE docs[a].block >= h

(* BalanceFresh: an account of an indexed block is still in the cache, or   *)
(* the balance written is of that block or a later one, although a miner of *)
(* the check stores accounts while the miner of the stream looks them up    *)
(* and drops them ("if stake amount not exist, remove balance from          *)
(* whitelist", cache.go:102).  What was in the cache only is lost with it,  *)
(* and the balance of a query that fails is taken for zero.                 *)
BalanceFresh ==
    \A h \in done : \A a \in touched[h] \ (Aliases \cup lost \cup misread) :
        a \in addrsBalance \/ Fresh(a, h)

(* StakersTracked: an account with a stake stays in the cache, also after a *)
(* restart ("if staking balance >= 10000, keep track balance", miner.go:294)*)
StakersTracked ==
    \A a \in Accounts :
        docs[a] # None /\ docs[a].kind = "staked" => a \in addrsBalance
-----------------------------------------------------------------------------
(* The inductive invariants behind them.                                    *)

Balance == [block : 0..MaxHeight, kind : Kinds]

TypeOK ==
    /\ best \in Heights /\ touched \in [Heights -> SUBSET Accounts]
    /\ state \in [Accounts -> Balance]
    /\ nextSync \in 1..best+1
    /\ todo \subseteq 1..best /\ bulk \in 0..best /\ stores \subseteq Accounts
    /\ pc \in {"idle", "range", "query", "get", "write"}
    /\ addrsBalance \subseteq Accounts
    /\ answer \in Balance /\ document \in Balance \cup {None}
    /\ docs \in [Accounts -> Balance \cup {None}] /\ done \subseteq 1..best
    /\ checked \in [Accounts -> 0..MaxHeight]

\* The node knows every change up to its best block.
NodeInv ==
    \A a \in Accounts, h \in Heights : a \in touched[h] => h <= best /\ state[a].block >= h

\* Range visits an account once, so that one that is to be dropped is not
\* looked up again; one with a stake is not dropped.
RangeInv ==
    /\ pc = "idle" => left = {} /\ visited = {} /\ mapBalance = {}
    /\ left \cup visited \subseteq addrsBalance /\ left \cap visited = {}
    /\ mapBalance \subseteq visited
    /\ pc \in {"query", "get", "write"} => address \in visited \ (mapBalance \cup Aliases)
    /\ pc = "write" => document = docs[address]
    /\ \A a \in Aliases : docs[a] = None
    /\ \A a \in Accounts :
          docs[a] # None /\ docs[a].kind = "staked" => a \in addrsBalance \ mapBalance

\* What is looked up, dropped or stored is not older than any block that is
\* indexed, or will be before the accounts are dropped.
AtWork == done \cup todo \cup ({bulk} \ {0})

AnswerFresh ==
    pc \in {"get", "write"} /\ address \notin misread =>
        \A h \in AtWork : address \in touched[h] => answer.block >= h

DroppedFresh ==
    \A a \in mapBalance \ (Aliases \cup misread) :
        \A h \in AtWork : a \in touched[h] => Fresh(a, h)

StoredFresh ==
    bulk # 0 =>
        \A a \in touched[bulk] \ (stores \cup Aliases \cup lost \cup misread) :
            a \in addrsBalance \/ Fresh(a, bulk)

FreshInv == BalanceFresh /\ AnswerFresh /\ DroppedFresh /\ StoredFresh
=============================================================================
