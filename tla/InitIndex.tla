----------------------------- MODULE InitIndex -----------------------------
(***************************************************************************)
(* The start of the program (indexer/indexer.go, db/elasticsearch.go).     *)
(*                                                                         *)
(* Every document type has an index, named by a prefix and the type, and   *)
(* an alias under which readers find it.  The prefix is the second of the  *)
(* start, unless an alias already leads to an older one.  The program may  *)
(* end at any point, several instances may start at once, and each request *)
(* to the database may fail.                                               *)
(***************************************************************************)
EXTENDS Integers, FiniteSets

CONSTANTS
    Instances,      \* instances of the indexer
    NTypes,         \* number of document types; the first is chain_info
    Chains,         \* the chains a node may be of
    Flags,          \* tokens are given on the command line (--token_whitelist)
    MaxErrors,      \* bound on the requests that fail
    MaxCrashes,     \* bound on the restarts
    MaxClock        \* bound on the seconds

ASSUME InitAssumption ==
    /\ NTypes \in Nat /\ NTypes > 1
    /\ Flags \in BOOLEAN
    /\ MaxErrors \in Nat /\ MaxCrashes \in Nat /\ MaxClock \in Nat \ {0}

VARIABLES
    \* the database
    indices,        \* the indices: prefix and type
    alias,          \* alias[t]: prefixes of the indices the alias of t leads to
    chainDocs,      \* chainDocs[x]: chain infos in the index of prefix x
    \* each instance
    pc,
    indexNamePrefix,
    type,           \* the document type CreateIndexIfNotExists works on
    old,            \* the indices UpdateAlias has found
    chain,          \* the chain of its node
    clock,
    \* history
    data,           \* prefixes written to, with the chain of the documents
    overlap,        \* two instances have been starting at the same time
    unread,         \* a query for the chain info has failed
    errors, crashes

dbVars == <<indices, alias, chainDocs>>
historyVars == <<overlap, unread>>
boundVars == <<clock, errors, crashes>>
vars == <<dbVars, pc, indexNamePrefix, type, old, chain, data, historyVars, boundVars>>

Types == 1..NTypes
NoPrefix == 0
Prefixes == NoPrefix..MaxClock
Whitelist == NTypes

Init ==
    /\ indices = {} /\ alias = [t \in Types |-> {}]
    /\ chainDocs = [x \in Prefixes |-> {}]
    /\ pc = [p \in Instances |-> "off"]
    /\ indexNamePrefix = [p \in Instances |-> NoPrefix]
    /\ type = [p \in Instances |-> 1]
    /\ old = [p \in Instances |-> {}]
    /\ chain \in [Instances -> Chains]
    /\ overlap = FALSE /\ unread = FALSE
    /\ clock = 1 /\ data = {} /\ errors = 0 /\ crashes = 0

Tick ==
    /\ clock < MaxClock
    /\ clock' = clock + 1
    /\ UNCHANGED <<dbVars, pc, indexNamePrefix, type, old, chain, data, historyVars, errors, crashes>>

RequestFails == errors < MaxErrors /\ errors' = errors + 1
Goto(p, l) == pc' = [pc EXCEPT ![p] = l]

(* A document written to an index that is not there creates the index.      *)
WriteDoc(p, x, t) ==
    /\ indices' = indices \cup {<<x, t>>}
    /\ data' = IF x = NoPrefix THEN data ELSE data \cup {<<x, chain[p]>>}

-----------------------------------------------------------------------------
(* NewIndexer: NewCache writes the tokens of the command line.              *)
NewIndexer(p) ==
    /\ pc[p] = "off"
    /\ IF Flags THEN WriteDoc(p, indexNamePrefix[p], Whitelist) ELSE UNCHANGED <<indices, data>>
    /\ Goto(p, "new")
    /\ UNCHANGED <<alias, chainDocs, indexNamePrefix, type, old, chain, historyVars, boundVars>>

Starting(p) == pc[p] \notin {"off", "new", "run", "exit"}

Start(p) ==
    /\ pc[p] = "new"
    /\ overlap' = (overlap \/ \E q \in Instances \ {p} : Starting(q))
    /\ indexNamePrefix' = [indexNamePrefix EXCEPT ![p] = clock]
    /\ type' = [type EXCEPT ![p] = 1]
    /\ Goto(p, "look")
    /\ UNCHANGED <<dbVars, old, chain, data, unread, boundVars>>

(* The types are taken in turn, and the chain info is checked after the     *)
(* first.  An error is ignored, but for the first type, which is tried      *)
(* again.                                                                   *)
\* Mutant: one type too many.
NextTypePast(p) ==
    \/ type[p] = 1 /\ Goto(p, "valid") /\ UNCHANGED type
    \/ type[p] \in 2..NTypes /\ Goto(p, "look") /\ type' = [type EXCEPT ![p] = @ + 1]
NextType(p) ==
    \/ type[p] = 1 /\ Goto(p, "valid") /\ UNCHANGED type
    \/ type[p] \in 2..NTypes-1 /\ Goto(p, "look") /\ type' = [type EXCEPT ![p] = @ + 1]
    \/ type[p] = NTypes /\ Goto(p, "run") /\ UNCHANGED type

\* Mutant: the first type is not tried again.
FailedGoesOn(p) == NextType(p)
\* Mutant: every type is tried again.
FailedRetries(p) == Goto(p, "look") /\ UNCHANGED type
Failed(p) ==
    \/ type[p] = 1 /\ Goto(p, "look") /\ UNCHANGED type
    \/ type[p] > 1 /\ NextType(p)

(* GetExistingIndexPrefix.                                                  *)
\* Mutant: the index is always created.
LookNever(p) ==
    /\ pc[p] = "look"
    /\ Goto(p, "create")
    /\ UNCHANGED <<dbVars, indexNamePrefix, type, old, chain, data, historyVars, boundVars>>

Look(p) ==
    /\ pc[p] = "look"
    /\ \/ /\ \E x \in alias[type[p]] : indexNamePrefix' = [indexNamePrefix EXCEPT ![p] = x]
          /\ NextType(p) /\ UNCHANGED errors
       \/ /\ alias[type[p]] = {}
          /\ Goto(p, "create") /\ UNCHANGED <<type, indexNamePrefix, errors>>
       \/ RequestFails /\ Failed(p) /\ UNCHANGED indexNamePrefix
    /\ UNCHANGED <<dbVars, old, chain, data, historyVars, clock, crashes>>

(* CreateIndex fails when the index exists, and may be carried out without  *)
(* an answer.                                                               *)
CreateIndex(p) ==
    LET index == <<indexNamePrefix[p], type[p]>> IN
    /\ pc[p] = "create"
    /\ \/ /\ index \notin indices
          /\ indices' = indices \cup {index}
          /\ Goto(p, "aliases") /\ UNCHANGED <<type, errors>>
       \/ index \in indices /\ Failed(p) /\ UNCHANGED <<indices, errors>>
       \/ RequestFails /\ Failed(p) /\ indices' \in {indices, indices \cup {index}}
    /\ UNCHANGED <<alias, chainDocs, indexNamePrefix, old, chain, data, historyVars, clock, crashes>>

(* UpdateAlias: the indices of the alias are read, replaced in the alias,   *)
(* and deleted, the last also when the replacement has failed.              *)
ReadAliases(p) ==
    /\ pc[p] = "aliases"
    /\ \/ /\ old' = [old EXCEPT ![p] = alias[type[p]]]
          /\ Goto(p, "update") /\ UNCHANGED <<type, errors>>
       \/ RequestFails /\ Failed(p) /\ UNCHANGED old
    /\ UNCHANGED <<dbVars, indexNamePrefix, chain, data, historyVars, clock, crashes>>

UpdateAlias(p) ==
    /\ pc[p] = "update"
    /\ \/ /\ old[p] \subseteq alias[type[p]]
          /\ alias' = [alias EXCEPT ![type[p]] = (@ \ old[p]) \cup {indexNamePrefix[p]}]
          /\ Goto(p, "delete") /\ UNCHANGED errors
       \/ ~(old[p] \subseteq alias[type[p]]) /\ Goto(p, "deleteFailed") /\ UNCHANGED <<alias, errors>>
       \/ RequestFails /\ Goto(p, "deleteFailed") /\ UNCHANGED alias
    /\ UNCHANGED <<indices, chainDocs, indexNamePrefix, type, old, chain, data, historyVars, clock, crashes>>

(* An index goes with its aliases and its documents.                        *)
DeleteOld(p) ==
    /\ pc[p] \in {"delete", "deleteFailed"}
    /\ indices' = indices \ {<<x, type[p]>> : x \in old[p]}
    /\ alias' = [alias EXCEPT ![type[p]] = @ \ old[p]]
    /\ chainDocs' = [x \in Prefixes |->
                        IF type[p] = 1 /\ x \in old[p] THEN {} ELSE chainDocs[x]]
    /\ IF pc[p] = "delete" THEN NextType(p) ELSE Failed(p)
    /\ UNCHANGED <<indexNamePrefix, old, chain, data, historyVars, boundVars>>

(* ValidChainInfo; a query that fails counts as an empty answer.            *)
\* Mutant: what the database has is not compared.
ValidAny(p) ==
    /\ pc[p] = "valid"
    /\ IF chainDocs[indexNamePrefix[p]] = {}
       THEN Goto(p, "add") /\ UNCHANGED type
       ELSE Goto(p, "look") /\ type' = [type EXCEPT ![p] = 2]
    /\ UNCHANGED <<dbVars, indexNamePrefix, old, chain, data, historyVars, boundVars>>

Valid(p) ==
    LET found == chainDocs[indexNamePrefix[p]] IN
    /\ pc[p] = "valid"
    /\ \/ chain[p] \in found /\ Goto(p, "look") /\ type' = [type EXCEPT ![p] = 2]
       \/ found \ {chain[p]} # {} /\ Goto(p, "exit") /\ UNCHANGED type
       \/ found = {} /\ Goto(p, "add") /\ UNCHANGED type
    /\ UNCHANGED <<dbVars, indexNamePrefix, old, chain, data, historyVars, boundVars>>

QueryFails(p) ==
    /\ pc[p] = "valid"
    /\ RequestFails /\ Goto(p, "add")
    /\ unread' = TRUE
    /\ UNCHANGED <<dbVars, indexNamePrefix, type, old, chain, data, overlap, clock, crashes>>

NodeFails(p) ==
    /\ pc[p] = "valid"
    /\ RequestFails /\ Goto(p, "exit")
    /\ UNCHANGED <<dbVars, indexNamePrefix, type, old, chain, data, historyVars, clock, crashes>>

AddChainInfo(p) ==
    LET x == indexNamePrefix[p] IN
    /\ pc[p] = "add"
    /\ \/ /\ chainDocs' = [chainDocs EXCEPT ![x] = @ \cup {chain[p]}]
          /\ indices' = indices \cup {<<x, 1>>}
          /\ Goto(p, "look") /\ type' = [type EXCEPT ![p] = 2] /\ UNCHANGED errors
       \/ RequestFails /\ Goto(p, "exit") /\ UNCHANGED <<indices, chainDocs, type>>
    /\ UNCHANGED <<alias, indexNamePrefix, old, chain, data, historyVars, clock, crashes>>

(* The indexer at work.                                                     *)
Write(p) ==
    /\ pc[p] = "run"
    /\ \E t \in 2..NTypes : WriteDoc(p, indexNamePrefix[p], t)
    /\ UNCHANGED <<alias, chainDocs, pc, indexNamePrefix, type, old, chain, historyVars, boundVars>>

(* A restart takes more than a second, and may be given another node.       *)
Crash(p) ==
    /\ pc[p] # "off"
    /\ crashes < MaxCrashes /\ crashes' = crashes + 1
    /\ clock < MaxClock /\ clock' = clock + 1
    /\ Goto(p, "off")
    /\ indexNamePrefix' = [indexNamePrefix EXCEPT ![p] = NoPrefix]
    /\ old' = [old EXCEPT ![p] = {}]
    /\ \E c \in Chains : chain' = [chain EXCEPT ![p] = c]
    /\ UNCHANGED <<dbVars, type, data, historyVars, errors>>

-----------------------------------------------------------------------------
InitStep(p) ==
    \/ NewIndexer(p) \/ Start(p)
    \/ Look(p) \/ CreateIndex(p)
    \/ ReadAliases(p) \/ UpdateAlias(p) \/ DeleteOld(p)
    \/ Valid(p) \/ QueryFails(p) \/ NodeFails(p) \/ AddChainInfo(p)

Next == Tick \/ \E p \in Instances : InitStep(p) \/ Write(p) \/ Crash(p)

Spec == Init /\ [][Next]_vars

(* Every request of an instance at work is answered.  Nothing starts one    *)
(* that is off, and a crash is never due.                                   *)
StartStep(p) == pc[p] # "off" /\ InitStep(p)
FairSpec == Spec /\ \A p \in Instances : WF_vars(StartStep(p))

-----------------------------------------------------------------------------
PCs == {"off", "new", "look", "create", "aliases", "update", "delete", "deleteFailed",
        "valid", "add", "run", "exit"}

TypeOK ==
    /\ indices \subseteq Prefixes \X Types
    /\ alias \in [Types -> SUBSET Prefixes]
    /\ chainDocs \in [Prefixes -> SUBSET Chains]
    /\ pc \in [Instances -> PCs]
    /\ indexNamePrefix \in [Instances -> Prefixes]
    /\ type \in [Instances -> Types]
    /\ old \in [Instances -> SUBSET Prefixes]
    /\ chain \in [Instances -> Chains]
    /\ data \subseteq Prefixes \X Chains
    /\ overlap \in BOOLEAN /\ unread \in BOOLEAN
    /\ clock \in 1..MaxClock /\ errors \in 0..MaxErrors /\ crashes \in 0..MaxCrashes

(* OnePrefix: as long as no two instances start at the same time, every     *)
(* alias leads to one index, and all of them have the same prefix, that of  *)
(* the instances at work, however often a start has been interrupted or a   *)
(* request has failed (CreateIndexIfNotExists).                             *)
OnePrefix ==
    ~overlap =>
        /\ \A t, u \in Types : \A x \in alias[t], y \in alias[u] : x = y
        /\ \A p \in Instances : pc[p] = "run" => alias[1] = {indexNamePrefix[p]}

(* OneChain: the documents written to one prefix are of one chain, unless   *)
(* two instances start at the same time or the chain info could not be read *)
(* ("chain info is not matched", indexer.go:246).                           *)
OneChain ==
    ~overlap /\ ~unread =>
        \A d, e \in data : d[1] = e[1] => d[2] = e[2]

(* NothingDropped: no index is deleted unless two instances start at the    *)
(* same time (UpdateAlias; README.md:22 has a lock "excluding other         *)
(* instances writing to the same data set").                                *)
NothingDropped == [][~overlap => indices \subseteq indices']_vars

(* Orphaned: the index of the first type that this start would create is    *)
(* there, no alias leads to it, and nobody is about to give it one: its     *)
(* creator has crashed or a request for the alias has failed.               *)
Orphaned(p) ==
    /\ pc[p] \in {"look", "create"} /\ type[p] = 1
    /\ <<indexNamePrefix[p], 1>> \in indices /\ alias[1] = {}
    /\ \A q \in Instances : type[q] = 1 => pc[q] \notin {"aliases", "update"}

(* InitEnds: a start comes to an end, unless it is left for ever with an    *)
(* orphaned index: the retry of InitIndex (indexer.go:162) then never       *)
(* succeeds, and nothing else stops a start, however many crash or overlap  *)
(* and whichever of their requests fail.                                    *)
InitEnds ==
    \A p \in Instances :
        [](pc[p] = "new" => <>(pc[p] \in {"run", "exit", "off"} \/ []Orphaned(p)))
-----------------------------------------------------------------------------
(* The inductive invariants behind them.                                    *)

\* The first type is done: its alias leads to the prefix of the instance.
PastFirst(p) ==
    \/ pc[p] \in {"delete", "valid", "add", "run"}
    \/ Starting(p) /\ type[p] > 1

\* The instance has seen that the chain info is its own.
PastValid(p) == pc[p] = "run" \/ (Starting(p) /\ type[p] > 1)

\* One instance starts at a time; it creates an index only where no alias
\* leads to one, and so finds none to delete.
AliasOf(p) ==
    /\ PastFirst(p) => alias[1] = {indexNamePrefix[p]}
    /\ pc[p] \in {"create", "aliases", "update"} => alias[type[p]] = {}
    /\ pc[p] \in {"update", "delete", "deleteFailed"} => old[p] = {}
AliasInv ==
    ~overlap =>
        /\ \A p, q \in Instances : Starting(p) /\ Starting(q) => p = q
        /\ \A t \in Types : \A x \in alias[t] : alias[1] = {x}
        /\ \A p \in Instances : AliasOf(p)

\* There is one chain info in the index of a prefix, that of the instances
\* which have seen it and of the documents there.
ChainOf(p) ==
    /\ pc[p] = "add" => chainDocs[indexNamePrefix[p]] = {}
    /\ PastValid(p) => chainDocs[indexNamePrefix[p]] = {chain[p]}
    /\ pc[p] = "off" => indexNamePrefix[p] = NoPrefix
ChainInv ==
    ~overlap /\ ~unread =>
        /\ \A x \in Prefixes : \A c, d \in chainDocs[x] : c = d
        /\ \A d \in data : chainDocs[d[1]] = {d[2]}
        /\ \A p \in Instances : ChainOf(p)
=============================================================================
