----------------------------- MODULE Whitelist -----------------------------
(***************************************************************************)
(* Verified tokens and contracts (indexer/miner.go, cache.go, dto.go).     *)
(*                                                                         *)
(* A verification contract on the chain holds, for a token address, which  *)
(* contract it verifies.  Its events put the token address on a whitelist. *)
(* Every so many blocks the miner of the stream goes through the whitelist,*)
(* asks the node what each token address claims, marks the documents, and  *)
(* writes back to the whitelist the contracts that have changed.           *)
(***************************************************************************)
EXTENDS Integers, FiniteSets, FiniteSetsExt, TLC

CONSTANTS
    Tokens,         \* token addresses
    NContracts,     \* number of contracts, in the order of their blocks
    Kinds,          \* what is verified: "token", "contract" or both
    MaxChanges,     \* bound on the changes from outside
    MaxCrashes,     \* bound on the restarts
    Nil             \* no contract, token or document

ASSUME WhitelistAssumption ==
    /\ NContracts \in Nat /\ Kinds \subseteq {"token", "contract"}
    /\ MaxChanges \in Nat /\ MaxCrashes \in Nat
    /\ Nil \notin Tokens \cup 1..NContracts
    /\ Nil \notin [type : Kinds, contract : 1..NContracts \cup {Nil}]
    /\ Nil \notin [token : Tokens \cup {Nil}, codeUrl : BOOLEAN, verified : BOOLEAN]

VARIABLES
    claim,          \* claim[k][t]: the contract the node has for t, and if it has a code url
    whitelist,      \* whitelist[t]: type and contract, Nil if t is not on it
    docs,           \* docs[k][c]: by which token verified, code url, status
    \* refreshVariables
    pc,
    found,          \* what Scroll has found
    pending,        \* the tokens not yet looked at
    mapWhitelist,   \* what is to be written back
    \* history
    rounds,         \* refreshes completed since the last change from outside
    stable,         \* no change since the refresh began
    seen,           \* "event": one for a token that is on the whitelist; "delete": of
                    \* a document by a rewind; "code": that could not be had
    changes, crashes

vars == <<claim, whitelist, docs, pc, found, pending, mapWhitelist, rounds, stable, seen, changes,
          crashes>>

Contracts == 1..NContracts
Claim == [contract : Contracts \cup {Nil}, codeUrl : BOOLEAN]
NewDoc == [token |-> Nil, codeUrl |-> FALSE, verified |-> FALSE]
Empty == [t \in Tokens |-> Nil]

Init ==
    /\ claim = [k \in Kinds |-> [t \in Tokens |-> [contract |-> Nil, codeUrl |-> FALSE]]]
    /\ whitelist = Empty
    /\ docs \in [Kinds -> [Contracts -> {Nil, NewDoc}]]
    /\ pc = "idle" /\ found = Empty /\ pending = {} /\ mapWhitelist = Empty
    /\ rounds = 0 /\ stable = FALSE /\ seen = {} /\ changes = 0 /\ crashes = 0

Change ==
    /\ changes < MaxChanges /\ changes' = changes + 1
    /\ rounds' = 0 /\ stable' = FALSE

-----------------------------------------------------------------------------
(* The owner of a token address claims another contract.                    *)
SetMetadata(k, t) ==
    /\ Change
    /\ \E c \in Claim :
          /\ (k = "token" \/ c.contract = Nil) => ~c.codeUrl
          /\ c # claim[k][t]
          /\ claim' = [claim EXCEPT ![k][t] = c]
    /\ UNCHANGED <<whitelist, docs, pc, found, pending, mapWhitelist, seen, crashes>>

(* MinerEventByAddr, by any miner.                                          *)
MinerEventByAddr(k, t) ==
    /\ Change
    /\ seen' = IF whitelist[t] = Nil THEN seen ELSE seen \cup {"event"}
    /\ whitelist' = [whitelist EXCEPT ![t] = [type |-> k, contract |-> Nil]]
    /\ UNCHANGED <<claim, docs, pc, found, pending, mapWhitelist, crashes>>

(* addToken, addContract: of a new contract, or once more of one that is    *)
(* there, when its block is indexed again.                                  *)
AddDoc(k, c) ==
    /\ Change
    /\ docs[k][c] # NewDoc
    /\ docs' = [docs EXCEPT ![k][c] = NewDoc]
    /\ UNCHANGED <<claim, whitelist, pc, found, pending, mapWhitelist, seen, crashes>>

(* A rewind deletes the documents of tokens and leaves those of contracts.  *)
DeleteDoc(k, c) ==
    /\ Change /\ seen' = seen \cup {"delete"}
    /\ k = "token" /\ docs[k][c] # Nil
    /\ docs' = [docs EXCEPT ![k][c] = Nil]
    /\ UNCHANGED <<claim, whitelist, pc, found, pending, mapWhitelist, crashes>>

-----------------------------------------------------------------------------
(* refreshVariables.                                                        *)
ScrollWhitelist ==
    /\ pc = "idle"
    /\ pc' = "scroll"
    /\ found' = whitelist
    /\ pending' = {t \in Tokens : whitelist[t] # Nil}
    /\ mapWhitelist' = Empty
    /\ stable' = TRUE
    /\ UNCHANGED <<claim, whitelist, docs, rounds, seen, changes, crashes>>

(* updateTokenVerified and updateContract of the contract left.             *)
Removed(k, c) == [docs[k] EXCEPT ![c] = NewDoc]

(* MinerTokenVerified and MinerContractVerified, for the entry e of token t *)
(* and the answer m of the node: the documents, and the contract to         *)
(* remember.                                                                *)
\* Mutant: the contract left keeps its mark.
LeavesKept(e, m) == FALSE
Leaves(e, m) == e.contract # Nil /\ m.contract # e.contract

\* Mutant: the status stays what it was.
VerifiedKept(k, ds, t, m, code) ==
    [ds EXCEPT ![m.contract] = [token |-> t, codeUrl |-> m.codeUrl, verified |-> @.verified]]

Verified(k, ds, t, m, code) ==
    [ds EXCEPT ![m.contract] = [token |-> t, codeUrl |-> m.codeUrl, verified |-> code]]

(* The code of a contract whose url is the one it has is not asked for.     *)
\* Mutant: a contract that has been updated before is not updated again.
SkippedSame(e, ds, m) == m.contract = e.contract
Skipped(e, ds, m) == e.type = "contract" /\ m.codeUrl /\ ds[m.contract].codeUrl

MinerVerified(e, t, m) ==
    LET k == e.type
        left == IF Leaves(e, m) THEN Removed(k, e.contract) ELSE docs[k]
        Remember(c) ==
            mapWhitelist' = IF c = e.contract THEN mapWhitelist
                            ELSE [mapWhitelist EXCEPT ![t] = [type |-> k, contract |-> c]] IN
    \/ /\ Leaves(e, m) /\ docs[k][e.contract] = Nil
       /\ Remember(e.contract) /\ UNCHANGED <<docs, seen>>
    \/ /\ ~(Leaves(e, m) /\ docs[k][e.contract] = Nil)
       /\ m.contract = Nil
       /\ Remember(Nil) /\ docs' = [docs EXCEPT ![k] = left] /\ UNCHANGED seen
    \/ /\ ~(Leaves(e, m) /\ docs[k][e.contract] = Nil)
       /\ m.contract # Nil /\ left[m.contract] = Nil
       /\ Remember(e.contract) /\ docs' = [docs EXCEPT ![k] = left] /\ UNCHANGED seen
    \/ /\ ~(Leaves(e, m) /\ docs[k][e.contract] = Nil)
       /\ m.contract # Nil /\ left[m.contract] # Nil
       /\ Remember(m.contract)
       /\ IF Skipped(e, left, m)
          THEN docs' = [docs EXCEPT ![k] = left] /\ UNCHANGED seen
          ELSE \/ docs' = [docs EXCEPT ![k] = Verified(k, left, t, m, k = "token" \/ m.codeUrl)]
                  /\ UNCHANGED seen
               \/ k = "contract" /\ m.codeUrl /\ seen' = seen \cup {"code"}
                  /\ docs' = [docs EXCEPT ![k] = Verified(k, left, t, m, FALSE)]

Refresh(t) ==
    /\ pc = "scroll" /\ t \in pending
    /\ pending' = pending \ {t}
    /\ MinerVerified(found[t], t, claim[found[t].type][t])
    /\ UNCHANGED <<claim, whitelist, pc, found, rounds, stable, changes, crashes>>

(* A query of the node that fails reads as no claim.                        *)
RefreshFailed(t) ==
    /\ pc = "scroll" /\ t \in pending
    /\ Change
    /\ pending' = pending \ {t}
    /\ MinerVerified(found[t], t, [contract |-> Nil, codeUrl |-> FALSE])
    /\ UNCHANGED <<claim, whitelist, pc, found, crashes>>

WriteBack(t) ==
    /\ pc = "scroll" /\ pending = {}
    /\ mapWhitelist[t] # Nil
    /\ whitelist' = [whitelist EXCEPT ![t] = mapWhitelist[t]]
    /\ mapWhitelist' = [mapWhitelist EXCEPT ![t] = Nil]
    /\ UNCHANGED <<claim, docs, pc, found, pending, rounds, stable, seen, changes, crashes>>

EndRefresh ==
    /\ pc = "scroll" /\ pending = {} /\ mapWhitelist = Empty
    /\ pc' = "idle" /\ found' = Empty
    /\ rounds' = IF stable /\ rounds < 2 THEN rounds + 1 ELSE rounds
    /\ UNCHANGED <<claim, whitelist, docs, pending, mapWhitelist, stable, seen, changes, crashes>>

-----------------------------------------------------------------------------
(* registerVariables: the tokens in the order of their blocks, then the     *)
(* contracts, each overwriting the one before.                              *)
VerifiedBy(k, t) ==
    IF k \notin Kinds THEN {}
    ELSE {c \in Contracts : docs[k][c] # Nil /\ docs[k][c].token = t}

Registered(t) ==
    IF VerifiedBy("contract", t) # {}
    THEN [type |-> "contract", contract |-> Max(VerifiedBy("contract", t))]
    ELSE IF VerifiedBy("token", t) # {}
    THEN [type |-> "token", contract |-> Max(VerifiedBy("token", t))]
    ELSE whitelist[t]

Restart ==
    /\ crashes < MaxCrashes /\ crashes' = crashes + 1
    /\ whitelist' = [t \in Tokens |-> Registered(t)]
    /\ pc' = "idle" /\ found' = Empty /\ pending' = {} /\ mapWhitelist' = Empty
    /\ rounds' = 0 /\ stable' = FALSE
    /\ UNCHANGED <<claim, docs, seen, changes>>

RefreshStep ==
    \/ ScrollWhitelist \/ EndRefresh
    \/ \E t \in Tokens : Refresh(t) \/ RefreshFailed(t) \/ WriteBack(t)

Next ==
    \/ \E k \in Kinds, t \in Tokens : SetMetadata(k, t) \/ MinerEventByAddr(k, t)
    \/ \E k \in Kinds, c \in Contracts : AddDoc(k, c) \/ DeleteDoc(k, c)
    \/ RefreshStep
    \/ Restart

Spec == Init /\ [][Next]_vars

(* Token addresses are alike.                                               *)
TokenSymmetry == Permutations(Tokens)

-----------------------------------------------------------------------------
Refreshed == pc = "idle" /\ rounds = 2
Claims(k, t, c) == whitelist[t] # Nil /\ whitelist[t].type = k /\ claim[k][t].contract = c

(* NoStaleMark: after two refreshes without a change from outside no        *)
(* document is marked by a token that no longer claims it ("remove exist    *)
(* token info", miner.go:304), unless an event has overwritten an entry of  *)
(* the whitelist.                                                           *)
NoStaleMark ==
    Refreshed /\ "event" \notin seen =>
        \A k \in Kinds, c \in Contracts, t \in Tokens :
            docs[k][c] # Nil /\ docs[k][c].token = t => Claims(k, t, c)

(* ClaimsMarked: ... and every document that is claimed is marked by one of *)
(* its claimants, however late the document has come ("wait until tokenDoc  *)
(* added", miner.go:308), unless a rewind has deleted a document, or a      *)
(* token that waits for the document of its next contract does not let go   *)
(* of this one: it unmarks it in every refresh (miner.go:304, 325).  Two    *)
(* refreshes are needed, as one token may leave the contract another has    *)
(* just marked.                                                             *)
Held(k, c) ==
    \E t \in Tokens :
        /\ whitelist[t] # Nil /\ whitelist[t].type = k /\ whitelist[t].contract = c
        /\ claim[k][t].contract \notin {c, Nil} /\ docs[k][claim[k][t].contract] = Nil

ClaimsMarked ==
    Refreshed /\ "delete" \notin seen =>
        \A k \in Kinds, c \in Contracts, t \in Tokens :
            docs[k][c] # Nil /\ Claims(k, t, c) /\ ~Held(k, c) => docs[k][c].token # Nil

(* CodeVerified: ... and a contract with a code url is verified, unless the *)
(* code could once not be had ("skip if codeUrl not changed",               *)
(* miner.go:363).                                                           *)
CodeVerified ==
    Refreshed /\ "code" \notin seen =>
        \A k \in Kinds \cap {"contract"}, c \in Contracts :
            docs[k][c] # Nil /\ docs[k][c].codeUrl => docs[k][c].verified

-----------------------------------------------------------------------------
(* The inductive invariants behind them.                                    *)
Entry == [type : Kinds, contract : Contracts \cup {Nil}]
Document == [token : Tokens \cup {Nil}, codeUrl : BOOLEAN, verified : BOOLEAN]

(* Every entry and every document has its type (EsWhitelist, EsToken).      *)
TypeOK ==
    /\ claim \in [Kinds -> [Tokens -> Claim]]
    /\ whitelist \in [Tokens -> Entry \cup {Nil}] /\ found \in [Tokens -> Entry \cup {Nil}]
    /\ mapWhitelist \in [Tokens -> Entry \cup {Nil}]
    /\ docs \in [Kinds -> [Contracts -> Document \cup {Nil}]]
    /\ pc \in {"idle", "scroll"} /\ pending \subseteq Tokens
    /\ rounds \in 0..2 /\ stable \in BOOLEAN /\ seen \subseteq {"event", "delete", "code"}

\* What is known to be of token t, once what is to be written back is.
Remembered(t) == IF mapWhitelist[t] # Nil THEN mapWhitelist[t] ELSE whitelist[t]
Marks(t, k, c) == docs[k][c] # Nil /\ docs[k][c].token = t
HasDoc(e) == e # Nil /\ e.contract # Nil => docs[e.type][e.contract] # Nil

(* A refresh, and what a token it has yet to look at has.                   *)
RefreshInv ==
    /\ pc = "idle" => pending = {} /\ mapWhitelist = Empty
    /\ \A t \in pending : found[t] # Nil /\ whitelist[t] # Nil /\ mapWhitelist[t] = Nil
    /\ \A t \in pending : stable \/ "event" \notin seen => whitelist[t] = found[t]
    /\ \A t \in Tokens : whitelist[t] = Nil => mapWhitelist[t] = Nil
    /\ rounds > 0 => stable

(* A document a token has marked is the one remembered of it, and, once it  *)
(* has been looked at and nothing has changed since, the one it claims.     *)
MarksInv ==
    "event" \notin seen =>
        \A t \in Tokens, k \in Kinds, c \in Contracts :
            Marks(t, k, c) =>
                /\ Remembered(t) = [type |-> k, contract |-> c]
                /\ stable /\ t \notin pending => claim[k][t].contract = c

(* A contract that is remembered has its document.                          *)
KeptInv ==
    "delete" \notin seen =>
        \A t \in Tokens : HasDoc(whitelist[t]) /\ HasDoc(found[t]) /\ HasDoc(mapWhitelist[t])

\* What is remembered of t is what t claims, or t waits for a document.
Settled(t, e) ==
    LET m == claim[e.type][t].contract IN
    m = e.contract \/ (m # Nil /\ docs[e.type][m] = Nil)

(* The first quiet refresh settles what is remembered, the second one finds *)
(* nothing to write back.                                                   *)
SettledInv ==
    stable /\ "delete" \notin seen =>
        /\ \A t \in Tokens \ pending : Remembered(t) # Nil => Settled(t, Remembered(t))
        /\ rounds > 0 =>
              /\ mapWhitelist = Empty
              /\ \A t \in Tokens : whitelist[t] # Nil => Settled(t, whitelist[t])

(* What has a code url is marked, so that only what is marked is skipped.   *)
UrlInv ==
    \A k \in Kinds, c \in Contracts :
        docs[k][c] # Nil =>
            /\ docs[k][c].codeUrl => docs[k][c].token # Nil
            /\ k = "contract" /\ "code" \notin seen => (docs[k][c].codeUrl => docs[k][c].verified)

(* The second quiet refresh marks what the tokens claim it has looked at.   *)
ClaimsInv ==
    rounds = 2 \/ (rounds = 1 /\ pc = "scroll") =>
        ("delete" \notin seen =>
            \A k \in Kinds, c \in Contracts, t \in Tokens :
                /\ t \notin pending \/ rounds = 2
                /\ docs[k][c] # Nil /\ Claims(k, t, c) /\ ~Held(k, c)
                => docs[k][c].token # Nil)
=============================================================================
