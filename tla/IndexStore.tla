---------------------------- MODULE IndexStore ----------------------------
(***************************************************************************)
(* What the bulk indexer promises to the readers of the database, and to   *)
(* the check of a later run: documents are only ever added, and a block is *)
(* added once all its parts are there, but for the parts of an index that  *)
(* has refused a request, and the documents it has refused in one it took. *)
(***************************************************************************)
CONSTANTS
    PartSet,    \* the indices of the parts
    Block,      \* the index of the blocks
    Ids,        \* ids of the documents of the parts
    Heights,
    Needs       \* Needs[h]: the part documents block h must not be seen without

VARIABLES
    index,
    failed,     \* failed[c]: a request to the index of c has failed
    rejected    \* rejected[c]: ids refused in a request that has not

Indices == PartSet \cup {Block}

Init ==
    /\ index = [c \in Indices |-> {}]
    /\ failed = [c \in Indices |-> FALSE]
    /\ rejected = [c \in Indices |-> {}]

(* One request: S is taken, R is refused.                                   *)
Request(c, S, R) ==
    /\ index' = [index EXCEPT ![c] = @ \cup S]
    /\ rejected' = [rejected EXCEPT ![c] = @ \cup R]
    /\ UNCHANGED failed

Refused(d) == failed[d.ch] \/ d.id \in rejected[d.ch]

AddParts(c, S, R) == Request(c, S, R)

AddBlocks(S, R) ==
    /\ \A h \in S : \A d \in Needs[h] : d.id \in index[d.ch] \/ Refused(d)
    /\ Request(Block, S, R)

Fail(c) ==
    /\ failed' = [failed EXCEPT ![c] = TRUE]
    /\ UNCHANGED <<index, rejected>>

Next ==
    \/ \E c \in PartSet : \E S, R \in SUBSET Ids : AddParts(c, S, R)
    \/ \E S, R \in SUBSET Heights : AddBlocks(S, R)
    \/ \E c \in Indices : Fail(c)

Spec == Init /\ [][Next]_<<index, failed, rejected>>
=============================================================================
