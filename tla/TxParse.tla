------------------------------ MODULE TxParse ------------------------------
(***************************************************************************)
(* What is read out of a transaction and its events                        *)
(* (indexer/transaction/category.go, token.go, payload.go, event.go).      *)
(*                                                                         *)
(* A payload is told apart by what the tests of the code tell apart: that  *)
(* it is there, that it is JSON with a call name, how that name ends, and  *)
(* which keywords it contains.  The arguments of an event are a sequence   *)
(* of JSON values, strings told apart by whether they are an address, the  *)
(* zero address or a number.                                               *)
(***************************************************************************)
EXTENDS Integers, Sequences, FiniteSets, SequencesExt

CONSTANTS
    Accounts,       \* addresses, of accounts and of contracts
    None            \* no recipient, argument or document

\* No address is one of the words the code puts in its place (event.go:81, 148, 199).
ASSUME AccountsAssumption == Accounts \cap {"MINT", "BURN"} = {}

Types == {"NORMAL", "GOVERNANCE", "REDEPLOY", "FEEDELEGATION", "TRANSFER", "CALL", "DEPLOY",
          "MULTICALL"}
Systems == {"aergo.enterprise", "aergo.name", "aergo.system"}
Recipients == {None, "contract"} \cup Systems

\* The payloads without a call name: none, bytes or a list, the code of an
\* ARC1 and of an ARC2 token, a JSON object without a name.
Codes == {"arc1", "arc2"}
CallNames == {"cluster", "conf", "createname", "updatename", "stake", "vote", "other"}
Payloads == {"none", "bytes", "unnamed"} \cup Codes \cup CallNames

Tx == [type : Types, recipient : Recipients, payload : Payloads, amount : BOOLEAN]

(* The transactions a node accepts.                                         *)
ValidTx(tx) ==
    /\ tx.type = "GOVERNANCE" => tx.recipient \in Systems
    /\ tx.type = "DEPLOY" => tx.recipient = None /\ tx.payload \in Codes \cup {"bytes"}
    /\ tx.type = "REDEPLOY" => tx.recipient = "contract" /\ tx.payload \in Codes \cup {"bytes"}
    /\ tx.type \in {"CALL", "FEEDELEGATION"} =>
          tx.recipient = "contract" /\ tx.payload \notin Codes
    /\ tx.type = "MULTICALL" => tx.recipient = None /\ tx.payload = "bytes"
    /\ tx.type = "TRANSFER" => tx.recipient # None /\ tx.payload = "none"
    /\ tx.type = "NORMAL" /\ tx.recipient # None => tx.payload \notin Codes

(* GetCallName: an error unless the payload is a JSON object.               *)
IsCall(tx) == tx.payload \in CallNames \cup {"unnamed"}

(* DetectTxCategory: the first rule that applies.                           *)
Rules(tx) ==
    LET to(r) == tx.recipient = r
        calls(names) == tx.payload \in names IN
    << <<"redeploy", tx.type = "REDEPLOY">>,
       <<"multicall", tx.type = "MULTICALL">>,
       <<"deploy", to(None) /\ tx.payload # "none">>,
       <<"cluster", to("aergo.enterprise") /\ calls({"cluster"})>>,
       <<"conf", to("aergo.enterprise") /\ calls({"conf"})>>,
       <<"enterprise", to("aergo.enterprise")>>,
       <<"nameupdate", to("aergo.name") /\ calls({"updatename"})>>,
       <<"namecreate", to("aergo.name") /\ calls({"createname"})>>,
       <<"name", to("aergo.name")>>,
       <<"staking", to("aergo.system") /\ calls({"stake"})>>,
       <<"voting", to("aergo.system") /\ calls({"vote"})>>,
       <<"system", to("aergo.system")>>,
       <<"governance", tx.type = "GOVERNANCE">>,
       <<"call", IsCall(tx) /\ tx.payload # "unnamed">>,
       <<"payload", tx.payload # "none">>,
       <<"transfer", tx.type = "TRANSFER">>,
       <<"transfer", tx.type = "NORMAL" /\ tx.amount>>,
       <<"none", TRUE>> >>

DetectTxCategory(tx) ==
    LET rules == Rules(tx) IN rules[SelectInSeq(rules, LAMBDA r : r[2])][1]

(* MaybeTokenCreation: all keywords, then "decimals", then "ownerOf".       *)
MaybeTokenCreation(tx) ==
    IF tx.type = "DEPLOY" /\ tx.payload \in Codes
    THEN IF tx.payload = "arc1" THEN "ARC1" ELSE "ARC2"
    ELSE "none"

-----------------------------------------------------------------------------
(* The arguments of an event.                                               *)
Strings == Accounts \cup {"1111", "100"}
Values == Strings \cup {"null", "number", "bignum", "object"}

EventNames == {"new_arc1_token", "new_arc2_token", "mint", "transfer", "burn", "other"}

Failed == [from |-> None, to |-> None, amountOrId |-> None]

(* ParseAmountOrId: encoding/json makes every number a float64, which is    *)
(* none of the types it takes.                                              *)
ParseAmountOrId(v) ==
    CASE v \in Strings -> v
      [] v = "bignum" -> "100"
      [] OTHER -> None

(* A leading null is dropped.                                               *)
DropNull(args) == IF args # <<>> /\ args[1] = "null" THEN Tail(args) ELSE args

Account(v, zero) == IF v = "1111" THEN zero ELSE v

(* UnmarshalEventMint, UnmarshalEventTransfer, UnmarshalEventBurn.          *)
UnmarshalEvent(name, args0) ==
    LET args == DropNull(args0)
        n == IF name = "transfer" THEN 3 ELSE 2 IN
    IF \/ Len(args) < n
       \/ \E i \in 1..(n - 1) : args[i] \notin Strings
       \/ ParseAmountOrId(args[n]) = None
    THEN Failed
    ELSE [from |-> CASE name = "mint" -> "MINT"
                     [] name = "transfer" -> Account(args[1], "MINT")
                     [] name = "burn" -> args[1],
          to |-> CASE name = "mint" -> args[1]
                   [] name = "transfer" -> Account(args[2], "BURN")
                   [] name = "burn" -> "BURN",
          amountOrId |-> ParseAmountOrId(args[n])]

(* UnmarshalEventNewArcToken: the first argument has to be an address.      *)
UnmarshalEventNewArcToken(args) ==
    IF args # <<>> /\ args[1] \in Accounts THEN args[1] ELSE None
=============================================================================
