------------------------------ MODULE MCBulk ------------------------------
(* Finite instances of Bulk.                                                *)
EXTENDS BulkProps

CONSTANTS a, t      \* ids, as model values

\* Two part channels, of which one is filtered by the cache; heights 1 and 2
\* carry the same account token, and height 1 has a transaction.
TwoParts == <<"tx", "accTokens">>
SharedToken ==
    [h \in Heights |->
        CASE h = 0 -> <<>>
          [] h = 1 -> << [ch |-> "accTokens", id |-> a], [ch |-> "tx", id |-> t] >>
          [] OTHER -> << [ch |-> "accTokens", id |-> a] >>]
=============================================================================
