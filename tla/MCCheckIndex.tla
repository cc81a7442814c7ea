--------------------------- MODULE MCCheckIndex ---------------------------
(* Finite instance of CheckIndex: every block index of up to four blocks of *)
(* the heights 0..3, two blocks of one height (a fork) included, and every  *)
(* --from and --to of an eight-valued uint64.                               *)
EXTENDS CheckIndex

MCDocs == {s \in UNION {[1..n -> 0..MaxHeight] : n \in 0..4} : NonIncreasing(s)}
=============================================================================
