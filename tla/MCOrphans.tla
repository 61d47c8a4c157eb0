----------------------------- MODULE MCOrphans -----------------------------
(* One phone that moves between two tables, with two dishes, for liveness.   *)
EXTENDS Ordering

MCInitStock == [p \in Product |-> 1]
MCBasket == [Product -> 0 .. MaxQty * Cardinality(Line)]
MCProductOf == [l \in Line |-> CHOOSE p \in Product : TRUE]
MCCount == {-1}   \* Unlimited
=============================================================================
