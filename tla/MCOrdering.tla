----------------------------- MODULE MCOrdering -----------------------------
(* Two phones, two tables, two requests in flight and one plate left.        *)
EXTENDS Ordering, TLC

CONSTANTS s1, s2, t1, t2, r1, r2

MCInitStock == [p \in Product |-> 1]
MCBasket == [Product -> 0 .. MaxQty * Cardinality(Line)]
MCProductOf == [l \in Line |-> CHOOSE p \in Product : TRUE]
MCCount == 0 .. MaxLeft

Symmetry == Permutations(Session) \cup Permutations(Table) \cup Permutations(Req)
=============================================================================
