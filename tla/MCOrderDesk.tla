---------------------------- MODULE MCOrderDesk ----------------------------
(* A small desk for TLC. *)
EXTENDS OrderDesk, TLC

CONSTANTS p1, o1, o2, j1, j2

\* One counted product, one piece left of two.
MCInitStock == [p \in Product |-> 1]

\* Orders of one unit: with the last unit sold, the next order is refused.
MCBasket == [Product -> {1}]

\* Taking one off is the step that can meet zero.
MCDelta == {-1}

Symmetry == Permutations(OrderId) \cup Permutations(Job)
=============================================================================
