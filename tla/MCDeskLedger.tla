---------------------------- MODULE MCDeskLedger ----------------------------
(* A desk with one handler in flight and baskets of two sizes, to check that *)
(* it implements StockLedger.                                                *)
EXTENDS OrderDesk, TLC

CONSTANTS o1, o2

MCInitStock == [p \in Product |-> 2]

MCBasket == [Product -> {1, 2}]

MCDelta == {-1}

Symmetry == Permutations(OrderId)
=============================================================================
