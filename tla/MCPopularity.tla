---------------------------- MODULE MCPopularity ----------------------------
(* Three dishes, two dayparts, a month of three checks.                    *)
EXTENDS Popularity

CONSTANTS a, b, c

MCDishes == <<a, b, c>>
\* An evening's order, one of b alone.
MCBaskets == {[d \in Dish |-> IF d = a THEN 2 ELSE 1], [d \in Dish |-> IF d = b THEN 2 ELSE 0]}
=============================================================================
