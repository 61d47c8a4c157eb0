---------------------------- MODULE StockLedger ----------------------------
(* What counting stock promises, without statuses, handlers or transactions: *)
(* orders hold units, the shelf holds the rest, and an order takes its units *)
(* or puts them back as one step.  Module OrderDesk implements it.           *)
EXTENDS Integers, FiniteSets

CONSTANTS
  Product, OrderId,
  Basket,     \* what an order may hold: units of each product
  InitStock,  \* the count each product starts with
  Count       \* the counts a manager may set

Unlimited == -1

\* What the theorems about this specification assume of its constants.
LedgerConstants ==
  /\ InitStock \in [Product -> {Unlimited} \cup Nat]
  /\ Basket \subseteq [Product -> Nat]
  /\ Count \subseteq Int

VARIABLES
  left,      \* units still on the shelf, Unlimited when not counted
  held,      \* units every order holds
  gone,      \* products no longer on the menu
  adjusted   \* products whose count was overruled by hand

ledgerVars == <<left, held, gone, adjusted>>

Nothing == [p \in Product |-> 0]

\* The units of p that orders hold, each one named by its order and a number.
UnitsIn(h, p) == UNION {{o} \X (1 .. h[o][p]) : o \in OrderId}
Units(p) == UnitsIn(held, p)

----------------------------------------------------------------------------

\* An order takes all of its units or none.
Sell(o, u) ==
  /\ held[o] = Nothing
  /\ \A p \in Product : u[p] > 0 =>
       p \notin gone /\ (left[p] = Unlimited \/ left[p] >= u[p])
  /\ held' = [held EXCEPT ![o] = u]
  /\ left' = [p \in Product |-> IF left[p] = Unlimited THEN left[p]
                                ELSE left[p] - u[p]]
  /\ UNCHANGED <<gone, adjusted>>

\* An order puts all of its units back, and holds nothing from then on.
Return(o) ==
  /\ held' = [held EXCEPT ![o] = Nothing]
  /\ left' = [p \in Product |-> IF left[p] = Unlimited \/ p \in gone
                                THEN left[p] ELSE left[p] + held[o][p]]
  /\ UNCHANGED <<gone, adjusted>>

\* Staff put a cancelled order back into the flow: it holds units that nobody
\* takes from the shelf, which overrules the count of its products.
Revive(o, u) ==
  /\ held[o] = Nothing
  /\ held' = [held EXCEPT ![o] = u]
  /\ adjusted' = adjusted \cup {p \in Product : u[p] > 0}
  /\ UNCHANGED <<left, gone>>

\* A manager types or nudges a count.
Recount(p, n) ==
  /\ left' = [left EXCEPT ![p] = n]
  /\ adjusted' = adjusted \cup {p}
  /\ UNCHANGED <<held, gone>>

\* A product is deleted.
Withdraw(p) ==
  /\ gone' = gone \cup {p}
  /\ UNCHANGED <<left, held, adjusted>>

Init ==
  /\ left = InitStock
  /\ held = [o \in OrderId |-> Nothing]
  /\ gone = {}
  /\ adjusted = {}

Next ==
  \/ \E o \in OrderId, u \in Basket : Sell(o, u) \/ Revive(o, u)
  \/ \E o \in OrderId : Return(o)
  \/ \E p \in Product, n \in Count : Recount(p, n)
  \/ \E p \in Product : Withdraw(p)

Spec == Init /\ [][Next]_ledgerVars

----------------------------------------------------------------------------

\* No unit is lost, sold twice or given back twice: until somebody overrules
\* the count of a product, the units on the shelf and the units held by orders
\* add up to what it started with, and an uncounted product stays uncounted.
Conservation ==
  \A p \in Product \ (gone \cup adjusted) :
    IF InitStock[p] = Unlimited
    THEN left[p] = Unlimited
    ELSE left[p] >= 0 /\ left[p] + Cardinality(Units(p)) = InitStock[p]
=============================================================================
