----------------------------- MODULE OrderDesk -----------------------------
(* The orders and the counted stock of one BiteBox venue, as the database    *)
(* keeps them, and every handler of staff, manager and guest that changes    *)
(* them once an order has been placed.                                       *)
(*                                                                           *)
(* A handler runs in a goroutine of its own and touches the database through *)
(* single statements.  What it remembers between two statements is kept in a *)
(* job; every statement is one action, so that other handlers interleave.    *)
(* Guests' carts and the checkout handler are in module Ordering.            *)
EXTENDS Integers, FiniteSets

CONSTANTS
  Product,    \* products on the menu
  Session,    \* guest sessions (the cookie of one phone)
  Table,      \* tables
  OrderId,    \* order ids that may be given out
  Job,        \* handlers that may be in flight at once
  Basket,     \* what one order may hold: units of each product
  InitStock,  \* the count each product starts with, Unlimited if untracked
  Delta,      \* the steps of the -/+ buttons
  MaxStock    \* bound: no count grows past it

\* products.stock = -1: the product is not counted.
Unlimited == -1

StockLevel == Unlimited .. MaxStock

\* The units of all lines of an order are summed per product, an order has at
\* least one line, and the opening counts respect the bound.
ASSUME DeskAssumption ==
  /\ MaxStock \in Nat
  /\ InitStock \in [Product -> StockLevel]
  /\ Basket \subseteq [Product -> Nat]
  /\ Delta \subseteq Int

VARIABLES
  orders,    \* the orders table: OrderId -> Order or NoOrder
  stock,     \* products.stock
  listed,    \* products.is_available, or "deleted" once the row is gone
  job,       \* handlers in flight: Job -> what each remembers
  adjusted   \* history: products whose count was ever written by hand, or
             \* whose cancelled units were put back into an order

vars == <<orders, stock, listed, job, adjusted>>

----------------------------------------------------------------------------
(* Orders *)

Cookable == {"pending", "preparing"}
Active   == Cookable \cup {"ready"}
Fixable  == Active \cup {"served"}
OrderStatusFlow == Fixable \cup {"completed"}
OrderStatus == OrderStatusFlow \cup {"cancelled"}

NoOrder == [status |-> "none"]

Order == [session : Session, table : Table, status : OrderStatus,
          paid : BOOLEAN, refund : BOOLEAN, units : Basket]

Exists(o) == orders[o] # NoOrder
Cancelled(o) == Exists(o) /\ orders[o].status = "cancelled"

\* An order that has taken its units out of stock and not put them back.
Live(o) == Exists(o) /\ orders[o].status # "cancelled"

\* db.ProductHasActiveOrders: the product is in an order not yet served.
HasActiveOrders(p) ==
  \E o \in OrderId : Exists(o) /\ orders[o].status \in Active /\ orders[o].units[p] > 0

\* The orders the Collect panel lists for one table: unpaid and not cancelled.
UnpaidAt(t) ==
  {o \in OrderId : Live(o) /\ orders[o].table = t /\ ~orders[o].paid}

----------------------------------------------------------------------------
(* Handlers in flight *)

Idle == [at |-> "idle"]

JobState ==
  {Idle}
    \cup [at : {"guest_cancel", "refund", "cancel"}, order : OrderId]
    \cup [at : {"fix"}, order : OrderId, to : Fixable]
    \cup [at : {"nudge"}, product : Product, count : 0 .. MaxStock]
    \cup [at : {"toggle"}, product : Product, to : {"shown", "hidden"}]
    \cup [at : {"delete"}, product : Product]
    \cup [at : {"pay"}, due : SUBSET OrderId]

\* (Mutant: a read that a commit overtook is written all the same.)
OvertakenIgnored(jobs) == jobs

\* db.CancelOrder reads the order inside a deferred transaction and writes
\* afterwards.  SQLite lets a reader become the writer only while its snapshot
\* is still the newest, so any commit that comes in between makes the
\* cancellation fail.  Such a cancellation does nothing more than answer 500:
\* the model ends it together with the commit that overtook it.
Overtaken(jobs) ==
  [k \in Job |-> IF jobs[k].at = "cancel" THEN Idle ELSE jobs[k]]

\* (Mutant: handlers commit beside open transactions.)
DoneAlone(j) == job' = [job EXCEPT ![j] = Idle]

\* Handler j commits its last write and answers.
Done(j) == job' = [Overtaken(job) EXCEPT ![j] = Idle]

\* (Mutant: single-statement writers commit beside open transactions.)
CommitAlone == UNCHANGED job

\* A handler that writes in its first statement commits.
Commit == job' = Overtaken(job)

\* Handler j starts, or goes on, with what it has just read.
Remember(j, state) == job' = [job EXCEPT ![j] = state]

----------------------------------------------------------------------------
(* Placing an order *)

\* (Mutant: the decrement without "stock >= ?".)
AvailableUnguarded(u) ==
  \A p \in Product : u[p] > 0 => listed[p] # "deleted"

\* The guarded UPDATE of every line: enough is left, or it is not counted.  A
\* product whose row is gone matches no row.
Available(u) ==
  \A p \in Product : u[p] > 0 =>
    /\ listed[p] # "deleted"
    /\ stock[p] = Unlimited \/ stock[p] >= u[p]

AfterSale(u) ==
  [p \in Product |-> IF stock[p] = Unlimited THEN stock[p] ELSE stock[p] - u[p]]

\* db.CreateOrder: the order, its items and every decrement in one transaction.
PlaceOrder(o, s, t, u, paid) ==
  /\ ~Exists(o)
  /\ Available(u)
  /\ orders' = [orders EXCEPT ![o] = [session |-> s, table |-> t,
                  status |-> "pending", paid |-> paid, refund |-> FALSE,
                  units |-> u]]
  /\ stock' = AfterSale(u)
  /\ Commit
  /\ UNCHANGED <<listed, adjusted>>

----------------------------------------------------------------------------
(* Moving an order along *)

\* db.UpdateOrderStatus writes the status whatever it was before.
SetStatus(o, st) ==
  /\ orders' = [orders EXCEPT ![o].status = st]
  /\ adjusted' = IF Cancelled(o)
                 THEN adjusted \cup {p \in Product : orders[o].units[p] > 0}
                 ELSE adjusted
  /\ UNCHANGED <<stock, listed>>

\* WorkerUpdateOrderStatus: one tap on an order card, with any status of the flow.
UpdateStatus(o, st) ==
  /\ Exists(o)
  /\ SetStatus(o, st)
  /\ Commit

\* AdminOrderStatus, first half: the order is read and must be in a fixable stage.
FixRead(j, o, to) ==
  /\ job[j] = Idle
  /\ Exists(o)
  /\ orders[o].status \in Fixable \ {to}
  /\ Remember(j, [at |-> "fix", order |-> o, to |-> to])
  /\ UNCHANGED <<orders, stock, listed, adjusted>>

\* AdminOrderStatus, second half: the stage is written.
FixWrite(j) ==
  /\ job[j].at = "fix"
  /\ SetStatus(job[j].order, job[j].to)
  /\ Done(j)

----------------------------------------------------------------------------
(* Payment *)

SetPaid(o, paid) ==
  /\ orders' = [orders EXCEPT ![o].paid = paid]
  /\ UNCHANGED <<stock, listed, adjusted>>

\* WorkerMarkPaid, WorkerMarkUnpaid, AdminOrderPayment.
MarkPaid(o, paid) ==
  /\ Exists(o)
  /\ SetPaid(o, paid)
  /\ Commit

\* WorkerPayTable lists the table's unpaid orders ...
PayRead(j, t) ==
  /\ job[j] = Idle
  /\ UnpaidAt(t) # {}
  /\ Remember(j, [at |-> "pay", due |-> UnpaidAt(t)])
  /\ UNCHANGED <<orders, stock, listed, adjusted>>

AfterPaying(j, o) ==
  IF job[j].due = {o} THEN Idle ELSE [at |-> "pay", due |-> job[j].due \ {o}]

\* ... and marks them paid one statement at a time, ...
PayOne(j, o) ==
  /\ job[j].at = "pay"
  /\ o \in job[j].due
  /\ SetPaid(o, TRUE)
  /\ job' = [Overtaken(job) EXCEPT ![j] = AfterPaying(j, o)]

\* ... going on to the next when a statement fails.
PaySkip(j, o) ==
  /\ job[j].at = "pay"
  /\ o \in job[j].due
  /\ Remember(j, AfterPaying(j, o))
  /\ UNCHANGED <<orders, stock, listed, adjusted>>

----------------------------------------------------------------------------
(* Cancelling *)

\* GuestCancelOrder reads the guest's own order.  A paid one that is not ready
\* yet can only be flagged for a refund, an unpaid one goes on to be cancelled.
GuestCancelRead(j, s, o) ==
  /\ job[j] = Idle
  /\ Exists(o)
  /\ orders[o].session = s
  /\ \/ /\ orders[o].paid
        /\ orders[o].status \in Cookable
        /\ Remember(j, [at |-> "refund", order |-> o])
     \/ /\ ~orders[o].paid
        /\ Remember(j, [at |-> "guest_cancel", order |-> o])
  /\ UNCHANGED <<orders, stock, listed, adjusted>>

\* db.RequestRefund.
RefundWrite(j) ==
  /\ job[j].at = "refund"
  /\ orders' = [orders EXCEPT ![job[j].order].refund = TRUE]
  /\ Done(j)
  /\ UNCHANGED <<stock, listed, adjusted>>

\* (Mutant: the cancellation does not look at the status.)
CancelBeginBlind(j, o) ==
  /\ job[j] = Idle
  /\ Exists(o)
  /\ Remember(j, [at |-> "cancel", order |-> o])
  /\ UNCHANGED <<orders, stock, listed, adjusted>>

\* db.CancelOrder opens its transaction and reads the status, for a member of
\* staff (WorkerCancelOrder, AdminOrderCancel) ...
CancelBegin(j, o) ==
  /\ job[j] = Idle
  /\ Exists(o)
  /\ orders[o].status \in Cookable
  /\ Remember(j, [at |-> "cancel", order |-> o])
  /\ UNCHANGED <<orders, stock, listed, adjusted>>

\* ... or for the guest, who gets ErrCannotCancel when it is too late.
GuestCancelBegin(j) ==
  /\ job[j].at = "guest_cancel"
  /\ Remember(j, IF orders[job[j].order].status \in Cookable
                 THEN [at |-> "cancel", order |-> job[j].order]
                 ELSE Idle)
  /\ UNCHANGED <<orders, stock, listed, adjusted>>

\* Counted products whose row still exists get the order's units back.
AfterRestock(u) ==
  [p \in Product |-> IF stock[p] = Unlimited \/ listed[p] = "deleted"
                     THEN stock[p] ELSE stock[p] + u[p]]

\* The restock, the new status and the commit, on an unchanged snapshot.
CancelCommit(j) ==
  /\ job[j].at = "cancel"
  /\ LET o == job[j].order IN
       /\ \A p \in Product : AfterRestock(orders[o].units)[p] <= MaxStock
       /\ stock' = AfterRestock(orders[o].units)
       /\ orders' = [orders EXCEPT ![o].status = "cancelled"]
  /\ Done(j)
  /\ UNCHANGED <<listed, adjusted>>

----------------------------------------------------------------------------
(* The menu's counts and switches *)

\* AdminUpdateProduct: the item editor writes the count that was typed.
EditProduct(p, n) ==
  /\ listed[p] # "deleted"
  /\ stock' = [stock EXCEPT ![p] = n]
  /\ adjusted' = adjusted \cup {p}
  /\ Commit
  /\ UNCHANGED <<orders, listed>>

\* (Mutant: the nudge does not stop at zero.)
NudgeReadUnclamped(j, p, delta) ==
  /\ job[j] = Idle
  /\ listed[p] # "deleted"
  /\ stock[p] # Unlimited
  /\ Remember(j, [at |-> "nudge", product |-> p, count |-> stock[p] + delta])
  /\ UNCHANGED <<orders, stock, listed, adjusted>>

\* AdminProductStock: the -/+ buttons read the count ...
NudgeRead(j, p, delta) ==
  /\ job[j] = Idle
  /\ listed[p] # "deleted"
  /\ stock[p] # Unlimited
  /\ stock[p] + delta <= MaxStock
  /\ Remember(j, [at |-> "nudge", product |-> p,
                  count |-> IF stock[p] + delta < 0 THEN 0 ELSE stock[p] + delta])
  /\ UNCHANGED <<orders, stock, listed, adjusted>>

\* ... and write back the sum of what they read and the step.
NudgeWrite(j) ==
  /\ job[j].at = "nudge"
  /\ LET p == job[j].product IN
       IF listed[p] = "deleted"
       THEN UNCHANGED <<stock, adjusted>>
       ELSE /\ stock' = [stock EXCEPT ![p] = job[j].count]
            /\ adjusted' = adjusted \cup {p}
  /\ Done(j)
  /\ UNCHANGED <<orders, listed>>

\* AdminToggleProduct and WorkerStockToggle read the switch ...
ToggleRead(j, p) ==
  /\ job[j] = Idle
  /\ listed[p] # "deleted"
  /\ Remember(j, [at |-> "toggle", product |-> p,
                  to |-> IF listed[p] = "shown" THEN "hidden" ELSE "shown"])
  /\ UNCHANGED <<orders, stock, listed, adjusted>>

\* ... and write its opposite.
ToggleWrite(j) ==
  /\ job[j].at = "toggle"
  /\ LET p == job[j].product IN
       listed' = IF listed[p] = "deleted" THEN listed
                 ELSE [listed EXCEPT ![p] = job[j].to]
  /\ Done(j)
  /\ UNCHANGED <<orders, stock, adjusted>>

\* AdminDeleteProduct refuses while an unserved order holds the product ...
DeleteRead(j, p) ==
  /\ job[j] = Idle
  /\ listed[p] # "deleted"
  /\ ~HasActiveOrders(p)
  /\ Remember(j, [at |-> "delete", product |-> p])
  /\ UNCHANGED <<orders, stock, listed, adjusted>>

\* ... and deletes the row in a later statement.
DeleteWrite(j) ==
  /\ job[j].at = "delete"
  /\ listed' = [listed EXCEPT ![job[j].product] = "deleted"]
  /\ Done(j)
  /\ UNCHANGED <<orders, stock, adjusted>>

----------------------------------------------------------------------------
(* Failures *)

\* A statement of the handler fails (another writer outside this module was
\* faster, the lock timed out): the handler answers 500 where it stands.
JobFails(j) ==
  /\ job[j].at \notin {"idle", "pay"}
  /\ Remember(j, Idle)
  /\ UNCHANGED <<orders, stock, listed, adjusted>>

\* The server restarts: the database stays, whatever was in flight is gone.
Restart ==
  /\ \E j \in Job : job[j] # Idle
  /\ job' = [j \in Job |-> Idle]
  /\ UNCHANGED <<orders, stock, listed, adjusted>>

----------------------------------------------------------------------------

Init ==
  /\ orders = [o \in OrderId |-> NoOrder]
  /\ stock = InitStock
  /\ listed = [p \in Product |-> "shown"]
  /\ job = [j \in Job |-> Idle]
  /\ adjusted = {}

Place ==
  \E o \in OrderId, s \in Session, t \in Table, u \in Basket, paid \in BOOLEAN :
    PlaceOrder(o, s, t, u, paid)

StaffStep ==
  \E o \in OrderId :
    \/ \E st \in OrderStatusFlow : UpdateStatus(o, st)
    \/ \E paid \in BOOLEAN : MarkPaid(o, paid)

HandlerStep(j) ==
  \/ \E o \in OrderId, to \in Fixable : FixRead(j, o, to)
  \/ FixWrite(j)
  \/ \E t \in Table : PayRead(j, t)
  \/ \E o \in OrderId : PayOne(j, o)
  \/ \E o \in OrderId : PaySkip(j, o)
  \/ \E s \in Session, o \in OrderId : GuestCancelRead(j, s, o)
  \/ RefundWrite(j)
  \/ \E o \in OrderId : CancelBegin(j, o)
  \/ GuestCancelBegin(j)
  \/ CancelCommit(j)
  \/ \E p \in Product, delta \in Delta : NudgeRead(j, p, delta)
  \/ NudgeWrite(j)
  \/ \E p \in Product : ToggleRead(j, p)
  \/ ToggleWrite(j)
  \/ \E p \in Product : DeleteRead(j, p)
  \/ DeleteWrite(j)
  \/ JobFails(j)

EditStep == \E p \in Product, n \in StockLevel : EditProduct(p, n)

\* Everything but the placing of orders, which module Ordering refines.
DeskStep ==
  \/ StaffStep
  \/ \E j \in Job : HandlerStep(j)
  \/ EditStep
  \/ Restart

Next == Place \/ DeskStep

Spec == Init /\ [][Next]_vars

----------------------------------------------------------------------------
(* Properties *)

\* Every variable keeps its shape.
DeskTypeOK ==
  /\ orders \in [OrderId -> Order \cup {NoOrder}]
  /\ stock \in [Product -> StockLevel]
  /\ listed \in [Product -> {"shown", "hidden", "deleted"}]
  /\ job \in [Job -> JobState]
  /\ adjusted \subseteq Product

\* A handler only remembers orders that exist, and the order a cancellation is
\* about to write is still pending or preparing, whatever staff, guest and
\* manager did since it was read: the check and the restock are one step
\* (db.CancelOrder, "so the status check and stock restore can't race").
StillTrue(x) ==
  /\ x.at \in {"guest_cancel", "refund", "cancel", "fix"} => Exists(x.order)
  /\ x.at = "pay" => \A o \in x.due : Exists(o)
  /\ x.at = "cancel" => orders[x.order].status \in Cookable

CancelSnapshotHolds == \A j \in Job : StillTrue(job[j])

\* What the kitchen has finished is never cancelled: an order that becomes
\* cancelled was pending or preparing right before (db.ErrCannotCancel).
CancelOnlyUncooked ==
  [][\A o \in OrderId :
       Live(o) /\ Cancelled(o)' => orders[o].status \in Cookable]_vars

\* A counted product becomes uncounted only when a manager types so: no sale,
\* restock or nudge ever lands on the sentinel -1 (the guard "stock >= ?" of
\* db.CreateOrder, the clamp at 0 of AdminProductStock).
OnlyEditorMakesUnlimited ==
  [][\A p \in Product :
       stock[p] # Unlimited /\ stock'[p] = Unlimited => EditProduct(p, Unlimited)]_vars

\* A cancelled order stays cancelled (OrderStatusCancelled is "a separate
\* terminal branch", models/models.go:607; "A cancelled or completed order
\* can't be moved.", AdminOrderStatus).
CancelledIsTerminal ==
  [][\A o \in OrderId : Cancelled(o) => Cancelled(o)']_vars

\* The desk implements the ledger: whatever handlers interleave, units move
\* between the shelf and the orders one whole order at a time.
Held ==
  [o \in OrderId |-> IF Live(o) THEN orders[o].units ELSE [p \in Product |-> 0]]

Ledger == INSTANCE StockLedger
            WITH left <- stock, held <- Held, Count <- StockLevel,
                 gone <- {p \in Product : listed[p] = "deleted"}

LedgerSpec == Ledger!Spec

\* No unit is lost, sold twice or given back twice (see StockLedger).
Conservation == Ledger!Conservation
=============================================================================
