------------------------------ MODULE Ordering ------------------------------
(* How guests order: scanning in and leaving, the in-memory carts that       *)
(* reserve stock, and the checkout that turns a cart into an order.          *)
(*                                                                           *)
(* Every request runs in a goroutine of its own.  It locks the cart store or *)
(* runs one SQL statement at a time, so the model gives each such access a   *)
(* step, and a slot of req holds what the request has learnt so far.  What   *)
(* the desk does to stock meanwhile is StockLedger's (see OrderDesk).        *)
EXTENDS Integers, FiniteSets, FiniteSetsExt

CONSTANTS
  Product, OrderId, Basket, InitStock, Count,  \* as in StockLedger
  Session,    \* guest sessions (phones)
  Table,
  Line,       \* cart lines: a product with one choice of ingredients
  ProductOf,  \* the product of each line
  Req,        \* requests that may be in flight at once
  NoOne,      \* the host of a free table
  MaxQty,     \* bound: units of one line in one cart
  MaxLeft     \* bound: no count grows past it

VARIABLES
  left, held, gone, adjusted,   \* the ledger
  hidden,    \* products switched off the menu
  host,      \* tables.host_session_id
  cart,      \* cart.Store: what each session's cart holds
  idle,      \* sessions whose cart nobody touched for cartTTL
  req        \* requests in flight

Ledger == INSTANCE StockLedger

ledgerVars == <<left, held, gone, adjusted>>
vars == <<left, held, gone, adjusted, hidden, host, cart, idle, req>>

Unlimited == Ledger!Unlimited

ASSUME OrderingAssumption ==
  /\ Ledger!LedgerConstants
  /\ ProductOf \in [Line -> Product]
  /\ NoOne \notin Session
  /\ MaxQty \in Nat /\ MaxLeft \in Nat
  /\ Count \subseteq Unlimited .. MaxLeft
  /\ \A p \in Product : InitStock[p] <= MaxLeft
  /\ IsFiniteSet(Req) /\ Req # {}

----------------------------------------------------------------------------
(* Carts *)

Cart == [Line -> 0 .. MaxQty]
EmptyCart == [l \in Line |-> 0]

LinesOf(p) == {l \in Line : ProductOf[l] = p}

\* cart.Store.ReservedQuantity: units of p in any cart, in any customisation,
\* each one named by its cart, its line and a number.
UnitsInCarts(p) ==
  UNION {{<<s, l>>} \X (1 .. cart[s][l]) : s \in Session, l \in LinesOf(p)}
Reserved(p) == Cardinality(UnitsInCarts(p))

\* The units of every product in a cart, all customisations together.
UnitsOf(c) == [p \in Product |-> MapThenSumSet(LAMBDA l : c[l], LinesOf(p))]

\* Every cart can become an order.
ASSUME BasketAssumption == \A c \in Cart : UnitsOf(c) \in Basket

\* A product a guest may put in a cart, or keep there.
Orderable(p) == p \notin hidden \cup gone

Hosts(s) == \E t \in Table : host[t] = s

----------------------------------------------------------------------------
(* Requests in flight *)

Free == [at |-> "free"]

ReqState ==
  {Free}
    \cup [at : {"add"}, session : Session, line : Line, seen : Unlimited .. MaxLeft]
    \cup [at : {"put"}, session : Session, line : Line]
    \cup [at : {"resolve"}, session : Session, table : Table, lines : Cart, shared : BOOLEAN]
    \cup [at : {"place"}, session : Session, table : Table, units : Basket]
    \cup [at : {"ordered", "ejected"}, session : Session]
    \cup [at : {"claim"}, session : Session, table : Table]
    \cup [at : {"move"}, from : Table, session : Session, table : Table]
    \cup [at : {"leave"}, from : Table]
    \cup [at : {"eject"}, from : Table, session : Session]

Put(r, state) == req' = [req EXCEPT ![r] = state]
Answer(r) == Put(r, Free)

\* A checkout's copy of a cart shares the slice of lines with the store until
\* the store lets go of that cart.
LetGo(requests, sessions) ==
  [r \in Req |-> IF requests[r].at = "resolve" /\ requests[r].session \in sessions
                 THEN [requests[r] EXCEPT !.shared = FALSE]
                 ELSE requests[r]]

\* cart.Store.Clear and the sweep drop whole carts.
DropCarts(sessions) ==
  /\ cart' = [s \in Session |-> IF s \in sessions THEN EmptyCart ELSE cart[s]]
  /\ idle' = idle \ sessions

----------------------------------------------------------------------------
(* Sitting down and leaving *)

\* Scan finds the table free.  A phone that hosts another one moves.
Scan(r, s, t) ==
  /\ req[r] = Free
  /\ host[t] = NoOne
  /\ \/ /\ ~Hosts(s)
        /\ Put(r, [at |-> "claim", session |-> s, table |-> t])
     \/ \E prev \in Table :
          /\ host[prev] = s
          /\ Put(r, [at |-> "move", from |-> prev, session |-> s, table |-> t])
  /\ UNCHANGED <<ledgerVars, hidden, host, cart, idle>>

\* db.ClaimTable does not ask whether the table is still free.
Claim(r) ==
  /\ req[r].at = "claim"
  /\ host' = [host EXCEPT ![req[r].table] = req[r].session]
  /\ Answer(r)
  /\ UNCHANGED <<ledgerVars, hidden, cart, idle>>

\* Leave clears the cart before it releases the table it read.
Leave(r, s, t) ==
  /\ req[r] = Free
  /\ host[t] = s
  /\ DropCarts({s})
  /\ req' = [LetGo(req, {s}) EXCEPT ![r] = [at |-> "leave", from |-> t]]
  /\ UNCHANGED <<ledgerVars, hidden, host>>

\* StaffReleaseTable and the idle-table sweep read a table and its host.
StaffRelease(r, t) ==
  /\ req[r] = Free
  /\ host[t] # NoOne
  /\ Put(r, [at |-> "eject", from |-> t, session |-> host[t]])
  /\ UNCHANGED <<ledgerVars, hidden, host, cart, idle>>

\* db.ReleaseTable, whoever hosts the table by now, and what comes after it.
Release(r) ==
  /\ req[r].at \in {"move", "leave", "eject"}
  /\ host' = [host EXCEPT ![req[r].from] = NoOne]
  /\ Put(r, CASE req[r].at = "move"  -> [at |-> "claim", session |-> req[r].session,
                                         table |-> req[r].table]
              [] req[r].at = "leave" -> Free
              [] req[r].at = "eject" -> [at |-> "ejected", session |-> req[r].session])
  /\ UNCHANGED <<ledgerVars, hidden, cart, idle>>

\* The cart of an ejected host is cleared last, as is that of a checkout.
Clear(r) ==
  /\ req[r].at \in {"ordered", "ejected"}
  /\ DropCarts({req[r].session})
  /\ req' = [LetGo(req, {req[r].session}) EXCEPT ![r] = Free]
  /\ UNCHANGED <<ledgerVars, hidden, host>>

----------------------------------------------------------------------------
(* Filling a cart *)

\* Add sees that the session hosts a table and what the shelf holds; nothing
\* later looks at the table again.
AddRead(r, s, l) ==
  /\ req[r] = Free
  /\ Hosts(s)
  /\ Orderable(ProductOf[l])
  /\ cart[s][l] + Cardinality({q \in Req : req[q].at \in {"add", "put"}
                                 /\ req[q].session = s /\ req[q].line = l}) < MaxQty
  /\ Put(r, [at |-> "add", session |-> s, line |-> l, seen |-> left[ProductOf[l]]])
  /\ UNCHANGED <<ledgerVars, hidden, host, cart, idle>>

\* (Mutant: the unit about to be added is not counted.)
SpareOffByOne(r) ==
  \/ req[r].seen = Unlimited
  \/ Reserved(ProductOf[req[r].line]) <= req[r].seen

\* A counted product must have one more unit than all carts hold.
Spare(r) ==
  \/ req[r].seen = Unlimited
  \/ Reserved(ProductOf[req[r].line]) + 1 <= req[r].seen

AddReserve(r) ==
  /\ req[r].at = "add"
  /\ Put(r, IF Spare(r)
            THEN [at |-> "put", session |-> req[r].session, line |-> req[r].line]
            ELSE Free)
  /\ UNCHANGED <<ledgerVars, hidden, host, cart, idle>>

\* cart.Store.Add.
AddPut(r) ==
  /\ req[r].at = "put"
  /\ cart' = [cart EXCEPT ![req[r].session][req[r].line] = @ + 1]
  /\ idle' = idle \ {req[r].session}
  /\ Answer(r)
  /\ UNCHANGED <<ledgerVars, hidden, host>>

\* (Mutant: a line below zero.)
RemoveUnclamped(s, l) ==
  /\ Hosts(s)
  /\ cart' = [cart EXCEPT ![s][l] = @ - 1]
  /\ idle' = idle \ {s}
  /\ UNCHANGED <<ledgerVars, hidden, host, req>>

\* cart.Store.Remove touches the cart even when the line is not there.
Remove(s, l) ==
  /\ Hosts(s)
  /\ cart' = [cart EXCEPT ![s][l] = IF @ = 0 THEN 0 ELSE @ - 1]
  /\ idle' = idle \ {s}
  /\ UNCHANGED <<ledgerVars, hidden, host, req>>

\* CartHandlers.Clear, the guest's "Cancel order" before checkout.
ClearCart(s) ==
  /\ Hosts(s)
  /\ DropCarts({s})
  /\ req' = LetGo(req, {s})
  /\ UNCHANGED <<ledgerVars, hidden, host>>

\* Lines whose product is off the menu.
Stale(s) == {l \in Line : cart[s][l] > 0 /\ ~Orderable(ProductOf[l])}

\* (Mutant: looking at a cart counts as touching it.)
SummaryTouches(s) ==
  /\ cart' = [cart EXCEPT ![s] = [l \in Line |-> IF l \in Stale(s) THEN 0 ELSE @[l]]]
  /\ idle' = idle \ {s}
  /\ req' = LetGo(req, {s})
  /\ UNCHANGED <<ledgerVars, hidden, host>>

\* Summary drops them, into a fresh slice; without any it touches nothing.
Summary(s) ==
  /\ Stale(s) # {}
  /\ cart' = [cart EXCEPT ![s] = [l \in Line |-> IF l \in Stale(s) THEN 0 ELSE @[l]]]
  /\ idle' = idle \ {s}
  /\ req' = LetGo(req, {s})
  /\ UNCHANGED <<ledgerVars, hidden, host>>

\* Half an hour passes without a touch ...
GoIdle(s) ==
  /\ s \notin idle
  /\ cart[s] # EmptyCart
  /\ idle' = idle \cup {s}
  /\ UNCHANGED <<ledgerVars, hidden, host, cart, req>>

\* ... and sweepIdleCarts drops every such cart.
SweepCarts ==
  /\ idle # {}
  /\ DropCarts(idle)
  /\ req' = LetGo(req, idle)
  /\ UNCHANGED <<ledgerVars, hidden, host>>

----------------------------------------------------------------------------
(* Checking out *)

\* Checkout finds the session's table and takes a copy of its cart.
CheckoutRead(r, s, t) ==
  /\ req[r] = Free
  /\ host[t] = s
  /\ cart[s] # EmptyCart
  /\ Put(r, [at |-> "resolve", session |-> s, table |-> t,
             lines |-> cart[s], shared |-> TRUE])
  /\ UNCHANGED <<ledgerVars, hidden, host, cart, idle>>

\* The quantities the copy shows when its lines are walked: those copied, or
\* those an Add or Remove has since written into the shared slice.
SeenLines(r) ==
  {c \in Cart : \A l \in Line :
     c[l] \in {req[r].lines[l]}
               \cup IF req[r].shared /\ req[r].lines[l] > 0
                    THEN {cart[req[r].session][l]} ELSE {}}

\* resolveCart checks each line on its own.
Purchasable(r, c) ==
  \A l \in Line : req[r].lines[l] > 0 =>
    /\ Orderable(ProductOf[l])
    /\ left[ProductOf[l]] = Unlimited \/ left[ProductOf[l]] >= c[l]

CheckoutResolve(r, c) ==
  /\ req[r].at = "resolve"
  /\ c \in SeenLines(r)
  /\ Put(r, IF Purchasable(r, c)
            THEN [at |-> "place", session |-> req[r].session,
                  table |-> req[r].table, units |-> UnitsOf(c)]
            ELSE Free)
  /\ UNCHANGED <<ledgerVars, hidden, host, cart, idle>>

\* db.CreateOrder sells all lines together ...
CheckoutPlace(r, o) ==
  /\ req[r].at = "place"
  /\ Ledger!Sell(o, req[r].units)
  /\ Put(r, [at |-> "ordered", session |-> req[r].session])
  /\ UNCHANGED <<hidden, host, cart, idle>>

\* ... or fails: sold out in the meantime, or the database was busy.
CheckoutFails(r) ==
  /\ req[r].at = "place"
  /\ Answer(r)
  /\ UNCHANGED <<ledgerVars, hidden, host, cart, idle>>

----------------------------------------------------------------------------
(* What the desk does meanwhile *)

DeskReturn(o) ==
  /\ \A p \in Product : left[p] + held[o][p] <= MaxLeft
  /\ Ledger!Return(o)
  /\ UNCHANGED <<hidden, host, cart, idle, req>>

DeskRecount(p, n) ==
  /\ Ledger!Recount(p, n)
  /\ UNCHANGED <<hidden, host, cart, idle, req>>

DeskWithdraw(p) ==
  /\ Ledger!Withdraw(p)
  /\ UNCHANGED <<hidden, host, cart, idle, req>>

DeskToggle(p) ==
  /\ hidden' = IF p \in hidden THEN hidden \ {p} ELSE hidden \cup {p}
  /\ UNCHANGED <<ledgerVars, host, cart, idle, req>>

\* The server restarts: carts and requests are gone, the database stays.
Restart ==
  /\ cart' = [s \in Session |-> EmptyCart]
  /\ idle' = {}
  /\ req' = [r \in Req |-> Free]
  /\ UNCHANGED <<ledgerVars, hidden, host>>

----------------------------------------------------------------------------

Init ==
  /\ Ledger!Init
  /\ hidden = {}
  /\ host = [t \in Table |-> NoOne]
  /\ cart = [s \in Session |-> EmptyCart]
  /\ idle = {}
  /\ req = [r \in Req |-> Free]

\* A request that started goes on to its next access.
Continue(r) ==
  \/ Claim(r)
  \/ Release(r)
  \/ Clear(r)
  \/ AddReserve(r)
  \/ AddPut(r)
  \/ \E c \in Cart : CheckoutResolve(r, c)
  \/ \E o \in OrderId : CheckoutPlace(r, o)
  \/ CheckoutFails(r)

Start(r) ==
  \/ \E s \in Session, t \in Table : Scan(r, s, t)
  \/ \E s \in Session, t \in Table : Leave(r, s, t)
  \/ \E t \in Table : StaffRelease(r, t)
  \/ \E s \in Session, l \in Line : AddRead(r, s, l)
  \/ \E s \in Session, t \in Table : CheckoutRead(r, s, t)

GuestStep(s) ==
  \/ \E l \in Line : Remove(s, l)
  \/ ClearCart(s)
  \/ Summary(s)
  \/ GoIdle(s)

DeskStep ==
  \/ \E o \in OrderId : DeskReturn(o)
  \/ \E p \in Product, n \in Count : DeskRecount(p, n)
  \/ \E p \in Product : DeskWithdraw(p)
  \/ \E p \in Product : DeskToggle(p)

Next ==
  \/ \E r \in Req : Start(r) \/ Continue(r)
  \/ \E s \in Session : GuestStep(s)
  \/ SweepCarts
  \/ DeskStep
  \/ Restart

\* Requests run to their end and the sweeper keeps ticking.  A guest without a
\* table can touch the cart only so often (by a late Add, by a Summary that
\* drops something): half an hour without a touch does come.
Fairness ==
  /\ \A r \in Req : WF_vars(Continue(r))
  /\ \A s \in Session : WF_vars(~Hosts(s) /\ GoIdle(s))
  /\ WF_vars(SweepCarts)

SafetySpec == Init /\ [][Next]_vars

Spec == SafetySpec /\ Fairness

----------------------------------------------------------------------------
(* Properties *)

\* Every variable keeps its shape.
OrderingTypeOK ==
  /\ left \in [Product -> Unlimited .. MaxLeft]
  /\ held \in [OrderId -> Basket \cup {Ledger!Nothing}]
  /\ gone \subseteq Product /\ hidden \subseteq Product /\ adjusted \subseteq Product
  /\ host \in [Table -> Session \cup {NoOne}]
  /\ cart \in [Session -> Cart]
  /\ idle \subseteq Session
  /\ req \in [Req -> ReqState]

\* The check in CartHandlers.Add and the reservation it leads to are not one
\* step, so carts may promise more than the shelf ever held; but never by more
\* units than there are requests between the two, less one.
CartsBounded ==
  \A p \in Product \ adjusted :
    InitStock[p] # Unlimited =>
      Reserved(p) <= InitStock[p] + Cardinality(Req) - 1

\* A cart whose guest hosts no table any more (a late Add, a scan that moved on)
\* does not hold stock back for ever: its guest sits down again or the cart is
\* emptied (cartTTL, "stop an abandoned cart from reserving stock").
OrphanReservationsEnd ==
  \A s \in Session :
    (cart[s] # EmptyCart /\ ~Hosts(s)) ~> (cart[s] = EmptyCart \/ Hosts(s))

\* With no request in flight, carts never hold more of a counted product than
\* there is ("two tables can never both win the last plate", README:54; Add
\* checks all carts, "otherwise two guests could each reserve the last unit at
\* the same time", handlers/cart.go:298).
LastPlateOnce ==
  \A p \in Product \ adjusted :
    InitStock[p] # Unlimited /\ (\A r \in Req : req[r] = Free) =>
      Reserved(p) <= InitStock[p]

\* A scan only ever claims a table that is free ("The first phone to scan it
\* becomes that table's host ... no race between two people's phones", README:48).
ClaimsFreeTable ==
  [][\A r \in Req : Claim(r) => host[req[r].table] \in {NoOne, req[r].session}]_vars

\* An order is placed for the table its guest hosts at that moment ("orders can
\* never land on a table the phone has left", Scan in handlers/table.go:136).
OrderOnHostedTable ==
  [][\A r \in Req, o \in OrderId :
       CheckoutPlace(r, o) => host[req[r].table] = req[r].session]_vars
=============================================================================
