---------------------------- MODULE Ordering_proofs ----------------------------
(* Carts keep their shape and never promise more of a counted product than   *)
(* there was, but for the requests that had already seen it: for every       *)
(* number of phones, tables, cart lines, orders and requests in flight.      *)
EXTENDS Ordering, FiniteSetTheorems, TLAPS

----------------------------------------------------------------------------
(* The inductive invariant *)

\* Requests on their way to put one more unit on a line.
Adding(s, l) ==
  {q \in Req : req[q].at \in {"add", "put"} /\ req[q].session = s /\ req[q].line = l}

\* Requests that have found a unit of p to spare and will take it.
Putting(p) == {q \in Req : req[q].at = "put" /\ ProductOf[req[q].line] = p}

\* The products that are counted, and whose count nobody overruled.
Counted == {p \in Product \ adjusted : InitStock[p] # Unlimited}

\* A cart has room for every unit on its way.
Room ==
  \A s \in Session, l \in Line : cart[s][l] + Cardinality(Adding(s, l)) <= MaxQty

\* The shelf never holds more than it started with.
Shelf == \A p \in Counted : left[p] \in 0 .. InitStock[p]

\* Nor did any request see more there, however long ago it looked.
SeenTrue ==
  \A r \in Req :
    req[r].at = "add" /\ ProductOf[req[r].line] \in Counted =>
      req[r].seen \in 0 .. InitStock[ProductOf[req[r].line]]

\* The units in carts and those on their way overshoot the shelf by less than
\* the number of requests: the last of them found one to spare.
Promised ==
  \A p \in Counted :
    /\ IsFiniteSet(UnitsInCarts(p))
    /\ Reserved(p) + Cardinality(Putting(p)) <= InitStock[p] + Cardinality(Req) - 1

Proved == INSTANCE StockLedger_proofs

OrderInv ==
  /\ OrderingTypeOK
  /\ Proved!LedgerInv
  /\ Room
  /\ Shelf
  /\ SeenTrue
  /\ Promised

----------------------------------------------------------------------------
(* Requests and carts *)

\* The fields of a request, by the access it stands before.
LEMMA ReqFields ==
  ASSUME NEW x \in ReqState
  PROVE  /\ x.at \in {"add", "put", "resolve", "place", "ordered", "ejected",
                      "claim", "move", "eject"} => x.session \in Session
         /\ x.at \in {"add", "put"} => x.line \in Line
         /\ x.at = "add" => x.seen \in Unlimited .. MaxLeft
         /\ x.at \in {"resolve", "place", "claim", "move"} => x.table \in Table
         /\ x.at \in {"move", "leave", "eject"} => x.from \in Table
         /\ x.at = "place" => x.units \in Basket
  BY DEF ReqState, Free

\* Letting go of shared slices leaves a request where it was.
LEMMA LetGoRow ==
  ASSUME req \in [Req -> ReqState], NEW sessions, NEW q \in Req
  PROVE  /\ LetGo(req, sessions)[q] \in ReqState
         /\ LetGo(req, sessions)[q].at = req[q].at
         /\ req[q].at # "resolve" => LetGo(req, sessions)[q] = req[q]
<1>1. req[q] \in ReqState
  OBVIOUS
<1>2. CASE req[q].at = "resolve"
  <2>1. req[q] \in [at : {"resolve"}, session : Session, table : Table, lines : Cart, shared : BOOLEAN]
    BY <1>1, <1>2 DEF ReqState, Free
  <2>2. [req[q] EXCEPT !.shared = FALSE] \in
          [at : {"resolve"}, session : Session, table : Table, lines : Cart, shared : BOOLEAN]
    BY <2>1
  <2>3. /\ [req[q] EXCEPT !.shared = FALSE] \in ReqState
        /\ [req[q] EXCEPT !.shared = FALSE].at = "resolve"
    BY <2>2 DEF ReqState
  <2>4. LetGo(req, sessions)[q] \in {req[q], [req[q] EXCEPT !.shared = FALSE]}
    BY DEF LetGo
  <2> QED
    BY <1>1, <1>2, <2>3, <2>4
<1>3. CASE req[q].at # "resolve"
  BY <1>1, <1>3 DEF LetGo
<1> QED
  BY <1>2, <1>3

\* The units of a product, in carts that may be those of the next state.
LineUnits(c, s, l) == {<<s, l>>} \X (1 .. c[s][l])
CartUnits(c, p) == UNION {LineUnits(c, s, l) : s \in Session, l \in LinesOf(p)}

\* Each is named by its cart, its line and a number.
LEMMA NamedUnit ==
  ASSUME NEW c, NEW p, NEW x
  PROVE  x \in CartUnits(c, p) <=>
           \E s \in Session, l \in LinesOf(p) : \E n \in 1 .. c[s][l] : x = <<<<s, l>>, n>>
<1>1. \A s, l : x \in LineUnits(c, s, l) <=> \E n \in 1 .. c[s][l] : x = <<<<s, l>>, n>>
  BY DEF LineUnits
<1>2. x \in CartUnits(c, p) <=> \E s \in Session, l \in LinesOf(p) : x \in LineUnits(c, s, l)
  <2> DEFINE rows == {LineUnits(c, s, l) : s \in Session, l \in LinesOf(p)}
  <2>1. CartUnits(c, p) = UNION rows
    BY DEF CartUnits
  <2>2. \A y : y \in rows <=> \E s \in Session, l \in LinesOf(p) : y = LineUnits(c, s, l)
    OBVIOUS
  <2> HIDE DEF rows
  <2>3. x \in UNION rows <=> \E y \in rows : x \in y
    OBVIOUS
  <2>4. ASSUME NEW s \in Session, NEW l \in LinesOf(p), x \in LineUnits(c, s, l)
        PROVE  x \in CartUnits(c, p)
    <3>1. LineUnits(c, s, l) \in rows
      BY <2>2
    <3> QED
      BY <2>1, <2>3, <2>4, <3>1
  <2>5. ASSUME x \in CartUnits(c, p)
        PROVE  \E s \in Session, l \in LinesOf(p) : x \in LineUnits(c, s, l)
    <3>1. PICK y \in rows : x \in y
      BY <2>1, <2>3, <2>5
    <3> QED
      BY <2>2, <3>1
  <2> QED
    BY <2>4, <2>5
<1> QED
  BY <1>1, <1>2, Zenon

\* UnitsInCarts counts those of the carts now.
LEMMA UnitsNow ==
  ASSUME NEW p
  PROVE  /\ UnitsInCarts(p) = CartUnits(cart, p)
         /\ UnitsInCarts(p)' = CartUnits(cart', p)
BY DEF UnitsInCarts, CartUnits, LineUnits, LinesOf

\* Carts that shrink release units and take none.
LEMMA FewerUnits ==
  ASSUME NEW p \in Product, NEW c \in [Session -> Cart], NEW d \in [Session -> Cart],
         \A s \in Session, l \in Line : d[s][l] <= c[s][l],
         IsFiniteSet(CartUnits(c, p))
  PROVE  /\ IsFiniteSet(CartUnits(d, p))
         /\ Cardinality(CartUnits(d, p)) <= Cardinality(CartUnits(c, p))
<1>1. \A s \in Session, l \in Line : c[s][l] \in Nat /\ d[s][l] \in Nat
  BY OrderingAssumption DEF Cart
<1>2. \A s \in Session, l \in Line : 1 .. d[s][l] \subseteq 1 .. c[s][l]
  BY <1>1
<1>3. ASSUME NEW x \in CartUnits(d, p)
      PROVE  x \in CartUnits(c, p)
  <2>1. PICK s \in Session, l \in LinesOf(p) : \E n \in 1 .. d[s][l] : x = <<<<s, l>>, n>>
    BY NamedUnit
  <2>2. \E n \in 1 .. c[s][l] : x = <<<<s, l>>, n>>
    BY <1>2, <2>1 DEF LinesOf
  <2> QED
    BY <2>2, NamedUnit
<1> QED
  BY <1>3, FS_Subset

\* Carts d are carts c with one more unit on a line.
OneMore(c, d, s, l) ==
  \A u \in Session, k \in Line :
    d[u][k] = IF u = s /\ k = l THEN c[s][l] + 1 ELSE c[u][k]

\* One more unit on a line is one more unit of that line's product, and of no
\* other.
LEMMA OneMoreUnit ==
  ASSUME NEW c \in [Session -> Cart], NEW s \in Session, NEW l \in Line,
         NEW d \in [Session -> Cart], OneMore(c, d, s, l),
         NEW p \in Product, IsFiniteSet(CartUnits(c, p))
  PROVE  /\ IsFiniteSet(CartUnits(d, p))
         /\ ProductOf[l] = p =>
              Cardinality(CartUnits(d, p)) = Cardinality(CartUnits(c, p)) + 1
         /\ ProductOf[l] # p => CartUnits(d, p) = CartUnits(c, p)
<1> DEFINE n == c[s][l]
           unit == <<<<s, l>>, n + 1>>
<1>1. \A u \in Session, k \in Line : c[u][k] \in Nat
  BY OrderingAssumption DEF Cart
<1>2. \A u \in Session, k \in Line :
        d[u][k] = IF u = s /\ k = l THEN n + 1 ELSE c[u][k]
  BY DEF OneMore
<1>3. \A m : m \in 1 .. (n + 1) <=> m \in 1 .. n \/ m = n + 1
  BY <1>1
<1>4. ASSUME NEW x \in CartUnits(d, p)
      PROVE  x \in CartUnits(c, p) \/ (ProductOf[l] = p /\ x = unit)
  <2>1. PICK u \in Session, k \in LinesOf(p) : \E m \in 1 .. d[u][k] : x = <<<<u, k>>, m>>
    BY NamedUnit
  <2>2. PICK m \in 1 .. d[u][k] : x = <<<<u, k>>, m>>
    BY <2>1
  <2>3. k \in Line /\ ProductOf[k] = p
    BY DEF LinesOf
  <2>4. CASE m \in 1 .. c[u][k]
    BY <2>2, <2>4, NamedUnit
  <2>5. CASE m \notin 1 .. c[u][k]
    BY <1>2, <1>3, <2>2, <2>3, <2>5
  <2> QED
    BY <2>4, <2>5
<1>5. ASSUME NEW x \in CartUnits(c, p)
      PROVE  x \in CartUnits(d, p)
  <2>1. PICK u \in Session, k \in LinesOf(p) : \E m \in 1 .. c[u][k] : x = <<<<u, k>>, m>>
    BY NamedUnit
  <2>2. \E m \in 1 .. d[u][k] : x = <<<<u, k>>, m>>
    BY <1>1, <1>2, <2>1 DEF LinesOf
  <2> QED
    BY <2>2, NamedUnit
<1>6. ASSUME ProductOf[l] = p
      PROVE  unit \in CartUnits(d, p)
  <2>1. n + 1 \in 1 .. d[s][l] /\ l \in LinesOf(p)
    BY <1>1, <1>2, <1>6 DEF LinesOf
  <2> QED
    BY <2>1, NamedUnit
<1>7. unit \notin CartUnits(c, p)
  <2> SUFFICES ASSUME unit \in CartUnits(c, p) PROVE FALSE
    OBVIOUS
  <2>1. PICK u \in Session, k \in LinesOf(p) : \E m \in 1 .. c[u][k] : unit = <<<<u, k>>, m>>
    BY NamedUnit
  <2>2. n + 1 \in 1 .. n
    BY <2>1
  <2> QED
    BY <1>1, <2>2
<1> HIDE DEF unit, n
<1>8. CASE ProductOf[l] = p
  <2>1. /\ IsFiniteSet(CartUnits(c, p) \cup {unit})
        /\ Cardinality(CartUnits(c, p) \cup {unit}) = Cardinality(CartUnits(c, p)) + 1
    BY <1>7, FS_AddElement
  <2>2. CartUnits(d, p) = CartUnits(c, p) \cup {unit}
    BY <1>4, <1>5, <1>6, <1>8
  <2> QED
    BY <1>8, <2>1, <2>2
<1>9. CASE ProductOf[l] # p
  <2>1. Cardinality(CartUnits(c, p)) \in Nat
    BY FS_CardinalityType
  <2>2. CartUnits(d, p) = CartUnits(c, p)
    BY <1>4, <1>5, <1>9
  <2> QED
    BY <1>9, <2>1, <2>2
<1> QED
  BY <1>8, <1>9

----------------------------------------------------------------------------
(* What a step does to carts and requests *)

\* No cart gains a unit, and no request takes a step towards one.
Shrinks ==
  /\ \A s \in Session, l \in Line : cart'[s][l] <= cart[s][l]
  /\ \A q \in Req : req'[q].at \in {"add", "put"} => req'[q] = req[q]

\* Shape of carts and requests after a step.
ShapeAfter == cart' \in [Session -> Cart] /\ req' \in [Req -> ReqState]

\* A request that goes on to something that is not a unit for a cart.
LEMMA PutShrinks ==
  ASSUME OrderingTypeOK, NEW r \in Req, NEW x \in ReqState, x.at \notin {"add", "put"},
         Put(r, x), UNCHANGED cart
  PROVE  ShapeAfter /\ Shrinks
<1>1. cart \in [Session -> Cart] /\ req \in [Req -> ReqState]
  BY DEF OrderingTypeOK
<1>2. req' \in [Req -> ReqState]
  BY <1>1 DEF Put
<1>3. \A q \in Req : req'[q].at \in {"add", "put"} => req'[q] = req[q]
  BY <1>1 DEF Put
<1>4. \A s \in Session, l \in Line : cart[s][l] \in Int
  BY <1>1, OrderingAssumption DEF Cart
<1> QED
  BY <1>1, <1>2, <1>3, <1>4 DEF ShapeAfter, Shrinks

\* A request whose slot is free.
LEMMA FreeReq == Free \in ReqState /\ Free.at \notin {"add", "put"}
BY DEF ReqState, Free

\* Dropping carts releases units; the slices they shared are let go.
LEMMA DropShrinks ==
  ASSUME OrderingTypeOK, NEW sessions, DropCarts(sessions),
         \A q \in Req :
           \/ req'[q] = LetGo(req, sessions)[q]
           \/ req'[q] \in ReqState /\ req'[q].at \notin {"add", "put"},
         req' = [q \in Req |-> req'[q]]
  PROVE  ShapeAfter /\ Shrinks
<1>1. cart \in [Session -> Cart] /\ req \in [Req -> ReqState]
  BY DEF OrderingTypeOK
<1>2. EmptyCart \in Cart /\ \A l \in Line : EmptyCart[l] = 0
  BY OrderingAssumption DEF EmptyCart, Cart
<1>3. cart' \in [Session -> Cart]
  BY <1>1, <1>2 DEF DropCarts
<1>4. \A s \in Session, l \in Line : cart[s][l] \in Nat
  BY <1>1, OrderingAssumption DEF Cart
<1>5. \A s \in Session : cart'[s] = EmptyCart \/ cart'[s] = cart[s]
  BY DEF DropCarts
<1>6. \A s \in Session, l \in Line : cart'[s][l] <= cart[s][l]
  BY <1>2, <1>4, <1>5
<1>7. \A q \in Req : req'[q] \in ReqState
  BY <1>1, LetGoRow
<1>8. \A q \in Req : req'[q].at \in {"add", "put"} => req'[q] = req[q]
  BY <1>1, LetGoRow
<1>9. req' \in [Req -> ReqState]
  BY <1>7
<1> QED
  BY <1>3, <1>6, <1>8, <1>9 DEF ShapeAfter, Shrinks

\* A cart that loses units of some lines.
LEMMA CartShrinks ==
  ASSUME OrderingTypeOK, NEW s \in Session, NEW c \in Cart,
         \A l \in Line : c[l] <= cart[s][l],
         cart' = [cart EXCEPT ![s] = c],
         req' = req \/ req' = LetGo(req, {s})
  PROVE  ShapeAfter /\ Shrinks
<1>1. cart \in [Session -> Cart] /\ req \in [Req -> ReqState]
  BY DEF OrderingTypeOK
<1>2. cart' \in [Session -> Cart]
  BY <1>1
<1>3. \A u \in Session, l \in Line : cart[u][l] \in Nat
  BY <1>1, OrderingAssumption DEF Cart
<1>4. \A u \in Session : cart'[u] = IF u = s THEN c ELSE cart[u]
  BY <1>1
<1>5. \A u \in Session, l \in Line : cart'[u][l] <= cart[u][l]
  BY <1>3, <1>4
<1>6. \A q \in Req : req'[q] \in ReqState
  BY <1>1, LetGoRow
<1>7. \A q \in Req : req'[q].at \in {"add", "put"} => req'[q] = req[q]
  BY <1>1, LetGoRow
<1>8. req' = [q \in Req |-> req'[q]]
  BY <1>1 DEF LetGo
<1>9. req' \in [Req -> ReqState]
  BY <1>6, <1>8
<1> QED
  BY <1>2, <1>5, <1>7, <1>9 DEF ShapeAfter, Shrinks

\* A request takes a step towards a unit in a cart.
AddStep ==
  \E r \in Req :
    \/ \E s \in Session, l \in Line : AddRead(r, s, l)
    \/ AddReserve(r) /\ Spare(r)
    \/ AddPut(r)

\* A request that starts reads the tables and the shelf, or drops a cart.
LEMMA StartMoves ==
  ASSUME OrderingTypeOK, NEW r \in Req, Start(r)
  PROVE  ShapeAfter /\ (Shrinks \/ AddStep)
<1>0. /\ cart \in [Session -> Cart] /\ req \in [Req -> ReqState]
      /\ left \in [Product -> Unlimited .. MaxLeft] /\ host \in [Table -> Session \cup {NoOne}]
  BY DEF OrderingTypeOK
<1>1. ASSUME NEW s \in Session, NEW t \in Table, Scan(r, s, t)
      PROVE  ShapeAfter /\ Shrinks
  <2>1. CASE Put(r, [at |-> "claim", session |-> s, table |-> t])
    <3>1. PICK x : x = [at |-> "claim", session |-> s, table |-> t]
      OBVIOUS
    <3>2. x \in ReqState /\ x.at = "claim"
      BY <3>1 DEF ReqState
    <3> QED
      BY <1>1, <2>1, <3>1, <3>2, PutShrinks DEF Scan
  <2>2. ASSUME NEW prev \in Table,
               Put(r, [at |-> "move", from |-> prev, session |-> s, table |-> t])
        PROVE  ShapeAfter /\ Shrinks
    <3>1. PICK x : x = [at |-> "move", from |-> prev, session |-> s, table |-> t]
      OBVIOUS
    <3>2. x \in ReqState /\ x.at = "move"
      BY <3>1 DEF ReqState
    <3> QED
      BY <1>1, <2>2, <3>1, <3>2, PutShrinks DEF Scan
  <2> QED
    BY <1>1, <2>1, <2>2 DEF Scan
<1>2. ASSUME NEW s \in Session, NEW t \in Table, Leave(r, s, t)
      PROVE  ShapeAfter /\ Shrinks
  <2>1. PICK x : x = [at |-> "leave", from |-> t]
    OBVIOUS
  <2>2. x \in ReqState /\ x.at = "leave"
    BY <2>1 DEF ReqState
  <2>3. req' = [LetGo(req, {s}) EXCEPT ![r] = x]
    BY <1>2, <2>1 DEF Leave
  <2>4. \A q \in Req : req'[q] = IF q = r THEN x ELSE LetGo(req, {s})[q]
    BY <2>3 DEF LetGo
  <2>5. req' = [q \in Req |-> req'[q]]
    BY <2>3 DEF LetGo
  <2> QED
    BY <1>2, <2>2, <2>4, <2>5, DropShrinks DEF Leave
<1>3. ASSUME NEW t \in Table, StaffRelease(r, t)
      PROVE  ShapeAfter /\ Shrinks
  <2>1. PICK x : x = [at |-> "eject", from |-> t, session |-> host[t]]
    OBVIOUS
  <2>2. host[t] \in Session
    BY <1>0, <1>3 DEF StaffRelease
  <2>3. x \in ReqState /\ x.at = "eject"
    BY <2>1, <2>2 DEF ReqState
  <2> QED
    BY <1>3, <2>1, <2>3, PutShrinks DEF StaffRelease
<1>4. ASSUME NEW s \in Session, NEW l \in Line, AddRead(r, s, l)
      PROVE  ShapeAfter /\ AddStep
  <2>1. PICK x : x = [at |-> "add", session |-> s, line |-> l, seen |-> left[ProductOf[l]]]
    OBVIOUS
  <2>2. left[ProductOf[l]] \in Unlimited .. MaxLeft
    BY <1>0, OrderingAssumption
  <2>3. x \in ReqState
    BY <2>1, <2>2 DEF ReqState
  <2>4. req' = [req EXCEPT ![r] = x] /\ cart' = cart
    BY <1>4, <2>1 DEF AddRead, Put
  <2> QED
    BY <1>0, <1>4, <2>3, <2>4 DEF ShapeAfter, AddStep
<1>5. ASSUME NEW s \in Session, NEW t \in Table, CheckoutRead(r, s, t)
      PROVE  ShapeAfter /\ Shrinks
  <2>1. PICK x : x = [at |-> "resolve", session |-> s, table |-> t,
                      lines |-> cart[s], shared |-> TRUE]
    OBVIOUS
  <2>2. cart[s] \in Cart
    BY <1>0
  <2>3. x \in ReqState /\ x.at = "resolve"
    BY <2>1, <2>2 DEF ReqState
  <2> QED
    BY <1>5, <2>1, <2>3, PutShrinks DEF CheckoutRead
<1> QED
  BY <1>1, <1>2, <1>3, <1>4, <1>5 DEF Start

\* One that goes on leaves the carts alone, clears one, or adds a unit.
LEMMA ContinueMoves ==
  ASSUME OrderingTypeOK, Room, NEW r \in Req, Continue(r)
  PROVE  ShapeAfter /\ (Shrinks \/ AddStep)
<1>0. /\ cart \in [Session -> Cart] /\ req \in [Req -> ReqState] /\ req[r] \in ReqState
      /\ host \in [Table -> Session \cup {NoOne}]
  BY DEF OrderingTypeOK
<1>1. CASE Claim(r) \/ CheckoutFails(r)
  BY <1>1, FreeReq, PutShrinks DEF Claim, CheckoutFails, Answer
<1>2. CASE Release(r)
  <2>1. CASE req[r].at = "move"
    <3>1. PICK x : x = [at |-> "claim", session |-> req[r].session, table |-> req[r].table]
      OBVIOUS
    <3>2. req[r].session \in Session /\ req[r].table \in Table
      BY <1>0, <2>1, ReqFields
    <3>3. x \in ReqState /\ x.at = "claim"
      BY <3>1, <3>2 DEF ReqState
    <3>4. Put(r, x)
      BY <1>2, <2>1, <3>1 DEF Release
    <3> QED
      BY <1>2, <3>3, <3>4, PutShrinks DEF Release
  <2>2. CASE req[r].at = "leave"
    <3>1. Put(r, Free)
      BY <1>2, <2>2 DEF Release
    <3> QED
      BY <1>2, <3>1, FreeReq, PutShrinks DEF Release
  <2>3. CASE req[r].at = "eject"
    <3>1. PICK x : x = [at |-> "ejected", session |-> req[r].session]
      OBVIOUS
    <3>2. req[r].session \in Session
      BY <1>0, <2>3, ReqFields
    <3>3. x \in ReqState /\ x.at = "ejected"
      BY <3>1, <3>2 DEF ReqState
    <3>4. Put(r, x)
      BY <1>2, <2>3, <3>1 DEF Release
    <3> QED
      BY <1>2, <3>3, <3>4, PutShrinks DEF Release
  <2> QED
    BY <1>2, <2>1, <2>2, <2>3 DEF Release
<1>3. CASE Clear(r)
  <2>1. PICK sessions : sessions = {req[r].session}
    OBVIOUS
  <2>2. req' = [LetGo(req, sessions) EXCEPT ![r] = Free] /\ DropCarts(sessions)
    BY <1>3, <2>1 DEF Clear
  <2>3. \A q \in Req : req'[q] = IF q = r THEN Free ELSE LetGo(req, sessions)[q]
    BY <2>2 DEF LetGo
  <2>4. req' = [q \in Req |-> req'[q]]
    BY <2>2 DEF LetGo
  <2> QED
    BY <2>2, <2>3, <2>4, FreeReq, DropShrinks
<1>4. CASE AddReserve(r)
  <2>1. CASE ~Spare(r)
    <3>1. Put(r, Free)
      BY <1>4, <2>1 DEF AddReserve
    <3> QED
      BY <1>4, <3>1, FreeReq, PutShrinks DEF AddReserve
  <2>2. CASE Spare(r)
    <3>1. PICK x : x = [at |-> "put", session |-> req[r].session, line |-> req[r].line]
      OBVIOUS
    <3>2. req[r].session \in Session /\ req[r].line \in Line
      BY <1>0, <1>4, ReqFields DEF AddReserve
    <3>3. x \in ReqState
      BY <3>1, <3>2 DEF ReqState
    <3>4. req' = [req EXCEPT ![r] = x] /\ cart' = cart
      BY <1>4, <2>2, <3>1 DEF AddReserve, Put
    <3> QED
      BY <1>0, <1>4, <2>2, <3>3, <3>4 DEF ShapeAfter, AddStep
  <2> QED
    BY <2>1, <2>2
<1>5. CASE AddPut(r)
  <2>1. PICK s \in Session, l \in Line : s = req[r].session /\ l = req[r].line
    BY <1>0, <1>5, ReqFields DEF AddPut
  <2>2. r \in Adding(s, l) /\ IsFiniteSet(Adding(s, l))
    <3>1. Adding(s, l) \subseteq Req
      BY DEF Adding
    <3>2. r \in Adding(s, l)
      BY <1>5, <2>1 DEF Adding, AddPut
    <3> QED
      BY <3>1, <3>2, OrderingAssumption, FS_Subset
  <2>3. Cardinality(Adding(s, l)) \in Nat /\ Cardinality(Adding(s, l)) # 0
    BY <2>2, FS_CardinalityType, FS_EmptySet
  <2>4. cart[s][l] \in 0 .. MaxQty /\ cart[s] \in Cart
    BY <1>0 DEF Cart
  <2>5. cart[s][l] + 1 \in 0 .. MaxQty
    BY <2>3, <2>4, OrderingAssumption DEF Room
  <2>6. cart' = [cart EXCEPT ![s][l] = cart[s][l] + 1]
    BY <1>5, <2>1 DEF AddPut
  <2>7. [cart[s] EXCEPT ![l] = cart[s][l] + 1] \in Cart
    BY <2>4, <2>5 DEF Cart
  <2>8. cart' \in [Session -> Cart]
    BY <1>0, <2>6, <2>7
  <2>9. req' \in [Req -> ReqState]
    BY <1>0, <1>5, FreeReq DEF AddPut, Answer, Put
  <2> QED
    BY <1>5, <2>8, <2>9 DEF ShapeAfter, AddStep
<1>6. ASSUME NEW c \in Cart, CheckoutResolve(r, c)
      PROVE  ShapeAfter /\ Shrinks
  <2>1. CASE ~Purchasable(r, c)
    <3>1. Put(r, Free)
      BY <1>6, <2>1 DEF CheckoutResolve
    <3> QED
      BY <1>6, <3>1, FreeReq, PutShrinks DEF CheckoutResolve
  <2>2. CASE Purchasable(r, c)
    <3>1. PICK x : x = [at |-> "place", session |-> req[r].session,
                        table |-> req[r].table, units |-> UnitsOf(c)]
      OBVIOUS
    <3>2. req[r].session \in Session /\ req[r].table \in Table
      BY <1>0, <1>6, ReqFields DEF CheckoutResolve
    <3>3. UnitsOf(c) \in Basket
      BY BasketAssumption
    <3>4. x \in ReqState /\ x.at = "place"
      BY <3>1, <3>2, <3>3 DEF ReqState
    <3>5. Put(r, x)
      BY <1>6, <2>2, <3>1 DEF CheckoutResolve
    <3> QED
      BY <1>6, <3>4, <3>5, PutShrinks DEF CheckoutResolve
  <2> QED
    BY <2>1, <2>2
<1>7. ASSUME NEW o \in OrderId, CheckoutPlace(r, o)
      PROVE  ShapeAfter /\ Shrinks
  <2>1. PICK x : x = [at |-> "ordered", session |-> req[r].session]
    OBVIOUS
  <2>2. req[r].session \in Session
    BY <1>0, <1>7, ReqFields DEF CheckoutPlace
  <2>3. x \in ReqState /\ x.at = "ordered"
    BY <2>1, <2>2 DEF ReqState
  <2> QED
    BY <1>7, <2>1, <2>3, PutShrinks DEF CheckoutPlace
<1> QED
  BY <1>1, <1>2, <1>3, <1>4, <1>5, <1>6, <1>7 DEF Continue

\* Guests only take units out of a cart, or drop it.
LEMMA GuestShrinks ==
  ASSUME OrderingTypeOK, NEW s \in Session, GuestStep(s)
  PROVE  ShapeAfter /\ Shrinks
<1>0. /\ cart \in [Session -> Cart] /\ req \in [Req -> ReqState] /\ cart[s] \in Cart
      /\ MaxQty \in Nat
  BY OrderingAssumption DEF OrderingTypeOK
<1>1. ASSUME NEW l \in Line, Remove(s, l)
      PROVE  ShapeAfter /\ Shrinks
  <2>1. PICK n : n = IF cart[s][l] = 0 THEN 0 ELSE cart[s][l] - 1
    OBVIOUS
  <2>2. cart[s][l] \in 0 .. MaxQty
    BY <1>0 DEF Cart
  <2>3. n \in 0 .. MaxQty /\ n <= cart[s][l]
    BY <1>0, <2>1, <2>2
  <2>4. PICK c : c = [cart[s] EXCEPT ![l] = n]
    OBVIOUS
  <2>5. c \in Cart /\ \A k \in Line : c[k] = IF k = l THEN n ELSE cart[s][k]
    BY <1>0, <2>3, <2>4 DEF Cart
  <2>6. \A k \in Line : cart[s][k] \in Int
    BY <1>0 DEF Cart
  <2>7. \A k \in Line : c[k] <= cart[s][k]
    BY <2>3, <2>5, <2>6
  <2>8. cart' = [cart EXCEPT ![s] = c] /\ req' = req
    BY <1>0, <1>1, <2>1, <2>4 DEF Remove
  <2> QED
    BY <2>5, <2>7, <2>8, CartShrinks
<1>2. CASE ClearCart(s)
  <2>1. PICK sessions : sessions = {s}
    OBVIOUS
  <2>2. req' = LetGo(req, sessions) /\ DropCarts(sessions)
    BY <1>2, <2>1 DEF ClearCart
  <2>3. req' = [q \in Req |-> req'[q]]
    BY <2>2 DEF LetGo
  <2> QED
    BY <2>2, <2>3, DropShrinks
<1>3. CASE Summary(s)
  <2>1. PICK c : c = [l \in Line |-> IF l \in Stale(s) THEN 0 ELSE cart[s][l]]
    OBVIOUS
  <2>2. \A l \in Line : c[l] = 0 \/ c[l] = cart[s][l]
    BY <2>1
  <2>3. c \in Cart
    BY <1>0, <2>1 DEF Cart
  <2>4. \A l \in Line : cart[s][l] \in Nat
    BY <1>0 DEF Cart
  <2>5. \A l \in Line : c[l] <= cart[s][l]
    BY <2>2, <2>4
  <2>6. cart' = [cart EXCEPT ![s] = c] /\ req' = LetGo(req, {s})
    BY <1>3, <2>1 DEF Summary
  <2> QED
    BY <2>3, <2>5, <2>6, CartShrinks
<1>4. CASE GoIdle(s)
  <2>1. UNCHANGED <<cart, req>>
    BY <1>4 DEF GoIdle
  <2>2. cart' = [cart EXCEPT ![s] = cart[s]]
    BY <1>0, <2>1
  <2>3. \A l \in Line : cart[s][l] <= cart[s][l]
    BY <1>0 DEF Cart
  <2> QED
    BY <1>0, <2>1, <2>2, <2>3, CartShrinks
<1> QED
  BY <1>1, <1>2, <1>3, <1>4 DEF GuestStep

\* Every step adds nothing to a cart and to what is on its way there, or is one
\* of the three that make an Add.
LEMMA StepMoves ==
  ASSUME OrderingTypeOK, Room, [Next]_vars
  PROVE  ShapeAfter /\ (Shrinks \/ AddStep)
<1>0. cart \in [Session -> Cart] /\ req \in [Req -> ReqState]
  BY DEF OrderingTypeOK
<1>1. CASE UNCHANGED <<cart, req>>
  <2>1. \A s \in Session, l \in Line : cart[s][l] \in Int
    BY <1>0, OrderingAssumption DEF Cart
  <2> QED
    BY <1>0, <1>1, <2>1 DEF ShapeAfter, Shrinks
<1>2. CASE SweepCarts
  <2>1. req' = LetGo(req, idle) /\ DropCarts(idle)
    BY <1>2 DEF SweepCarts
  <2>2. req' = [q \in Req |-> req'[q]]
    BY <2>1 DEF LetGo
  <2> QED
    BY <2>1, <2>2, DropShrinks
<1>3. CASE DeskStep
  BY <1>1, <1>3 DEF DeskStep, DeskReturn, DeskRecount, DeskWithdraw, DeskToggle
<1>4. CASE Restart
  <2>1. EmptyCart \in Cart /\ \A l \in Line : EmptyCart[l] = 0
    BY OrderingAssumption DEF EmptyCart, Cart
  <2>2. \A s \in Session : cart'[s] = EmptyCart
    BY <1>4 DEF Restart
  <2>3. cart' \in [Session -> Cart]
    BY <1>4, <2>1 DEF Restart
  <2>4. \A s \in Session, l \in Line : cart[s][l] \in Nat
    BY <1>0, OrderingAssumption DEF Cart
  <2>5. \A s \in Session, l \in Line : cart'[s][l] <= cart[s][l]
    BY <2>1, <2>2, <2>4
  <2>6. req' \in [Req -> ReqState] /\ \A q \in Req : req'[q].at \notin {"add", "put"}
    BY <1>4, FreeReq DEF Restart
  <2> QED
    BY <2>3, <2>5, <2>6 DEF ShapeAfter, Shrinks
<1>5. CASE UNCHANGED vars
  BY <1>1, <1>5 DEF vars
<1> QED
  BY <1>2, <1>3, <1>4, <1>5, StartMoves, ContinueMoves, GuestShrinks DEF Next

----------------------------------------------------------------------------
(* Tables, the menu and the ledger *)

\* Who hosts a table, what is hidden and which carts are idle keep their shape.
LEMMA RestKeepsShape ==
  ASSUME OrderingTypeOK, [Next]_vars
  PROVE  /\ host' \in [Table -> Session \cup {NoOne}]
         /\ idle' \subseteq Session
         /\ hidden' \subseteq Product
<1>0. /\ host \in [Table -> Session \cup {NoOne}] /\ idle \subseteq Session
      /\ hidden \subseteq Product /\ req \in [Req -> ReqState]
  BY DEF OrderingTypeOK
<1>1. ASSUME NEW r \in Req, Start(r)
      PROVE  UNCHANGED <<host, hidden>> /\ idle' \subseteq Session
  BY <1>0, <1>1
     DEF Start, Scan, Leave, StaffRelease, AddRead, CheckoutRead, DropCarts
<1>2. ASSUME NEW r \in Req, Continue(r)
      PROVE  /\ host' \in [Table -> Session \cup {NoOne}]
             /\ UNCHANGED hidden /\ idle' \subseteq Session
  <2>0. req[r] \in ReqState
    BY <1>0
  <2>1. CASE Claim(r)
    <3>1. req[r].session \in Session
      BY <2>0, <2>1, ReqFields DEF Claim
    <3> QED
      BY <1>0, <2>1, <3>1 DEF Claim
  <2>2. CASE Release(r)
    BY <1>0, <2>2 DEF Release
  <2>3. CASE Clear(r) \/ AddReserve(r) \/ AddPut(r) \/ CheckoutFails(r)
    BY <1>0, <2>3 DEF Clear, AddReserve, AddPut, CheckoutFails, DropCarts
  <2>4. CASE \/ \E c \in Cart : CheckoutResolve(r, c)
             \/ \E o \in OrderId : CheckoutPlace(r, o)
    BY <1>0, <2>4 DEF CheckoutResolve, CheckoutPlace
  <2> QED
    BY <1>2, <2>1, <2>2, <2>3, <2>4 DEF Continue
<1>3. ASSUME NEW s \in Session, GuestStep(s)
      PROVE  UNCHANGED <<host, hidden>> /\ idle' \subseteq Session
  BY <1>0, <1>3 DEF GuestStep, Remove, ClearCart, Summary, GoIdle, DropCarts
<1>4. CASE SweepCarts \/ Restart
  BY <1>0, <1>4 DEF SweepCarts, Restart, DropCarts
<1>5. CASE DeskStep
  BY <1>0, <1>5 DEF DeskStep, DeskReturn, DeskRecount, DeskWithdraw, DeskToggle
<1>6. CASE UNCHANGED vars
  BY <1>0, <1>6 DEF vars
<1> QED
  BY <1>0, <1>1, <1>2, <1>3, <1>4, <1>5, <1>6 DEF Next

\* What guests and the desk do to stock, the ledger allows.
LEMMA NextIsLedgerStep ==
  ASSUME OrderingTypeOK, [Next]_vars
  PROVE  [Ledger!Next]_(Ledger!ledgerVars)
<1>0. req \in [Req -> ReqState]
  BY DEF OrderingTypeOK
<1>1. ASSUME UNCHANGED ledgerVars
      PROVE  UNCHANGED Ledger!ledgerVars
  BY <1>1 DEF ledgerVars, Ledger!ledgerVars
<1>2. ASSUME NEW r \in Req, NEW o \in OrderId, CheckoutPlace(r, o)
      PROVE  Ledger!Next
  <2>1. req[r].units \in Basket
    BY <1>0, <1>2, ReqFields DEF CheckoutPlace
  <2> QED
    BY <1>2, <2>1 DEF CheckoutPlace, Ledger!Next
<1>3. CASE DeskStep
  <2>1. ASSUME NEW p \in Product, DeskToggle(p)
        PROVE  UNCHANGED ledgerVars
    BY <2>1 DEF DeskToggle
  <2> QED
    BY <1>1, <1>3, <2>1
       DEF DeskStep, DeskReturn, DeskRecount, DeskWithdraw, Ledger!Next
<1>4. ASSUME NEW r \in Req, Start(r)
      PROVE  UNCHANGED ledgerVars
  BY <1>4 DEF Start, Scan, Leave, StaffRelease, AddRead, CheckoutRead
<1>5. ASSUME NEW r \in Req, Continue(r)
      PROVE  UNCHANGED ledgerVars \/ \E o \in OrderId : CheckoutPlace(r, o)
  BY <1>5 DEF Continue, Claim, Release, Clear, AddReserve, AddPut, CheckoutResolve, CheckoutFails
<1>6. ASSUME NEW s \in Session, GuestStep(s)
      PROVE  UNCHANGED ledgerVars
  BY <1>6 DEF GuestStep, Remove, ClearCart, Summary, GoIdle
<1>7. CASE SweepCarts \/ Restart
  BY <1>1, <1>7 DEF SweepCarts, Restart
<1>8. CASE UNCHANGED vars
  BY <1>1, <1>8 DEF vars, ledgerVars
<1> QED
  BY <1>1, <1>2, <1>3, <1>4, <1>5, <1>6, <1>7, <1>8 DEF Next

----------------------------------------------------------------------------
(* The ledger's part of the invariant *)

\* What this module assumes of the ledger's constants.
LEMMA ProvedConstants == Proved!LedgerConstants
BY OrderingAssumption DEF Proved!LedgerConstants, Ledger!LedgerConstants,
                          Proved!Unlimited, Ledger!Unlimited

\* The ledger of the proofs is that of the model.
LEMMA SameLedger ==
  /\ Ledger!Init <=> Proved!Init
  /\ [Ledger!Next]_(Ledger!ledgerVars) <=> [Proved!Next]_(Proved!ledgerVars)
<1>1. Ledger!Init <=> Proved!Init
  BY DEF Ledger!Init, Proved!Init, Ledger!Nothing, Proved!Nothing
<1>2. Ledger!Next <=> Proved!Next
  BY DEF Ledger!Next, Ledger!Sell, Ledger!Return, Ledger!Revive, Ledger!Recount,
         Ledger!Withdraw, Ledger!Nothing, Ledger!Unlimited,
         Proved!Next, Proved!Sell, Proved!Return, Proved!Revive, Proved!Recount,
         Proved!Withdraw, Proved!Nothing, Proved!Unlimited
<1>3. UNCHANGED Ledger!ledgerVars <=> UNCHANGED Proved!ledgerVars
  BY DEF Ledger!ledgerVars, Proved!ledgerVars
<1> QED
  BY <1>1, <1>2, <1>3

\* The ledger of a venue conserves its units step by step.
LEMMA LedgerKept ==
  ASSUME OrderingTypeOK, Proved!LedgerInv, [Next]_vars
  PROVE  Proved!LedgerInv'
<1>1. [Proved!Next]_(Proved!ledgerVars)
  BY NextIsLedgerStep, SameLedger
<1> QED
  BY <1>1, ProvedConstants, Proved!LedgerStep

\* Counts and orders keep their shape.
LEMMA LedgerShape ==
  ASSUME OrderingTypeOK, Proved!LedgerInv, [Next]_vars
  PROVE  /\ left' \in [Product -> Unlimited .. MaxLeft]
         /\ held' \in [OrderId -> Basket \cup {Ledger!Nothing}]
         /\ gone' \subseteq Product /\ adjusted' \subseteq Product
<1>0. /\ left \in [Product -> Unlimited .. MaxLeft]
      /\ held \in [OrderId -> Basket \cup {Ledger!Nothing}]
      /\ gone \subseteq Product /\ adjusted \subseteq Product
      /\ req \in [Req -> ReqState]
  BY DEF OrderingTypeOK
<1>1. MaxLeft \in Nat /\ Unlimited = -1 /\ Ledger!Unlimited = -1
  BY OrderingAssumption DEF Unlimited, Ledger!Unlimited
<1>2. Basket \subseteq [Product -> Nat]
  BY OrderingAssumption DEF Ledger!LedgerConstants
<1>3. ASSUME NEW o \in OrderId, NEW u \in Basket, Ledger!Sell(o, u)
      PROVE  /\ left' \in [Product -> Unlimited .. MaxLeft]
             /\ held' \in [OrderId -> Basket \cup {Ledger!Nothing}]
             /\ UNCHANGED <<gone, adjusted>>
  <2>1. ASSUME NEW p \in Product
        PROVE  (IF left[p] = Ledger!Unlimited THEN left[p] ELSE left[p] - u[p])
                 \in Unlimited .. MaxLeft
    <3>1. u[p] \in Nat /\ left[p] \in -1 .. MaxLeft
      BY <1>0, <1>1, <1>2
    <3>2. u[p] > 0 => left[p] = -1 \/ left[p] >= u[p]
      BY <1>1, <1>3 DEF Ledger!Sell
    <3> QED
      BY <1>1, <3>1, <3>2
  <2> QED
    BY <1>0, <1>3, <2>1 DEF Ledger!Sell
<1>4. ASSUME NEW o \in OrderId, DeskReturn(o)
      PROVE  /\ left' \in [Product -> Unlimited .. MaxLeft]
             /\ held' \in [OrderId -> Basket \cup {Ledger!Nothing}]
             /\ UNCHANGED <<gone, adjusted>>
  <2>0. Ledger!Return(o) /\ \A p \in Product : left[p] + held[o][p] <= MaxLeft
    BY <1>4 DEF DeskReturn
  <2>1. ASSUME NEW p \in Product
        PROVE  (IF left[p] = Ledger!Unlimited \/ p \in gone
                THEN left[p] ELSE left[p] + held[o][p]) \in Unlimited .. MaxLeft
    <3>1. held[o][p] \in Nat /\ left[p] \in -1 .. MaxLeft
      BY <1>0, <1>1, <1>2 DEF Ledger!Nothing
    <3> QED
      BY <1>1, <2>0, <3>1
  <2> QED
    BY <1>0, <2>0, <2>1 DEF Ledger!Return
<1>5. ASSUME NEW p \in Product, NEW n \in Count, Ledger!Recount(p, n)
      PROVE  /\ left' \in [Product -> Unlimited .. MaxLeft]
             /\ UNCHANGED <<held, gone>> /\ adjusted' \subseteq Product
  BY <1>0, <1>5, OrderingAssumption DEF Ledger!Recount
<1>6. ASSUME NEW p \in Product, Ledger!Withdraw(p)
      PROVE  UNCHANGED <<left, held, adjusted>> /\ gone' \subseteq Product
  BY <1>0, <1>6 DEF Ledger!Withdraw
<1>7. ASSUME NEW r \in Req, Continue(r)
      PROVE  \/ UNCHANGED ledgerVars
             \/ \E o \in OrderId, u \in Basket : Ledger!Sell(o, u)
  <2>1. ASSUME NEW o \in OrderId, CheckoutPlace(r, o)
        PROVE  \E u \in Basket : Ledger!Sell(o, u)
    <3>1. req[r].units \in Basket
      BY <1>0, <2>1, ReqFields DEF CheckoutPlace
    <3> QED
      BY <2>1, <3>1 DEF CheckoutPlace
  <2> QED
    BY <1>7, <2>1 DEF Continue, Claim, Release, Clear, AddReserve, AddPut,
                      CheckoutResolve, CheckoutFails
<1>8. ASSUME UNCHANGED ledgerVars
      PROVE  /\ left' \in [Product -> Unlimited .. MaxLeft]
             /\ held' \in [OrderId -> Basket \cup {Ledger!Nothing}]
             /\ gone' \subseteq Product /\ adjusted' \subseteq Product
  BY <1>0, <1>8 DEF ledgerVars
<1>9. CASE DeskStep
  <2>1. ASSUME NEW p \in Product, DeskToggle(p)
        PROVE  UNCHANGED ledgerVars
    BY <2>1 DEF DeskToggle
  <2> QED
    BY <1>0, <1>4, <1>5, <1>6, <1>8, <1>9, <2>1 DEF DeskStep, DeskRecount, DeskWithdraw
<1>10. ASSUME NEW r \in Req, Start(r)
       PROVE  UNCHANGED ledgerVars
  BY <1>10 DEF Start, Scan, Leave, StaffRelease, AddRead, CheckoutRead
<1>11. ASSUME NEW s \in Session, GuestStep(s)
       PROVE  UNCHANGED ledgerVars
  BY <1>11 DEF GuestStep, Remove, ClearCart, Summary, GoIdle
<1>12. CASE SweepCarts \/ Restart \/ UNCHANGED vars
  BY <1>8, <1>12 DEF SweepCarts, Restart, vars, ledgerVars
<1> QED
  BY <1>0, <1>3, <1>7, <1>8, <1>9, <1>10, <1>11, <1>12 DEF Next

\* Once overruled, a count stays overruled.
LEMMA CountedShrinks ==
  ASSUME OrderingTypeOK, [Next]_vars
  PROVE  Counted' \subseteq Counted
<1>1. adjusted \subseteq adjusted'
  BY NextIsLedgerStep
     DEF Ledger!Next, Ledger!ledgerVars, Ledger!Sell, Ledger!Return, Ledger!Revive,
         Ledger!Recount, Ledger!Withdraw
<1> QED
  BY <1>1 DEF Counted

\* A product that has left the menu keeps the count it left with.
LEMMA GoneStays ==
  ASSUME OrderingTypeOK, [Next]_vars, NEW p \in Counted', p \in gone'
  PROVE  left'[p] = left[p]
<1>0. /\ left \in [Product -> Unlimited .. MaxLeft] /\ p \in Product /\ p \notin adjusted'
      /\ Ledger!Unlimited = -1 /\ Unlimited = -1 /\ MaxLeft \in Nat
  BY OrderingAssumption DEF OrderingTypeOK, Counted, Unlimited, Ledger!Unlimited
<1>1. left[p] \in Int
  BY <1>0
<1>2. ASSUME NEW o \in OrderId, NEW u \in Basket, Ledger!Sell(o, u)
      PROVE  left'[p] = left[p]
  <2>1. u[p] \in Nat
    BY <1>0, OrderingAssumption DEF Ledger!LedgerConstants
  <2>2. ~(u[p] > 0)
    BY <1>0, <1>2 DEF Ledger!Sell
  <2>3. left'[p] = left[p] \/ left'[p] = left[p] - u[p]
    BY <1>0, <1>2 DEF Ledger!Sell
  <2> QED
    BY <1>1, <2>1, <2>2, <2>3
<1>3. ASSUME NEW o \in OrderId, Ledger!Return(o)
      PROVE  left'[p] = left[p]
  BY <1>0, <1>3 DEF Ledger!Return
<1>4. ASSUME NEW o \in OrderId, NEW u \in Basket, Ledger!Revive(o, u)
      PROVE  left'[p] = left[p]
  BY <1>4 DEF Ledger!Revive
<1>5. ASSUME NEW q \in Product, NEW n \in Count, Ledger!Recount(q, n)
      PROVE  left'[p] = left[p]
  BY <1>0, <1>5 DEF Ledger!Recount
<1>6. ASSUME NEW q \in Product, Ledger!Withdraw(q)
      PROVE  left'[p] = left[p]
  BY <1>6 DEF Ledger!Withdraw
<1> QED
  BY <1>2, <1>3, <1>4, <1>5, <1>6, NextIsLedgerStep DEF Ledger!Next, Ledger!ledgerVars

\* The shelf stays below what it started with, because what is not there is in
\* orders.
LEMMA ShelfStep ==
  ASSUME OrderInv, [Next]_vars
  PROVE  Shelf'
<1> SUFFICES ASSUME NEW p \in Counted' PROVE left'[p] \in 0 .. InitStock[p]
  BY DEF Shelf, Counted
<1>1. /\ p \in Counted /\ p \in Product /\ InitStock[p] # Unlimited /\ p \notin adjusted'
  BY CountedShrinks DEF OrderInv, Counted
<1>2. CASE p \in gone'
  BY <1>1, <1>2, GoneStays DEF OrderInv, Shelf
<1>3. CASE p \notin gone'
  <2>1. Proved!LedgerInv'
    BY LedgerKept DEF OrderInv
  <2>2. InitStock[p] # Proved!Unlimited
    BY <1>1 DEF Proved!Unlimited, Unlimited, Ledger!Unlimited
  <2>3. /\ left'[p] \in Int /\ left'[p] >= 0
        /\ Proved!IsFiniteSet(Proved!Units(p)')
        /\ left'[p] + Proved!Cardinality(Proved!Units(p)') = InitStock[p]
    BY <1>1, <1>3, <2>1, <2>2 DEF Proved!LedgerInv
  <2>4. Proved!Cardinality(Proved!Units(p)') \in Nat
    BY <2>3, Proved!FS_CardinalityType
  <2> QED
    BY <2>3, <2>4
<1> QED
  BY <1>2, <1>3

----------------------------------------------------------------------------
(* What is promised *)

\* Sets of requests are finite, and never larger than all of them.
LEMMA SomeRequests ==
  ASSUME NEW S \in SUBSET Req, NEW T \in SUBSET S
  PROVE  /\ IsFiniteSet(S) /\ Cardinality(S) \in Nat
         /\ Cardinality(T) \in Nat /\ Cardinality(T) <= Cardinality(S)
         /\ Cardinality(S) <= Cardinality(Req) /\ Cardinality(Req) \in Nat
<1>1. IsFiniteSet(S) /\ Cardinality(S) <= Cardinality(Req)
  BY OrderingAssumption, FS_Subset
<1>2. IsFiniteSet(T) /\ Cardinality(T) <= Cardinality(S)
  BY <1>1, FS_Subset
<1> QED
  BY <1>1, <1>2, OrderingAssumption, FS_CardinalityType

\* With one request more or less, there is one more or less of them.
LEMMA OneRequest ==
  ASSUME NEW S \in SUBSET Req, NEW r \in Req
  PROVE  /\ r \notin S => Cardinality(S \cup {r}) = Cardinality(S) + 1
         /\ r \in S => Cardinality(S \ {r}) = Cardinality(S) - 1
<1>1. IsFiniteSet(S)
  BY SomeRequests
<1> QED
  BY <1>1, FS_AddElement, FS_RemoveElement

\* What the three steps of an Add do to the request and to the cart.
LEMMA AddMoves ==
  ASSUME OrderingTypeOK, NEW r \in Req
  PROVE  /\ \A s \in Session, l \in Line : AddRead(r, s, l) =>
              /\ req[r] = Free /\ cart' = cart
              /\ \A q \in Req : q # r => req'[q] = req[q]
              /\ req'[r].at = "add" /\ req'[r].session = s /\ req'[r].line = l
              /\ req'[r].seen = left[ProductOf[l]]
              /\ cart[s][l] + Cardinality(Adding(s, l)) < MaxQty
         /\ AddReserve(r) /\ Spare(r) =>
              /\ req[r].at = "add" /\ cart' = cart
              /\ \A q \in Req : q # r => req'[q] = req[q]
              /\ req'[r].at = "put" /\ req'[r].session = req[r].session
              /\ req'[r].line = req[r].line
         /\ AddPut(r) =>
              /\ req[r].at = "put" /\ req'[r].at = "free"
              /\ \A q \in Req : q # r => req'[q] = req[q]
              /\ cart' = [cart EXCEPT ![req[r].session][req[r].line] = @ + 1]
<1>0. req \in [Req -> ReqState]
  BY DEF OrderingTypeOK
<1>1. ASSUME NEW s \in Session, NEW l \in Line, AddRead(r, s, l)
      PROVE  /\ req[r] = Free /\ cart' = cart
             /\ \A q \in Req : q # r => req'[q] = req[q]
             /\ req'[r].at = "add" /\ req'[r].session = s /\ req'[r].line = l
             /\ req'[r].seen = left[ProductOf[l]]
             /\ cart[s][l] + Cardinality(Adding(s, l)) < MaxQty
  <2>1. PICK x : x = [at |-> "add", session |-> s, line |-> l, seen |-> left[ProductOf[l]]]
    OBVIOUS
  <2>2. req' = [req EXCEPT ![r] = x]
    BY <1>1, <2>1 DEF AddRead, Put
  <2> QED
    BY <1>0, <1>1, <2>1, <2>2 DEF AddRead, Adding
<1>2. ASSUME AddReserve(r), Spare(r)
      PROVE  /\ req[r].at = "add" /\ cart' = cart
             /\ \A q \in Req : q # r => req'[q] = req[q]
             /\ req'[r].at = "put" /\ req'[r].session = req[r].session
             /\ req'[r].line = req[r].line
  <2>1. PICK x : x = [at |-> "put", session |-> req[r].session, line |-> req[r].line]
    OBVIOUS
  <2>2. req' = [req EXCEPT ![r] = x]
    BY <1>2, <2>1 DEF AddReserve, Put
  <2> QED
    BY <1>0, <1>2, <2>1, <2>2 DEF AddReserve
<1>3. ASSUME AddPut(r)
      PROVE  /\ req[r].at = "put" /\ req'[r].at = "free"
             /\ \A q \in Req : q # r => req'[q] = req[q]
             /\ cart' = [cart EXCEPT ![req[r].session][req[r].line] = @ + 1]
  BY <1>0, <1>3 DEF AddPut, Answer, Put, Free
<1> QED
  BY <1>1, <1>2, <1>3

\* No cart overflows: what is on its way was counted when it set out.
LEMMA RoomStep ==
  ASSUME OrderInv, [Next]_vars
  PROVE  Room'
<1> SUFFICES ASSUME NEW s \in Session, NEW l \in Line
             PROVE  cart'[s][l] + Cardinality(Adding(s, l)') <= MaxQty
  BY DEF Room, Adding
<1>0. /\ OrderingTypeOK /\ Room /\ ShapeAfter
      /\ req \in [Req -> ReqState] /\ cart \in [Session -> Cart] /\ cart' \in [Session -> Cart]
      /\ MaxQty \in Nat
  BY StepMoves, OrderingAssumption DEF OrderInv, OrderingTypeOK, ShapeAfter
<1>1. cart[s][l] \in Nat /\ cart'[s][l] \in Nat
  BY <1>0 DEF Cart
<1>2. cart[s][l] + Cardinality(Adding(s, l)) <= MaxQty
  BY <1>0 DEF Room
<1>3. Adding(s, l) \subseteq Req /\ Adding(s, l)' \subseteq Req
  BY DEF Adding
<1>4. Cardinality(Adding(s, l)) \in Nat /\ Cardinality(Adding(s, l)') \in Nat
  BY <1>3, SomeRequests
<1>5. ASSUME Adding(s, l)' \subseteq Adding(s, l), cart'[s][l] <= cart[s][l]
      PROVE  cart'[s][l] + Cardinality(Adding(s, l)') <= MaxQty
  <2>1. Cardinality(Adding(s, l)') <= Cardinality(Adding(s, l))
    BY <1>3, <1>5, SomeRequests
  <2> QED
    BY <1>0, <1>1, <1>2, <1>4, <1>5, <2>1
<1>6. CASE Shrinks
  <2>1. Adding(s, l)' \subseteq Adding(s, l)
    BY <1>6 DEF Shrinks, Adding
  <2> QED
    BY <1>5, <1>6, <2>1 DEF Shrinks
<1>7. ASSUME NEW r \in Req, NEW u \in Session, NEW k \in Line, AddRead(r, u, k)
      PROVE  cart'[s][l] + Cardinality(Adding(s, l)') <= MaxQty
  <2>1. /\ req[r] = Free /\ cart' = cart
        /\ \A q \in Req : q # r => req'[q] = req[q]
        /\ req'[r].session = u /\ req'[r].line = k
        /\ cart[u][k] + Cardinality(Adding(u, k)) < MaxQty
    BY <1>0, <1>7, AddMoves
  <2>2. CASE s = u /\ l = k
    <3>1. r \notin Adding(s, l)
      BY <2>1 DEF Adding, Free
    <3>2. Adding(s, l)' \subseteq Adding(s, l) \cup {r}
      BY <2>1 DEF Adding
    <3>3. Adding(s, l) \cup {r} \in SUBSET Req
      BY <1>3
    <3>4. Cardinality(Adding(s, l) \cup {r}) = Cardinality(Adding(s, l)) + 1
      BY <1>3, <3>1, OneRequest
    <3>5. Cardinality(Adding(s, l)') <= Cardinality(Adding(s, l)) + 1
      BY <3>2, <3>3, <3>4, SomeRequests
    <3> QED
      BY <1>0, <1>1, <1>4, <2>1, <2>2, <3>5
  <2>3. CASE ~(s = u /\ l = k)
    <3>1. Adding(s, l)' \subseteq Adding(s, l)
      BY <2>1, <2>3 DEF Adding
    <3> QED
      BY <1>1, <1>5, <2>1, <3>1
  <2> QED
    BY <2>2, <2>3
<1>8. ASSUME NEW r \in Req, AddReserve(r), Spare(r)
      PROVE  cart'[s][l] + Cardinality(Adding(s, l)') <= MaxQty
  <2>1. /\ req[r].at = "add" /\ cart' = cart
        /\ \A q \in Req : q # r => req'[q] = req[q]
        /\ req'[r].session = req[r].session /\ req'[r].line = req[r].line
    BY <1>0, <1>8, AddMoves
  <2>2. Adding(s, l)' \subseteq Adding(s, l)
    BY <2>1 DEF Adding
  <2> QED
    BY <1>1, <1>5, <2>1, <2>2
<1>9. ASSUME NEW r \in Req, AddPut(r)
      PROVE  cart'[s][l] + Cardinality(Adding(s, l)') <= MaxQty
  <2>1. /\ req[r].at = "put" /\ req'[r].at = "free"
        /\ \A q \in Req : q # r => req'[q] = req[q]
        /\ cart' = [cart EXCEPT ![req[r].session][req[r].line] = @ + 1]
    BY <1>0, <1>9, AddMoves
  <2>2. Adding(s, l)' \subseteq Adding(s, l) \ {r}
    BY <2>1 DEF Adding
  <2>3. PICK u \in Session, k \in Line : u = req[r].session /\ k = req[r].line
    BY <1>0, <2>1, ReqFields
  <2>4. cart'[s][l] = IF s = u /\ l = k THEN cart[s][l] + 1 ELSE cart[s][l]
    BY <1>0, <2>1, <2>3 DEF Cart
  <2>5. CASE s = u /\ l = k
    <3>1. r \in Adding(s, l)
      BY <2>1, <2>3, <2>5 DEF Adding
    <3>2. Cardinality(Adding(s, l) \ {r}) = Cardinality(Adding(s, l)) - 1
      BY <1>3, <3>1, OneRequest
    <3>3. Cardinality(Adding(s, l)') <= Cardinality(Adding(s, l)) - 1
      BY <1>3, <2>2, <3>2, SomeRequests
    <3> QED
      BY <1>0, <1>1, <1>2, <1>4, <2>4, <2>5, <3>3
  <2>6. CASE ~(s = u /\ l = k)
    BY <1>1, <1>5, <2>2, <2>4, <2>6
  <2> QED
    BY <2>5, <2>6
<1> QED
  BY <1>0, <1>6, <1>7, <1>8, <1>9, StepMoves DEF AddStep

\* What a request saw of a shelf was never more than the shelf started with.
LEMMA SeenStep ==
  ASSUME OrderInv, [Next]_vars
  PROVE  SeenTrue'
<1> SUFFICES ASSUME NEW q \in Req, req'[q].at = "add", ProductOf[req'[q].line] \in Counted'
             PROVE  req'[q].seen \in 0 .. InitStock[ProductOf[req'[q].line]]
  BY DEF SeenTrue, Counted
<1>0. /\ OrderingTypeOK /\ Room /\ SeenTrue /\ Shelf
      /\ ProductOf[req'[q].line] \in Counted
  BY CountedShrinks DEF OrderInv
<1>1. ASSUME req'[q] = req[q]
      PROVE  req'[q].seen \in 0 .. InitStock[ProductOf[req'[q].line]]
  BY <1>0, <1>1 DEF SeenTrue
<1>2. CASE Shrinks
  BY <1>1, <1>2 DEF Shrinks
<1>3. ASSUME NEW r \in Req, NEW s \in Session, NEW l \in Line, AddRead(r, s, l)
      PROVE  req'[q].seen \in 0 .. InitStock[ProductOf[req'[q].line]]
  <2>1. /\ \A k \in Req : k # r => req'[k] = req[k]
        /\ req'[r].line = l /\ req'[r].seen = left[ProductOf[l]]
    BY <1>0, <1>3, AddMoves
  <2> QED
    BY <1>0, <1>1, <2>1 DEF Shelf
<1>4. ASSUME NEW r \in Req, (AddReserve(r) /\ Spare(r)) \/ AddPut(r)
      PROVE  req'[q] = req[q]
  BY <1>0, <1>4, AddMoves
<1> QED
  BY <1>0, <1>1, <1>2, <1>3, <1>4, StepMoves DEF AddStep

\* The last request that found a unit to spare counted all that were in carts.
LEMMA PromisedStep ==
  ASSUME OrderInv, [Next]_vars
  PROVE  Promised'
<1> SUFFICES ASSUME NEW p \in Counted'
             PROVE  /\ IsFiniteSet(UnitsInCarts(p)')
                    /\ Reserved(p)' + Cardinality(Putting(p)')
                         <= InitStock[p] + Cardinality(Req) - 1
  BY DEF Promised, Counted, Putting
<1>0. /\ OrderingTypeOK /\ Room /\ SeenTrue /\ Promised /\ ShapeAfter
      /\ req \in [Req -> ReqState] /\ cart \in [Session -> Cart] /\ cart' \in [Session -> Cart]
      /\ p \in Counted /\ p \in Product /\ InitStock[p] # Unlimited
  BY StepMoves, CountedShrinks DEF OrderInv, OrderingTypeOK, ShapeAfter, Counted
<1>1. InitStock[p] \in Nat /\ Unlimited = -1
  BY <1>0, OrderingAssumption
     DEF Ledger!LedgerConstants, Unlimited, Ledger!Unlimited
<1>2. /\ Reserved(p) = Cardinality(CartUnits(cart, p))
      /\ Reserved(p)' = Cardinality(CartUnits(cart', p))
      /\ UnitsInCarts(p)' = CartUnits(cart', p)
      /\ IsFiniteSet(CartUnits(cart, p))
  BY <1>0, UnitsNow DEF Reserved, Promised
<1>3. Reserved(p) + Cardinality(Putting(p)) <= InitStock[p] + Cardinality(Req) - 1
  BY <1>0 DEF Promised
<1>4. Putting(p) \subseteq Req /\ Putting(p)' \subseteq Req
  BY DEF Putting
<1>5. /\ Cardinality(Putting(p)) \in Nat /\ Cardinality(Putting(p)') \in Nat
      /\ Cardinality(Req) \in Nat /\ Reserved(p) \in Nat
  BY <1>2, <1>4, SomeRequests, FS_CardinalityType
<1>6. ASSUME \A s \in Session, l \in Line : cart'[s][l] <= cart[s][l]
      PROVE  IsFiniteSet(UnitsInCarts(p)') /\ Reserved(p)' <= Reserved(p) /\ Reserved(p)' \in Nat
  <2>1. /\ IsFiniteSet(CartUnits(cart', p))
        /\ Cardinality(CartUnits(cart', p)) <= Cardinality(CartUnits(cart, p))
    BY <1>0, <1>2, <1>6, FewerUnits
  <2> QED
    BY <1>2, <2>1, FS_CardinalityType
<1>7. ASSUME Putting(p)' \subseteq Putting(p),
             \A s \in Session, l \in Line : cart'[s][l] <= cart[s][l]
      PROVE  /\ IsFiniteSet(UnitsInCarts(p)')
             /\ Reserved(p)' + Cardinality(Putting(p)')
                  <= InitStock[p] + Cardinality(Req) - 1
  <2>1. Cardinality(Putting(p)') <= Cardinality(Putting(p))
    BY <1>4, <1>7, SomeRequests
  <2> QED
    BY <1>1, <1>3, <1>5, <1>6, <1>7, <2>1
<1>8. CASE Shrinks
  <2>1. Putting(p)' \subseteq Putting(p)
    BY <1>8 DEF Shrinks, Putting
  <2> QED
    BY <1>7, <1>8, <2>1 DEF Shrinks
<1>9. \A s \in Session, l \in Line : cart[s][l] \in Int
  BY <1>0, OrderingAssumption DEF Cart
<1>10. ASSUME NEW r \in Req, NEW u \in Session, NEW k \in Line, AddRead(r, u, k)
       PROVE  Putting(p)' \subseteq Putting(p) /\ cart' = cart
  <2>1. /\ \A q \in Req : q # r => req'[q] = req[q]
        /\ req'[r].at = "add" /\ cart' = cart
    BY <1>0, <1>10, AddMoves
  <2> QED
    BY <2>1 DEF Putting
<1>11. ASSUME NEW r \in Req, AddReserve(r), Spare(r)
       PROVE  /\ IsFiniteSet(UnitsInCarts(p)')
              /\ Reserved(p)' + Cardinality(Putting(p)')
                   <= InitStock[p] + Cardinality(Req) - 1
  <2>1. /\ req[r].at = "add" /\ cart' = cart
        /\ \A q \in Req : q # r => req'[q] = req[q]
        /\ req'[r].line = req[r].line
    BY <1>0, <1>11, AddMoves
  <2>2. \A s \in Session, l \in Line : cart'[s][l] <= cart[s][l]
    BY <1>9, <2>1
  <2>3. CASE ProductOf[req[r].line] = p
    <3>1. req[r].seen \in 0 .. InitStock[p]
      BY <1>0, <2>1, <2>3 DEF SeenTrue
    <3>2. Reserved(p) + 1 <= InitStock[p]
      BY <1>1, <1>5, <1>11, <2>3, <3>1 DEF Spare
    <3>3. Cardinality(Putting(p)') <= Cardinality(Req)
      BY <1>4, SomeRequests
    <3> QED
      BY <1>1, <1>5, <1>6, <2>2, <3>2, <3>3
  <2>4. CASE ProductOf[req[r].line] # p
    <3>1. Putting(p)' \subseteq Putting(p)
      BY <2>1, <2>4 DEF Putting
    <3> QED
      BY <1>7, <2>2, <3>1
  <2> QED
    BY <2>3, <2>4
<1>12. ASSUME NEW r \in Req, AddPut(r)
       PROVE  /\ IsFiniteSet(UnitsInCarts(p)')
              /\ Reserved(p)' + Cardinality(Putting(p)')
                   <= InitStock[p] + Cardinality(Req) - 1
  <2>1. /\ req[r].at = "put" /\ req'[r].at = "free"
        /\ \A q \in Req : q # r => req'[q] = req[q]
        /\ cart' = [cart EXCEPT ![req[r].session][req[r].line] = @ + 1]
    BY <1>0, <1>12, AddMoves
  <2>2. PICK s \in Session, l \in Line : s = req[r].session /\ l = req[r].line
    BY <1>0, <2>1, ReqFields
  <2>3. \A u \in Session, k \in Line :
          cart'[u][k] = IF u = s /\ k = l THEN cart[s][l] + 1 ELSE cart[u][k]
    BY <1>0, <2>1, <2>2 DEF Cart
  <2>4. /\ IsFiniteSet(CartUnits(cart', p))
        /\ ProductOf[l] = p =>
             Cardinality(CartUnits(cart', p)) = Cardinality(CartUnits(cart, p)) + 1
        /\ ProductOf[l] # p => CartUnits(cart', p) = CartUnits(cart, p)
    <3>1. PICK c \in [Session -> Cart], d \in [Session -> Cart] : c = cart /\ d = cart'
      BY <1>0
    <3>2. OneMore(c, d, s, l)
      BY <2>3, <3>1 DEF OneMore
    <3>3. IsFiniteSet(CartUnits(c, p)) /\ p \in Product
      BY <1>0, <1>2, <3>1
    <3>4. /\ IsFiniteSet(CartUnits(d, p))
          /\ ProductOf[l] = p =>
               Cardinality(CartUnits(d, p)) = Cardinality(CartUnits(c, p)) + 1
          /\ ProductOf[l] # p => CartUnits(d, p) = CartUnits(c, p)
      BY <3>2, <3>3, OneMoreUnit
    <3> QED
      BY <3>1, <3>4
  <2>5. Putting(p)' \subseteq Putting(p) \ {r}
    BY <2>1 DEF Putting
  <2>6. CASE ProductOf[l] = p
    <3>1. r \in Putting(p)
      BY <2>1, <2>2, <2>6 DEF Putting
    <3>2. Cardinality(Putting(p) \ {r}) = Cardinality(Putting(p)) - 1
      BY <1>4, <3>1, OneRequest
    <3>3. Cardinality(Putting(p)') <= Cardinality(Putting(p)) - 1
      BY <1>4, <2>5, <3>2, SomeRequests
    <3>4. Reserved(p)' = Reserved(p) + 1
      BY <1>2, <2>4, <2>6
    <3> QED
      BY <1>1, <1>2, <1>3, <1>5, <2>4, <3>3, <3>4
  <2>7. CASE ProductOf[l] # p
    <3>1. Cardinality(Putting(p)') <= Cardinality(Putting(p))
      BY <1>4, <2>5, SomeRequests
    <3>2. Reserved(p)' = Reserved(p)
      BY <1>2, <1>5, <2>4, <2>7
    <3> QED
      BY <1>1, <1>2, <1>3, <1>5, <2>4, <3>1, <3>2
  <2> QED
    BY <2>6, <2>7
<1>13. ASSUME NEW r \in Req, NEW u \in Session, NEW k \in Line, AddRead(r, u, k)
       PROVE  /\ IsFiniteSet(UnitsInCarts(p)')
              /\ Reserved(p)' + Cardinality(Putting(p)')
                   <= InitStock[p] + Cardinality(Req) - 1
  BY <1>7, <1>9, <1>10, <1>13
<1> QED
  BY <1>0, <1>8, <1>11, <1>12, <1>13, StepMoves DEF AddStep

----------------------------------------------------------------------------
(* The theorems *)

\* A venue that opens has empty carts, no requests and a full shelf.
LEMMA InitInv ==
  ASSUME Init
  PROVE  OrderInv
<1>0. /\ MaxLeft \in Nat /\ MaxQty \in Nat /\ Unlimited = -1 /\ Ledger!Unlimited = -1
      /\ InitStock \in [Product -> {-1} \cup Nat]
      /\ \A p \in Product : InitStock[p] <= MaxLeft
  BY OrderingAssumption DEF Ledger!LedgerConstants, Unlimited, Ledger!Unlimited
<1>1. /\ left = InitStock /\ held = [o \in OrderId |-> Ledger!Nothing]
      /\ gone = {} /\ adjusted = {}
  BY DEF Init, Ledger!Init
<1>2. EmptyCart \in Cart /\ \A l \in Line : EmptyCart[l] = 0
  BY <1>0 DEF EmptyCart, Cart
<1>3. \A p \in Product : InitStock[p] \in -1 .. MaxLeft
  BY <1>0
<1>4. left \in [Product -> Unlimited .. MaxLeft]
  BY <1>0, <1>1, <1>3
<1>5. OrderingTypeOK
  BY <1>1, <1>2, <1>4, FreeReq DEF Init, OrderingTypeOK
<1>6. Proved!LedgerInv
  BY SameLedger, ProvedConstants, Proved!LedgerInit DEF Init
<1>7. ASSUME NEW s \in Session, NEW l \in Line
      PROVE  cart[s][l] = 0 /\ Adding(s, l) = {}
  BY <1>2 DEF Init, Adding, Free
<1>8. Room
  <2>1. Cardinality({}) = 0
    BY FS_EmptySet
  <2>2. \A s \in Session, l \in Line : cart[s][l] + Cardinality(Adding(s, l)) = 0
    BY <1>7, <2>1
  <2> QED
    BY <1>0, <2>2 DEF Room
<1>9. Shelf
  BY <1>0, <1>1 DEF Shelf, Counted
<1>10. SeenTrue
  BY DEF Init, SeenTrue, Free
<1>11. Promised
  <2> SUFFICES ASSUME NEW p \in Counted
               PROVE  /\ IsFiniteSet(UnitsInCarts(p))
                      /\ Reserved(p) + Cardinality(Putting(p))
                           <= InitStock[p] + Cardinality(Req) - 1
    BY DEF Promised
  <2>1. \A x : x \notin CartUnits(cart, p)
    <3>1. \A s \in Session, l \in LinesOf(p) : 1 .. cart[s][l] = {}
      BY <1>7 DEF LinesOf
    <3> QED
      BY <3>1, NamedUnit
  <2>2. CartUnits(cart, p) = {}
    BY <2>1
  <2>3. UnitsInCarts(p) = {}
    BY <2>2, UnitsNow
  <2>4. Putting(p) = {}
    BY DEF Init, Putting, Free
  <2>5. IsFiniteSet({}) /\ Cardinality({}) = 0
    BY FS_EmptySet
  <2>6. Cardinality(Req) \in Nat /\ Cardinality(Req) # 0
    BY OrderingAssumption, FS_CardinalityType, FS_EmptySet
  <2>7. InitStock[p] \in Nat
    BY <1>0 DEF Counted
  <2> QED
    BY <2>3, <2>4, <2>5, <2>6, <2>7 DEF Reserved
<1> QED
  BY <1>5, <1>6, <1>8, <1>9, <1>10, <1>11 DEF OrderInv

\* Types, the ledger, room, shelf and promises hold of every state.
THEOREM OrderingInvariant == SafetySpec => []OrderInv
<1>1. Init => OrderInv
  BY InitInv
<1>2. OrderInv /\ [Next]_vars => OrderInv'
  <2> SUFFICES ASSUME OrderInv, [Next]_vars PROVE OrderInv'
    OBVIOUS
  <2>1. OrderingTypeOK'
    <3>1. ShapeAfter
      BY StepMoves DEF OrderInv
    <3>2. /\ host' \in [Table -> Session \cup {NoOne}]
          /\ idle' \subseteq Session /\ hidden' \subseteq Product
      BY RestKeepsShape DEF OrderInv
    <3>3. /\ left' \in [Product -> Unlimited .. MaxLeft]
          /\ held' \in [OrderId -> Basket \cup {Ledger!Nothing}]
          /\ gone' \subseteq Product /\ adjusted' \subseteq Product
      BY LedgerShape DEF OrderInv
    <3> QED
      BY <3>1, <3>2, <3>3 DEF ShapeAfter, OrderingTypeOK
  <2>2. Proved!LedgerInv'
    BY LedgerKept DEF OrderInv
  <2>3. Room' /\ Shelf' /\ SeenTrue' /\ Promised'
    BY RoomStep, ShelfStep, SeenStep, PromisedStep
  <2> QED
    BY <2>1, <2>2, <2>3 DEF OrderInv
<1> QED
  BY <1>1, <1>2, PTL DEF SafetySpec

\* Every variable keeps its shape: no cart line falls below zero or grows past
\* the bound, and no request remembers what it cannot have read.
THEOREM OrderingTypes == SafetySpec => []OrderingTypeOK
<1>1. OrderInv => OrderingTypeOK
  BY DEF OrderInv
<1> QED
  BY <1>1, OrderingInvariant, PTL

\* Carts overshoot a counted shelf by less than the number of requests in
\* flight, whatever guests, staff and the desk do between a check and its Add.
THEOREM CartsStayBounded == SafetySpec => []CartsBounded
<1>1. OrderInv => CartsBounded
  <2> SUFFICES ASSUME OrderInv, NEW p \in Product \ adjusted, InitStock[p] # Unlimited
               PROVE  Reserved(p) <= InitStock[p] + Cardinality(Req) - 1
    BY DEF CartsBounded
  <2>1. p \in Counted
    BY DEF Counted
  <2>2. /\ Reserved(p) + Cardinality(Putting(p)) <= InitStock[p] + Cardinality(Req) - 1
        /\ IsFiniteSet(UnitsInCarts(p))
    BY <2>1 DEF OrderInv, Promised
  <2>3. Putting(p) \in SUBSET Req
    BY DEF Putting
  <2>4. Cardinality(Putting(p)) \in Nat /\ Cardinality(Req) \in Nat /\ Reserved(p) \in Nat
    BY <2>2, <2>3, SomeRequests, FS_CardinalityType DEF Reserved
  <2>5. InitStock[p] \in Int
    BY OrderingAssumption DEF Ledger!LedgerConstants, Ledger!Unlimited
  <2> QED
    BY <2>2, <2>4, <2>5
<1> QED
  BY <1>1, OrderingInvariant, PTL

\* What the guests' requests and the desk do to stock implements the ledger.
THEOREM OrderingIsLedger == SafetySpec => Ledger!Spec
<1>1. Init => Ledger!Init
  BY DEF Init
<1>2. OrderInv /\ [Next]_vars => [Ledger!Next]_(Ledger!ledgerVars)
  BY NextIsLedgerStep DEF OrderInv
<1> QED
  BY <1>1, <1>2, OrderingInvariant, PTL DEF SafetySpec, Ledger!Spec

=============================================================================
