-------------------------- MODULE StockLedger_proofs --------------------------
(* Conservation holds of the ledger for every menu, every set of orders and  *)
(* every opening count.                                                      *)
EXTENDS StockLedger, FiniteSetTheorems, TLAPS

\* The units one order holds of one product are as many as it says.
LEMMA OneOrder ==
  ASSUME NEW o, NEW n \in Nat
  PROVE  /\ IsFiniteSet({o} \X (1 .. n))
         /\ Cardinality({o} \X (1 .. n)) = n
<1>1. IsFiniteSet({o}) /\ Cardinality({o}) = 1
  BY FS_Singleton
<1>2. IsFiniteSet(1 .. n) /\ Cardinality(1 .. n) = n
  BY FS_Interval
<1>3. /\ IsFiniteSet({o} \X (1 .. n))
      /\ Cardinality({o} \X (1 .. n)) = Cardinality({o}) * Cardinality(1 .. n)
  BY <1>1, <1>2, FS_Product
<1>4. 1 * n = n
  OBVIOUS
<1> QED
  BY <1>1, <1>2, <1>3, <1>4

\* An order that held nothing adds exactly its own units.
LEMMA UnitsAdded ==
  ASSUME NEW h \in [OrderId -> [Product -> Nat]], NEW p \in Product,
         NEW o \in OrderId, h[o][p] = 0,
         NEW u \in [Product -> Nat],
         IsFiniteSet(UnitsIn(h, p))
  PROVE  LET k == [h EXCEPT ![o] = u] IN
         /\ IsFiniteSet(UnitsIn(k, p))
         /\ Cardinality(UnitsIn(k, p)) = Cardinality(UnitsIn(h, p)) + u[p]
<1> DEFINE k == [h EXCEPT ![o] = u]
           mine == {o} \X (1 .. u[p])
<1>1. k[o] = u /\ \A x \in OrderId \ {o} : k[x] = h[x]
  OBVIOUS
<1>2. 1 .. h[o][p] = {}
  BY SMT
<1>3. UnitsIn(k, p) = UnitsIn(h, p) \cup mine
  BY <1>1, <1>2 DEF UnitsIn
<1>4. UnitsIn(h, p) \cap mine = {}
  BY <1>2 DEF UnitsIn
<1>5. IsFiniteSet(mine) /\ Cardinality(mine) = u[p]
  BY OneOrder
<1>6. Cardinality({}) = 0
  BY FS_EmptySet
<1>7. Cardinality(UnitsIn(h, p)) \in Nat
  BY FS_CardinalityType
<1> HIDE DEF mine
<1>8. /\ IsFiniteSet(UnitsIn(h, p) \cup mine)
      /\ Cardinality(UnitsIn(h, p) \cup mine)
           = Cardinality(UnitsIn(h, p)) + Cardinality(mine)
               - Cardinality(UnitsIn(h, p) \cap mine)
  BY <1>5, FS_Union
<1>9. u[p] \in Nat
  OBVIOUS
<1>10. Cardinality(UnitsIn(k, p)) = Cardinality(UnitsIn(h, p)) + u[p] - 0
  BY <1>3, <1>4, <1>5, <1>6, <1>8
<1> HIDE DEF k
<1>11. Cardinality(UnitsIn(k, p)) = Cardinality(UnitsIn(h, p)) + u[p]
  BY <1>7, <1>9, <1>10
<1> QED
  BY <1>3, <1>8, <1>11 DEF k

\* An order that puts everything back removes exactly its own units.
LEMMA UnitsRemoved ==
  ASSUME NEW h \in [OrderId -> [Product -> Nat]], NEW p \in Product,
         NEW o \in OrderId,
         IsFiniteSet(UnitsIn(h, p))
  PROVE  LET k == [h EXCEPT ![o] = Nothing] IN
         /\ IsFiniteSet(UnitsIn(k, p))
         /\ Cardinality(UnitsIn(k, p)) = Cardinality(UnitsIn(h, p)) - h[o][p]
<1> DEFINE k == [h EXCEPT ![o] = Nothing]
<1>1. Nothing \in [Product -> Nat] /\ Nothing[p] = 0
  BY DEF Nothing
<1>2. k \in [OrderId -> [Product -> Nat]] /\ k[o][p] = 0
  BY <1>1
<1>3. UnitsIn(k, p) \subseteq UnitsIn(h, p)
  <2>1. \A x \in OrderId : 1 .. k[x][p] \subseteq 1 .. h[x][p]
    BY <1>1
  <2> HIDE DEF k
  <2> QED
    BY <2>1 DEF UnitsIn
<1>4. IsFiniteSet(UnitsIn(k, p))
  BY <1>3, FS_Subset
<1>5. [k EXCEPT ![o] = h[o]] = h
  OBVIOUS
<1> HIDE DEF k
<1>6. Cardinality(UnitsIn(h, p)) = Cardinality(UnitsIn(k, p)) + h[o][p]
  BY <1>2, <1>4, <1>5, UnitsAdded
<1>7. Cardinality(UnitsIn(k, p)) \in Nat
  BY <1>4, FS_CardinalityType
<1>8. h[o][p] \in Nat
  OBVIOUS
<1>9. Cardinality(UnitsIn(k, p)) = Cardinality(UnitsIn(h, p)) - h[o][p]
  BY <1>6, <1>7, <1>8
<1> QED
  BY <1>4, <1>9 DEF k

----------------------------------------------------------------------------

\* The inductive invariant: the shape of the ledger, and for every product
\* nobody overruled the balance, over a set of units that is finite.
LedgerInv ==
  /\ left \in [Product -> Int]
  /\ held \in [OrderId -> [Product -> Nat]]
  /\ \A p \in Product \ (gone \cup adjusted) :
       IF InitStock[p] = Unlimited
       THEN left[p] = Unlimited
       ELSE /\ left[p] >= 0
            /\ IsFiniteSet(Units(p))
            /\ left[p] + Cardinality(Units(p)) = InitStock[p]

\* At the start nobody holds anything.
LEMMA LedgerInit ==
  ASSUME LedgerConstants, Init
  PROVE  LedgerInv
<1>1. left \in [Product -> Int] /\ \A p \in Product : left[p] = Unlimited \/ left[p] >= 0
  BY DEF Init, LedgerConstants, Unlimited
<1>2. held \in [OrderId -> [Product -> Nat]]
  BY DEF Init, Nothing
<1>3. ASSUME NEW p \in Product
      PROVE  IsFiniteSet(Units(p)) /\ Cardinality(Units(p)) = 0
  <2>1. \A o \in OrderId : held[o][p] = 0
    BY DEF Init, Nothing
  <2>2. 1 .. 0 = {}
    OBVIOUS
  <2>3. Units(p) = {}
    BY <2>1, <2>2 DEF Units, UnitsIn
  <2> QED
    BY <2>3, FS_EmptySet
<1> QED
  BY <1>1, <1>2, <1>3 DEF LedgerInv, Init

\* Every step of the ledger keeps the balance.
LEMMA LedgerStep ==
  ASSUME LedgerConstants, LedgerInv, [Next]_ledgerVars
  PROVE  LedgerInv'
<1>1. ASSUME NEW o \in OrderId, NEW u \in Basket, Sell(o, u)
      PROVE  LedgerInv'
  <2>1. u \in [Product -> Nat]
    BY DEF LedgerConstants
  <2>2. left' \in [Product -> Int] /\ held' \in [OrderId -> [Product -> Nat]]
    BY <1>1, <2>1 DEF LedgerInv, Sell
  <2>3. ASSUME NEW p \in Product, p \notin gone' \cup adjusted', InitStock[p] # Unlimited
        PROVE  /\ left'[p] >= 0
               /\ IsFiniteSet(Units(p)')
               /\ left'[p] + Cardinality(Units(p)') = InitStock[p]
    <3>1. /\ left[p] >= 0 /\ IsFiniteSet(Units(p))
          /\ left[p] + Cardinality(Units(p)) = InitStock[p]
      BY <1>1, <2>3 DEF LedgerInv, Sell
    <3>2. held[o][p] = 0
      BY <1>1 DEF Sell, Nothing
    <3>3. /\ IsFiniteSet(Units(p)')
          /\ Cardinality(Units(p)') = Cardinality(Units(p)) + u[p]
      BY <1>1, <2>1, <3>1, <3>2, UnitsAdded DEF Units, Sell, LedgerInv
    <3>4. left'[p] = left[p] - u[p] /\ left'[p] >= 0
      BY <1>1, <2>1, <3>1 DEF Sell, Unlimited, LedgerInv
    <3>5. Cardinality(Units(p)) \in Nat
      BY <3>1, FS_CardinalityType
    <3>6. left[p] \in Int /\ u[p] \in Nat
      BY <2>1 DEF LedgerInv
    <3> QED
      BY <3>1, <3>3, <3>4, <3>5, <3>6
  <2>4. ASSUME NEW p \in Product, p \notin gone' \cup adjusted', InitStock[p] = Unlimited
        PROVE  left'[p] = Unlimited
    BY <1>1, <2>4 DEF LedgerInv, Sell
  <2> QED
    BY <2>2, <2>3, <2>4 DEF LedgerInv
<1>2. ASSUME NEW o \in OrderId, Return(o)
      PROVE  LedgerInv'
  <2>1. left' \in [Product -> Int] /\ held' \in [OrderId -> [Product -> Nat]]
    BY <1>2 DEF LedgerInv, Return, Nothing
  <2>2. ASSUME NEW p \in Product, p \notin gone' \cup adjusted', InitStock[p] # Unlimited
        PROVE  /\ left'[p] >= 0
               /\ IsFiniteSet(Units(p)')
               /\ left'[p] + Cardinality(Units(p)') = InitStock[p]
    <3>1. /\ left[p] >= 0 /\ IsFiniteSet(Units(p)) /\ p \notin gone
          /\ left[p] + Cardinality(Units(p)) = InitStock[p]
      BY <1>2, <2>2 DEF LedgerInv, Return
    <3>2. /\ IsFiniteSet(Units(p)')
          /\ Cardinality(Units(p)') = Cardinality(Units(p)) - held[o][p]
      BY <1>2, <3>1, UnitsRemoved DEF Units, Return, LedgerInv
    <3>3. left'[p] = left[p] + held[o][p]
      BY <1>2, <3>1 DEF Return, Unlimited, LedgerInv
    <3>4. Cardinality(Units(p)) \in Nat
      BY <3>1, FS_CardinalityType
    <3>5. left[p] \in Int /\ held[o][p] \in Nat
      BY DEF LedgerInv
    <3> QED
      BY <3>1, <3>2, <3>3, <3>4, <3>5
  <2>3. ASSUME NEW p \in Product, p \notin gone' \cup adjusted', InitStock[p] = Unlimited
        PROVE  left'[p] = Unlimited
    BY <1>2, <2>3 DEF LedgerInv, Return
  <2> QED
    BY <2>1, <2>2, <2>3 DEF LedgerInv
<1>3. ASSUME NEW o \in OrderId, NEW u \in Basket, Revive(o, u)
      PROVE  LedgerInv'
  <2>1. u \in [Product -> Nat]
    BY DEF LedgerConstants
  <2>2. left' \in [Product -> Int] /\ held' \in [OrderId -> [Product -> Nat]]
    BY <1>3, <2>1 DEF LedgerInv, Revive
  <2>3. ASSUME NEW p \in Product, p \notin gone' \cup adjusted'
        PROVE  Units(p)' = Units(p)
    <3>1. u[p] = 0
      BY <1>3, <2>1, <2>3 DEF Revive
    <3>2. \A x \in OrderId : held'[x][p] = held[x][p]
      BY <1>3, <3>1 DEF Revive, Nothing, LedgerInv
    <3> QED
      BY <3>2 DEF Units, UnitsIn
  <2> QED
    BY <1>3, <2>2, <2>3 DEF LedgerInv, Revive
<1>4. ASSUME NEW p \in Product, NEW n \in Count, Recount(p, n)
      PROVE  LedgerInv'
  <2>1. \A q \in Product : Units(q)' = Units(q)
    BY <1>4 DEF Recount, Units
  <2> QED
    BY <1>4, <2>1 DEF LedgerInv, Recount, LedgerConstants
<1>5. ASSUME NEW p \in Product, Withdraw(p)
      PROVE  LedgerInv'
  <2>1. \A q \in Product : Units(q)' = Units(q)
    BY <1>5 DEF Withdraw, Units
  <2> QED
    BY <1>5, <2>1 DEF LedgerInv, Withdraw
<1>6. CASE UNCHANGED ledgerVars
  <2>1. \A q \in Product : Units(q)' = Units(q)
    BY <1>6 DEF ledgerVars, Units
  <2> QED
    BY <1>6, <2>1 DEF LedgerInv, ledgerVars
<1> QED
  BY <1>1, <1>2, <1>3, <1>4, <1>5, <1>6 DEF Next

\* Whatever is sold, returned, revived, recounted and withdrawn, no unit of a
\* product nobody overruled is lost, sold twice or given back twice.
THEOREM LedgerConserves ==
  ASSUME LedgerConstants
  PROVE  Spec => []Conservation
<1>1. Init => LedgerInv
  BY LedgerInit
<1>2. LedgerInv /\ [Next]_ledgerVars => LedgerInv'
  BY LedgerStep
<1>3. LedgerInv => Conservation
  BY DEF LedgerInv, Conservation
<1> QED
  BY <1>1, <1>2, <1>3, PTL DEF Spec

=============================================================================
