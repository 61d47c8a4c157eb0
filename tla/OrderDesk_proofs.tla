--------------------------- MODULE OrderDesk_proofs ---------------------------
(* The order desk keeps its types, cancels only what is still uncooked, on   *)
(* an unchanged snapshot, and implements the stock ledger: for every menu,   *)
(* every number of sessions, tables, orders and handlers in flight.          *)
EXTENDS OrderDesk, TLAPS

----------------------------------------------------------------------------
(* What handlers remember *)

\* The fields of a job, by the statement it stands before.
LEMMA JobFields ==
  ASSUME NEW x \in JobState
  PROVE  /\ x.at \in {"guest_cancel", "refund", "cancel", "fix"} => x.order \in OrderId
         /\ x.at = "fix" => x.to \in Fixable
         /\ x.at \in {"nudge", "toggle", "delete"} => x.product \in Product
         /\ x.at = "nudge" => x.count \in 0 .. MaxStock
         /\ x.at = "toggle" => x.to \in {"shown", "hidden"}
         /\ x.at = "pay" => x.due \in SUBSET OrderId
  BY DEF JobState, Idle

\* Ending the cancellations that were overtaken leaves a set of jobs.
LEMMA OvertakenType ==
  ASSUME job \in [Job -> JobState]
  PROVE  Overtaken(job) \in [Job -> JobState]
<1>1. Idle \in JobState
  BY DEF JobState
<1> QED
  BY <1>1 DEF Overtaken

\* After a commit no cancellation is open, and every other job that is left
\* remembers what it remembered before.
LEMMA OvertakenJobs ==
  ASSUME NEW k \in Job
  PROVE  /\ Overtaken(job)[k].at # "cancel"
         /\ Overtaken(job)[k] \in {job[k], Idle}
  BY DEF Overtaken, Idle

\* The same for the jobs after handler j committed and answered.
LEMMA DoneJobs ==
  ASSUME job \in [Job -> JobState], NEW j \in Job, Done(j)
  PROVE  /\ job' \in [Job -> JobState]
         /\ \A k \in Job : job'[k].at # "cancel" /\ job'[k] \in {job[k], Idle}
<1>1. Idle \in JobState
  BY DEF JobState
<1>2. Overtaken(job) \in [Job -> JobState]
  BY OvertakenType
<1>3. job' = [Overtaken(job) EXCEPT ![j] = Idle]
  BY DEF Done
<1>4. \A k \in Job : Overtaken(job)[k].at # "cancel" /\ Overtaken(job)[k] \in {job[k], Idle}
  BY OvertakenJobs
<1>5. Idle.at # "cancel"
  BY DEF Idle
<1> HIDE DEF Idle
<1> QED
  BY <1>1, <1>2, <1>3, <1>4, <1>5

\* A commit only sends handlers back to idle.
LEMMA CommitJobs ==
  ASSUME job \in [Job -> JobState], Commit
  PROVE  /\ job' \in [Job -> JobState]
         /\ \A k \in Job : job'[k].at # "cancel" /\ job'[k] \in {job[k], Idle}
  BY OvertakenType, OvertakenJobs DEF Commit

\* A handler that reads changes its own memory only.
LEMMA RememberJobs ==
  ASSUME job \in [Job -> JobState], NEW j \in Job, NEW x \in JobState, Remember(j, x)
  PROVE  /\ job' \in [Job -> JobState]
         /\ job'[j] = x
         /\ \A k \in Job \ {j} : job'[k] = job[k]
  BY DEF Remember

----------------------------------------------------------------------------
(* What handlers remember stays true *)

\* A commit closes every cancellation, and orders never vanish.
LEMMA CommitKeepsTruth ==
  ASSUME job \in [Job -> JobState], CancelSnapshotHolds,
         \A o \in OrderId : Exists(o) => Exists(o)',
         \A k \in Job : job'[k].at # "cancel" /\ job'[k] \in {job[k], Idle}
  PROVE  CancelSnapshotHolds'
<1>1. SUFFICES ASSUME NEW k \in Job PROVE StillTrue(job[k])'
  BY DEF CancelSnapshotHolds
<1>2. CASE job'[k] = Idle
  BY <1>2 DEF StillTrue, Idle
<1>3. CASE job'[k] = job[k]
  <2>1. StillTrue(job[k]) /\ job[k] \in JobState
    BY DEF CancelSnapshotHolds
  <2> QED
    BY <1>3, <2>1, JobFields DEF StillTrue
<1> QED
  BY <1>2, <1>3

\* A read leaves the orders alone and adds one true memory.
LEMMA ReadKeepsTruth ==
  ASSUME job \in [Job -> JobState], CancelSnapshotHolds, UNCHANGED orders,
         NEW j \in Job, NEW x \in JobState, StillTrue(x), Remember(j, x)
  PROVE  CancelSnapshotHolds'
<1>1. \A k \in Job : job'[k] \in {job[k], x}
  BY RememberJobs
<1>2. ASSUME NEW y, StillTrue(y)
      PROVE  /\ y.at \in {"guest_cancel", "refund", "cancel", "fix"} => Exists(y.order)'
             /\ y.at = "pay" => \A o \in y.due : Exists(o)'
             /\ y.at = "cancel" => orders'[y.order].status \in Cookable
  BY <1>2 DEF StillTrue, Exists
<1> QED
  BY <1>1, <1>2 DEF CancelSnapshotHolds, StillTrue

----------------------------------------------------------------------------
(* The inductive invariant *)

DeskInv == DeskTypeOK /\ CancelSnapshotHolds

\* Writing one field of an order that exists leaves an order.
LEMMA OrderWrite ==
  ASSUME orders \in [OrderId -> Order \cup {NoOrder}], NEW o \in OrderId, Exists(o)
  PROVE  /\ \A st \in OrderStatus :
              /\ [orders EXCEPT ![o].status = st] \in [OrderId -> Order \cup {NoOrder}]
              /\ \A q \in OrderId : orders[q] # NoOrder =>
                   [orders EXCEPT ![o].status = st][q] # NoOrder
         /\ \A b \in BOOLEAN :
              /\ [orders EXCEPT ![o].paid = b] \in [OrderId -> Order \cup {NoOrder}]
              /\ [orders EXCEPT ![o].refund = b] \in [OrderId -> Order \cup {NoOrder}]
              /\ \A q \in OrderId : orders[q] # NoOrder =>
                   /\ [orders EXCEPT ![o].paid = b][q] # NoOrder
                   /\ [orders EXCEPT ![o].refund = b][q] # NoOrder
<1>1. orders[o] \in Order
  BY DEF Exists
<1>2. NoOrder \notin Order
  BY DEF NoOrder, Order, OrderStatus, OrderStatusFlow, Fixable, Active, Cookable
<1>3. ASSUME NEW st \in OrderStatus
      PROVE  [orders[o] EXCEPT !.status = st] \in Order
  BY <1>1 DEF Order
<1>4. ASSUME NEW b \in BOOLEAN
      PROVE  /\ [orders[o] EXCEPT !.paid = b] \in Order
             /\ [orders[o] EXCEPT !.refund = b] \in Order
  BY <1>1 DEF Order
<1> HIDE DEF Order, NoOrder
<1> QED
  BY <1>2, <1>3, <1>4

\* The desk starts inside the invariant.
LEMMA DeskInit == Init => DeskInv
<1> SUFFICES ASSUME Init PROVE DeskInv
  OBVIOUS
<1>1. orders \in [OrderId -> Order \cup {NoOrder}]
  BY DEF Init
<1>2. stock \in [Product -> StockLevel]
  BY DeskAssumption DEF Init
<1>3. job \in [Job -> JobState] /\ \A j \in Job : job[j] = Idle
  BY DEF Init, JobState
<1>4. CancelSnapshotHolds
  BY <1>3 DEF CancelSnapshotHolds, StillTrue, Idle
<1> QED
  BY <1>1, <1>2, <1>3, <1>4 DEF DeskInv, DeskTypeOK, Init

\* Placing an order.
LEMMA PlaceKeepsInv ==
  ASSUME DeskInv, NEW o \in OrderId, NEW s \in Session, NEW t \in Table,
         NEW u \in Basket, NEW paid \in BOOLEAN, PlaceOrder(o, s, t, u, paid)
  PROVE  DeskInv'
<1> DEFINE new == [session |-> s, table |-> t, status |-> "pending",
                   paid |-> paid, refund |-> FALSE, units |-> u]
<1>1. new \in Order
  BY DEF Order, OrderStatus, OrderStatusFlow, Fixable, Active, Cookable
<1>2. new # NoOrder
  BY <1>1 DEF NoOrder, Order, OrderStatus, OrderStatusFlow, Fixable, Active, Cookable
<1>3. orders' = [orders EXCEPT ![o] = new]
  BY DEF PlaceOrder
<1> HIDE DEF new
<1>4. /\ orders' \in [OrderId -> Order \cup {NoOrder}]
      /\ \A q \in OrderId : Exists(q) => Exists(q)'
  BY <1>1, <1>2, <1>3 DEF DeskInv, DeskTypeOK, Exists
<1>5. stock' \in [Product -> StockLevel]
  <2>1. stock' = AfterSale(u) /\ Available(u)
    BY DEF PlaceOrder
  <2>2. u \in [Product -> Nat] /\ MaxStock \in Nat
    BY DeskAssumption
  <2>3. ASSUME NEW p \in Product
        PROVE  (IF stock[p] = Unlimited THEN stock[p] ELSE stock[p] - u[p]) \in StockLevel
    <3>1. stock[p] \in StockLevel /\ u[p] \in Nat
      BY <2>2 DEF DeskInv, DeskTypeOK
    <3>2. u[p] = 0 \/ stock[p] = Unlimited \/ stock[p] >= u[p]
      BY <2>1, <2>2 DEF Available
    <3> QED
      BY <3>1, <3>2, <2>2 DEF StockLevel, Unlimited
  <2> QED
    BY <2>1, <2>3 DEF AfterSale
<1>6. /\ job' \in [Job -> JobState]
      /\ \A k \in Job : job'[k].at # "cancel" /\ job'[k] \in {job[k], Idle}
  BY CommitJobs DEF PlaceOrder, DeskInv, DeskTypeOK
<1>7. CancelSnapshotHolds'
  BY <1>4, <1>6, CommitKeepsTruth DEF DeskInv, DeskTypeOK
<1> QED
  BY <1>4, <1>5, <1>6, <1>7 DEF DeskInv, DeskTypeOK, PlaceOrder

\* Writing the status of an order, whoever does it.
LEMMA StatusKeepsInv ==
  ASSUME DeskInv, NEW o \in OrderId, Exists(o), NEW st \in OrderStatusFlow,
         SetStatus(o, st),
         job' \in [Job -> JobState],
         \A k \in Job : job'[k].at # "cancel" /\ job'[k] \in {job[k], Idle}
  PROVE  DeskInv'
<1>1. /\ orders' \in [OrderId -> Order \cup {NoOrder}]
      /\ \A q \in OrderId : Exists(q) => Exists(q)'
  BY OrderWrite DEF SetStatus, DeskInv, DeskTypeOK, OrderStatus, Exists
<1>2. CancelSnapshotHolds'
  BY <1>1, CommitKeepsTruth DEF DeskInv, DeskTypeOK
<1>3. adjusted' \subseteq Product
  BY DEF SetStatus, DeskInv, DeskTypeOK
<1> QED
  BY <1>1, <1>2, <1>3 DEF SetStatus, DeskInv, DeskTypeOK

\* Writing the payment of an order, whoever does it.
LEMMA PaidKeepsInv ==
  ASSUME DeskInv, NEW o \in OrderId, Exists(o), NEW paid \in BOOLEAN,
         SetPaid(o, paid)
  PROVE  /\ orders' \in [OrderId -> Order \cup {NoOrder}]
         /\ \A q \in OrderId : Exists(q) => Exists(q)'
  BY OrderWrite DEF SetPaid, DeskInv, DeskTypeOK, Exists

\* A read: nothing but job j changes, to a memory that is true now.
LEMMA ReadKeepsInv ==
  ASSUME DeskInv, NEW j \in Job, NEW x \in JobState, StillTrue(x), Remember(j, x),
         UNCHANGED <<orders, stock, listed, adjusted>>
  PROVE  DeskInv'
<1>1. job' \in [Job -> JobState]
  BY RememberJobs DEF DeskInv, DeskTypeOK
<1>2. CancelSnapshotHolds'
  BY ReadKeepsTruth DEF DeskInv, DeskTypeOK
<1> QED
  BY <1>1, <1>2 DEF DeskInv, DeskTypeOK

\* A commit that leaves the orders alone.
LEMMA MenuKeepsInv ==
  ASSUME DeskInv, UNCHANGED orders,
         stock' \in [Product -> StockLevel],
         listed' \in [Product -> {"shown", "hidden", "deleted"}],
         adjusted' \subseteq Product,
         job' \in [Job -> JobState],
         \A k \in Job : job'[k].at # "cancel" /\ job'[k] \in {job[k], Idle}
  PROVE  DeskInv'
<1>1. \A q \in OrderId : Exists(q) => Exists(q)'
  BY DEF Exists
<1>2. CancelSnapshotHolds'
  BY <1>1, CommitKeepsTruth DEF DeskInv, DeskTypeOK
<1> QED
  BY <1>2 DEF DeskInv, DeskTypeOK

\* Every statement of a handler in flight.
LEMMA HandlerKeepsInv ==
  ASSUME DeskInv, NEW j \in Job, HandlerStep(j)
  PROVE  DeskInv'
<1> USE DEF DeskInv
<1>0. /\ job \in [Job -> JobState] /\ job[j] \in JobState /\ StillTrue(job[j])
      /\ Idle \in JobState /\ StillTrue(Idle)
  BY DEF DeskTypeOK, CancelSnapshotHolds, JobState, StillTrue, Idle
<1>1. ASSUME NEW o \in OrderId, NEW to \in Fixable, FixRead(j, o, to)
      PROVE  DeskInv'
  <2> DEFINE x == [at |-> "fix", order |-> o, to |-> to]
  <2>1. x \in JobState /\ StillTrue(x)
    BY <1>1 DEF FixRead, JobState, StillTrue
  <2> QED
    BY <1>1, <2>1, ReadKeepsInv DEF FixRead
<1>2. CASE FixWrite(j)
  <2>1. /\ job[j].order \in OrderId /\ Exists(job[j].order) /\ job[j].to \in OrderStatusFlow
    BY <1>0, <1>2, JobFields DEF FixWrite, StillTrue, OrderStatusFlow
  <2>2. SetStatus(job[j].order, job[j].to) /\ Done(j)
    BY <1>2 DEF FixWrite
  <2> QED
    BY <1>0, <2>1, <2>2, DoneJobs, StatusKeepsInv
<1>3. ASSUME NEW t \in Table, PayRead(j, t)
      PROVE  DeskInv'
  <2> DEFINE x == [at |-> "pay", due |-> UnpaidAt(t)]
  <2>1. x \in JobState /\ StillTrue(x)
    BY DEF JobState, StillTrue, UnpaidAt, Live
  <2> QED
    BY <1>3, <2>1, ReadKeepsInv DEF PayRead
<1>4. ASSUME NEW o \in OrderId, o \in job[j].due, job[j].at = "pay"
      PROVE  /\ AfterPaying(j, o) \in JobState
             /\ StillTrue(AfterPaying(j, o))
             /\ AfterPaying(j, o).at # "cancel"
             /\ Exists(o)
  <2>1. job[j].due \in SUBSET OrderId /\ \A q \in job[j].due : Exists(q)
    BY <1>0, <1>4, JobFields DEF StillTrue
  <2>2. [at |-> "pay", due |-> job[j].due \ {o}] \in JobState
    BY <2>1 DEF JobState
  <2> QED
    BY <1>0, <1>4, <2>1, <2>2 DEF AfterPaying, StillTrue, Idle
<1>5. ASSUME NEW o \in OrderId, PayOne(j, o)
      PROVE  DeskInv'
  <2>1. /\ AfterPaying(j, o) \in JobState /\ StillTrue(AfterPaying(j, o))
        /\ AfterPaying(j, o).at # "cancel" /\ Exists(o)
    BY <1>4, <1>5 DEF PayOne
  <2>2. /\ orders' \in [OrderId -> Order \cup {NoOrder}]
        /\ \A q \in OrderId : Exists(q) => Exists(q)'
    BY <1>5, <2>1, PaidKeepsInv DEF PayOne
  <2>3. /\ job' \in [Job -> JobState]
        /\ \A k \in Job : /\ job'[k].at # "cancel"
                          /\ job'[k] \in {job[k], Idle, AfterPaying(j, o)}
    <3>1. job' = [Overtaken(job) EXCEPT ![j] = AfterPaying(j, o)]
      BY <1>5 DEF PayOne
    <3>2. Overtaken(job) \in [Job -> JobState]
      BY <1>0, OvertakenType
    <3>3. \A k \in Job : Overtaken(job)[k].at # "cancel" /\ Overtaken(job)[k] \in {job[k], Idle}
      BY OvertakenJobs
    <3> HIDE DEF Idle
    <3> QED
      BY <2>1, <3>1, <3>2, <3>3
  <2>4. ASSUME NEW y \in JobState, StillTrue(y), y.at # "cancel"
        PROVE  /\ y.at \in {"guest_cancel", "refund", "fix"} => Exists(y.order)'
               /\ y.at = "pay" => \A q \in y.due : Exists(q)'
    BY <2>2, <2>4, JobFields DEF StillTrue
  <2>5. CancelSnapshotHolds'
    <3>1. SUFFICES ASSUME NEW k \in Job PROVE StillTrue(job[k])'
      BY DEF CancelSnapshotHolds
    <3>2. /\ job'[k] \in JobState /\ job'[k].at # "cancel" /\ StillTrue(job'[k])
      BY <1>0, <2>1, <2>3 DEF CancelSnapshotHolds
    <3> QED
      BY <2>4, <3>2 DEF StillTrue
  <2> QED
    BY <1>5, <2>2, <2>3, <2>5 DEF DeskTypeOK, PayOne, SetPaid
<1>6. ASSUME NEW o \in OrderId, PaySkip(j, o)
      PROVE  DeskInv'
  BY <1>4, <1>6, ReadKeepsInv DEF PaySkip
<1>7. ASSUME NEW s \in Session, NEW o \in OrderId, GuestCancelRead(j, s, o)
      PROVE  DeskInv'
  <2>1. ASSUME NEW at \in {"refund", "guest_cancel"}
        PROVE  /\ [at |-> at, order |-> o] \in JobState
               /\ StillTrue([at |-> at, order |-> o])
    BY <1>7 DEF JobState, StillTrue, GuestCancelRead
  <2>2. PICK at \in {"refund", "guest_cancel"} : Remember(j, [at |-> at, order |-> o])
    BY <1>7 DEF GuestCancelRead
  <2> QED
    BY <1>7, <2>1, <2>2, ReadKeepsInv DEF GuestCancelRead
<1>8. CASE RefundWrite(j)
  <2>1. job[j].order \in OrderId /\ Exists(job[j].order)
    BY <1>0, <1>8, JobFields DEF RefundWrite, StillTrue
  <2>2. /\ orders' \in [OrderId -> Order \cup {NoOrder}]
        /\ \A q \in OrderId : Exists(q) => Exists(q)'
    BY <1>8, <2>1, OrderWrite DEF RefundWrite, DeskTypeOK, Exists
  <2>3. /\ job' \in [Job -> JobState]
        /\ \A k \in Job : job'[k].at # "cancel" /\ job'[k] \in {job[k], Idle}
    BY <1>0, <1>8, DoneJobs DEF RefundWrite
  <2>4. CancelSnapshotHolds'
    BY <1>0, <2>2, <2>3, CommitKeepsTruth
  <2> QED
    BY <1>8, <2>2, <2>3, <2>4 DEF RefundWrite, DeskTypeOK
<1>9. ASSUME NEW o \in OrderId, CancelBegin(j, o)
      PROVE  DeskInv'
  <2>1. /\ [at |-> "cancel", order |-> o] \in JobState
        /\ StillTrue([at |-> "cancel", order |-> o])
    BY <1>9 DEF CancelBegin, JobState, StillTrue
  <2> QED
    BY <1>9, <2>1, ReadKeepsInv DEF CancelBegin
<1>10. CASE GuestCancelBegin(j)
  <2> DEFINE x == IF orders[job[j].order].status \in Cookable
                  THEN [at |-> "cancel", order |-> job[j].order]
                  ELSE Idle
  <2>1. job[j].order \in OrderId /\ Exists(job[j].order)
    BY <1>0, <1>10, JobFields DEF GuestCancelBegin, StillTrue
  <2>2. x \in JobState /\ StillTrue(x)
    BY <1>0, <2>1 DEF JobState, StillTrue
  <2> QED
    BY <1>10, <2>2, ReadKeepsInv DEF GuestCancelBegin
<1>11. CASE CancelCommit(j)
  <2> DEFINE o == job[j].order
  <2>1. o \in OrderId /\ Exists(o)
    BY <1>0, <1>11, JobFields DEF CancelCommit, StillTrue
  <2>2. /\ orders' \in [OrderId -> Order \cup {NoOrder}]
        /\ \A q \in OrderId : Exists(q) => Exists(q)'
    BY <1>11, <2>1, OrderWrite DEF CancelCommit, DeskTypeOK, Exists, OrderStatus
  <2>3. /\ job' \in [Job -> JobState]
        /\ \A k \in Job : job'[k].at # "cancel" /\ job'[k] \in {job[k], Idle}
    BY <1>0, <1>11, DoneJobs DEF CancelCommit
  <2>4. CancelSnapshotHolds'
    BY <1>0, <2>2, <2>3, CommitKeepsTruth
  <2>5. orders[o].units \in [Product -> Nat]
    BY <2>1, DeskAssumption DEF DeskTypeOK, Exists, Order
  <2>6. stock' = AfterRestock(orders[o].units)
        /\ \A p \in Product : AfterRestock(orders[o].units)[p] <= MaxStock
    BY <1>11 DEF CancelCommit
  <2>7. ASSUME NEW p \in Product PROVE AfterRestock(orders[o].units)[p] \in StockLevel
    <3>1. stock[p] \in StockLevel /\ MaxStock \in Nat /\ orders[o].units[p] \in Nat
      BY <2>5, DeskAssumption DEF DeskTypeOK
    <3>2. AfterRestock(orders[o].units)[p] \in {stock[p], stock[p] + orders[o].units[p]}
      BY DEF AfterRestock
    <3> QED
      BY <2>6, <3>1, <3>2 DEF StockLevel, Unlimited
  <2>8. stock' \in [Product -> StockLevel]
    BY <2>6, <2>7 DEF AfterRestock
  <2> QED
    BY <1>11, <2>2, <2>3, <2>4, <2>8 DEF CancelCommit, DeskTypeOK
<1>12. ASSUME NEW p \in Product, NEW delta \in Delta, NudgeRead(j, p, delta)
       PROVE  DeskInv'
  <2> DEFINE n == IF stock[p] + delta < 0 THEN 0 ELSE stock[p] + delta
             x == [at |-> "nudge", product |-> p, count |-> n]
  <2>1. n \in 0 .. MaxStock
    BY <1>12, DeskAssumption DEF NudgeRead, DeskTypeOK, StockLevel, Unlimited
  <2> HIDE DEF n
  <2>2. x \in JobState /\ StillTrue(x)
    BY <2>1 DEF JobState, StillTrue
  <2>3. Remember(j, x)
    BY <1>12 DEF NudgeRead, n
  <2> QED
    BY <1>12, <2>2, <2>3, ReadKeepsInv DEF NudgeRead
<1>13. CASE NudgeWrite(j)
  <2>1. job[j].product \in Product /\ job[j].count \in StockLevel
    BY <1>0, <1>13, JobFields, DeskAssumption DEF NudgeWrite, StockLevel, Unlimited
  <2>2. stock' \in [Product -> StockLevel] /\ adjusted' \subseteq Product
    BY <1>13, <2>1 DEF NudgeWrite, DeskTypeOK
  <2>3. Done(j) /\ UNCHANGED <<orders, listed>>
    BY <1>13 DEF NudgeWrite
  <2> QED
    BY <1>0, <2>2, <2>3, DoneJobs, MenuKeepsInv DEF DeskTypeOK
<1>14. ASSUME NEW p \in Product, ToggleRead(j, p)
       PROVE  DeskInv'
  <2> DEFINE x == [at |-> "toggle", product |-> p,
                   to |-> IF listed[p] = "shown" THEN "hidden" ELSE "shown"]
  <2>1. x \in JobState /\ StillTrue(x)
    BY DEF JobState, StillTrue
  <2> QED
    BY <1>14, <2>1, ReadKeepsInv DEF ToggleRead
<1>15. CASE ToggleWrite(j)
  <2>1. job[j].product \in Product /\ job[j].to \in {"shown", "hidden"}
    BY <1>0, <1>15, JobFields DEF ToggleWrite
  <2>2. listed' \in [Product -> {"shown", "hidden", "deleted"}]
    BY <1>15, <2>1 DEF ToggleWrite, DeskTypeOK
  <2>3. Done(j) /\ UNCHANGED <<orders, stock, adjusted>>
    BY <1>15 DEF ToggleWrite
  <2> QED
    BY <1>0, <2>2, <2>3, DoneJobs, MenuKeepsInv DEF DeskTypeOK
<1>16. ASSUME NEW p \in Product, DeleteRead(j, p)
       PROVE  DeskInv'
  <2>1. /\ [at |-> "delete", product |-> p] \in JobState
        /\ StillTrue([at |-> "delete", product |-> p])
    BY DEF JobState, StillTrue
  <2> QED
    BY <1>16, <2>1, ReadKeepsInv DEF DeleteRead
<1>17. CASE DeleteWrite(j)
  <2>1. job[j].product \in Product
    BY <1>0, <1>17, JobFields DEF DeleteWrite
  <2>2. listed' \in [Product -> {"shown", "hidden", "deleted"}]
    BY <1>17, <2>1 DEF DeleteWrite, DeskTypeOK
  <2>3. Done(j) /\ UNCHANGED <<orders, stock, adjusted>>
    BY <1>17 DEF DeleteWrite
  <2> QED
    BY <1>0, <2>2, <2>3, DoneJobs, MenuKeepsInv DEF DeskTypeOK
<1>18. CASE JobFails(j)
  BY <1>0, <1>18, ReadKeepsInv DEF JobFails
<1> QED
  BY <1>1, <1>2, <1>3, <1>5, <1>6, <1>7, <1>8, <1>9, <1>10, <1>11, <1>12,
     <1>13, <1>14, <1>15, <1>16, <1>17, <1>18 DEF HandlerStep

\* Every step of the desk.
LEMMA NextKeepsInv ==
  ASSUME DeskInv, [Next]_vars
  PROVE  DeskInv'
<1>1. CASE Place
  BY <1>1, PlaceKeepsInv DEF Place
<1>2. CASE StaffStep
  <2>1. ASSUME NEW o \in OrderId, NEW st \in OrderStatusFlow, UpdateStatus(o, st)
        PROVE  DeskInv'
    BY <2>1, CommitJobs, StatusKeepsInv DEF UpdateStatus, DeskInv, DeskTypeOK
  <2>2. ASSUME NEW o \in OrderId, NEW paid \in BOOLEAN, MarkPaid(o, paid)
        PROVE  DeskInv'
    <3>1. /\ orders' \in [OrderId -> Order \cup {NoOrder}]
          /\ \A q \in OrderId : Exists(q) => Exists(q)'
      BY <2>2, PaidKeepsInv DEF MarkPaid
    <3>2. /\ job' \in [Job -> JobState]
          /\ \A k \in Job : job'[k].at # "cancel" /\ job'[k] \in {job[k], Idle}
      BY <2>2, CommitJobs DEF MarkPaid, DeskInv, DeskTypeOK
    <3>3. CancelSnapshotHolds'
      BY <3>1, <3>2, CommitKeepsTruth DEF DeskInv, DeskTypeOK
    <3> QED
      BY <2>2, <3>1, <3>2, <3>3 DEF MarkPaid, SetPaid, DeskInv, DeskTypeOK
  <2> QED
    BY <1>2, <2>1, <2>2 DEF StaffStep
<1>3. ASSUME NEW j \in Job, HandlerStep(j)
      PROVE  DeskInv'
  BY <1>3, HandlerKeepsInv
<1>4. CASE EditStep
  <2>1. PICK p \in Product, n \in StockLevel : EditProduct(p, n)
    BY <1>4 DEF EditStep
  <2>2. /\ job' \in [Job -> JobState]
        /\ \A k \in Job : job'[k].at # "cancel" /\ job'[k] \in {job[k], Idle}
    BY <2>1, CommitJobs DEF EditProduct, DeskInv, DeskTypeOK
  <2> QED
    BY <2>1, <2>2, MenuKeepsInv DEF EditProduct, DeskInv, DeskTypeOK
<1>5. CASE Restart
  <2>1. /\ job' \in [Job -> JobState]
        /\ \A k \in Job : job'[k].at # "cancel" /\ job'[k] \in {job[k], Idle}
    BY <1>5 DEF Restart, JobState, Idle
  <2> QED
    BY <1>5, <2>1, MenuKeepsInv DEF Restart, DeskInv, DeskTypeOK
<1>6. CASE UNCHANGED vars
  BY <1>6 DEF vars, DeskInv, DeskTypeOK, CancelSnapshotHolds, StillTrue, Exists
<1> QED
  BY <1>1, <1>2, <1>3, <1>4, <1>5, <1>6 DEF Next, DeskStep

\* Every reachable state is inside the invariant.
LEMMA DeskInvariant == Spec => []DeskInv
  BY DeskInit, NextKeepsInv, PTL DEF Spec

\* The desk never holds a value outside its types.
THEOREM DeskTypes == Spec => []DeskTypeOK
<1>1. DeskInv => DeskTypeOK
  BY DEF DeskInv
<1> QED
  BY <1>1, DeskInvariant, PTL

\* Whatever staff, guest and manager interleave, a cancellation that is about
\* to write still sees the status it read.
THEOREM SnapshotHolds == Spec => []CancelSnapshotHolds
<1>1. DeskInv => CancelSnapshotHolds
  BY DEF DeskInv
<1> QED
  BY <1>1, DeskInvariant, PTL

----------------------------------------------------------------------------
(* The desk implements the ledger *)

\* Statements that touch no units are invisible to the ledger.
Invisible == UNCHANGED <<stock, Held, listed, adjusted>>

\* A step that leaves stock, held units and listings alone is no step of the ledger.
LEMMA InvisibleStutters ==
  ASSUME Invisible
  PROVE  UNCHANGED Ledger!ledgerVars
  BY DEF Invisible, Ledger!ledgerVars

\* Held units depend on the orders only.
LEMMA SameOrdersSameUnits ==
  ASSUME UNCHANGED orders
  PROVE  UNCHANGED Held
  BY DEF Held, Live, Exists

\* Payment and refund flags do not count as units.
LEMMA FlagsHoldNothing ==
  ASSUME DeskInv, NEW o \in OrderId, NEW b \in BOOLEAN, Exists(o),
         \/ orders' = [orders EXCEPT ![o].paid = b]
         \/ orders' = [orders EXCEPT ![o].refund = b]
  PROVE  UNCHANGED Held
<1>1. orders[o] \in Order /\ NoOrder \notin Order
  BY DEF DeskInv, DeskTypeOK, Exists, NoOrder, Order, OrderStatus,
         OrderStatusFlow, Fixable, Active, Cookable
<1>2. /\ [orders[o] EXCEPT !.paid = b] \in Order
      /\ [orders[o] EXCEPT !.refund = b] \in Order
  BY <1>1 DEF Order
<1>3. /\ orders'[o].status = orders[o].status
      /\ orders'[o].units = orders[o].units
      /\ orders'[o] \in Order
      /\ \A q \in OrderId \ {o} : orders'[q] = orders[q]
  BY <1>1, <1>2 DEF DeskInv, DeskTypeOK, Order
<1>4. \A q \in OrderId : /\ Live(q)' = Live(q)
                        /\ orders'[q].units = orders[q].units
  BY <1>1, <1>3 DEF Live, Exists
<1> QED
  BY <1>4 DEF Held

\* Moving an order along is invisible, or revives a cancelled order.
LEMMA StatusIsLedgerStep ==
  ASSUME DeskInv, NEW o \in OrderId, Exists(o), NEW st \in OrderStatusFlow,
         SetStatus(o, st)
  PROVE  UNCHANGED Ledger!ledgerVars \/ Ledger!Next
<1> DEFINE u == orders[o].units
<1>1. orders[o] \in Order /\ NoOrder \notin Order /\ u \in Basket
  BY DEF DeskInv, DeskTypeOK, Exists, NoOrder, Order, OrderStatus,
         OrderStatusFlow, Fixable, Active, Cookable
<1>2. [orders[o] EXCEPT !.status = st] \in Order
  BY <1>1 DEF Order, OrderStatus
<1>3. st # "cancelled"
  BY DEF OrderStatusFlow, Fixable, Active, Cookable
<1>4. /\ orders'[o] \in Order /\ orders'[o].status = st /\ orders'[o].units = u
      /\ \A q \in OrderId \ {o} : orders'[q] = orders[q]
  BY <1>1, <1>2 DEF SetStatus, DeskInv, DeskTypeOK, Order
<1>5. Live(o)' /\ Held'[o] = u
  BY <1>1, <1>3, <1>4 DEF Live, Exists, Held
<1>6. \A q \in OrderId \ {o} : Held'[q] = Held[q]
  BY <1>4 DEF Held, Live, Exists
<1>7. DOMAIN Held = OrderId /\ DOMAIN Held' = OrderId
  BY DEF Held
<1>8. CASE Cancelled(o)
  <2>1. Held[o] = Ledger!Nothing
    BY <1>8 DEF Held, Live, Cancelled, Ledger!Nothing
  <2>2. Held' = [Held EXCEPT ![o] = u]
    BY <1>5, <1>6, <1>7 DEF Held
  <2>3. Ledger!Revive(o, u)
    BY <1>8, <2>1, <2>2 DEF SetStatus, Ledger!Revive
  <2> QED
    BY <1>1, <2>3 DEF Ledger!Next
<1>9. CASE ~Cancelled(o)
  <2>1. Held[o] = u
    BY <1>9 DEF Held, Live, Cancelled
  <2>2. UNCHANGED Held
    BY <1>5, <1>6, <2>1 DEF Held
  <2> QED
    BY <1>9, <2>2, InvisibleStutters DEF SetStatus, Invisible
<1> QED
  BY <1>8, <1>9

\* An order that is placed sells its units.
LEMMA PlaceIsSale ==
  ASSUME DeskInv, NEW o \in OrderId, NEW s \in Session, NEW t \in Table,
         NEW u \in Basket, NEW paid \in BOOLEAN, PlaceOrder(o, s, t, u, paid)
  PROVE  Ledger!Next
<1>1. Held[o] = Ledger!Nothing
  BY DEF PlaceOrder, Held, Live, Ledger!Nothing
<1>2. Held' = [Held EXCEPT ![o] = u]
  <2> DEFINE new == [session |-> s, table |-> t, status |-> "pending",
                     paid |-> paid, refund |-> FALSE, units |-> u]
  <2>1. orders' = [orders EXCEPT ![o] = new]
    BY DEF PlaceOrder
  <2>2. new \in Order /\ NoOrder \notin Order
    BY DEF Order, NoOrder, OrderStatus, OrderStatusFlow, Fixable, Active, Cookable
  <2>3. new.status # "cancelled" /\ new.units = u
    OBVIOUS
  <2> HIDE DEF new
  <2>4. orders'[o] = new /\ \A q \in OrderId \ {o} : orders'[q] = orders[q]
    BY <2>1 DEF DeskInv, DeskTypeOK
  <2>5. Held'[o] = u /\ \A q \in OrderId \ {o} : Held'[q] = Held[q]
    BY <2>2, <2>3, <2>4 DEF Held, Live, Exists
  <2> QED
    BY <2>5 DEF Held
<1>3. Ledger!Sell(o, u)
  BY <1>1, <1>2 DEF PlaceOrder, Available, AfterSale, Unlimited, Ledger!Sell, Ledger!Unlimited
<1> QED
  BY <1>3 DEF Ledger!Next

\* A cancellation returns all units of its order, exactly once.
LEMMA CancelIsReturn ==
  ASSUME DeskInv, NEW j \in Job, CancelCommit(j)
  PROVE  Ledger!Next
<1> DEFINE o == job[j].order
           u == orders[o].units
<1>1. o \in OrderId /\ Exists(o) /\ orders[o].status \in Cookable
  BY JobFields DEF CancelCommit, DeskInv, DeskTypeOK, CancelSnapshotHolds, StillTrue
<1>2. orders[o] \in Order /\ NoOrder \notin Order
  BY <1>1 DEF DeskInv, DeskTypeOK, Exists, NoOrder, Order, OrderStatus,
              OrderStatusFlow, Fixable, Active, Cookable
<1>3. Held[o] = u
  BY <1>1 DEF Held, Live, Cookable
<1>4. orders' = [orders EXCEPT ![o].status = "cancelled"]
  BY DEF CancelCommit
<1>5. Held' = [Held EXCEPT ![o] = Ledger!Nothing]
  <2>1. orders'[o].status = "cancelled" /\ \A q \in OrderId \ {o} : orders'[q] = orders[q]
    BY <1>1, <1>2, <1>4 DEF DeskInv, DeskTypeOK, Order
  <2>2. Held'[o] = Ledger!Nothing /\ \A q \in OrderId \ {o} : Held'[q] = Held[q]
    BY <1>1, <2>1 DEF Held, Live, Exists, Ledger!Nothing
  <2> QED
    BY <2>2 DEF Held
<1>6. stock' = [p \in Product |-> IF stock[p] = Unlimited \/ listed[p] = "deleted"
                                   THEN stock[p] ELSE stock[p] + Held[o][p]]
  BY <1>3 DEF CancelCommit, AfterRestock
<1>7. Ledger!Return(o)
  BY <1>5, <1>6 DEF CancelCommit, Ledger!Return, Ledger!Unlimited, Unlimited
<1> QED
  BY <1>1, <1>7 DEF Ledger!Next

\* Every step of the desk is a step of the ledger or invisible to it.
LEMMA NextIsLedgerStep ==
  ASSUME DeskInv, [Next]_vars
  PROVE  [Ledger!Next]_(Ledger!ledgerVars)
<1>1. CASE Place
  BY <1>1, PlaceIsSale DEF Place
<1>2. CASE StaffStep
  <2>1. ASSUME NEW o \in OrderId, NEW st \in OrderStatusFlow, UpdateStatus(o, st)
        PROVE  UNCHANGED Ledger!ledgerVars \/ Ledger!Next
    BY <2>1, StatusIsLedgerStep DEF UpdateStatus
  <2>2. ASSUME NEW o \in OrderId, NEW paid \in BOOLEAN, MarkPaid(o, paid)
        PROVE  UNCHANGED Ledger!ledgerVars
    BY <2>2, FlagsHoldNothing, InvisibleStutters DEF MarkPaid, SetPaid, Invisible
  <2> QED
    BY <1>2, <2>1, <2>2 DEF StaffStep
<1>3. ASSUME NEW j \in Job, HandlerStep(j)
      PROVE  UNCHANGED Ledger!ledgerVars \/ Ledger!Next
  <2>0. job[j] \in JobState /\ StillTrue(job[j])
    BY DEF DeskInv, DeskTypeOK, CancelSnapshotHolds
  <2>1. CASE UNCHANGED <<orders, stock, listed, adjusted>>
    BY <2>1, SameOrdersSameUnits, InvisibleStutters DEF Invisible
  <2>2. CASE FixWrite(j)
    <3>1. /\ job[j].order \in OrderId /\ Exists(job[j].order)
          /\ job[j].to \in OrderStatusFlow /\ SetStatus(job[j].order, job[j].to)
      BY <2>0, <2>2, JobFields DEF FixWrite, StillTrue, OrderStatusFlow
    <3> QED
      BY <3>1, StatusIsLedgerStep
  <2>3. ASSUME NEW o \in OrderId, PayOne(j, o)
        PROVE  UNCHANGED Ledger!ledgerVars
    <3>1. Exists(o) /\ SetPaid(o, TRUE)
      BY <2>0, <2>3 DEF PayOne, StillTrue
    <3> QED
      BY <3>1, FlagsHoldNothing, InvisibleStutters DEF SetPaid, Invisible
  <2>4. CASE RefundWrite(j)
    <3>1. job[j].order \in OrderId /\ Exists(job[j].order)
      BY <2>0, <2>4, JobFields DEF RefundWrite, StillTrue
    <3> QED
      BY <2>4, <3>1, FlagsHoldNothing, InvisibleStutters DEF RefundWrite, Invisible
  <2>5. CASE CancelCommit(j)
    BY <2>5, CancelIsReturn
  <2>6. CASE NudgeWrite(j)
    <3>1. /\ job[j].product \in Product /\ job[j].count \in StockLevel
          /\ UNCHANGED <<Held, listed>>
      BY <2>0, <2>6, JobFields, SameOrdersSameUnits, DeskAssumption
         DEF NudgeWrite, StockLevel, Unlimited
    <3>2. CASE listed[job[j].product] = "deleted"
      BY <2>6, <3>1, <3>2, InvisibleStutters DEF NudgeWrite, Invisible
    <3>3. CASE listed[job[j].product] # "deleted"
      <4>1. Ledger!Recount(job[j].product, job[j].count)
        BY <2>6, <3>1, <3>3 DEF NudgeWrite, Ledger!Recount
      <4> QED
        BY <3>1, <4>1 DEF Ledger!Next
    <3> QED
      BY <3>2, <3>3
  <2>7. CASE ToggleWrite(j)
    <3>1. UNCHANGED <<stock, Held, adjusted>>
      BY <2>7, SameOrdersSameUnits DEF ToggleWrite
    <3>2. job[j].product \in Product /\ job[j].to # "deleted"
      BY <2>0, <2>7, JobFields DEF ToggleWrite
    <3>3. {p \in Product : listed'[p] = "deleted"} = {p \in Product : listed[p] = "deleted"}
      BY <2>7, <3>2 DEF ToggleWrite, DeskInv, DeskTypeOK
    <3> QED
      BY <3>1, <3>3 DEF Ledger!ledgerVars
  <2>8. CASE DeleteWrite(j)
    <3>1. UNCHANGED <<stock, Held, adjusted>> /\ job[j].product \in Product
      BY <2>0, <2>8, JobFields, SameOrdersSameUnits DEF DeleteWrite
    <3>2. PICK p \in Product : p = job[j].product
      BY <3>1
    <3>3. {q \in Product : listed'[q] = "deleted"}
            = {q \in Product : listed[q] = "deleted"} \cup {p}
      BY <2>8, <3>2 DEF DeleteWrite, DeskInv, DeskTypeOK
    <3>4. Ledger!Withdraw(p)
      BY <3>1, <3>3 DEF Ledger!Withdraw
    <3> QED
      BY <3>4 DEF Ledger!Next
  <2> QED
    BY <1>3, <2>1, <2>2, <2>3, <2>4, <2>5, <2>6, <2>7, <2>8
       DEF HandlerStep, FixRead, PayRead, PaySkip, GuestCancelRead, CancelBegin,
           GuestCancelBegin, NudgeRead, ToggleRead, DeleteRead, JobFails
<1>4. CASE EditStep
  <2>1. PICK p \in Product, n \in StockLevel : EditProduct(p, n)
    BY <1>4 DEF EditStep
  <2>2. Ledger!Recount(p, n)
    BY <2>1, SameOrdersSameUnits DEF EditProduct, Ledger!Recount
  <2> QED
    BY <2>2 DEF Ledger!Next
<1>5. CASE Restart \/ UNCHANGED vars
  BY <1>5, SameOrdersSameUnits, InvisibleStutters DEF Restart, vars, Invisible
<1> QED
  BY <1>1, <1>2, <1>3, <1>4, <1>5 DEF Next, DeskStep

\* Whatever handlers interleave, units move between the shelf and the orders
\* one whole order at a time.
THEOREM ImplementsLedger == Spec => LedgerSpec
<1>1. Init => Ledger!Init
  <2> SUFFICES ASSUME Init PROVE Ledger!Init
    OBVIOUS
  <2>1. Held = [o \in OrderId |-> Ledger!Nothing]
    BY DEF Init, Held, Live, Exists, Ledger!Nothing
  <2>2. {p \in Product : listed[p] = "deleted"} = {}
    BY DEF Init
  <2> QED
    BY <2>1, <2>2 DEF Init, Ledger!Init
<1>2. DeskInv /\ [Next]_vars => [Ledger!Next]_(Ledger!ledgerVars)
  BY NextIsLedgerStep
<1> QED
  BY <1>1, <1>2, DeskInvariant, PTL DEF Spec, LedgerSpec, Ledger!Spec

Proved == INSTANCE StockLedger_proofs
            WITH left <- stock, held <- Held, Count <- StockLevel,
                 gone <- {p \in Product : listed[p] = "deleted"}

\* No unit of a product nobody recounted or put back into a cancelled order is
\* lost, sold twice or given back twice.
THEOREM DeskConserves == Spec => []Conservation
<1>1. Proved!LedgerConstants
  BY DeskAssumption DEF Proved!LedgerConstants, Proved!Unlimited, StockLevel, Unlimited
<1>2. LedgerSpec <=> Proved!Spec
  <2>1. Ledger!Init <=> Proved!Init
    BY DEF Ledger!Init, Proved!Init, Ledger!Nothing, Proved!Nothing
  <2>2. Ledger!Next <=> Proved!Next
    BY DEF Ledger!Next, Ledger!Sell, Ledger!Return, Ledger!Revive, Ledger!Recount,
           Ledger!Withdraw, Ledger!Nothing, Ledger!Unlimited,
           Proved!Next, Proved!Sell, Proved!Return, Proved!Revive, Proved!Recount,
           Proved!Withdraw, Proved!Nothing, Proved!Unlimited
  <2>3. UNCHANGED Ledger!ledgerVars <=> UNCHANGED Proved!ledgerVars
    BY DEF Ledger!ledgerVars, Proved!ledgerVars
  <2> QED
    BY <2>1, <2>2, <2>3, PTL DEF LedgerSpec, Ledger!Spec, Proved!Spec
<1>3. Proved!Spec => []Proved!Conservation
  BY <1>1, Proved!LedgerConserves
<1>4. Proved!Conservation => Conservation
  BY DEF Proved!Conservation, Conservation, Ledger!Conservation, Proved!Unlimited, Ledger!Unlimited,
   Proved!Units, Proved!UnitsIn, Ledger!Units, Ledger!UnitsIn,
   Proved!Cardinality, Ledger!Cardinality
<1> QED
  BY <1>2, <1>3, <1>4, ImplementsLedger, PTL

----------------------------------------------------------------------------
(* What a step may never do *)

\* Only the commit of a cancellation turns a live order into a cancelled one.
LEMMA OnlyCommitCancels ==
  ASSUME DeskInv, [Next]_vars, NEW o \in OrderId, Live(o), Cancelled(o)'
  PROVE  \E j \in Job : CancelCommit(j) /\ job[j].order = o
<1>1. orders[o] \in Order /\ orders'[o].status = "cancelled" /\ orders[o].status # "cancelled"
  BY DEF DeskInv, DeskTypeOK, Live, Exists, Cancelled
<1>2. orders' # orders
  BY <1>1
<1>3. ASSUME NEW q \in OrderId, NEW st \in OrderStatusFlow, SetStatus(q, st)
      PROVE  FALSE
  <2>1. orders'[o] = orders[o] \/ orders'[o].status = st
    BY <1>1, <1>3 DEF SetStatus, DeskInv, DeskTypeOK, Order
  <2>2. st # "cancelled"
    BY DEF OrderStatusFlow, Fixable, Active, Cookable
  <2> QED
    BY <1>1, <2>1, <2>2
<1>4. ASSUME NEW q \in OrderId, NEW b \in BOOLEAN,
             \/ orders' = [orders EXCEPT ![q].paid = b]
             \/ orders' = [orders EXCEPT ![q].refund = b]
      PROVE  FALSE
  BY <1>1, <1>4 DEF DeskInv, DeskTypeOK, Order
<1>5. CASE Place
  <2>1. PICK q \in OrderId, s \in Session, t \in Table, u \in Basket, paid \in BOOLEAN :
          PlaceOrder(q, s, t, u, paid)
    BY <1>5 DEF Place
  <2>2. q # o
    BY <2>1 DEF PlaceOrder, Live
  <2> QED
    BY <1>1, <2>1, <2>2 DEF PlaceOrder, DeskInv, DeskTypeOK
<1>6. CASE StaffStep
  BY <1>3, <1>4, <1>6 DEF StaffStep, UpdateStatus, MarkPaid, SetPaid
<1>7. ASSUME NEW j \in Job, HandlerStep(j)
      PROVE  CancelCommit(j) /\ job[j].order = o
  <2>0. job[j] \in JobState
    BY DEF DeskInv, DeskTypeOK
  <2>1. CASE FixWrite(j)
    BY <1>3, <2>0, <2>1, JobFields DEF FixWrite, OrderStatusFlow
  <2>2. ASSUME NEW q \in OrderId, PayOne(j, q)
        PROVE  FALSE
    BY <1>4, <2>2 DEF PayOne, SetPaid
  <2>3. CASE RefundWrite(j)
    BY <1>4, <2>0, <2>3, JobFields DEF RefundWrite
  <2>4. CASE CancelCommit(j)
    <3>1. job[j].order \in OrderId /\ orders' = [orders EXCEPT ![job[j].order].status = "cancelled"]
      BY <2>0, <2>4, JobFields DEF CancelCommit
    <3> QED
      BY <1>1, <2>4, <3>1 DEF DeskInv, DeskTypeOK
  <2> QED
    BY <1>2, <1>7, <2>1, <2>2, <2>3, <2>4
       DEF HandlerStep, FixRead, PayRead, PaySkip, GuestCancelRead, CancelBegin,
           GuestCancelBegin, NudgeRead, NudgeWrite, ToggleRead, ToggleWrite,
           DeleteRead, DeleteWrite, JobFails
<1>8. CASE EditStep \/ Restart \/ UNCHANGED vars
  BY <1>2, <1>8 DEF EditStep, EditProduct, Restart, vars
<1> QED
  BY <1>5, <1>6, <1>7, <1>8 DEF Next, DeskStep

\* What the kitchen has finished is never cancelled.
THEOREM UncookedOnly == Spec => CancelOnlyUncooked
<1>1. ASSUME DeskInv, [Next]_vars
      PROVE  [\A o \in OrderId :
                Live(o) /\ Cancelled(o)' => orders[o].status \in Cookable]_vars
  <2>1. SUFFICES ASSUME NEW o \in OrderId, Live(o), Cancelled(o)'
                 PROVE  orders[o].status \in Cookable
    OBVIOUS
  <2>2. PICK j \in Job : CancelCommit(j) /\ job[j].order = o
    BY <1>1, <2>1, OnlyCommitCancels
  <2> QED
    BY <1>1, <2>2 DEF CancelCommit, DeskInv, CancelSnapshotHolds, StillTrue
<1> QED
  BY <1>1, DeskInvariant, PTL DEF Spec, CancelOnlyUncooked

\* No sale, restock or nudge lands on the sentinel of an uncounted product.
THEOREM EditorOnly == Spec => OnlyEditorMakesUnlimited
<1>1. ASSUME DeskInv, [Next]_vars
      PROVE  [\A p \in Product :
                stock[p] # Unlimited /\ stock'[p] = Unlimited
                  => EditProduct(p, Unlimited)]_vars
  <2>1. SUFFICES ASSUME NEW p \in Product, stock[p] # Unlimited, stock'[p] = Unlimited
                 PROVE  EditProduct(p, Unlimited)
    OBVIOUS
  <2>2. stock[p] \in 0 .. MaxStock /\ MaxStock \in Nat
    BY <1>1, <2>1, DeskAssumption DEF DeskInv, DeskTypeOK, StockLevel, Unlimited
  <2>3. CASE Place
    <3>1. PICK o \in OrderId, s \in Session, t \in Table, u \in Basket, paid \in BOOLEAN :
            PlaceOrder(o, s, t, u, paid)
      BY <2>3 DEF Place
    <3>2. u[p] \in Nat
      BY DeskAssumption
    <3>3. stock'[p] = stock[p] - u[p] /\ (u[p] = 0 \/ stock[p] >= u[p])
      BY <2>1, <3>1, <3>2 DEF PlaceOrder, AfterSale, Available
    <3> QED
      BY <2>1, <2>2, <3>2, <3>3 DEF Unlimited
  <2>4. ASSUME NEW j \in Job, CancelCommit(j)
        PROVE  FALSE
    <3>1. job[j].order \in OrderId /\ orders[job[j].order] \in Order
      BY <1>1, <2>4, JobFields
         DEF CancelCommit, DeskInv, DeskTypeOK, CancelSnapshotHolds, StillTrue, Exists
    <3>2. orders[job[j].order].units[p] \in Nat
      BY <3>1, DeskAssumption DEF Order
    <3>3. stock'[p] \in {stock[p], stock[p] + orders[job[j].order].units[p]}
      BY <2>4 DEF CancelCommit, AfterRestock
    <3> QED
      BY <2>1, <2>2, <3>2, <3>3 DEF Unlimited
  <2>5. ASSUME NEW j \in Job, NudgeWrite(j)
        PROVE  FALSE
    <3>1. job[j].count \in 0 .. MaxStock
      BY <1>1, <2>5, JobFields DEF NudgeWrite, DeskInv, DeskTypeOK
    <3>2. stock'[p] \in {stock[p], job[j].count}
      BY <1>1, <2>5 DEF NudgeWrite, DeskInv, DeskTypeOK
    <3> QED
      BY <2>1, <2>2, <3>1, <3>2 DEF Unlimited
  <2>6. ASSUME NEW q \in Product, NEW n \in StockLevel, EditProduct(q, n)
        PROVE  EditProduct(p, Unlimited)
    <3>1. q = p /\ n = Unlimited
      BY <1>1, <2>1, <2>6 DEF EditProduct, DeskInv, DeskTypeOK
    <3> QED
      BY <2>6, <3>1
  <2>7. stock' # stock
    BY <2>1
  <2> QED
    BY <1>1, <2>3, <2>4, <2>5, <2>6, <2>7
       DEF Next, DeskStep, StaffStep, UpdateStatus, SetStatus, MarkPaid, SetPaid,
           HandlerStep, FixRead, FixWrite, PayRead, PayOne, PaySkip, GuestCancelRead,
           RefundWrite, CancelBegin, GuestCancelBegin, NudgeRead, ToggleRead,
           ToggleWrite, DeleteRead, DeleteWrite, JobFails, EditStep, Restart, vars
<1> QED
  BY <1>1, DeskInvariant, PTL DEF Spec, OnlyEditorMakesUnlimited

=============================================================================
