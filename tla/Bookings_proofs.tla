--------------------------- MODULE Bookings_proofs ---------------------------
(* Bookings never overlap, for any number of tables, rows, handlers and      *)
(* minutes; and the bookings table is a diary.                               *)
EXTENDS Bookings, TLAPS

\* While ConfirmHold has the mutex nobody takes the time of the hold it
\* selected, even if the hold runs out meanwhile.
SelectedKeeps ==
  confirming # Nobody =>
    /\ booking[confirming].status \in {"held", "deleted"}
    /\ booking[confirming].status = "held" => IsFree(booking[confirming], confirming)

BookingsInv == BookingsTypeOK /\ NoDoubleBooking /\ SelectedKeeps

----------------------------------------------------------------------------
(* Rows *)

\* Rows made up by the handlers are rows.
LEMMA RowType ==
  ASSUME NEW s \in Status \ {"unused", "deleted"}, NEW t \in Table, NEW w \in Window,
         NEW e \in Nat
  PROVE  Row(s, t, w, e) \in Booking
<1>1. w.from \in Time /\ w.to \in Time /\ w.from \in Nat /\ w.to \in Nat /\ w.from < w.to
  BY BookingsAssumption DEF Window
<1>2. w.from <= w.to
  BY <1>1
<1>3. s \in Status /\ t # Nobody
  BY BookingsAssumption
<1>4. Row(s, t, w, e)
        \in [status : Status, table : Table \cup {Nobody}, from : Time, to : Time, expires : Nat]
  BY <1>1, <1>3 DEF Row
<1>5. /\ Row(s, t, w, e).from = w.from /\ Row(s, t, w, e).to = w.to
      /\ Row(s, t, w, e).table = t /\ Row(s, t, w, e).status = s
  BY DEF Row
<1> QED
  BY <1>2, <1>3, <1>4, <1>5 DEF Booking

\* A row that is not there is still a row of the type.
LEMMA NoRowType ==
  ASSUME NEW s \in {"unused", "deleted"}
  PROVE  NoRow(s) \in Booking
BY BookingsAssumption DEF NoRow, Row, Booking, Status

\* A row that lets go of its table keeps nothing.
LEMMA DroppedKeepsNothing ==
  ASSUME NEW t, NEW s \in {"unused", "deleted"}
  PROVE  ~Keeps(NoRow(s), t)
BY DEF NoRow, Row, Keeps

\* Two bookings overlap each other or not at all.
LEMMA OverlapSymmetric ==
  ASSUME NEW b \in Booking, NEW c \in Booking
  PROVE  Overlap(b, c) <=> Overlap(c, b)
BY BookingsAssumption DEF Overlap, Booking

\* Holds only run out.
LEMMA KeepsShrinks ==
  ASSUME NEW b \in Booking, NEW t \in Nat, NEW u \in Nat, t <= u, Keeps(b, u)
  PROVE  Keeps(b, t)
BY DEF Keeps, Booking

----------------------------------------------------------------------------
(* Types *)

\* The table starts with rows only.
LEMMA TypesInit == Init => BookingsTypeOK
<1> SUFFICES ASSUME Init PROVE BookingsTypeOK
  OBVIOUS
<1>1. booking \in [Id -> Booking]
  BY NoRowType DEF Init
<1> QED
  BY <1>1, BookingsAssumption DEF Init, BookingsTypeOK, JobState

\* Every write to the table writes rows.
LEMMA TypesStep == BookingsTypeOK /\ SelectedKeeps /\ [Next]_vars => BookingsTypeOK'
<1> SUFFICES ASSUME BookingsTypeOK, SelectedKeeps, [Next]_vars PROVE BookingsTypeOK'
  OBVIOUS
<1> USE DEF BookingsTypeOK
<1>1. ASSUME NEW j \in Job, NEW t \in Table, NEW start \in Time, NEW w \in Window,
             HoldRead(j, t, start, w)
      PROVE  BookingsTypeOK'
  <2>1. Row("held", t, w, now + HoldFor) \in Booking
    BY RowType, BookingsAssumption DEF Status
  <2>2. [at |-> "create", row |-> Row("held", t, w, now + HoldFor)] \in JobState
    BY <2>1 DEF JobState
  <2> QED
    BY <1>1, <2>2 DEF HoldRead, Start
<1>2. ASSUME NEW j \in Job, NEW t \in Table, NEW w \in Window,
             NEW s \in {"confirmed", "seated"}, StaffRead(j, t, w, s)
      PROVE  BookingsTypeOK'
  <2>1. Row(s, t, w, 0) \in Booking
    BY RowType DEF Status, StaffStatus
  <2>2. [at |-> "create", row |-> Row(s, t, w, 0)] \in JobState
    BY <2>1 DEF JobState
  <2> QED
    BY <1>2, <2>2 DEF StaffRead, Start
<1>3. ASSUME NEW j \in Job, NEW i \in Id, NEW s \in StaffStatus, StatusRead(j, i, s)
      PROVE  BookingsTypeOK'
  <2>1. Closed(booking[i], s) \in Booking
    BY <1>3, BookingsAssumption DEF StatusRead, Listed, Closed, Booking, Status, StaffStatus
  <2>2. [at |-> "save", id |-> i, row |-> Closed(booking[i], s)] \in JobState
    BY <2>1 DEF JobState
  <2> QED
    BY <1>3, <2>2 DEF StatusRead, Start
<1>4. ASSUME NEW j \in Job, NEW i \in Id, NEW t \in Table, NEW w \in Window, EditRead(j, i, t, w)
      PROVE  BookingsTypeOK'
  <2>1. Row(booking[i].status, t, w, 0) \in Booking
    BY <1>4, RowType DEF EditRead, Listed, Status, StaffStatus
  <2>2. [at |-> "save", id |-> i, row |-> Row(booking[i].status, t, w, 0)] \in JobState
    BY <2>1 DEF JobState
  <2> QED
    BY <1>4, <2>2 DEF EditRead, Start
<1>5. ASSUME NEW j \in Job, Create(j)
      PROVE  BookingsTypeOK'
  <2>1. job[j].row \in Booking
    BY <1>5 DEF Create, JobState, Idle
  <2>2. NoRow("deleted") \in Booking
    BY NoRowType
  <2>3. booking' \in [Id -> Booking]
    BY <1>5, <2>1, <2>2 DEF Create
  <2> QED
    BY <1>5, <2>3 DEF Create, Finish, JobState
<1>6. ASSUME NEW j \in Job, Save(j)
      PROVE  BookingsTypeOK'
  <2>1. job[j].row \in Booking
    BY <1>6 DEF Save, JobState, Idle
  <2>2. booking' \in [Id -> Booking]
    BY <1>6, <2>1 DEF Save
  <2> QED
    BY <1>6, <2>2 DEF Save, Finish, JobState
<1>7. ASSUME NEW j \in Job, JobFails(j) PROVE BookingsTypeOK'
  BY <1>7 DEF JobFails, Finish, JobState
<1>8. ASSUME NEW i \in Id, ConfirmSelect(i) PROVE BookingsTypeOK'
  BY <1>8 DEF ConfirmSelect
<1>9. ASSUME NEW i \in Id, ConfirmWrite(i) PROVE BookingsTypeOK'
  <2>1. booking[i].status \in {"held", "deleted"}
    BY <1>9, BookingsAssumption DEF ConfirmWrite, SelectedKeeps
  <2>2. booking[i].status = "held" =>
          [booking[i] EXCEPT !.status = "confirmed", !.expires = 0] \in Booking
    BY DEF Booking, Status, StaffStatus
  <2>3. booking' \in [Id -> Booking]
    BY <1>9, <2>1, <2>2 DEF ConfirmWrite
  <2> QED
    BY <1>9, <2>3 DEF ConfirmWrite
<1>10. CASE ConfirmFails
  BY <1>10 DEF ConfirmFails
<1>11. ASSUME NEW i \in Id, Release(i) PROVE BookingsTypeOK'
  <2>1. NoRow("deleted") \in Booking
    BY NoRowType
  <2> QED
    BY <1>11, <2>1 DEF Release
<1>12. ASSUME NEW t \in Table, Scan(t) \/ Leave(t) PROVE BookingsTypeOK'
  BY <1>12 DEF Scan, Leave
<1>13. ASSUME NEW t \in Table, SeatArrived(t) PROVE BookingsTypeOK'
  <2>1. \A i \in Due(t) : [booking[i] EXCEPT !.status = "seated"] \in Booking
    BY DEF Due, Booking, Status, StaffStatus
  <2>2. booking' \in [Id -> Booking]
    BY <1>13, <2>1 DEF SeatArrived
  <2> QED
    BY <1>13, <2>2 DEF SeatArrived
<1>14. CASE Tick
  BY <1>14 DEF Tick
<1>15. CASE Sweep
  <2>1. \A i \in Id : Over(i) =>
          [booking[i] EXCEPT !.status = IF @ = "seated" THEN "completed" ELSE "no_show"] \in Booking
    BY DEF Over, Booking, Status, StaffStatus
  <2>2. booking' \in [Id -> Booking]
    BY <1>15, <2>1 DEF Sweep
  <2> QED
    BY <1>15, <2>2 DEF Sweep
<1>16. CASE Restart
  BY <1>16 DEF Restart, JobState
<1>17. CASE UNCHANGED vars
  BY <1>17 DEF vars
<1> QED
  BY <1>1, <1>2, <1>3, <1>4, <1>5, <1>6, <1>7, <1>8, <1>9, <1>10, <1>11, <1>12, <1>13,
     <1>14, <1>15, <1>16, <1>17
     DEF Next, Staff, Continue, Guest, ConfirmEnds

----------------------------------------------------------------------------
(* Overlaps *)

\* What a row keeps after a step, it kept before.
Lessened(i) ==
  Keeps(booking'[i], now') =>
    /\ Keeps(booking[i], now)
    /\ booking'[i].table = booking[i].table
    /\ booking'[i].from = booking[i].from /\ booking'[i].to = booking[i].to

\* The actions that give no row anything.
LEMMA OthersLessen ==
  ASSUME BookingsInv,
         \/ \E i \in Id : Release(i)
         \/ \E t \in Table : SeatArrived(t)
         \/ Tick \/ Sweep
         \/ UNCHANGED <<now, booking>>
  PROVE  \A i \in Id : Lessened(i)
<1> SUFFICES ASSUME NEW k \in Id PROVE Lessened(k)
  OBVIOUS
<1>1. booking[k] \in Booking /\ now \in Nat /\ booking \in [Id -> Booking]
  BY BookingsAssumption DEF BookingsInv, BookingsTypeOK
<1>2. ASSUME NEW i \in Id, Release(i) PROVE Lessened(k)
  BY <1>1, <1>2, DroppedKeepsNothing DEF Release, Lessened
<1>3. ASSUME NEW t \in Table, SeatArrived(t) PROVE Lessened(k)
  BY <1>1, <1>3 DEF SeatArrived, Due, Lessened, Keeps, Booking
<1>4. CASE Tick
  BY <1>1, <1>4, KeepsShrinks DEF Tick, Lessened
<1>5. CASE Sweep
  BY <1>1, <1>5 DEF Sweep, Over, Lessened, Keeps, Booking
<1>6. CASE UNCHANGED <<now, booking>>
  BY <1>6 DEF Lessened
<1> QED
  BY <1>2, <1>3, <1>4, <1>5, <1>6

\* Rows that only let go of tables cannot clash.
LEMMA LessenedFits ==
  ASSUME BookingsInv, \A i \in Id : Lessened(i)
  PROVE  NoDoubleBooking'
BY DEF BookingsInv, NoDoubleBooking, Lessened, Active, Overlap

\* The row a step writes fits in beside all others.
Fits(i) ==
  /\ now' = now
  /\ \A k \in Id \ {i} :
       Keeps(booking[k], now) \/ Keeps(booking'[k], now) => booking'[k] = booking[k]
  /\ Keeps(booking'[i], now) =>
       \A k \in Id \ {i} : Active(k) => ~Overlap(booking[k], booking'[i])

\* A step whose one written row fits in leaves no table with two bookings.
LEMMA WrittenFits ==
  ASSUME BookingsInv, BookingsTypeOK', NEW i \in Id, Fits(i)
  PROVE  NoDoubleBooking'
<1> SUFFICES ASSUME NEW k \in Id, NEW m \in Id, k # m, Active(k)', Active(m)'
             PROVE  ~Overlap(booking'[k], booking'[m])
  BY DEF NoDoubleBooking
<1>1. booking'[k] \in Booking /\ booking'[m] \in Booking
  BY DEF BookingsTypeOK
<1>2. CASE k # i /\ m # i
  BY <1>2 DEF Fits, Active, BookingsInv, NoDoubleBooking
<1>3. CASE m = i
  BY <1>3 DEF Fits, Active
<1>4. CASE k = i
  <2>1. ~Overlap(booking'[m], booking'[k])
    BY <1>4 DEF Fits, Active
  <2> QED
    BY <1>1, <2>1, OverlapSymmetric
<1> QED
  BY <1>2, <1>3, <1>4

\* CreateBooking and UpdateBooking write a row that is free, ConfirmHold one
\* whose time nobody could take.
LEMMA CreateFits ==
  ASSUME BookingsInv, NEW j \in Job, Create(j)
  PROVE  (\E i \in Id : Fits(i)) \/ (\A i \in Id : Lessened(i))
<1>1. booking \in [Id -> Booking] /\ now' = now
  BY DEF BookingsInv, BookingsTypeOK, Create
<1>2. CASE IsFree(job[j].row, Nobody)
  <2>1. PICK i \in Id :
          booking' = [[k \in Id |-> IF RunOut(booking[k]) THEN NoRow("deleted") ELSE booking[k]]
                        EXCEPT ![i] = job[j].row]
    BY <1>2 DEF Create
  <2>2. booking'[i] = job[j].row
    BY <2>1
  <2>3. \A k \in Id \ {i} : booking'[k] = IF RunOut(booking[k]) THEN NoRow("deleted") ELSE booking[k]
    BY <2>1
  <2>4. \A k \in Id \ {i} :
          Keeps(booking[k], now) \/ Keeps(booking'[k], now) => booking'[k] = booking[k]
    <3> SUFFICES ASSUME NEW k \in Id \ {i}, RunOut(booking[k])
                 PROVE  ~Keeps(booking[k], now) /\ ~Keeps(booking'[k], now)
      BY <2>3
    <3>1. booking[k] \in Booking /\ now \in Nat
      BY <1>1, BookingsAssumption DEF BookingsInv, BookingsTypeOK
    <3> QED
      BY <2>3, <3>1, DroppedKeepsNothing DEF RunOut, Keeps, Booking
  <2>5. Fits(i)
    BY <1>1, <1>2, <2>2, <2>4, BookingsAssumption DEF Fits, IsFree
  <2> QED
    BY <2>5
<1>3. CASE ~IsFree(job[j].row, Nobody)
  <2>1. \A k \in Id : booking'[k] = IF RunOut(booking[k]) THEN NoRow("deleted") ELSE booking[k]
    BY <1>3 DEF Create
  <2> QED
    BY <1>1, <2>1, DroppedKeepsNothing DEF Lessened
<1> QED
  BY <1>2, <1>3

\* Staff's write saves a row that fits in: it reads the clashes itself.
LEMMA SaveFits ==
  ASSUME BookingsInv, NEW j \in Job, Save(j)
  PROVE  job[j].id \in Id /\ Fits(job[j].id)
<1> DEFINE i == job[j].id
<1>1. i \in Id /\ job[j].row \in Booking /\ booking \in [Id -> Booking] /\ now' = now
  BY DEF BookingsInv, BookingsTypeOK, Save, JobState, Idle
<1>2. \A k \in Id \ {i} : booking'[k] = booking[k]
  BY <1>1 DEF Save
<1>3. CASE Keeps(job[j].row, now) /\ ~IsFree(job[j].row, i)
  <2>1. booking' = booking
    BY <1>3 DEF Save
  <2> QED
    BY <1>1, <2>1 DEF Fits, BookingsInv, NoDoubleBooking, Active
<1>4. CASE ~(Keeps(job[j].row, now) /\ ~IsFree(job[j].row, i))
  <2>1. booking'[i] = job[j].row
    BY <1>1, <1>4 DEF Save
  <2> QED
    BY <1>1, <1>2, <1>4, <2>1 DEF Fits, IsFree
<1> QED
  BY <1>3, <1>4, <1>1

\* The guest's write fits in: while it has the mutex its hold's time stays free of others.
LEMMA ConfirmFits ==
  ASSUME BookingsInv, NEW i \in Id, ConfirmWrite(i)
  PROVE  Fits(i)
<1>1. booking \in [Id -> Booking] /\ now' = now
  BY DEF BookingsInv, BookingsTypeOK, ConfirmWrite
<1>2. /\ booking[i].status \in {"held", "deleted"}
      /\ booking[i].status = "held" => IsFree(booking[i], i)
  BY BookingsAssumption DEF BookingsInv, SelectedKeeps, ConfirmWrite
<1>3. \A k \in Id \ {i} : booking'[k] = booking[k]
  BY <1>1 DEF ConfirmWrite
<1>4. CASE booking[i].status = "deleted"
  BY <1>1, <1>3, <1>4 DEF Fits, ConfirmWrite, Keeps
<1>5. CASE booking[i].status = "held"
  <2>1. /\ booking'[i].table = booking[i].table
        /\ booking'[i].from = booking[i].from /\ booking'[i].to = booking[i].to
    BY <1>1, <1>5 DEF ConfirmWrite, Booking
  <2> QED
    BY <1>1, <1>2, <1>3, <1>5, <2>1 DEF Fits, IsFree, Overlap
<1> QED
  BY <1>2, <1>4, <1>5

\* Every step fits one row in or gives no row anything.
LEMMA StepFits ==
  ASSUME BookingsInv, [Next]_vars
  PROVE  (\E i \in Id : Fits(i)) \/ (\A i \in Id : Lessened(i))
<1>1. ASSUME NEW j \in Job, Staff(j) PROVE UNCHANGED <<now, booking>>
  BY <1>1 DEF Staff, StaffRead, StatusRead, EditRead
<1>2. CASE Guest
  <2>1. \/ UNCHANGED <<now, booking>>
        \/ \E i \in Id : Release(i)
        \/ \E t \in Table : SeatArrived(t)
    BY <1>2 DEF Guest, HoldRead, ConfirmSelect, Scan, Leave
  <2> QED
    BY <2>1, OthersLessen
<1>3. ASSUME NEW j \in Job, Continue(j)
      PROVE  (\E i \in Id : Fits(i)) \/ (\A i \in Id : Lessened(i))
  <2>1. JobFails(j) => UNCHANGED <<now, booking>>
    BY DEF JobFails
  <2> QED
    BY <1>3, <2>1, CreateFits, SaveFits, OthersLessen DEF Continue
<1>4. ConfirmFails \/ Restart \/ UNCHANGED vars => UNCHANGED <<now, booking>>
  BY DEF ConfirmFails, Restart, vars
<1> QED
  BY <1>1, <1>2, <1>3, <1>4, ConfirmFits, OthersLessen DEF Next, ConfirmEnds

\* While the mutex is taken only the clock and ReleaseHold touch the table.
LEMMA SelectedStep == BookingsInv /\ [Next]_vars => SelectedKeeps'
<1> SUFFICES ASSUME BookingsInv, [Next]_vars, confirming' # Nobody PROVE SelectedKeeps'
  BY DEF SelectedKeeps
<1> USE DEF BookingsInv
<1>1. booking \in [Id -> Booking] /\ now \in Nat /\ confirming \in Id \cup {Nobody}
  BY BookingsAssumption DEF BookingsTypeOK
<1>2. ASSUME NEW i \in Id, ConfirmSelect(i) PROVE SelectedKeeps'
  BY <1>1, <1>2 DEF ConfirmSelect, SelectedKeeps, IsFree, NoDoubleBooking, Active, Keeps
<1>3. ASSUME confirming' = confirming, UNCHANGED <<now, booking>> PROVE SelectedKeeps'
  BY <1>3 DEF SelectedKeeps, IsFree, Active
<1>4. CASE Tick
  <2>1. confirming' = confirming /\ booking' = booking /\ now' = now + 1
    BY <1>4 DEF Tick
  <2>2. \A k \in Id : Active(k)' => Active(k)
    BY <1>1, <2>1, KeepsShrinks DEF Active
  <2> QED
    BY <2>1, <2>2 DEF SelectedKeeps, IsFree
<1>5. ASSUME NEW i \in Id, Release(i) PROVE SelectedKeeps'
  <2>1. confirming' = confirming /\ now' = now /\ confirming \in Id
    BY <1>1, <1>5 DEF Release
  <2>2. booking'[i] = NoRow("deleted") /\ \A k \in Id \ {i} : booking'[k] = booking[k]
    BY <1>1, <1>5 DEF Release
  <2>3. CASE confirming = i
    BY <2>1, <2>2, <2>3 DEF SelectedKeeps, NoRow, Row
  <2>4. CASE confirming # i
    <3>1. \A k \in Id : Active(k)' => Active(k) /\ booking'[k] = booking[k]
      BY <2>1, <2>2, DroppedKeepsNothing DEF Active
    <3> QED
      BY <2>1, <2>2, <2>4, <3>1 DEF SelectedKeeps, IsFree
  <2> QED
    BY <2>3, <2>4
<1>6. ASSUME NEW j \in Job, Staff(j) PROVE confirming' = confirming /\ UNCHANGED <<now, booking>>
  BY <1>6 DEF Staff, StaffRead, StatusRead, EditRead
<1>7. ASSUME NEW j \in Job, JobFails(j) PROVE confirming' = confirming /\ UNCHANGED <<now, booking>>
  BY <1>7 DEF JobFails
<1>8. ASSUME NEW j \in Job, Create(j) \/ Save(j) PROVE FALSE
  BY <1>8 DEF Create, Save, Unlocked
<1>9. Sweep \/ ConfirmEnds \/ Restart => FALSE
  BY DEF Sweep, ConfirmEnds, ConfirmFails, ConfirmWrite, Restart, Unlocked
<1>10. CASE Guest
  <2>1. \A t \in Table : ~SeatArrived(t)
    BY DEF SeatArrived, Unlocked
  <2>2. \/ confirming' = confirming /\ UNCHANGED <<now, booking>>
        \/ \E i \in Id : ConfirmSelect(i) \/ Release(i)
    BY <1>10, <2>1 DEF Guest, HoldRead, Scan, Leave
  <2> QED
    BY <2>2, <1>2, <1>3, <1>5
<1>11. CASE UNCHANGED vars
  BY <1>3, <1>11 DEF vars
<1> QED
  BY <1>3, <1>4, <1>6, <1>7, <1>8, <1>9, <1>10, <1>11 DEF Next, Continue

----------------------------------------------------------------------------
(* The theorems *)

\* What every step keeps: types, no two bookings of one table at one time, and
\* the selected hold of a confirmation still on its table (ConfirmHold, ReleaseHold).
THEOREM BookingsInvariant == SafetySpec => []BookingsInv
<1>1. Init => BookingsInv
  <2> SUFFICES ASSUME Init PROVE BookingsInv
    OBVIOUS
  <2>1. \A i \in Id : ~Active(i)
    BY DroppedKeepsNothing DEF Init, Active
  <2> QED
    BY <2>1, TypesInit DEF Init, BookingsInv, NoDoubleBooking, SelectedKeeps
<1>2. BookingsInv /\ [Next]_vars => BookingsInv'
  <2> SUFFICES ASSUME BookingsInv, [Next]_vars PROVE BookingsInv'
    OBVIOUS
  <2>1. BookingsTypeOK'
    BY TypesStep DEF BookingsInv
  <2>2. NoDoubleBooking'
    BY <2>1, StepFits, WrittenFits, LessenedFits
  <2> QED
    BY <2>1, <2>2, SelectedStep DEF BookingsInv
<1> QED
  BY <1>1, <1>2, PTL DEF SafetySpec

\* Rows keep their shape, none ends before it starts.
THEOREM BookingTypes == SafetySpec => []BookingsTypeOK
BY BookingsInvariant, PTL DEF BookingsInv

\* However many guests, staff and sweeps work at once, no table is promised to
\* two bookings for the same time.
THEOREM NeverDoubleBooked == SafetySpec => []NoDoubleBooking
BY BookingsInvariant, PTL DEF BookingsInv

----------------------------------------------------------------------------
(* What a step may never do *)

KeepsTime(i) ==
  /\ booking[i].status \in {"confirmed", "seated"} /\ booking[i].to > now
  /\ \A j \in Job : Save(j) => job[j].id # i
  => /\ booking'[i].status \in {booking[i].status, "seated"}
     /\ <<booking'[i].table, booking'[i].from, booking'[i].to>>
          = <<booking[i].table, booking[i].from, booking[i].to>>

\* Each action but UpdateBooking leaves a booking whose time is not over its
\* table and its window.
LEMMA TimeKept ==
  ASSUME BookingsInv, [Next]_vars, NEW i \in Id
  PROVE  KeepsTime(i)
<1> SUFFICES ASSUME booking[i].status \in {"confirmed", "seated"}, booking[i].to > now,
                    \A j \in Job : Save(j) => job[j].id # i
             PROVE  /\ booking'[i].status \in {booking[i].status, "seated"}
                    /\ booking'[i].table = booking[i].table
                    /\ booking'[i].from = booking[i].from
                    /\ booking'[i].to = booking[i].to
  BY DEF KeepsTime
<1> DEFINE Kept == booking'[i] = booking[i]
           Seated == booking'[i] = [booking[i] EXCEPT !.status = "seated"]
<1>1. booking \in [Id -> Booking] /\ booking[i] \in Booking /\ now \in Nat
  BY BookingsAssumption DEF BookingsInv, BookingsTypeOK
<1>2. ASSUME NEW j \in Job, Create(j) PROVE Kept
  BY <1>1, <1>2 DEF Create, RunOut
<1>3. ASSUME NEW j \in Job, Save(j) PROVE Kept
  BY <1>1, <1>3 DEF Save
<1>4. ASSUME NEW k \in Id, ConfirmWrite(k) PROVE Kept
  <2>1. booking[k].status \in {"held", "deleted"}
    BY <1>4, BookingsAssumption DEF ConfirmWrite, BookingsInv, SelectedKeeps
  <2> QED
    BY <1>1, <1>4, <2>1 DEF ConfirmWrite
<1>5. ASSUME NEW k \in Id, Release(k) PROVE Kept
  BY <1>1, <1>5 DEF Release
<1>6. ASSUME NEW t \in Table, SeatArrived(t)
      PROVE  Kept \/ Seated
  BY <1>6 DEF SeatArrived
<1>7. ASSUME Sweep PROVE Kept
  <2>1. booking[i].to \in Nat
    BY <1>1, BookingsAssumption DEF Booking
  <2> QED
    BY <1>1, <1>7, <2>1 DEF Sweep, Over
<1>9. ASSUME NEW j \in Job, Staff(j) \/ JobFails(j) PROVE Kept
  BY <1>9 DEF Staff, StaffRead, StatusRead, EditRead, JobFails
<1>10. Guest => \/ Kept
                \/ \E k \in Id : Release(k)
                \/ \E t \in Table : SeatArrived(t)
  BY DEF Guest, HoldRead, ConfirmSelect, Scan, Leave
<1>11. ConfirmFails \/ Tick \/ Restart \/ UNCHANGED vars => Kept
  BY DEF ConfirmFails, Tick, Restart, vars
<1>12. Kept \/ Seated
  <2> HIDE DEF Kept, Seated
  <2>1. ASSUME NEW j \in Job, Staff(j) \/ Continue(j) PROVE Kept
    BY <2>1, <1>2, <1>3, <1>9 DEF Continue
  <2>2. Guest => Kept \/ Seated
    BY <1>5, <1>6, <1>10
  <2>3. ConfirmEnds => Kept
    BY <1>4, <1>11 DEF ConfirmEnds
  <2> QED
    BY <2>1, <2>2, <2>3, <1>7, <1>11 DEF Next
<1> QED
  BY <1>1, <1>12 DEF Booking

\* Nobody but staff ends or moves a booking before its time is over.
THEOREM TimeIsKept == SafetySpec => KeepsItsTime
<1>1. BookingsInv /\ [Next]_vars => [\A i \in Id : KeepsTime(i)]_vars
  BY TimeKept
<1>2. [\A i \in Id : KeepsTime(i)]_vars
        => [\A i \in Id :
              /\ booking[i].status \in {"confirmed", "seated"} /\ booking[i].to > now
              /\ \A j \in Job : Save(j) => job[j].id # i
              => /\ booking'[i].status \in {booking[i].status, "seated"}
                 /\ <<booking'[i].table, booking'[i].from, booking'[i].to>>
                      = <<booking[i].table, booking[i].from, booking[i].to>>]_vars
  BY DEF KeepsTime
<1> QED
  BY <1>1, <1>2, BookingsInvariant, PTL DEF SafetySpec, KeepsItsTime

----------------------------------------------------------------------------
(* The diary *)

\* Rows that do not overlap keep different places.
LEMMA ApartOnPaper ==
  ASSUME NEW b \in Booking, NEW c \in Booking, NEW t \in Nat, NEW u \in Nat,
         Keeps(b, t) /\ Keeps(c, u) => ~Overlap(b, c)
  PROVE  Places(b, t) \cap Places(c, u) = {}
<1> SUFFICES ASSUME NEW x \in Places(b, t), x \in Places(c, u) PROVE FALSE
  OBVIOUS
<1>1. Keeps(b, t) /\ Keeps(c, u)
  BY DEF Places
<1>2. PICK m \in Time : x = <<b.table, m>> /\ b.from <= m /\ m < b.to
  BY <1>1 DEF Places
<1>3. PICK n \in Time : x = <<c.table, n>> /\ c.from <= n /\ n < c.to
  BY <1>1 DEF Places
<1>4. b.table = c.table /\ m = n
  BY <1>2, <1>3
<1>5. m \in Nat /\ b.from \in Nat /\ b.to \in Nat /\ c.from \in Nat /\ c.to \in Nat
  BY BookingsAssumption DEF Booking
<1> QED
  BY <1>1, <1>2, <1>3, <1>4, <1>5 DEF Overlap

\* A row takes places of the diary.
LEMMA PlacesOfRow ==
  ASSUME NEW b \in Booking, NEW t
  PROVE  Places(b, t) \in SUBSET (Table \X Time)
BY DEF Places, Keeps, Booking

\* A row that fits in takes free places.
LEMMA FittingTakes ==
  ASSUME BookingsInv, BookingsTypeOK', NEW i \in Id, Fits(i)
  PROVE  DiaryOf!Take(i, Places(booking'[i], now))
<1>1. booking \in [Id -> Booking] /\ booking' \in [Id -> Booking] /\ now \in Nat /\ now' = now
  BY BookingsAssumption DEF BookingsInv, BookingsTypeOK, Fits
<1>2. \A k \in Id \ {i} : Places(booking[k], now) \cap Places(booking'[i], now) = {}
  BY <1>1, ApartOnPaper DEF Fits, Active
<1>3. [k \in Id |-> Places(booking'[k], now')]
        = [[k \in Id |-> Places(booking[k], now)] EXCEPT ![i] = Places(booking'[i], now)]
  <2>1. \A k \in Id \ {i} : Places(booking'[k], now') = Places(booking[k], now)
    BY <1>1 DEF Fits, Places
  <2> QED
    BY <1>1, <2>1
<1> QED
  BY <1>2, <1>3 DEF DiaryOf!Take

\* Rows that only lose their table give up all they kept.
LEMMA LessenedGives ==
  ASSUME \A i \in Id : Lessened(i)
  PROVE  \E ids \in SUBSET Id : DiaryOf!Give(ids)
<1> DEFINE ids == {i \in Id : ~Keeps(booking'[i], now')}
<1>1. \A i \in ids : Places(booking'[i], now') = {}
  BY DEF Places
<1>2. \A i \in Id \ ids : Places(booking'[i], now') = Places(booking[i], now)
  BY DEF Lessened, Places
<1>3. [i \in Id |-> Places(booking'[i], now')]
        = [i \in Id |-> IF i \in ids THEN {} ELSE [k \in Id |-> Places(booking[k], now)][i]]
  BY <1>1, <1>2
<1>4. DiaryOf!Give(ids)
  BY <1>3 DEF DiaryOf!Give
<1> QED
  BY <1>4

\* The diary never shows one place to two bookings (Diary's Exclusive, of the
\* bookings table that tableIsFree and the UPDATEs of db/bookings.go keep).
THEOREM DiaryExclusive == SafetySpec => []DiaryOf!Exclusive
<1>1. BookingsInv => DiaryOf!Exclusive
  <2> SUFFICES ASSUME BookingsInv, NEW i \in Id, NEW k \in Id, i # k
               PROVE  Places(booking[i], now) \cap Places(booking[k], now) = {}
    BY DEF DiaryOf!Exclusive
  <2>1. booking[i] \in Booking /\ booking[k] \in Booking /\ now \in Nat
    BY BookingsAssumption DEF BookingsInv, BookingsTypeOK
  <2>2. Keeps(booking[i], now) /\ Keeps(booking[k], now) => ~Overlap(booking[i], booking[k])
    BY DEF BookingsInv, NoDoubleBooking, Active
  <2> QED
    BY <2>1, <2>2, ApartOnPaper
<1> QED
  BY <1>1, BookingsInvariant, PTL

\* The bookings table, with its holds, its mutex and its clock, is a diary.
THEOREM ImplementsDiary == SafetySpec => DiarySpec
<1>1. Init => DiaryOf!Init
  BY DroppedKeepsNothing DEF Init, DiaryOf!Init, Places
<1>2. BookingsInv /\ BookingsInv' /\ [Next]_vars => [DiaryOf!Next]_([i \in Id |-> Places(booking[i], now)])
  <2> SUFFICES ASSUME BookingsInv, BookingsInv', [Next]_vars PROVE DiaryOf!Next
    OBVIOUS
  <2>1. ASSUME NEW i \in Id, Fits(i) PROVE DiaryOf!Next
    <3>1. DiaryOf!Take(i, Places(booking'[i], now))
      BY <2>1, FittingTakes DEF BookingsInv
    <3>2. Places(booking'[i], now) \in SUBSET (Table \X Time)
      BY PlacesOfRow DEF BookingsInv, BookingsTypeOK
    <3> QED
      BY <3>1, <3>2 DEF DiaryOf!Next
  <2>2. ASSUME \A i \in Id : Lessened(i) PROVE DiaryOf!Next
    BY <2>2, LessenedGives DEF DiaryOf!Next
  <2> QED
    BY <2>1, <2>2, StepFits
<1> QED
  BY <1>1, <1>2, BookingsInvariant, PTL DEF SafetySpec, DiarySpec, DiaryOf!Spec
=============================================================================
