------------------------------ MODULE Bookings ------------------------------
(* Table bookings: holds made on /book, bookings made and changed by staff,  *)
(* guests who arrive, the sweep that closes what is over.                    *)
(*                                                                           *)
(* bookingMu makes one step of every check-then-write, save two things that  *)
(* do not wait for it: the clock and ReleaseHold.  They matter to            *)
(* ConfirmHold alone, whose SELECT and UPDATE are two steps here.  What a    *)
(* handler reads before it takes the mutex is a step of its own as well.     *)
EXTENDS Integers, FiniteSets

CONSTANTS
  Table,     \* spots in service
  FullDay,   \* those booked for the whole of a day
  Id,        \* booking rows; as many as are ever made
  Job,       \* handlers that may be in flight at once
  Nobody,    \* no row
  Time,      \* the minutes of the model, 0 .. its last one
  HoldFor,   \* how long a hold lasts
  Grace,     \* ArrivalGrace
  Length     \* how long a guest's booking lasts

ASSUME BookingsAssumption ==
  /\ FullDay \subseteq Table
  /\ Nobody \notin Id \cup Table
  /\ Time \subseteq Nat /\ 0 \in Time
  /\ HoldFor \in Nat /\ Grace \in Nat /\ Length \in Nat \ {0}

VARIABLES
  now,
  booking,     \* the bookings table
  confirming,  \* the row ConfirmHold has selected; it holds bookingMu
  occupied,    \* tables where a guest sits after a scan
  arriving,    \* scans that claimed a table and have yet to seat its booking
  job          \* handlers in flight

vars == <<now, booking, confirming, occupied, arriving, job>>

----------------------------------------------------------------------------
(* Rows *)

Window == {w \in [from : Time, to : Time] : w.from < w.to}

StaffStatus == {"confirmed", "seated", "completed", "cancelled", "no_show"}
Status == StaffStatus \cup {"unused", "deleted", "held"}

Booking ==
  {b \in [status : Status, table : Table \cup {Nobody}, from : Time, to : Time, expires : Nat] :
     b.from <= b.to /\ (b.table = Nobody <=> b.status \in {"unused", "deleted"})}

Row(status, t, w, expires) ==
  [status |-> status, table |-> t, from |-> w.from, to |-> w.to, expires |-> expires]

NoRow(status) == Row(status, Nobody, [from |-> 0, to |-> 0], 0)

\* Whether a row keeps its table: activeSQL and Booking.Active.
Keeps(b, t) ==
  b.status \in {"confirmed", "seated"} \/ (b.status = "held" /\ b.expires > t)
Active(i) == Keeps(booking[i], now)

Overlap(b, c) == b.table = c.table /\ b.from < c.to /\ b.to > c.from

\* tableIsFree: no active row but `except` overlaps b.
IsFree(b, except) == \A i \in Id \ {except} : ~(Active(i) /\ Overlap(booking[i], b))

Unlocked == confirming = Nobody

\* qrBlocks: a table with a guest at it is not promised to somebody who
\* arrives before a visit would be over.
QrBlocks(t, w) == t \in occupied /\ w.from < now + (w.to - w.from)

\* bookingWindow: when a guest who arrives at start occupies the table.
GuestWindow(t, start) ==
  IF t \in FullDay THEN {w \in Window : \A m \in Time : w.from <= m /\ m <= w.to}
  ELSE {w \in Window : w.from = start /\ w.to = start + Length}

----------------------------------------------------------------------------
(* Handlers in flight *)

Idle == [at |-> "idle"]

JobState ==
  {Idle} \cup [at : {"create"}, row : Booking]
         \cup [at : {"save"}, id : Id, row : Booking]

Start(j, state) == job[j] = Idle /\ job' = [job EXCEPT ![j] = state]
Finish(j) == job' = [job EXCEPT ![j] = Idle]

\* BookingHold: the table and the time are looked at, then the row is made up.
HoldRead(j, t, start, w) ==
  /\ start > now
  /\ w \in GuestWindow(t, start)
  /\ w.to > now
  /\ ~QrBlocks(t, w)
  /\ Start(j, [at |-> "create", row |-> Row("held", t, w, now + HoldFor)])
  /\ UNCHANGED <<now, booking, confirming, occupied, arriving>>

\* StaffBookingCreate, for a caller or for a party that walks in.
StaffRead(j, t, w, status) ==
  /\ ~QrBlocks(t, w)
  /\ Start(j, [at |-> "create", row |-> Row(status, t, w, 0)])
  /\ UNCHANGED <<now, booking, confirming, occupied, arriving>>

\* Holds that ran out.
RunOut(b) == b.status = "held" /\ b.expires <= now

\* (Mutant: the overlap is checked before the mutex is taken.)
CreateUnlocked(j) ==
  /\ job[j].at = "create"
  /\ \E i \in Id :
       /\ booking[i].status = "unused"
       /\ booking' = [booking EXCEPT ![i] = IF IsFree(job[j].row, Nobody) THEN job[j].row ELSE @]
  /\ Finish(j)
  /\ UNCHANGED <<now, confirming, occupied, arriving>>

\* CreateBooking drops what ran out and inserts the row if its table is free.
Create(j) ==
  /\ Unlocked
  /\ job[j].at = "create"
  /\ LET rest == [i \in Id |-> IF RunOut(booking[i]) THEN NoRow("deleted") ELSE booking[i]]
     IN  IF IsFree(job[j].row, Nobody)
         THEN \E i \in Id : /\ booking[i].status = "unused"
                            /\ booking' = [rest EXCEPT ![i] = job[j].row]
         ELSE booking' = rest
  /\ Finish(j)
  /\ UNCHANGED <<now, confirming, occupied, arriving>>

\* Rows staff can open: those that exist and are no holds.
Listed(i) == booking[i].status \in StaffStatus

\* (Mutant: closing a booking always cuts it off now.)
ClosedAlways(b, s) ==
  [b EXCEPT !.status = s, !.to = IF s \in {"completed", "no_show"} THEN now ELSE @]

\* A booking closed during its time ends now.
Closed(b, s) ==
  [b EXCEPT !.status = s,
            !.to = IF s \in {"completed", "no_show"} /\ b.from <= now /\ b.to > now
                   THEN now ELSE @]

\* StaffBookingStatus reads the row and will write all of it back.
StatusRead(j, i, s) ==
  /\ Listed(i)
  /\ Start(j, [at |-> "save", id |-> i, row |-> Closed(booking[i], s)])
  /\ UNCHANGED <<now, booking, confirming, occupied, arriving>>

\* StaffBookingUpdate: another table or time, the status as it was read.  The
\* table its own seated party sits at does not block it.
EditRead(j, i, t, w) ==
  /\ Listed(i)
  /\ QrBlocks(t, w) => booking[i].status = "seated" /\ booking[i].table = t
  /\ Start(j, [at |-> "save", id |-> i, row |-> Row(booking[i].status, t, w, 0)])
  /\ UNCHANGED <<now, booking, confirming, occupied, arriving>>

\* (Mutant: only a booking that was not active before is checked.)
SaveTrusting(j) ==
  /\ Unlocked
  /\ job[j].at = "save"
  /\ LET b == job[j].row
         i == job[j].id
     IN  booking' = IF ~Active(i) /\ Keeps(b, now) /\ ~IsFree(b, i)
                    THEN booking ELSE [booking EXCEPT ![i] = b]
  /\ Finish(j)
  /\ UNCHANGED <<now, confirming, occupied, arriving>>

\* UpdateBooking checks the overlap whenever the result is active.
Save(j) ==
  /\ Unlocked
  /\ job[j].at = "save"
  /\ LET b == job[j].row
         i == job[j].id
     IN  booking' = IF Keeps(b, now) /\ ~IsFree(b, i)
                    THEN booking ELSE [booking EXCEPT ![i] = b]
  /\ Finish(j)
  /\ UNCHANGED <<now, confirming, occupied, arriving>>

JobFails(j) ==
  /\ job[j] # Idle
  /\ Finish(j)
  /\ UNCHANGED <<now, booking, confirming, occupied, arriving>>

----------------------------------------------------------------------------
(* Guests *)

\* ConfirmHold selects a live hold ...
ConfirmSelect(i) ==
  /\ Unlocked
  /\ booking[i].status = "held" /\ booking[i].expires > now
  /\ confirming' = i
  /\ UNCHANGED <<now, booking, occupied, arriving, job>>

\* ... and updates the row of that id, if there is one still.
ConfirmWrite(i) ==
  /\ confirming = i
  /\ booking' = [booking EXCEPT ![i] = IF @.status = "deleted" THEN @
                                       ELSE [@ EXCEPT !.status = "confirmed", !.expires = 0]]
  /\ confirming' = Nobody
  /\ UNCHANGED <<now, occupied, arriving, job>>

\* ... or the statement fails.
ConfirmFails ==
  /\ confirming # Nobody
  /\ confirming' = Nobody
  /\ UNCHANGED <<now, booking, occupied, arriving, job>>

\* ReleaseHold: the guest pressed Release, closed the page, or the countdown on
\* it ended.  It does not take the mutex.
Release(i) ==
  /\ booking[i].status = "held"
  /\ booking' = [booking EXCEPT ![i] = NoRow("deleted")]
  /\ UNCHANGED <<now, confirming, occupied, arriving, job>>

\* A scan claims a free table ...
Scan(t) ==
  /\ t \notin occupied
  /\ occupied' = occupied \cup {t}
  /\ arriving' = arriving \cup {t}
  /\ UNCHANGED <<now, booking, confirming, job>>

\* The bookings a scan at t seats.
Due(t) ==
  {i \in Id : /\ booking[i].status = "confirmed" /\ booking[i].table = t
              /\ booking[i].from <= now + Grace /\ booking[i].to > now}

\* ... and SeatArrivedBooking seats its party.
SeatArrived(t) ==
  /\ Unlocked
  /\ t \in arriving
  /\ arriving' = arriving \ {t}
  /\ booking' = [i \in Id |-> IF i \in Due(t) THEN [booking[i] EXCEPT !.status = "seated"]
                              ELSE booking[i]]
  /\ UNCHANGED <<now, confirming, occupied, job>>

Leave(t) ==
  /\ t \in occupied
  /\ occupied' = occupied \ {t}
  /\ UNCHANGED <<now, booking, confirming, arriving, job>>

----------------------------------------------------------------------------
(* Time *)

Tick ==
  /\ now + 1 \in Time
  /\ now' = now + 1
  /\ UNCHANGED <<booking, confirming, occupied, arriving, job>>

\* Bookings whose time is over and that nobody closed.
Over(i) == booking[i].status \in {"confirmed", "seated"} /\ booking[i].to <= now

\* (Mutant: the second statement of the sweep is missing.)
SweepSeated ==
  /\ Unlocked
  /\ \E i \in Id : Over(i)
  /\ booking' = [i \in Id |-> IF Over(i) /\ booking[i].status = "seated"
                             THEN [booking[i] EXCEPT !.status = "completed"] ELSE booking[i]]
  /\ UNCHANGED <<now, confirming, occupied, arriving, job>>

\* (Mutant: the sweep looks at when a booking starts.)
SweepStarted ==
  /\ Unlocked
  /\ \E i \in Id : Active(i)
  /\ booking' = [i \in Id |->
       IF booking[i].status \in {"confirmed", "seated"} /\ booking[i].from <= now
       THEN [booking[i] EXCEPT !.status = IF @ = "seated" THEN "completed" ELSE "no_show"]
       ELSE booking[i]]
  /\ UNCHANGED <<now, confirming, occupied, arriving, job>>

\* ExpireBookings.
Sweep ==
  /\ Unlocked
  /\ \E i \in Id : Over(i)
  /\ booking' = [i \in Id |->
       IF Over(i) THEN [booking[i] EXCEPT !.status = IF @ = "seated" THEN "completed" ELSE "no_show"]
       ELSE booking[i]]
  /\ UNCHANGED <<now, confirming, occupied, arriving, job>>

\* The server restarts: what was in flight is gone.
Restart ==
  /\ job' = [j \in Job |-> Idle]
  /\ confirming' = Nobody
  /\ arriving' = {}
  /\ UNCHANGED <<now, booking, occupied>>

----------------------------------------------------------------------------

Init ==
  /\ now = 0
  /\ booking = [i \in Id |-> NoRow("unused")]
  /\ confirming = Nobody
  /\ occupied = {}
  /\ arriving = {}
  /\ job = [j \in Job |-> Idle]

Staff(j) ==
  \/ \E t \in Table, w \in Window, s \in {"confirmed", "seated"} : StaffRead(j, t, w, s)
  \/ \E i \in Id, s \in StaffStatus : StatusRead(j, i, s)
  \/ \E i \in Id, t \in Table, w \in Window : EditRead(j, i, t, w)

Continue(j) == Create(j) \/ Save(j) \/ JobFails(j)

Guest ==
  \/ \E j \in Job, t \in Table, start \in Time, w \in Window : HoldRead(j, t, start, w)
  \/ \E i \in Id : ConfirmSelect(i) \/ Release(i)
  \/ \E t \in Table : Scan(t) \/ SeatArrived(t) \/ Leave(t)

ConfirmEnds == ConfirmFails \/ \E i \in Id : ConfirmWrite(i)

Next ==
  \/ \E j \in Job : Staff(j) \/ Continue(j)
  \/ Guest
  \/ ConfirmEnds
  \/ Tick
  \/ Sweep
  \/ Restart

\* A handler that has the mutex runs on and unlocks it on every return; the
\* sweep ticks for ever and its turn at the mutex comes, whoever else asks.
Fairness == WF_vars(ConfirmEnds) /\ SF_vars(Sweep)

SafetySpec == Init /\ [][Next]_vars

Spec == SafetySpec /\ Fairness

----------------------------------------------------------------------------
(* Properties *)

\* Every variable keeps its shape; no row ends before it starts or has no table.
BookingsTypeOK ==
  /\ now \in Time
  /\ booking \in [Id -> Booking]
  /\ confirming \in Id \cup {Nobody}
  /\ occupied \subseteq Table /\ arriving \subseteq Table
  /\ job \in [Job -> JobState]

\* No two rows that keep their table overlap on it, whatever holds run out,
\* rows are moved, shortened or restored, and handlers are in flight
\* ("bookingMu serializes check-then-write").
NoDoubleBooking ==
  \A i, k \in Id : i # k /\ Active(i) /\ Active(k) => ~Overlap(booking[i], booking[k])

\* A booking keeps its spot for its whole window: only staff, who write to its
\* row, end or move it early (ExpireBookings and SeatArrivedBooking never do).
KeepsItsTime ==
  [][\A i \in Id :
       /\ booking[i].status \in {"confirmed", "seated"} /\ booking[i].to > now
       /\ \A j \in Job : Save(j) => job[j].id # i
       => /\ booking'[i].status \in {booking[i].status, "seated"}
          /\ <<booking'[i].table, booking'[i].from, booking'[i].to>>
               = <<booking[i].table, booking[i].from, booking[i].to>>]_vars

\* The places a row keeps at t, and the diary they make up.
Places(b, t) ==
  IF Keeps(b, t) THEN {b.table} \X {m \in Time : b.from <= m /\ m < b.to} ELSE {}

DiaryOf == INSTANCE Diary WITH Place <- Table \X Time, diary <- [i \in Id |-> Places(booking[i], now)]

\* A place goes from one booking to another only after it was given up.
DiarySpec == DiaryOf!Spec

\* A booking whose time is over does not stay open, however often the mutex is
\* wanted elsewhere: the sweep, or staff, close it or move it.
OverIsClosed == \A i \in Id : Over(i) ~> ~Over(i)

\* ConfirmHold, which tells its guest "confirmed" and a code, leaves a confirmed
\* booking ("turns a guest's live hold into a confirmed booking",
\* db/bookings.go:125).
ConfirmBooks ==
  [][\A i \in Id : ConfirmWrite(i) => booking'[i].status = "confirmed"]_vars

\* A scan seats the booking of the party that arrives ("marks the booking at
\* table seated when its guests arrive", db/bookings.go:219), not two of them.
SeatsOneParty ==
  [][\A t \in Table : SeatArrived(t) =>
       Cardinality({i \in Id : booking'[i].status # booking[i].status}) <= 1]_vars
=============================================================================
