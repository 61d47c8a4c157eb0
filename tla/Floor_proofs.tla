---------------------------- MODULE Floor_proofs ----------------------------
(***************************************************************************)
(* What holds on the floor for any number of phones, tables, calls and     *)
(* restarts: every row points at a session and a call that exist, no code  *)
(* stands on two tables, a call for a waiter ends exactly one way and      *)
(* staff are alerted to it exactly once.                                   *)
(***************************************************************************)
EXTENDS Floor, FiniteSetTheorems, TLAPS

Row == [host : Nat, called : BOOLEAN, since : Nat, idle : BOOLEAN, token : Nat]
ScanRequest == [table : Nat, session : Nat, host : Nat]
Ask == [table : Nat, step : {"call", "cancel", "alert"}, call : Nat]
Entry == [table : Nat, host : Nat]
Work == [free : Seq(Entry), end : Seq(Nat)]
Call == [alerts : Nat, logs : Nat]

\* What kind of thing each variable holds.
Shapes ==
  /\ Numbers \subseteq 1..MaxTables
  /\ tables \in [Numbers -> Row]
  /\ tokens \in Nat /\ sessions \in Nat
  /\ cookie \in [Phones -> Nat]
  /\ released \subseteq Nat
  /\ scanning \in [Phones -> {Idle} \cup {<<r>> : r \in ScanRequest}]
  /\ asking \in [Phones -> {Idle} \cup {<<r>> : r \in Ask}]
  /\ work \in [Releasers -> Work]
  /\ calls \in Seq(Call)

\* Wherever a session is known (a table, a cookie, a scan, the work of a
\* releaser, the released ones), it was given out.
Given ==
  /\ \A n \in Numbers : tables[n].host <= sessions
  /\ \A p \in Phones : cookie[p] <= sessions
  /\ \A s \in released : 1 <= s /\ s <= sessions
  /\ \A p \in Phones : scanning[p] # Idle => scanning[p][1].session <= sessions
  /\ \A r \in Releasers :
       /\ \A i \in 1..Len(work[r].free) : work[r].free[i].host <= sessions
       /\ \A i \in 1..Len(work[r].end) : work[r].end[i] <= sessions

\* A code was made, and stands on one table.
Codes ==
  /\ \A n \in Numbers : 1 <= tables[n].token /\ tables[n].token <= tokens
  /\ \A m, n \in Numbers : m # n => tables[m].token # tables[n].token

WaitsAt(c, n) == n \in Numbers /\ tables[n].since = c
Waits(c) == \E n \in Numbers : tables[n].since = c

\* The three ways of a call: it waits, it was answered, its table is gone.
Fate(c) ==
  \/ calls[c].logs = 0 /\ Waits(c) /\ c \notin dropped
  \/ calls[c].logs = 1 /\ ~Waits(c) /\ c \notin dropped
  \/ calls[c].logs = 0 /\ ~Waits(c) /\ c \in dropped

Clocks ==
  /\ \A n \in Numbers : tables[n].since <= Len(calls)
  /\ \A n \in Numbers : tables[n].called <=> tables[n].since # NoCall
  /\ \A m, n \in Numbers : tables[m].since = tables[n].since /\ tables[m].since # NoCall => m = n
  /\ dropped \subseteq 1..Len(calls)
  /\ \A c \in 1..Len(calls) : Fate(c)

Asks(p, c) == asking[p] # Idle /\ asking[p][1].call = c

\* The three ways of an alert: pushed, about to be pushed by the one request
\* that started the call, cut short.
Alert(c) ==
  \/ calls[c].alerts = 1 /\ c \notin cut /\ \A p \in Phones : ~Asks(p, c)
  \/ calls[c].alerts = 0 /\ c \notin cut /\ \E p \in Phones : Asks(p, c) /\ \A q \in Phones : Asks(q, c) => q = p
  \/ calls[c].alerts = 0 /\ c \in cut /\ \A p \in Phones : ~Asks(p, c)

Alerts ==
  /\ \A p \in Phones : asking[p] # Idle =>
       /\ asking[p][1].call <= Len(calls)
       /\ asking[p][1].step = "alert" <=> asking[p][1].call # NoCall
  /\ cut \subseteq 1..Len(calls)
  /\ \A c \in 1..Len(calls) : Alert(c)

FloorInv == Shapes /\ Given /\ Codes /\ Clocks /\ Alerts

-----------------------------------------------------------------------------
(* Shapes.                                                                 *)

\* A table that is taken back hosts nobody and calls nobody; the others stay.
Freed(row) == [row EXCEPT !.host = Nobody, !.called = FALSE, !.since = NoCall]
\* A freed row is a row.
LEMMA FreedRow == \A row \in Row : Freed(row) \in Row
  BY DEF Row, Freed, Nobody, NoCall
\* releaseTable frees one table and leaves the others.
LEMMA ReleaseRow ==
  ASSUME NEW ts, ts \in [DOMAIN ts -> Row], NEW n, NEW m \in DOMAIN ts
  PROVE  ReleaseTable(ts, n)[m] = IF m = n THEN Freed(ts[m]) ELSE ts[m]
  BY DEF Freed, ReleaseTable
\* The tables keep their shape when one is released.
LEMMA ReleaseShape ==
  ASSUME NEW ts, ts \in [DOMAIN ts -> Row], NEW n
  PROVE  ReleaseTable(ts, n) \in [DOMAIN ts -> Row]
<1>1. CASE n \notin DOMAIN ts
  BY <1>1 DEF ReleaseTable
<1>2. CASE n \in DOMAIN ts
  <2>1. Freed(ts[n]) \in Row
    BY <1>2, FreedRow
  <2>2. ReleaseTable(ts, n) = [ts EXCEPT ![n] = Freed(ts[n])]
    BY <1>2 DEF ReleaseTable, Freed
  <2> QED
    BY <1>2, <2>1, <2>2
<1> QED
  BY <1>1, <1>2

\* A claimed table hosts the session that claims it; the others stay.
Claimed(row, s) == [row EXCEPT !.host = s, !.idle = FALSE]
\* A claimed row is a row.
LEMMA ClaimedRow == \A row \in Row, s \in Nat : Claimed(row, s) \in Row
  BY DEF Row, Claimed
\* Claiming changes one table.
LEMMA ClaimRow ==
  ASSUME NEW ts, ts \in [DOMAIN ts -> Row], NEW n, NEW s \in Nat, NEW m \in DOMAIN ts
  PROVE  ClaimTable(ts, n, s)[m] = IF m = n THEN Claimed(ts[m], s) ELSE ts[m]
  BY DEF Claimed, ClaimTable
\* The tables keep their shape when one is claimed.
LEMMA ClaimShape ==
  ASSUME NEW ts, ts \in [DOMAIN ts -> Row], NEW n, NEW s \in Nat
  PROVE  ClaimTable(ts, n, s) \in [DOMAIN ts -> Row]
<1>1. CASE n \notin DOMAIN ts
  BY <1>1 DEF ClaimTable
<1>2. CASE n \in DOMAIN ts
  <2>1. Claimed(ts[n], s) \in Row
    BY <1>2, ClaimedRow
  <2>2. ClaimTable(ts, n, s) = [ts EXCEPT ![n] = Claimed(ts[n], s)]
    BY <1>2 DEF ClaimTable, Claimed
  <2> QED
    BY <1>2, <2>1, <2>2
<1> QED
  BY <1>1, <1>2

\* What is read of a table, to release it later.
LEMMA ReadEntry ==
  ASSUME Shapes, NEW n \in Numbers
  PROVE  Read(n) \in Entry /\ Read(n).host = tables[n].host
  BY DEF Shapes, Read, Entry, Row, Numbers

\* A slot holds nothing or one request.
LEMMA ScanSlot ==
  ASSUME Shapes, NEW p \in Phones, scanning[p] # Idle
  PROVE  scanning[p][1] \in ScanRequest
  BY DEF Shapes, Idle
\* A phone that asks holds an ask.
LEMMA AskSlot ==
  ASSUME Shapes, NEW p \in Phones, asking[p] # Idle
  PROVE  asking[p][1] \in Ask
  BY DEF Shapes, Idle

\* The floor starts in shape.
LEMMA InitShapes == Init => Shapes
<1> SUFFICES ASSUME Init PROVE Shapes
  OBVIOUS
<1> USE DEF Init
<1>1. Numbers \subseteq 1..MaxTables /\ tables \in [Numbers -> Row]
  BY FloorAssumption DEF Numbers, Row, NewTable, Nobody, NoCall
<1>2. work \in [Releasers -> Work]
  BY DEF Work, NoWork
<1> QED
  BY <1>1, <1>2, FloorAssumption DEF Shapes, Nobody

\* The idle tables as the sweep lists them: a finite list of hosted tables.
LEMMA Listed ==
  ASSUME Shapes, NEW order \in SetToSeqs(IdleTables)
  PROVE  /\ [i \in DOMAIN order |-> Read(order[i])] \in Seq(Entry)
         /\ DOMAIN order = 1..Len([i \in DOMAIN order |-> Read(order[i])])
         /\ \A i \in DOMAIN order : order[i] \in Numbers
<1>1. IdleTables \subseteq Numbers
  BY DEF IdleTables
<1>2. IsFiniteSet(IdleTables)
  <2>1. IsFiniteSet(1..MaxTables)
    BY FS_Interval, FloorAssumption
  <2>2. IdleTables \subseteq 1..MaxTables
    BY <1>1 DEF Shapes
  <2> QED
    BY <2>1, <2>2, FS_Subset
<1>3. PICK k \in Nat : k = Cardinality(IdleTables)
  BY <1>2, FS_CardinalityType
<1>4. order \in [1..k -> IdleTables]
  BY <1>3 DEF SetToSeqs
<1>5. \A i \in 1..k : order[i] \in Numbers /\ Read(order[i]) \in Entry
  BY <1>1, <1>4, ReadEntry
<1>6. DOMAIN order = 1..k
  BY <1>4
<1> DEFINE list == [i \in 1..k |-> Read(order[i])]
<1>7. list \in Seq(Entry) /\ Len(list) = k
  BY <1>5, <1>3
<1> QED
  BY <1>5, <1>6, <1>7

\* A row in which some columns are written is a row.
LEMMA Touched ==
  ASSUME Shapes, NEW n \in Numbers, NEW b \in BOOLEAN
  PROVE  [tables EXCEPT ![n].idle = b] \in [Numbers -> Row]
<1>1. tables[n] \in Row
  BY DEF Shapes
<1>2. [tables[n] EXCEPT !.idle = b] \in Row
  BY <1>1 DEF Row
<1> QED
  BY <1>2 DEF Shapes
\* A new QR code on a table leaves the tables in shape.
LEMMA Recoded ==
  ASSUME Shapes, NEW n \in Numbers, NEW k \in Nat
  PROVE  [tables EXCEPT ![n].token = k] \in [Numbers -> Row]
<1>1. tables[n] \in Row
  BY DEF Shapes
<1>2. [tables[n] EXCEPT !.token = k] \in Row
  BY <1>1 DEF Row
<1> QED
  BY <1>2 DEF Shapes
\* A call starting or ending leaves the tables in shape.
LEMMA Clocked ==
  ASSUME Shapes, NEW n \in Numbers, NEW b \in BOOLEAN, NEW c \in Nat
  PROVE  [tables EXCEPT ![n].called = b, ![n].since = c] \in [Numbers -> Row]
<1>1. tables[n] \in Row
  BY DEF Shapes
<1>2. [tables[n] EXCEPT !.called = b, !.since = c] \in Row
  BY <1>1 DEF Row
<1>3. [tables EXCEPT ![n].called = b, ![n].since = c] = [tables EXCEPT ![n] = [tables[n] EXCEPT !.called = b, !.since = c]]
  BY DEF Shapes
<1> QED
  BY <1>2, <1>3 DEF Shapes

\* Letting go of a phone's last table and claiming another: what FinishScan
\* does to a table, with gone the tables whose calls it drops.
LEMMA Moved ==
  ASSUME Shapes, NEW p \in Phones, FinishScan(p)
  PROVE  /\ Numbers' = Numbers /\ tables' \in [Numbers -> Row]
         /\ \A m \in Numbers : /\ tables'[m].token = tables[m].token
                                /\ tables'[m].host \in {tables[m].host, Nobody, scanning[p][1].session}
         /\ \E gone \in SUBSET Nat :
              /\ dropped' = dropped \cup CallsAt(tables, gone)
              /\ \A m \in Numbers :
                   IF m \in gone THEN tables'[m].since = NoCall /\ tables'[m].called = FALSE
                   ELSE tables'[m].since = tables[m].since /\ tables'[m].called = tables[m].called
<1> PICK scan \in ScanRequest : scan = scanning[p][1]
  BY ScanSlot DEF FinishScan
<1> PICK last : last = GetTableByHostSession(scan.session) \ {scan.table}
  OBVIOUS
<1>1. /\ last \subseteq Numbers /\ Numbers \subseteq Nat /\ scan.session \in Nat
      /\ tables \in [DOMAIN tables -> Row] /\ Numbers = DOMAIN tables
  BY DEF GetTableByHostSession, Shapes, ScanRequest, Numbers
<1>2. CallsAt(tables, {}) = {}
  BY DEF CallsAt
<1>3. \A m \in Numbers : tables[m] \in Row
  BY <1>1
<1>4. CASE scan.host # Nobody
  <2>1. tables' = tables /\ dropped' = dropped
    BY <1>4 DEF FinishScan
  <2> QED
    BY <1>1, <1>2, <2>1 DEF Numbers
<1>5. CASE scan.host = Nobody /\ last = {}
  <2>1. tables' = ClaimTable(tables, scan.table, scan.session) /\ dropped' = dropped
    BY <1>5 DEF FinishScan
  <2>2. tables' \in [Numbers -> Row] /\ Numbers' = Numbers
    BY <1>1, <2>1, ClaimShape DEF Numbers
  <2>3. \A m \in Numbers : tables'[m] = IF m = scan.table THEN Claimed(tables[m], scan.session) ELSE tables[m]
    BY <1>1, <2>1, ClaimRow DEF Numbers
  <2>4. \A m \in Numbers : /\ tables'[m].since = tables[m].since /\ tables'[m].called = tables[m].called
                           /\ tables'[m].token = tables[m].token
                           /\ tables'[m].host \in {tables[m].host, scan.session}
    BY <1>3, <2>3 DEF Row, Claimed
  <2> QED
    BY <1>2, <2>1, <2>2, <2>4
<1>6. CASE scan.host = Nobody /\ last # {}
  <2> PICK n : n = CHOOSE k \in last : TRUE
    OBVIOUS
  <2>1. n \in Numbers
    BY <1>1, <1>6
  <2> PICK freed : freed = ReleaseTable(tables, n)
    OBVIOUS
  <2>2. freed \in [DOMAIN freed -> Row] /\ DOMAIN freed = Numbers
    BY <1>1, ReleaseShape
  <2>3. \A m \in Numbers : freed[m] = IF m = n THEN Freed(tables[m]) ELSE tables[m]
    <3> SUFFICES ASSUME NEW m \in Numbers PROVE freed[m] = IF m = n THEN Freed(tables[m]) ELSE tables[m]
      OBVIOUS
    <3>1. m \in DOMAIN tables
      BY <1>1
    <3>2. ReleaseTable(tables, n)[m] = IF m = n THEN Freed(tables[m]) ELSE tables[m]
      BY ONLY <1>1, <3>1, ReleaseRow
    <3> QED
      BY <3>2
  <2>4. tables' = ClaimTable(freed, scan.table, scan.session) /\ dropped' = dropped \cup CallsAt(tables, {n})
    BY <1>6 DEF FinishScan
  <2>5. tables' \in [Numbers -> Row] /\ Numbers' = Numbers
    <3>1. ClaimTable(freed, scan.table, scan.session) \in [DOMAIN freed -> Row]
      BY <1>1, <2>2, ClaimShape
    <3> QED
      BY <2>2, <2>4, <3>1 DEF Numbers
  <2>6. \A m \in Numbers : tables'[m] = IF m = scan.table THEN Claimed(freed[m], scan.session) ELSE freed[m]
    BY <1>1, <2>2, <2>4, ClaimRow
  <2>7. \A m \in Numbers : /\ freed[m].token = tables[m].token
                           /\ freed[m].host \in {tables[m].host, Nobody}
                           /\ IF m = n THEN freed[m].since = NoCall /\ freed[m].called = FALSE
                              ELSE freed[m].since = tables[m].since /\ freed[m].called = tables[m].called
    <3>1. \A row \in Row : /\ Freed(row).token = row.token /\ Freed(row).host = Nobody
                           /\ Freed(row).since = NoCall /\ Freed(row).called = FALSE
      BY DEF Row, Freed
    <3> QED
      BY <1>3, <2>3, <3>1
  <2>8. \A m \in Numbers : /\ tables'[m].since = freed[m].since /\ tables'[m].called = freed[m].called
                           /\ tables'[m].token = freed[m].token
                           /\ tables'[m].host \in {freed[m].host, scan.session}
    <3>1. \A row \in Row, s \in Nat : LET new == Claimed(row, s)
                                     IN /\ new.token = row.token /\ new.host = s
                                        /\ new.since = row.since /\ new.called = row.called
      BY DEF Row, Claimed
    <3>2. \A m \in Numbers : freed[m] \in Row
      BY <2>2
    <3> QED
      BY <1>1, <2>6, <3>1, <3>2
  <2>9. {n} \in SUBSET Nat
    BY <1>1, <2>1
  <2>10. \A m \in Numbers : IF m \in {n} THEN tables'[m].since = NoCall /\ tables'[m].called = FALSE
                            ELSE tables'[m].since = tables[m].since /\ tables'[m].called = tables[m].called
    BY <2>7, <2>8
  <2>11. \A m \in Numbers : /\ tables'[m].token = tables[m].token
                            /\ tables'[m].host \in {tables[m].host, Nobody, scan.session}
    BY <2>7, <2>8
  <2> QED
    BY <2>4, <2>5, <2>9, <2>10, <2>11
<1> QED
  BY <1>4, <1>5, <1>6

\* A row of the table of tables, and the tables there are.
LEMMA Kept ==
  ASSUME Shapes
  PROVE  /\ tables \in [DOMAIN tables -> Row] /\ Numbers = DOMAIN tables
         /\ \A n \in Numbers : tables[n] \in Row /\ n \in Nat
  BY DEF Shapes, Numbers

\* One more row, or one more alert, of a call.
LEMMA CallRow ==
  ASSUME NEW x \in Call
  PROVE  [x EXCEPT !.logs = @ + 1] \in Call /\ [x EXCEPT !.alerts = @ + 1] \in Call
  BY DEF Call

\* EndAssistance, whether or not a call waits.
LEMMA Ended ==
  ASSUME Shapes, NEW n, EndAssistance(n),
         \A m \in Numbers : tables[m].since <= Len(calls)
  PROVE  /\ tables' \in [Numbers -> Row] /\ Numbers' = Numbers
         /\ calls' \in Seq(Call)
<1>1. CASE n \notin Numbers \/ tables[n].since = NoCall
  BY <1>1 DEF EndAssistance, Shapes, Numbers
<1>2. CASE n \in Numbers /\ tables[n].since # NoCall
  <2>1. tables' \in [Numbers -> Row] /\ calls' = [calls EXCEPT ![tables[n].since].logs = @ + 1]
    <3>1. /\ tables' = [tables EXCEPT ![n].called = FALSE, ![n].since = NoCall]
          /\ calls' = [calls EXCEPT ![tables[n].since].logs = @ + 1]
      BY <1>2 DEF EndAssistance
    <3>2. NoCall \in Nat /\ FALSE \in BOOLEAN
      BY DEF NoCall
    <3>3. [tables EXCEPT ![n].called = FALSE, ![n].since = NoCall] \in [Numbers -> Row]
      BY <1>2, <3>2, Clocked, Zenon
    <3> QED
      BY <3>1, <3>3
  <2> PICK c : c = tables[n].since
    OBVIOUS
  <2>2. c \in 1..Len(calls)
    BY <1>2, Kept DEF NoCall, Shapes, Row
  <2>3. [calls[c] EXCEPT !.logs = @ + 1] \in Call
    <3>1. calls[c] \in Call
      BY <2>2 DEF Shapes
    <3> QED
      BY <3>1, CallRow
  <2>4. calls' = [calls EXCEPT ![c] = [calls[c] EXCEPT !.logs = @ + 1]]
    BY <2>1
  <2>5. calls' \in Seq(Call)
    BY <2>2, <2>3, <2>4 DEF Shapes
  <2> QED
    BY <2>1, <2>5 DEF Numbers
<1> QED
  BY <1>1, <1>2

\* Every step keeps the shapes.
LEMMA ShapesStep ==
  ASSUME Shapes, Clocks, Alerts, [Next]_vars
  PROVE  Shapes'
<1>1. ASSUME NEW p \in Phones, NEW k \in 1..tokens, Scan(p, k) PROVE Shapes'
  <2> PICK n \in Numbers : tables[n].token = k /\
        LET fresh == cookie[p] = Nobody \/ cookie[p] \in released
            s == IF fresh THEN sessions + 1 ELSE cookie[p]
        IN  /\ s <= MaxSessions
            /\ sessions' = IF fresh THEN s ELSE sessions
            /\ released' = IF fresh THEN released \ {cookie[p]} ELSE released
            /\ scanning' = [scanning EXCEPT ![p] = <<[table |-> n, session |-> s, host |-> tables[n].host]>>]
    BY <1>1 DEF Scan
  <2> PICK r : r = [table |-> n, session |-> IF cookie[p] = Nobody \/ cookie[p] \in released THEN sessions + 1 ELSE cookie[p], host |-> tables[n].host]
    OBVIOUS
  <2>1. r \in ScanRequest
    BY Kept DEF ScanRequest, Shapes, Row
  <2>2. scanning' = [scanning EXCEPT ![p] = <<r>>]
    OBVIOUS
  <2>3. scanning' \in [Phones -> {Idle} \cup {<<x>> : x \in ScanRequest}]
    BY <2>1, <2>2 DEF Shapes
  <2>4. sessions' \in Nat /\ released' \subseteq Nat
    <3>1. sessions' \in {sessions, sessions + 1} /\ released' \subseteq released
      BY <1>1 DEF Scan
    <3>2. sessions \in Nat /\ released \subseteq Nat
      BY Zenon DEF Shapes
    <3> QED
      BY ONLY <3>1, <3>2
  <2> QED
    BY <1>1, <2>3, <2>4 DEF Scan, Shapes, Numbers
<1>2. ASSUME NEW p \in Phones, FinishScan(p) PROVE Shapes'
  <2>1. scanning[p][1] \in ScanRequest
    BY <1>2, ScanSlot DEF FinishScan
  <2>2. cookie' \in [Phones -> Nat] /\ scanning' \in [Phones -> {Idle} \cup {<<x>> : x \in ScanRequest}]
    BY <1>2, <2>1 DEF FinishScan, Shapes, ScanRequest
  <2>3. Numbers' = Numbers /\ tables' \in [Numbers -> Row]
    BY <1>2, Moved
  <2> QED
    BY <1>2, <2>2, <2>3 DEF FinishScan, Shapes
<1>3. ASSUME NEW p \in Phones, View(p) PROVE Shapes'
  <2>1. tables' \in [Numbers -> Row]
    BY <1>3, Touched, Kept DEF View, TouchTableActivity, GetTableByHostSession
  <2> QED
    <3>1. cookie' \in [Phones -> Nat] /\ released' \subseteq released
      <4>1. CASE cookie[p] \in released
        BY <1>3, <4>1 DEF View, Shapes, Nobody
      <4>2. CASE cookie[p] \notin released
        BY <1>3, <4>2 DEF View, Shapes
      <4> QED
        BY <4>1, <4>2
    <3>2. UNCHANGED <<tokens, sessions, scanning, asking, work, calls>> /\ Numbers' = Numbers
      BY <1>3, <2>1 DEF View, requests, Numbers
    <3> QED
      BY <2>1, <3>1, <3>2 DEF Shapes
<1>4. ASSUME NEW p \in Phones, Leave(p) PROVE Shapes'
  <2>1. tables' \in [Numbers -> Row]
    BY <1>4, ReleaseShape, Kept DEF Leave
  <2> QED
    BY <1>4, <2>1 DEF Leave, Shapes, Numbers, Nobody, requests
<1>5. ASSUME NEW p \in Phones, NEW what \in {"call", "cancel"}, ResolveHostedTable(p, what) PROVE Shapes'
  <2> PICK n \in GetTableByHostSession(cookie[p]) :
        /\ tables' = TouchTableActivity(n)
        /\ asking' = [asking EXCEPT ![p] = <<[table |-> n, step |-> what, call |-> NoCall]>>]
    BY <1>5 DEF ResolveHostedTable
  <2>1. n \in Numbers
    BY DEF GetTableByHostSession
  <2>2. [table |-> n, step |-> what, call |-> NoCall] \in Ask
    BY <2>1, Kept DEF Ask, NoCall
  <2>3. tables' \in [Numbers -> Row]
    BY <2>1, Touched DEF TouchTableActivity
  <2>4. asking' \in [Phones -> {Idle} \cup {<<x>> : x \in Ask}]
    BY <2>2 DEF Shapes
  <2> QED
    BY <1>5, <2>3, <2>4 DEF ResolveHostedTable, Shapes, Numbers
<1>6. ASSUME NEW p \in Phones, RequestAssistance(p) PROVE Shapes'
  <2> PICK n : n = asking[p][1].table
    OBVIOUS
  <2> PICK c : c = Len(calls) + 1
    OBVIOUS
  <2>0. c \in Nat /\ n \in Nat
    BY <1>6, AskSlot DEF RequestAssistance, Ask, Shapes
  <2>1. CASE StartsCall(n)
    <3>1. tables' \in [Numbers -> Row]
      <4>1. tables' = [tables EXCEPT ![n].called = TRUE, ![n].since = c]
        BY <1>6, <2>1 DEF RequestAssistance
      <4>2. [tables EXCEPT ![n].called = TRUE, ![n].since = c] \in [Numbers -> Row]
        BY <2>0, <2>1, Clocked, Zenon DEF StartsCall
      <4> QED
        BY <4>1, <4>2
    <3>2. calls' \in Seq(Call)
      <4>1. [alerts |-> 0, logs |-> 0] \in Call
        BY DEF Call
      <4> QED
        <5>1. calls' = Append(calls, [alerts |-> 0, logs |-> 0])
          BY <1>6, <2>1 DEF RequestAssistance
        <5> QED
          BY <4>1, <5>1 DEF Shapes
    <3>3. [table |-> n, step |-> "alert", call |-> c] \in Ask
      BY <2>0 DEF Ask
    <3>4. asking' = [asking EXCEPT ![p] = <<[table |-> n, step |-> "alert", call |-> c]>>]
      BY <1>6, <2>1 DEF RequestAssistance
    <3>5. asking' \in [Phones -> {Idle} \cup {<<x>> : x \in Ask}]
      BY <3>3, <3>4 DEF Shapes
    <3> QED
      BY <1>6, <3>1, <3>2, <3>5 DEF RequestAssistance, Shapes, Numbers
  <2>2. CASE ~StartsCall(n)
    BY <1>6, <2>2 DEF RequestAssistance, AskedAgain, Shapes, Numbers
  <2> QED
    BY <2>1, <2>2
<1>7. ASSUME NEW p \in Phones, PushAssistanceAlert(p) PROVE Shapes'
  <2> PICK c : c = asking[p][1].call
    OBVIOUS
  <2>1. c \in 1..Len(calls)
    BY <1>7, AskSlot DEF PushAssistanceAlert, Alerts, Ask, NoCall, Shapes
  <2>2. [calls[c] EXCEPT !.alerts = @ + 1] \in Call
    <3>1. calls[c] \in Call
      BY <2>1 DEF Shapes
    <3> QED
      BY <3>1, CallRow
  <2>3. calls' = [calls EXCEPT ![c] = [calls[c] EXCEPT !.alerts = @ + 1]]
    BY <1>7 DEF PushAssistanceAlert
  <2>4. calls' \in Seq(Call)
    BY <2>1, <2>2, <2>3 DEF Shapes
  <2> QED
    BY <1>7, <2>4 DEF PushAssistanceAlert, Shapes, Numbers
<1>8. ASSUME NEW p \in Phones, CancelAssistance(p) PROVE Shapes'
  BY <1>8, Ended DEF CancelAssistance, Shapes, Clocks
<1>9. ASSUME NEW n \in Numbers, WorkerAcknowledgeAssistance(n) PROVE Shapes'
  BY <1>9, Ended DEF WorkerAcknowledgeAssistance, Shapes, Clocks, requests
<1>10. ASSUME NEW n \in Numbers, StaffReleaseTable(n) PROVE Shapes'
  <2>1. <<Read(n)>> \in Seq(Entry)
    BY ReadEntry
  <2>2. work["staff"] \in Work /\ "staff" \in Releasers
    BY DEF Shapes, Releasers
  <2>3. [work["staff"] EXCEPT !.free = <<Read(n)>>] \in Work
    BY <2>1, <2>2 DEF Work
  <2>4. work' = [work EXCEPT !["staff"] = [work["staff"] EXCEPT !.free = <<Read(n)>>]]
    BY <1>10 DEF StaffReleaseTable
  <2>5. work' \in [Releasers -> Work]
    BY <2>2, <2>3, <2>4 DEF Shapes
  <2> QED
    BY <1>10, <2>5 DEF StaffReleaseTable, Shapes, Numbers, requests
<1>11. ASSUME NEW n \in Numbers, PassIdleTTL(n) PROVE Shapes'
  <2>1. tables' \in [Numbers -> Row]
    BY <1>11, Touched DEF PassIdleTTL
  <2> QED
    BY <1>11, <2>1 DEF PassIdleTTL, Shapes, Numbers, requests
<1>12. ASSUME NEW n \in Numbers, AdminDeleteSpot(n) PROVE Shapes'
  BY <1>12 DEF AdminDeleteSpot, Shapes, Numbers, requests
<1>13. ASSUME NEW n \in Numbers, RotateTableToken(n) PROVE Shapes'
  <2>1. tables' \in [Numbers -> Row] /\ tokens' \in Nat
    BY <1>13, Recoded DEF RotateTableToken, NewTableToken, Shapes
  <2> QED
    BY <1>13, <2>1 DEF RotateTableToken, Shapes, Numbers, requests
<1>14. CASE ReleaseIdleTables
  <2> PICK order \in SetToSeqs(IdleTables) : work' = [work EXCEPT !["sweep"].free = [i \in DOMAIN order |-> Read(order[i])]]
    BY <1>14 DEF ReleaseIdleTables
  <2> PICK list : list = [i \in DOMAIN order |-> Read(order[i])]
    OBVIOUS
  <2>1. list \in Seq(Entry)
    BY Listed
  <2>2. work["sweep"] \in Work /\ "sweep" \in Releasers
    BY DEF Shapes, Releasers
  <2>3. [work["sweep"] EXCEPT !.free = list] \in Work
    BY <2>1, <2>2 DEF Work
  <2>4. work' = [work EXCEPT !["sweep"] = [work["sweep"] EXCEPT !.free = list]]
    OBVIOUS
  <2>5. work' \in [Releasers -> Work]
    BY <2>2, <2>3, <2>4 DEF Shapes
  <2> QED
    BY <1>14, <2>5 DEF ReleaseIdleTables, Shapes, Numbers, requests
<1>15. ASSUME NEW r \in Releasers, FreeNext(r) PROVE Shapes'
  <2> PICK t : t = Head(work[r].free)
    OBVIOUS
  <2>1. work[r] \in Work /\ work[r].free # <<>>
    BY <1>15 DEF FreeNext, Shapes
  <2>2. t \in Entry /\ Tail(work[r].free) \in Seq(Entry)
    BY <2>1 DEF Work
  <2>3. Append(work[r].end, t.host) \in Seq(Nat)
    BY <2>1, <2>2 DEF Work, Entry
  <2>4. [free |-> Tail(work[r].free), end |-> Append(work[r].end, t.host)] \in Work
    BY <2>2, <2>3 DEF Work
  <2>5. work' \in [Releasers -> Work]
    BY <1>15, <2>4 DEF FreeNext, Shapes
  <2>6. tables' \in [Numbers -> Row]
    BY <1>15, ReleaseShape, Kept DEF FreeNext
  <2> QED
    BY <1>15, <2>5, <2>6 DEF FreeNext, Shapes, Numbers, requests
<1>16. ASSUME NEW r \in Releasers, FreeFails(r) PROVE Shapes'
  <2>1. NoWork \in Work
    BY DEF NoWork, Work
  <2>2. work' \in [Releasers -> Work]
    BY <1>16, <2>1 DEF FreeFails, Shapes
  <2> QED
    BY <1>16, <2>2 DEF FreeFails, Shapes, Numbers, requests
<1>17. ASSUME NEW r \in Releasers, EndGuestSession(r) PROVE Shapes'
  <2>1. work[r] \in Work /\ work[r].end # <<>>
    BY <1>17 DEF EndGuestSession, Shapes
  <2>2. Head(work[r].end) \in Nat /\ Tail(work[r].end) \in Seq(Nat)
    BY <2>1 DEF Work
  <2>3. [work[r] EXCEPT !.end = Tail(@)] \in Work
    BY <2>1, <2>2 DEF Work
  <2>4. work' = [work EXCEPT ![r] = [work[r] EXCEPT !.end = Tail(@)]]
    BY <1>17 DEF EndGuestSession
  <2>5. work' \in [Releasers -> Work]
    BY <2>3, <2>4 DEF Shapes
  <2>6. released' \subseteq Nat
    BY <1>17, <2>2 DEF EndGuestSession, Shapes
  <2> QED
    BY <1>17, <2>5, <2>6 DEF EndGuestSession, Shapes, Numbers, requests
<1>18. CASE AdminAddSpot
  <2> PICK n \in 1..MaxTables : tables' = [m \in Numbers \cup {n} |-> IF m = n THEN NewTable(NewTableToken) ELSE tables[m]]
    BY <1>18 DEF AdminAddSpot
  <2>1. NewTable(NewTableToken) \in Row
    BY DEF NewTable, NewTableToken, Row, Nobody, NoCall, Shapes
  <2>2. Numbers' = Numbers \cup {n}
    BY DEF Numbers
  <2>3. tables' \in [Numbers' -> Row]
    BY <2>1, <2>2, Kept
  <2>4. Numbers' \subseteq 1..MaxTables /\ tokens' \in Nat
    BY <1>18, <2>2 DEF Shapes, AdminAddSpot
  <2> QED
    BY <1>18, <2>3, <2>4 DEF AdminAddSpot, Shapes, requests
<1>19. CASE DeleteTable
  <2>1. Numbers' = Numbers \ {deleting[1]}
    BY <1>19 DEF DeleteTable, Numbers
  <2>2. tables' \in [Numbers' -> Row]
    BY <1>19, <2>1, Kept DEF DeleteTable
  <2> QED
    BY <1>19, <2>1, <2>2 DEF DeleteTable, Shapes, requests
<1>20. CASE Restart
  <2>1. NoWork \in Work
    BY DEF NoWork, Work
  <2>2. work' \in [Releasers -> Work]
    BY <1>20, <2>1 DEF Restart
  <2> QED
    BY <1>20, <2>2 DEF Restart, Shapes, Numbers
<1>21. CASE UNCHANGED vars
  BY <1>21 DEF vars, requests, history, Shapes, Numbers
<1> QED
  BY <1>1, <1>2, <1>3, <1>4, <1>5, <1>6, <1>7, <1>8, <1>9, <1>10, <1>11, <1>12, <1>13, <1>14,
     <1>15, <1>16, <1>17, <1>18, <1>19, <1>20, <1>21 DEF Next, Guest

-----------------------------------------------------------------------------
(* What a step may do to the tables.                                       *)

\* Who a table hosts: as before, nobody, or the session of a scan.
HostsMove ==
  \A m \in Numbers' : \/ tables'[m].host = Nobody
                      \/ m \in Numbers /\ tables'[m].host = tables[m].host
                      \/ \E p \in Phones : scanning[p] # Idle /\ tables'[m].host = scanning[p][1].session

\* Its code: as before, or, of one table at most, the next one.
SameCode(m) == m \in Numbers /\ tables'[m].token = tables[m].token
CodesMove ==
  \/ tokens' = tokens /\ \A m \in Numbers' : SameCode(m)
  \/ /\ tokens' = tokens + 1
     /\ \E n \in Numbers' : tables'[n].token = tokens + 1 /\ \A m \in Numbers' \ {n} : SameCode(m)

\* Its call: kept, except where the table is gone, taken back or new.
SameCall(m) == m \in Numbers /\ tables'[m].since = tables[m].since /\ tables'[m].called = tables[m].called
NoCallAt(m) == tables'[m].since = NoCall /\ tables'[m].called = FALSE
Drops(gone) ==
  /\ Len(calls') = Len(calls) /\ \A c \in 1..Len(calls) : calls'[c].logs = calls[c].logs
  /\ dropped' = dropped \cup CallsAt(tables, gone)
  /\ Numbers \ gone \subseteq Numbers'
  /\ \A m \in Numbers' : IF m \in Numbers \ gone THEN SameCall(m) ELSE NoCallAt(m)

\* A call starts at a table none waits at.
Starts ==
  \E n \in Numbers :
    /\ ~tables[n].called
    /\ calls' = Append(calls, [alerts |-> 0, logs |-> 0])
    /\ dropped' = dropped /\ Numbers' = Numbers
    /\ tables'[n].called = TRUE /\ tables'[n].since = Len(calls) + 1
    /\ \A m \in Numbers \ {n} : SameCall(m)

\* A call that waits is logged.
Logs ==
  \E n \in Numbers :
    /\ tables[n].since # NoCall
    /\ calls' = [calls EXCEPT ![tables[n].since].logs = @ + 1]
    /\ dropped' = dropped /\ Numbers' = Numbers
    /\ NoCallAt(n)
    /\ \A m \in Numbers \ {n} : SameCall(m)

CallsMove == (\E gone \in SUBSET Nat : Drops(gone)) \/ Starts \/ Logs

\* A step that leaves tables and calls alone moves nothing.
LEMMA NothingMoves ==
  ASSUME UNCHANGED <<tables, tokens, dropped, calls>>
  PROVE  HostsMove /\ CodesMove /\ CallsMove
<1>1. HostsMove /\ CodesMove
  BY DEF HostsMove, CodesMove, SameCode, Numbers
<1>2. CallsAt(tables, {}) = {}
  BY DEF CallsAt
<1>3. Drops({})
  BY <1>2 DEF Drops, SameCall, Numbers
<1>4. {} \in SUBSET Nat
  OBVIOUS
<1> QED
  BY <1>1, <1>3, <1>4, Zenon DEF CallsMove

\* Marking a table idle moves no host, code or call.
LEMMA IdleMoves ==
  ASSUME Shapes, NEW n \in Numbers, NEW b \in BOOLEAN, tables' = [tables EXCEPT ![n].idle = b],
         UNCHANGED <<tokens, dropped, calls>>
  PROVE  HostsMove /\ CodesMove /\ CallsMove
<1>1. Numbers' = Numbers
  BY DEF Numbers, Shapes
<1>2. ASSUME NEW m \in Numbers
      PROVE  /\ tables'[m].host = tables[m].host /\ tables'[m].token = tables[m].token
             /\ tables'[m].since = tables[m].since /\ tables'[m].called = tables[m].called
  BY Kept DEF Row
<1>3. HostsMove /\ CodesMove
  BY <1>1, <1>2 DEF HostsMove, CodesMove, SameCode
<1>4. CallsAt(tables, {}) = {}
  BY DEF CallsAt
<1>5. Drops({})
  BY <1>1, <1>2, <1>4 DEF Drops, SameCall
<1>6. {} \in SUBSET Nat
  OBVIOUS
<1> QED
  BY <1>3, <1>5, <1>6, Zenon DEF CallsMove

\* Releasing a table frees it and drops its call.
LEMMA ReleaseMoves ==
  ASSUME Shapes, NEW n, tables' = ReleaseTable(tables, n), dropped' = dropped \cup CallsAt(tables, {n}),
         UNCHANGED <<tokens, calls>>
  PROVE  HostsMove /\ CodesMove /\ CallsMove
<1>1. Numbers' = Numbers
  BY ReleaseShape, Kept DEF Numbers
<1>2. ASSUME NEW m \in Numbers
      PROVE  tables'[m] = IF m = n THEN Freed(tables[m]) ELSE tables[m]
  BY ReleaseRow, Kept
<1>3. \A row \in Row : /\ Freed(row).token = row.token /\ Freed(row).host = Nobody
                       /\ Freed(row).since = NoCall /\ Freed(row).called = FALSE
  BY DEF Row, Freed
<1>4. HostsMove /\ CodesMove
  BY <1>1, <1>2, <1>3, Kept DEF HostsMove, CodesMove, SameCode
<1> DEFINE gone == {n} \cap Numbers
<1>5. CallsAt(tables, gone) = CallsAt(tables, {n})
  BY DEF CallsAt, Numbers
<1>6. Drops(gone)
  BY <1>1, <1>2, <1>3, <1>5, Kept DEF Drops, SameCall, NoCallAt
<1>7. gone \in SUBSET Nat
  BY Kept
<1> QED
  BY <1>4, <1>6, <1>7, Zenon DEF CallsMove

\* Ending a call logs it once and takes it off its table.
LEMMA EndMoves ==
  ASSUME Shapes, NEW n, EndAssistance(n), UNCHANGED <<tokens, dropped>>
  PROVE  HostsMove /\ CodesMove /\ CallsMove
<1>1. CASE n \notin Numbers \/ tables[n].since = NoCall
  BY <1>1, NothingMoves DEF EndAssistance
<1>2. CASE n \in Numbers /\ tables[n].since # NoCall
  <2>1. /\ tables' = [tables EXCEPT ![n].called = FALSE, ![n].since = NoCall]
        /\ calls' = [calls EXCEPT ![tables[n].since].logs = @ + 1]
    BY <1>2 DEF EndAssistance
  <2>2. Numbers' = Numbers
    BY <2>1 DEF Numbers, Shapes
  <2>3. ASSUME NEW m \in Numbers
        PROVE  /\ tables'[m].host = tables[m].host /\ tables'[m].token = tables[m].token
               /\ IF m = n THEN NoCallAt(m) ELSE SameCall(m)
    <3>1. CASE m = n
      BY <2>1, <3>1, Kept DEF Row, NoCallAt
    <3>2. CASE m # n
      BY <2>1, <3>2, Kept DEF SameCall
    <3> QED
      BY <3>1, <3>2
  <2>4. HostsMove /\ CodesMove
    BY <2>2, <2>3 DEF HostsMove, CodesMove, SameCode
  <2>5. Logs
    BY <1>2, <2>1, <2>2, <2>3 DEF Logs
  <2> QED
    BY <2>4, <2>5 DEF CallsMove
<1> QED
  BY <1>1, <1>2

\* Every step moves hosts, codes and calls in one of the listed ways.
LEMMA MovesStep ==
  ASSUME Shapes, Alerts, [Next]_vars
  PROVE  HostsMove /\ CodesMove /\ CallsMove
<1> USE DEF requests, history
<1>1. ASSUME NEW p \in Phones, NEW k \in 1..tokens, Scan(p, k) PROVE HostsMove /\ CodesMove /\ CallsMove
  BY <1>1, NothingMoves DEF Scan
<1>2. ASSUME NEW p \in Phones, FinishScan(p) PROVE HostsMove /\ CodesMove /\ CallsMove
  <2>1. scanning[p] # Idle /\ UNCHANGED <<tokens, calls>>
    BY <1>2 DEF FinishScan
  <2>2. Numbers' = Numbers
    BY <1>2, Moved
  <2>3. \A m \in Numbers : /\ tables'[m].token = tables[m].token
                           /\ tables'[m].host \in {tables[m].host, Nobody, scanning[p][1].session}
    BY <1>2, Moved
  <2> PICK gone \in SUBSET Nat :
        /\ dropped' = dropped \cup CallsAt(tables, gone)
        /\ \A m \in Numbers :
             IF m \in gone THEN tables'[m].since = NoCall /\ tables'[m].called = FALSE
             ELSE tables'[m].since = tables[m].since /\ tables'[m].called = tables[m].called
    BY <1>2, Moved
  <2>4. Drops(gone)
    BY <2>1, <2>2 DEF Drops, SameCall, NoCallAt
  <2>5. HostsMove
    BY <2>1, <2>2, <2>3 DEF HostsMove
  <2>6. CodesMove
    BY <2>1, <2>2, <2>3 DEF CodesMove, SameCode
  <2> QED
    BY <2>4, <2>5, <2>6, Zenon DEF CallsMove
<1>3. ASSUME NEW p \in Phones, View(p) PROVE HostsMove /\ CodesMove /\ CallsMove
  <2>1. CASE cookie[p] \in released
    BY <1>3, <2>1, NothingMoves DEF View
  <2>2. CASE cookie[p] \notin released
    <3> PICK n \in GetTableByHostSession(cookie[p]) : tables' = [tables EXCEPT ![n].idle = FALSE]
      BY <1>3, <2>2 DEF View, TouchTableActivity
    <3>1. n \in Numbers
      BY DEF GetTableByHostSession
    <3>2. UNCHANGED <<tokens, dropped, calls>>
      BY <1>3 DEF View
    <3> QED
      BY <3>1, <3>2, IdleMoves
  <2> QED
    BY <2>1, <2>2
<1>4. ASSUME NEW p \in Phones, Leave(p) PROVE HostsMove /\ CodesMove /\ CallsMove
  BY <1>4, ReleaseMoves DEF Leave
<1>5. ASSUME NEW p \in Phones, NEW what \in {"call", "cancel"}, ResolveHostedTable(p, what)
      PROVE  HostsMove /\ CodesMove /\ CallsMove
  <2> PICK n \in GetTableByHostSession(cookie[p]) : tables' = [tables EXCEPT ![n].idle = FALSE]
    BY <1>5 DEF ResolveHostedTable, TouchTableActivity
  <2>1. n \in Numbers
    BY DEF GetTableByHostSession
  <2>2. UNCHANGED <<tokens, dropped, calls>>
    BY <1>5 DEF ResolveHostedTable
  <2> QED
    BY <2>1, <2>2, IdleMoves
<1>6. ASSUME NEW p \in Phones, RequestAssistance(p) PROVE HostsMove /\ CodesMove /\ CallsMove
  <2> PICK n : n = asking[p][1].table
    OBVIOUS
  <2> PICK c : c = Len(calls) + 1
    OBVIOUS
  <2>1. CASE StartsCall(n)
    <3>1. /\ tables' = [tables EXCEPT ![n].called = TRUE, ![n].since = c]
          /\ calls' = Append(calls, [alerts |-> 0, logs |-> 0])
          /\ UNCHANGED <<tokens, dropped>>
      BY <1>6, <2>1 DEF RequestAssistance
    <3>2. n \in Numbers /\ ~tables[n].called
      BY <2>1 DEF StartsCall
    <3>3. Numbers' = Numbers
      BY <3>1 DEF Numbers, Shapes
    <3>4. ASSUME NEW m \in Numbers
          PROVE  /\ tables'[m].host = tables[m].host /\ tables'[m].token = tables[m].token
                 /\ IF m = n THEN tables'[m].called = TRUE /\ tables'[m].since = c ELSE SameCall(m)
      <4>1. CASE m = n
        BY <3>1, <4>1, Kept DEF Row
      <4>2. CASE m # n
        BY <3>1, <4>2, Kept DEF SameCall
      <4> QED
        BY <4>1, <4>2
    <3>5. HostsMove /\ CodesMove
      BY <3>1, <3>3, <3>4 DEF HostsMove, CodesMove, SameCode
    <3>6. Starts
      BY <3>1, <3>2, <3>3, <3>4 DEF Starts
    <3> QED
      BY <3>5, <3>6 DEF CallsMove
  <2>2. CASE ~StartsCall(n)
    BY <1>6, <2>2, NothingMoves DEF RequestAssistance
  <2> QED
    BY <2>1, <2>2
<1>7. ASSUME NEW p \in Phones, PushAssistanceAlert(p) PROVE HostsMove /\ CodesMove /\ CallsMove
  <2> PICK c : c = asking[p][1].call
    OBVIOUS
  <2>1. c \in 1..Len(calls)
    BY <1>7, AskSlot DEF PushAssistanceAlert, Alerts, Ask, NoCall, Shapes
  <2>2. calls' = [calls EXCEPT ![c] = [calls[c] EXCEPT !.alerts = @ + 1]] /\ UNCHANGED <<tables, tokens, dropped>>
    BY <1>7 DEF PushAssistanceAlert
  <2>3. \A k \in 1..Len(calls) : calls[k] \in Call
    BY DEF Shapes
  <2>4. Len(calls') = Len(calls)
    BY <2>2 DEF Shapes
  <2>5. \A k \in 1..Len(calls) : calls'[k].logs = calls[k].logs
    BY <2>1, <2>2, <2>3 DEF Shapes, Call
  <2>6. CallsAt(tables, {}) = {}
    BY DEF CallsAt
  <2>7. Drops({})
    BY <2>2, <2>4, <2>5, <2>6 DEF Drops, SameCall, Numbers
  <2>8. HostsMove /\ CodesMove
    BY <2>2 DEF HostsMove, CodesMove, SameCode, Numbers
  <2>9. {} \in SUBSET Nat
    OBVIOUS
  <2> QED
    BY <2>7, <2>8, <2>9, Zenon DEF CallsMove
<1>8. ASSUME NEW p \in Phones, CancelAssistance(p) PROVE HostsMove /\ CodesMove /\ CallsMove
  BY <1>8, EndMoves DEF CancelAssistance
<1>9. ASSUME NEW n \in Numbers, WorkerAcknowledgeAssistance(n) PROVE HostsMove /\ CodesMove /\ CallsMove
  BY <1>9, EndMoves DEF WorkerAcknowledgeAssistance
<1>10. ASSUME NEW n \in Numbers, StaffReleaseTable(n) PROVE HostsMove /\ CodesMove /\ CallsMove
  BY <1>10, NothingMoves DEF StaffReleaseTable
<1>11. ASSUME NEW n \in Numbers, PassIdleTTL(n) PROVE HostsMove /\ CodesMove /\ CallsMove
  BY <1>11, IdleMoves DEF PassIdleTTL
<1>12. ASSUME NEW n \in Numbers, AdminDeleteSpot(n) PROVE HostsMove /\ CodesMove /\ CallsMove
  BY <1>12, NothingMoves DEF AdminDeleteSpot
<1>13. ASSUME NEW n \in Numbers, RotateTableToken(n) PROVE HostsMove /\ CodesMove /\ CallsMove
  <2>1. /\ tables' = [tables EXCEPT ![n].token = tokens + 1] /\ tokens' = tokens + 1
        /\ UNCHANGED <<dropped, calls>>
    BY <1>13 DEF RotateTableToken, NewTableToken
  <2>2. Numbers' = Numbers
    BY <2>1 DEF Numbers, Shapes
  <2>3. ASSUME NEW m \in Numbers
        PROVE  /\ tables'[m].host = tables[m].host /\ SameCall(m)
               /\ IF m = n THEN tables'[m].token = tokens + 1 ELSE SameCode(m)
    <3>1. CASE m = n
      BY <2>1, <3>1, Kept DEF Row, SameCall
    <3>2. CASE m # n
      BY <2>1, <3>2, Kept DEF SameCall, SameCode
    <3> QED
      BY <3>1, <3>2
  <2>4. HostsMove
    BY <2>2, <2>3 DEF HostsMove
  <2>5. CodesMove
    BY <2>1, <2>2, <2>3 DEF CodesMove
  <2>6. CallsAt(tables, {}) = {}
    BY DEF CallsAt
  <2>7. Drops({})
    BY <2>1, <2>2, <2>3, <2>6 DEF Drops
  <2>8. {} \in SUBSET Nat
    OBVIOUS
  <2> QED
    BY <2>4, <2>5, <2>7, <2>8, Zenon DEF CallsMove
<1>14. CASE ReleaseIdleTables
  BY <1>14, NothingMoves DEF ReleaseIdleTables
<1>15. ASSUME NEW r \in Releasers, FreeNext(r) PROVE HostsMove /\ CodesMove /\ CallsMove
  BY <1>15, ReleaseMoves DEF FreeNext
<1>16. ASSUME NEW r \in Releasers, FreeFails(r) PROVE HostsMove /\ CodesMove /\ CallsMove
  BY <1>16, NothingMoves DEF FreeFails
<1>17. ASSUME NEW r \in Releasers, EndGuestSession(r) PROVE HostsMove /\ CodesMove /\ CallsMove
  BY <1>17, NothingMoves DEF EndGuestSession
<1>18. CASE AdminAddSpot
  <2> PICK n \in 1..MaxTables :
        /\ \A m \in Numbers : m < n
        /\ tables' = [m \in Numbers \cup {n} |-> IF m = n THEN NewTable(NewTableToken) ELSE tables[m]]
    BY <1>18 DEF AdminAddSpot
  <2>1. n \notin Numbers /\ tokens' = tokens + 1 /\ UNCHANGED <<dropped, calls>>
    BY <1>18, Kept DEF AdminAddSpot
  <2>2. Numbers' = Numbers \cup {n}
    BY DEF Numbers
  <2>3. tables'[n] = NewTable(tokens + 1)
    BY DEF NewTableToken
  <2>4. \A m \in Numbers : tables'[m] = tables[m]
    BY <2>1
  <2>5. HostsMove
    BY <2>2, <2>3, <2>4 DEF HostsMove, NewTable
  <2>6. CodesMove
    BY <2>1, <2>2, <2>3, <2>4 DEF CodesMove, SameCode, NewTable
  <2>7. CallsAt(tables, {}) = {}
    BY DEF CallsAt
  <2>8. Drops({})
    BY <2>1, <2>2, <2>3, <2>4, <2>7 DEF Drops, SameCall, NoCallAt, NewTable
  <2>9. {} \in SUBSET Nat
    OBVIOUS
  <2> QED
    BY <2>5, <2>6, <2>8, <2>9, Zenon DEF CallsMove
<1>19. CASE DeleteTable
  <2>1. Numbers' = Numbers \ {deleting[1]}
    BY <1>19 DEF DeleteTable, Numbers
  <2>2. /\ \A m \in Numbers' : tables'[m] = tables[m]
        /\ UNCHANGED <<tokens, calls>> /\ dropped' = dropped \cup CallsAt(tables, {deleting[1]})
    BY <1>19, <2>1 DEF DeleteTable
  <2> DEFINE gone == {deleting[1]} \cap Numbers
  <2>3. CallsAt(tables, gone) = CallsAt(tables, {deleting[1]})
    BY DEF CallsAt, Numbers
  <2>4. Drops(gone)
    BY <2>1, <2>2, <2>3 DEF Drops, SameCall
  <2>5. HostsMove /\ CodesMove
    BY <2>1, <2>2 DEF HostsMove, CodesMove, SameCode
  <2>6. gone \in SUBSET Nat
    BY Kept
  <2> QED
    BY <2>4, <2>5, <2>6, Zenon DEF CallsMove
<1>20. CASE Restart
  BY <1>20, NothingMoves DEF Restart
<1>21. CASE UNCHANGED vars
  BY <1>21, NothingMoves DEF vars
<1> QED
  BY <1>1, <1>2, <1>3, <1>4, <1>5, <1>6, <1>7, <1>8, <1>9, <1>10, <1>11, <1>12, <1>13, <1>14,
     <1>15, <1>16, <1>17, <1>18, <1>19, <1>20, <1>21 DEF Next, Guest

\* Codes stay distinct and issued when they move as listed.
LEMMA CodesStep ==
  ASSUME Shapes, Codes, CodesMove
  PROVE  Codes'
<1>1. tokens \in Nat /\ \A m \in Numbers : tables[m].token \in Nat
  BY Kept DEF Row, Shapes
<1>2. CASE tokens' = tokens /\ \A m \in Numbers' : SameCode(m)
  BY <1>1, <1>2 DEF Codes, SameCode
<1>3. CASE tokens' = tokens + 1 /\ \E n \in Numbers' : tables'[n].token = tokens + 1 /\ \A m \in Numbers' \ {n} : SameCode(m)
  <2> PICK n \in Numbers' : tables'[n].token = tokens + 1 /\ \A m \in Numbers' \ {n} : SameCode(m)
    BY <1>3
  <2>1. \A m \in Numbers' \ {n} : m \in Numbers /\ tables'[m].token = tables[m].token
    BY DEF SameCode
  <2>2. \A m \in Numbers' : 1 <= tables'[m].token /\ tables'[m].token <= tokens'
    BY <1>1, <1>3, <2>1 DEF Codes
  <2>3. \A m \in Numbers' \ {n} : tables'[m].token # tables'[n].token
    BY <1>1, <2>1 DEF Codes
  <2>4. \A k, m \in Numbers' \ {n} : k # m => tables'[k].token # tables'[m].token
    BY <2>1 DEF Codes
  <2> QED
    BY <2>2, <2>3, <2>4 DEF Codes
<1> QED
  BY <1>2, <1>3 DEF CodesMove

\* A call is where its table is: kept, dropped, new or logged, never two of these.
LEMMA ClocksStep ==
  ASSUME Shapes, Clocks, CallsMove
  PROVE  Clocks'
<1>1. \A m \in Numbers : tables[m].since \in Nat /\ tables[m].called \in BOOLEAN
  BY Kept DEF Row
<1> PICK len \in Nat : len = Len(calls)
  BY DEF Shapes
<1>2. /\ \A n \in Numbers : tables[n].since <= len
      /\ \A n \in Numbers : tables[n].called <=> tables[n].since # NoCall
      /\ \A m, n \in Numbers : tables[m].since = tables[n].since /\ tables[m].since # NoCall => m = n
      /\ dropped \subseteq 1..len
      /\ \A c \in 1..len : Fate(c)
  BY DEF Clocks
<1>3. ASSUME NEW gone \in SUBSET Nat, Drops(gone) PROVE Clocks'
  <2>1. /\ Len(calls') = len /\ \A c \in 1..len : calls'[c].logs = calls[c].logs
        /\ dropped' = dropped \cup CallsAt(tables, gone)
        /\ Numbers \ gone \subseteq Numbers'
        /\ \A m \in Numbers' : IF m \in Numbers \ gone THEN SameCall(m) ELSE NoCallAt(m)
    BY <1>3 DEF Drops
  <2>2. \A m \in Numbers' : \/ tables'[m].since = NoCall /\ tables'[m].called = FALSE
                            \/ m \in Numbers \ gone /\ tables'[m].since = tables[m].since /\ tables'[m].called = tables[m].called
    BY <2>1 DEF SameCall, NoCallAt
  <2>3. \A c : c \in CallsAt(tables, gone) <=> c # NoCall /\ \E m \in gone \cap Numbers : tables[m].since = c
    BY DEF CallsAt, Numbers
  <2>4. \A m \in Numbers' : tables'[m].since <= len /\ (tables'[m].called <=> tables'[m].since # NoCall)
    BY <1>1, <1>2, <2>2 DEF NoCall
  <2>5. \A m, n \in Numbers' : tables'[m].since = tables'[n].since /\ tables'[m].since # NoCall => m = n
    BY <1>2, <2>2
  <2>6. dropped' \subseteq 1..len
    <3>1. ASSUME NEW c \in CallsAt(tables, gone) PROVE c \in 1..len
      <4> PICK m \in gone \cap Numbers : tables[m].since = c /\ c # NoCall
        BY <2>3
      <4> QED
        BY <1>1, <1>2 DEF NoCall
    <3> QED
      BY <1>2, <2>1, <3>1
  <2>7. ASSUME NEW c \in 1..len PROVE Fate(c)'
    <3>1. c # NoCall
      BY DEF NoCall
    <3>2. Waits(c)' <=> \E m \in Numbers \ gone : tables[m].since = c
      <4>1. ASSUME NEW m \in Numbers \ gone, tables[m].since = c PROVE Waits(c)'
        BY <2>1, <4>1 DEF SameCall, Waits
      <4>2. ASSUME NEW m \in Numbers', tables'[m].since = c PROVE \E k \in Numbers \ gone : tables[k].since = c
        BY <2>2, <3>1, <4>2
      <4> QED
        BY <4>1, <4>2 DEF Waits
    <3>3. c \in CallsAt(tables, gone) <=> \E m \in gone \cap Numbers : tables[m].since = c
      BY <2>3, <3>1
    <3>4. CASE Waits(c)
      <4> PICK n \in Numbers : tables[n].since = c
        BY <3>4 DEF Waits
      <4>1. calls'[c].logs = 0 /\ c \notin dropped
        BY <1>2, <2>1, <3>4 DEF Fate
      <4>2. \A m \in Numbers : tables[m].since = c => m = n
        BY <1>2, <3>1
      <4>3. CASE n \in gone
        BY <2>1, <3>2, <3>3, <4>1, <4>2, <4>3 DEF Fate
      <4>4. CASE n \notin gone
        BY <2>1, <3>2, <3>3, <4>1, <4>2, <4>4 DEF Fate
      <4> QED
        BY <4>3, <4>4
    <3>5. CASE ~Waits(c)
      <4>1. ~Waits(c)' /\ c \notin CallsAt(tables, gone)
        BY <3>2, <3>3, <3>5 DEF Waits
      <4> QED
        BY <1>2, <2>1, <3>5, <4>1 DEF Fate
    <3> QED
      BY <3>4, <3>5
  <2> QED
    BY <2>1, <2>4, <2>5, <2>6, <2>7 DEF Clocks
<1>4. CASE Starts
  <2> PICK n \in Numbers :
        /\ ~tables[n].called
        /\ calls' = Append(calls, [alerts |-> 0, logs |-> 0])
        /\ dropped' = dropped /\ Numbers' = Numbers
        /\ tables'[n].called = TRUE /\ tables'[n].since = Len(calls) + 1
        /\ \A m \in Numbers \ {n} : SameCall(m)
    BY <1>4 DEF Starts
  <2>1. \A m \in Numbers \ {n} : tables'[m].since = tables[m].since /\ tables'[m].called = tables[m].called
    BY DEF SameCall
  <2>2. /\ Len(calls') = len + 1 /\ \A c \in 1..len : calls'[c] = calls[c]
        /\ calls'[len + 1] = [alerts |-> 0, logs |-> 0]
    BY DEF Shapes
  <2>3. tables[n].since = NoCall
    BY <1>2
  <2>4. \A m \in Numbers : tables'[m].since <= len + 1 /\ (tables'[m].called <=> tables'[m].since # NoCall)
    BY <1>1, <1>2, <2>1 DEF NoCall
  <2>5. \A k, m \in Numbers : tables'[k].since = tables'[m].since /\ tables'[k].since # NoCall => k = m
    BY <1>1, <1>2, <2>1
  <2>6. ASSUME NEW c \in 1..len PROVE Fate(c)'
    <3>1. c # NoCall /\ c # len + 1
      BY DEF NoCall
    <3>2. Waits(c)' <=> Waits(c)
      BY <2>1, <2>3, <3>1 DEF Waits
    <3> QED
      BY <1>2, <2>2, <3>2 DEF Fate
  <2>7. Fate(len + 1)'
    <3>1. Waits(len + 1)' /\ len + 1 \notin dropped
      BY <1>2 DEF Waits
    <3> QED
      BY <2>2, <3>1 DEF Fate
  <2>8. \A c \in 1..len + 1 : Fate(c)'
    BY <2>6, <2>7
  <2>9. dropped' \subseteq 1..len + 1
    BY <1>2
  <2> QED
    BY <2>2, <2>4, <2>5, <2>8, <2>9 DEF Clocks
<1>5. CASE Logs
  <2> PICK n \in Numbers :
        /\ tables[n].since # NoCall
        /\ calls' = [calls EXCEPT ![tables[n].since].logs = @ + 1]
        /\ dropped' = dropped /\ Numbers' = Numbers
        /\ NoCallAt(n)
        /\ \A m \in Numbers \ {n} : SameCall(m)
    BY <1>5 DEF Logs
  <2>1. /\ \A m \in Numbers \ {n} : tables'[m].since = tables[m].since /\ tables'[m].called = tables[m].called
        /\ tables'[n].since = NoCall /\ tables'[n].called = FALSE
    BY DEF SameCall, NoCallAt
  <2> PICK k : k = tables[n].since
    OBVIOUS
  <2>2. k \in 1..len
    BY <1>1, <1>2 DEF NoCall
  <2>3. \A c \in 1..len : calls[c] \in Call
    BY DEF Shapes
  <2>4. Len(calls') = len /\ \A c \in 1..len : calls'[c].logs = IF c = k THEN calls[c].logs + 1 ELSE calls[c].logs
    BY <2>2, <2>3 DEF Shapes, Call
  <2>5. \A m \in Numbers : tables'[m].since <= len /\ (tables'[m].called <=> tables'[m].since # NoCall)
    BY <1>1, <1>2, <2>1 DEF NoCall
  <2>6. \A l, m \in Numbers : tables'[l].since = tables'[m].since /\ tables'[l].since # NoCall => l = m
    BY <1>2, <2>1
  <2>7. ASSUME NEW c \in 1..len PROVE Fate(c)'
    <3>1. c # NoCall
      BY DEF NoCall
    <3>2. CASE c = k
      <4>1. calls[c].logs = 0 /\ c \notin dropped
        BY <1>2, <3>2 DEF Fate, Waits
      <4>2. ~Waits(c)'
        BY <1>2, <2>1, <3>1, <3>2 DEF Waits
      <4> QED
        BY <2>4, <3>2, <4>1, <4>2 DEF Fate
    <3>3. CASE c # k
      <4>1. Waits(c)' <=> Waits(c)
        BY <2>1, <3>1, <3>3 DEF Waits
      <4> QED
        BY <1>2, <2>4, <3>3, <4>1 DEF Fate
    <3> QED
      BY <3>2, <3>3
  <2> QED
    BY <1>2, <2>4, <2>5, <2>6, <2>7 DEF Clocks
<1> QED
  BY <1>3, <1>4, <1>5 DEF CallsMove

\* Every session that is known anywhere was given out.
LEMMA GivenStep ==
  ASSUME Shapes, Given, HostsMove, [Next]_vars
  PROVE  Given'
<1> PICK s0 \in Nat : s0 = sessions
  BY DEF Shapes
<1>1. /\ \A p \in Phones : cookie[p] \in Nat /\ cookie[p] <= s0
      /\ \A s \in released : 1 <= s /\ s <= s0
      /\ \A p \in Phones : scanning[p] # Idle => scanning[p][1].session <= s0
  BY DEF Given, Shapes
<1>2. ASSUME NEW r \in Releasers
      PROVE  /\ work[r] \in Work
             /\ \A i \in 1..Len(work[r].free) : work[r].free[i].host <= s0
             /\ \A i \in 1..Len(work[r].end) : work[r].end[i] <= s0
  BY DEF Given, Shapes
<1>3. \A n \in Numbers : tables[n].host \in Nat /\ tables[n].host <= s0
  BY Kept DEF Given, Row
<1>4. \A p \in Phones : scanning[p] # Idle => scanning[p][1] \in ScanRequest
  BY ScanSlot
\* The tables, if no session is forgotten.
<1>5. ASSUME sessions' \in Nat, s0 <= sessions' PROVE \A n \in Numbers' : tables'[n].host <= sessions'
  <2> SUFFICES ASSUME NEW n \in Numbers' PROVE tables'[n].host <= sessions'
    OBVIOUS
  <2>1. CASE tables'[n].host = Nobody
    BY <1>5, <2>1 DEF Nobody
  <2>2. CASE n \in Numbers /\ tables'[n].host = tables[n].host
    BY <1>3, <1>5, <2>2
  <2>3. ASSUME NEW p \in Phones, scanning[p] # Idle, tables'[n].host = scanning[p][1].session
        PROVE  tables'[n].host <= sessions'
    BY <1>1, <1>4, <1>5, <2>3 DEF ScanRequest
  <2> QED
    BY <2>1, <2>2, <2>3 DEF HostsMove
\* Everything but the tables and what the releasers do.
<1>6. ASSUME sessions' = sessions, cookie' = cookie, released' \subseteq released, scanning' = scanning, work' = work
      PROVE  Given'
  BY <1>1, <1>2, <1>5, <1>6 DEF Given
<1> USE DEF requests, history
<1>7. ASSUME NEW p \in Phones, NEW k \in 1..tokens, Scan(p, k) PROVE Given'
  <2> PICK s : s = (IF cookie[p] = Nobody \/ cookie[p] \in released THEN s0 + 1 ELSE cookie[p])
    OBVIOUS
  <2> PICK n \in Numbers :
        scanning' = [scanning EXCEPT ![p] = <<[table |-> n, session |-> s, host |-> tables[n].host]>>]
    BY <1>7 DEF Scan
  <2>1. sessions' \in {s0, s0 + 1} /\ (s = s0 + 1 => sessions' = s0 + 1) /\ s <= sessions' /\ s \in Nat
    BY <1>1, <1>7 DEF Scan
  <2>2. released' \subseteq released /\ cookie' = cookie /\ work' = work
    BY <1>7 DEF Scan
  <2>3. \A q \in Phones : scanning'[q] # Idle => scanning'[q][1].session <= sessions'
    <3> SUFFICES ASSUME NEW q \in Phones, scanning'[q] # Idle PROVE scanning'[q][1].session <= sessions'
      OBVIOUS
    <3>1. CASE q = p
      BY <2>1, <3>1 DEF Shapes
    <3>2. CASE q # p
      <4>1. scanning'[q] = scanning[q]
        BY <3>2 DEF Shapes
      <4> QED
        BY <1>1, <1>4, <2>1, <4>1 DEF ScanRequest
    <3> QED
      BY <3>1, <3>2
  <2>4. \A n1 \in Numbers' : tables'[n1].host <= sessions'
    BY <1>5, <2>1
  <2>5. \A q \in Phones : cookie'[q] <= sessions'
    BY <1>1, <2>1, <2>2
  <2>6. \A s1 \in released' : 1 <= s1 /\ s1 <= sessions'
    BY <1>1, <2>1, <2>2 DEF Shapes
  <2>7. ASSUME NEW r \in Releasers
        PROVE  /\ \A i \in 1..Len(work'[r].free) : work'[r].free[i].host <= sessions'
               /\ \A i \in 1..Len(work'[r].end) : work'[r].end[i] <= sessions'
    <3> PICK f, e : f = work[r].free /\ e = work[r].end
      OBVIOUS
    <3>1. f \in Seq(Entry) /\ e \in Seq(Nat)
      BY <1>2 DEF Work
    <3>2. /\ \A i \in 1..Len(f) : f[i].host \in Nat /\ f[i].host <= s0
          /\ \A i \in 1..Len(e) : e[i] \in Nat /\ e[i] <= s0
      <4>1. /\ \A i \in 1..Len(f) : f[i] \in Entry
            /\ \A i \in 1..Len(e) : e[i] \in Nat
        BY <3>1
      <4>2. \A x \in Entry : x.host \in Nat
        BY DEF Entry
      <4>3. /\ \A i \in 1..Len(f) : f[i].host <= s0
            /\ \A i \in 1..Len(e) : e[i] <= s0
        BY <1>2
      <4> QED
        BY <4>1, <4>2, <4>3
    <3>3. /\ \A i \in 1..Len(f) : f[i].host <= sessions'
          /\ \A i \in 1..Len(e) : e[i] <= sessions'
      BY <2>1, <3>2
    <3> QED
      BY <2>2, <3>3
  <2> QED
    BY <2>3, <2>4, <2>5, <2>6, <2>7 DEF Given
<1>8. ASSUME NEW p \in Phones, FinishScan(p) PROVE Given'
  <2>1. sessions' = sessions /\ released' = released /\ work' = work /\ scanning' = [scanning EXCEPT ![p] = Idle]
    BY <1>8 DEF FinishScan
  <2>2. \A q \in Phones : cookie'[q] <= s0
    BY <1>1, <1>8 DEF FinishScan, Shapes
  <2>3. \A q \in Phones : scanning'[q] # Idle => scanning'[q][1].session <= s0
    BY <1>1, <2>1 DEF Shapes
  <2> QED
    BY <1>1, <1>2, <1>5, <2>1, <2>2, <2>3 DEF Given
<1>9. ASSUME NEW p \in Phones, View(p) \/ Leave(p) PROVE Given'
  <2>1. sessions' = sessions /\ released' \subseteq released /\ work' = work /\ scanning' = scanning
    BY <1>9 DEF View, Leave
  <2>2. cookie' = cookie \/ cookie' = [cookie EXCEPT ![p] = Nobody]
    BY <1>9 DEF View, Leave
  <2>3. \A q \in Phones : cookie'[q] <= s0
    BY <1>1, <2>2 DEF Shapes, Nobody
  <2> QED
    BY <1>1, <1>2, <1>5, <2>1, <2>3 DEF Given
<1>10. ASSUME NEW r \in Releasers, NEW new \in Work, work' = [work EXCEPT ![r] = new],
              \A i \in 1..Len(new.free) : new.free[i].host <= s0,
              \A i \in 1..Len(new.end) : new.end[i] <= s0,
              UNCHANGED <<sessions, cookie, scanning>>, \A s \in released' : 1 <= s /\ s <= s0
       PROVE  Given'
  <2>1. ASSUME NEW q \in Releasers
        PROVE  /\ \A i \in 1..Len(work'[q].free) : work'[q].free[i].host <= s0
               /\ \A i \in 1..Len(work'[q].end) : work'[q].end[i] <= s0
    <3>1. CASE q = r
      BY <1>10, <3>1 DEF Shapes
    <3>2. CASE q # r
      <4>1. work'[q] = work[q]
        BY <1>10, <3>2 DEF Shapes
      <4> QED
        BY <1>2, <4>1
    <3> QED
      BY <3>1, <3>2
  <2> QED
    BY <1>1, <1>5, <1>10, <2>1 DEF Given
<1>11. ASSUME NEW n \in Numbers, StaffReleaseTable(n) PROVE Given'
  <2> PICK new : new = [work["staff"] EXCEPT !.free = <<Read(n)>>]
    OBVIOUS
  <2>1. "staff" \in Releasers
    BY DEF Releasers
  <2>2. Read(n) \in Entry /\ Read(n).host <= s0
    BY <1>3, ReadEntry
  <2>3. work["staff"] \in Work
    BY <1>2, <2>1
  <2>4. new \in Work /\ new.free = <<Read(n)>> /\ new.end = work["staff"].end
    <3>1. <<Read(n)>> \in Seq(Entry)
      BY <2>2
    <3>2. new.free = <<Read(n)>> /\ new.end = work["staff"].end
      BY <2>3 DEF Work
    <3>3. new \in Work
      BY <2>3, <3>1 DEF Work
    <3> QED
      BY <3>2, <3>3
  <2>5. work' = [work EXCEPT !["staff"] = new]
    BY <1>11 DEF StaffReleaseTable
  <2>6. \A i \in 1..Len(new.free) : new.free[i].host <= s0
    BY <2>2, <2>4
  <2>7. \A i \in 1..Len(new.end) : new.end[i] <= s0
    BY <1>2, <2>1, <2>4
  <2>8. UNCHANGED <<sessions, cookie, scanning, released>>
    BY <1>11 DEF StaffReleaseTable
  <2> QED
    BY <1>1, <1>10, <2>1, <2>4, <2>5, <2>6, <2>7, <2>8
<1>12. CASE ReleaseIdleTables
  <2> PICK order \in SetToSeqs(IdleTables) : work' = [work EXCEPT !["sweep"].free = [i \in DOMAIN order |-> Read(order[i])]]
    BY <1>12 DEF ReleaseIdleTables
  <2> PICK list : list = [i \in DOMAIN order |-> Read(order[i])]
    OBVIOUS
  <2> PICK new : new = [work["sweep"] EXCEPT !.free = list]
    OBVIOUS
  <2>1. "sweep" \in Releasers
    BY DEF Releasers
  <2>2. list \in Seq(Entry) /\ DOMAIN order = 1..Len(list) /\ \A i \in DOMAIN order : order[i] \in Numbers
    BY Listed
  <2>3. \A i \in 1..Len(list) : list[i].host <= s0
    BY <1>3, <2>2, ReadEntry
  <2>4. work["sweep"] \in Work
    BY <1>2, <2>1
  <2>5. new \in Work /\ new.free = list /\ new.end = work["sweep"].end
    BY <2>2, <2>4 DEF Work
  <2>6. work' = [work EXCEPT !["sweep"] = new]
    OBVIOUS
  <2>7. \A i \in 1..Len(new.end) : new.end[i] <= s0
    BY <1>2, <2>1, <2>5
  <2>8. UNCHANGED <<sessions, cookie, scanning, released>>
    BY <1>12 DEF ReleaseIdleTables
  <2> QED
    BY <1>1, <1>10, <2>1, <2>3, <2>5, <2>6, <2>7, <2>8
<1>13. ASSUME NEW r \in Releasers, FreeNext(r) PROVE Given'
  <2> PICK f, e : f = work[r].free /\ e = work[r].end
    OBVIOUS
  <2>1. f \in Seq(Entry) /\ e \in Seq(Nat) /\ f # <<>>
    BY <1>2, <1>13 DEF FreeNext, Work
  <2>2. /\ \A i \in 1..Len(f) : f[i].host <= s0
        /\ \A i \in 1..Len(e) : e[i] <= s0
    BY <1>2
  <2> PICK new : new = [free |-> Tail(f), end |-> Append(e, Head(f).host)]
    OBVIOUS
  <2>3. Head(f) \in Entry /\ Head(f).host <= s0 /\ Tail(f) \in Seq(Entry)
    BY <2>1, <2>2
  <2>4. new.free = Tail(f) /\ new.end = Append(e, Head(f).host)
    OBVIOUS
  <2>5. new \in Work
    BY <2>1, <2>3 DEF Work, Entry
  <2>6. \A i \in 1..Len(new.free) : new.free[i].host <= s0
    BY <2>1, <2>2, <2>4
  <2>7. \A i \in 1..Len(new.end) : new.end[i] <= s0
    <3>1. /\ Len(new.end) = Len(e) + 1 /\ new.end[Len(e) + 1] = Head(f).host
          /\ \A i \in 1..Len(e) : new.end[i] = e[i]
      BY <2>1, <2>3, <2>4 DEF Entry
    <3> QED
      BY <2>1, <2>2, <2>3, <3>1
  <2>8. work' = [work EXCEPT ![r] = new]
    BY <1>13 DEF FreeNext
  <2>9. UNCHANGED <<sessions, cookie, scanning, released>>
    BY <1>13 DEF FreeNext
  <2> QED
    BY <1>1, <1>10, <2>5, <2>6, <2>7, <2>8, <2>9
<1>14. ASSUME NEW r \in Releasers, FreeFails(r) PROVE Given'
  <2>1. NoWork \in Work /\ Len(NoWork.free) = 0 /\ Len(NoWork.end) = 0
    BY DEF NoWork, Work
  <2>2. work' = [work EXCEPT ![r] = NoWork] /\ UNCHANGED <<sessions, cookie, scanning, released>>
    BY <1>14 DEF FreeFails
  <2>3. /\ \A i \in 1..Len(NoWork.free) : NoWork.free[i].host <= s0
        /\ \A i \in 1..Len(NoWork.end) : NoWork.end[i] <= s0
    BY <2>1
  <2> QED
    BY <1>1, <1>10, <2>1, <2>2, <2>3
<1>15. ASSUME NEW r \in Releasers, EndGuestSession(r) PROVE Given'
  <2> PICK f, e : f = work[r].free /\ e = work[r].end
    OBVIOUS
  <2>1. work[r] \in Work /\ f \in Seq(Entry) /\ e \in Seq(Nat) /\ e # <<>>
    BY <1>2, <1>15 DEF EndGuestSession, Work
  <2>2. /\ \A i \in 1..Len(f) : f[i].host <= s0
        /\ \A i \in 1..Len(e) : e[i] <= s0
    BY <1>2
  <2> PICK new : new = [work[r] EXCEPT !.end = Tail(e)]
    OBVIOUS
  <2>3. new \in Work /\ new.free = f /\ new.end = Tail(e)
    <3>1. Tail(e) \in Seq(Nat)
      BY <2>1
    <3>2. new.free = f /\ new.end = Tail(e)
      BY <2>1 DEF Work
    <3>3. new \in Work
      BY <2>1, <3>1 DEF Work
    <3> QED
      BY <3>2, <3>3
  <2>4. \A i \in 1..Len(new.end) : new.end[i] <= s0
    <3> PICK k \in Nat : k = Len(e)
      BY <2>1
    <3>1. Len(Tail(e)) = k - 1 /\ \A i \in 1..k - 1 : Tail(e)[i] = e[i + 1]
      BY <2>1
    <3>2. \A i \in 1..k - 1 : i + 1 \in 1..k
      OBVIOUS
    <3>3. \A i \in 1..k - 1 : Tail(e)[i] <= s0
      BY <2>2, <3>1, <3>2
    <3> QED
      BY <2>3, <3>1, <3>3
  <2>5. Head(e) \in Nat /\ Head(e) <= s0
    BY <2>1, <2>2
  <2>6. \A s \in released' : 1 <= s /\ s <= s0
    BY <1>1, <1>15, <2>5 DEF EndGuestSession, Nobody
  <2>7. work' = [work EXCEPT ![r] = new] /\ UNCHANGED <<sessions, cookie, scanning>>
    BY <1>15 DEF EndGuestSession
  <2> QED
    BY <1>10, <2>2, <2>3, <2>4, <2>6, <2>7
<1>16. CASE Restart
  <2>1. NoWork.free = <<>> /\ NoWork.end = <<>>
    BY DEF NoWork
  <2>2. /\ sessions' = sessions /\ cookie' = cookie /\ released' = {}
        /\ \A p \in Phones : scanning'[p] = Idle
        /\ \A r \in Releasers : work'[r] = NoWork
    BY <1>16 DEF Restart
  <2> QED
    BY <1>1, <1>5, <2>1, <2>2 DEF Given
<1>17. ASSUME NEW p \in Phones, \/ \E what \in {"call", "cancel"} : ResolveHostedTable(p, what)
                                \/ RequestAssistance(p) \/ PushAssistanceAlert(p) \/ CancelAssistance(p)
       PROVE  Given'
  BY <1>6, <1>17 DEF ResolveHostedTable, RequestAssistance, PushAssistanceAlert, CancelAssistance
<1>18. ASSUME NEW n \in Numbers, \/ WorkerAcknowledgeAssistance(n) \/ PassIdleTTL(n)
                                 \/ AdminDeleteSpot(n) \/ RotateTableToken(n)
       PROVE  Given'
  BY <1>6, <1>18 DEF WorkerAcknowledgeAssistance, PassIdleTTL, AdminDeleteSpot, RotateTableToken
<1>19. CASE AdminAddSpot \/ DeleteTable
  BY <1>6, <1>19 DEF AdminAddSpot, DeleteTable
<1>20. CASE UNCHANGED vars
  BY <1>6, <1>20 DEF vars
<1> QED
  BY <1>7, <1>8, <1>9, <1>11, <1>12, <1>13, <1>14, <1>15, <1>16, <1>17, <1>18, <1>19, <1>20 DEF Next, Guest

\* Alerts only sees the slots for requests, the alerts of the calls and cut.
SlotsOK == \A p \in Phones : asking[p] # Idle =>
             /\ asking[p][1].call <= Len(calls)
             /\ asking[p][1].step = "alert" <=> asking[p][1].call # NoCall
SameAlerts == Len(calls') = Len(calls) /\ \A c \in 1..Len(calls) : calls'[c].alerts = calls[c].alerts
\* A step that touches no alert and no ask keeps the alert counts.
LEMMA AlertsKept ==
  ASSUME Alerts, SameAlerts, cut' = cut, SlotsOK',
         \A p \in Phones : \A c \in 1..Len(calls) : Asks(p, c)' <=> Asks(p, c)
  PROVE  Alerts'
<1>1. ASSUME NEW c \in 1..Len(calls) PROVE Alert(c)'
  <2>1. \A p \in Phones : Asks(p, c)' <=> Asks(p, c)
    OBVIOUS
  <2>2. Alert(c) /\ calls'[c].alerts = calls[c].alerts
    BY DEF Alerts, SameAlerts
  <2> QED
    BY <2>1, <2>2, SMT DEF Alert
<1> QED
  BY <1>1 DEF Alerts, SlotsOK, SameAlerts

\* A log row is no alert.
LEMMA LogsNoAlert ==
  ASSUME Shapes, Clocks, NEW n, EndAssistance(n)
  PROVE  SameAlerts
<1>1. CASE n \notin Numbers \/ tables[n].since = NoCall
  BY <1>1 DEF EndAssistance, SameAlerts
<1>2. CASE n \in Numbers /\ tables[n].since # NoCall
  <2> PICK c : c = tables[n].since
    OBVIOUS
  <2>1. c \in 1..Len(calls)
    BY <1>2, Kept DEF NoCall, Clocks, Row, Shapes
  <2>2. calls' = [calls EXCEPT ![c] = [calls[c] EXCEPT !.logs = @ + 1]]
    BY <1>2 DEF EndAssistance
  <2>3. \A k \in 1..Len(calls) : calls[k] \in Call
    BY DEF Shapes
  <2>4. Len(calls') = Len(calls)
    BY <2>2 DEF Shapes
  <2>5. \A k \in 1..Len(calls) : calls'[k].alerts = calls[k].alerts
    BY <2>1, <2>2, <2>3 DEF Shapes, Call
  <2> QED
    BY <2>4, <2>5 DEF SameAlerts
<1> QED
  BY <1>1, <1>2

\* A request that started no call, before or after: no alert hangs on its slot.
LEMMA SlotChanges ==
  ASSUME Shapes, Alerts, NEW p \in Phones, NEW new, asking' = [asking EXCEPT ![p] = new],
         new # Idle => new[1].call = NoCall /\ new[1].step # "alert",
         asking[p] # Idle => asking[p][1].call = NoCall,
         SameAlerts, cut' = cut
  PROVE  Alerts'
<1>1. \A q \in Phones : asking'[q] = IF q = p THEN new ELSE asking[q]
  BY DEF Shapes
<1>2. SlotsOK'
  BY <1>1 DEF SlotsOK, Alerts, SameAlerts, NoCall, Shapes
<1>3. ASSUME NEW q \in Phones, NEW c \in 1..Len(calls) PROVE Asks(q, c)' <=> Asks(q, c)
  <2>1. c # NoCall
    BY DEF NoCall
  <2> QED
    BY <1>1, <2>1 DEF Asks
<1> QED
  BY <1>2, <1>3, AlertsKept

\* Every step keeps each call at one alert: sent, cut off, or still to send.
LEMMA AlertsStep ==
  ASSUME Shapes, Clocks, Alerts, [Next]_vars
  PROVE  Alerts'
<1> USE DEF requests, history
<1> PICK len \in Nat : len = Len(calls)
  BY DEF Shapes
<1>1. ASSUME UNCHANGED <<asking, cut>>, SameAlerts PROVE Alerts'
  <2>1. \A p \in Phones : \A c \in 1..Len(calls) : Asks(p, c)' <=> Asks(p, c)
    BY <1>1 DEF Asks
  <2>2. SlotsOK'
    BY <1>1 DEF SlotsOK, SameAlerts, Alerts
  <2> QED
    BY <1>1, <2>1, <2>2, AlertsKept
<1>2. calls' = calls => SameAlerts
  BY DEF SameAlerts
<1>3. ASSUME NEW p \in Phones, NEW what \in {"call", "cancel"}, ResolveHostedTable(p, what) PROVE Alerts'
  <2> PICK n : asking' = [asking EXCEPT ![p] = <<[table |-> n, step |-> what, call |-> NoCall]>>]
    BY <1>3 DEF ResolveHostedTable
  <2> PICK new : new = <<[table |-> n, step |-> what, call |-> NoCall]>>
    OBVIOUS
  <2>1. new[1].call = NoCall /\ new[1].step # "alert" /\ asking[p] = Idle /\ cut' = cut /\ calls' = calls
    BY <1>3 DEF ResolveHostedTable
  <2>2. asking' = [asking EXCEPT ![p] = new]
    OBVIOUS
  <2> QED
    BY <1>2, <2>1, <2>2, SlotChanges
<1>4. ASSUME NEW p \in Phones, RequestAssistance(p) PROVE Alerts'
  <2> PICK n : n = asking[p][1].table
    OBVIOUS
  <2>1. asking[p] # Idle /\ asking[p][1].call = NoCall /\ cut' = cut
    BY <1>4 DEF RequestAssistance, Alerts
  <2>2. CASE ~StartsCall(n)
    <3>1. asking' = [asking EXCEPT ![p] = Idle] /\ calls' = calls
      BY <1>4, <2>2 DEF RequestAssistance, AskedAgain
    <3> QED
      BY <1>2, <2>1, <3>1, SlotChanges
  <2>3. CASE StartsCall(n)
    <3> PICK new : new = <<[table |-> n, step |-> "alert", call |-> len + 1]>>
      OBVIOUS
    <3>1. new # Idle /\ new[1].call = len + 1 /\ new[1].step = "alert"
      BY DEF Idle
    <3>2. asking' = [asking EXCEPT ![p] = new] /\ calls' = Append(calls, [alerts |-> 0, logs |-> 0])
      BY <1>4, <2>3 DEF RequestAssistance
    <3>3. \A q \in Phones : asking'[q] = IF q = p THEN new ELSE asking[q]
      BY <3>2 DEF Shapes
    <3>4. /\ Len(calls') = len + 1 /\ \A c \in 1..len : calls'[c] = calls[c]
          /\ calls'[len + 1].alerts = 0
      BY <3>2 DEF Shapes
    <3>5. \A q \in Phones : asking[q] # Idle => asking[q][1].call \in Nat /\ asking[q][1].call <= len
      BY AskSlot DEF Alerts, Ask
    <3>6. \A q \in Phones : asking'[q] # Idle =>
            /\ asking'[q][1].call <= len + 1
            /\ asking'[q][1].step = "alert" <=> asking'[q][1].call # NoCall
      <4>1. len + 1 # NoCall
        BY DEF NoCall
      <4> QED
        BY <3>1, <3>3, <3>5, <4>1 DEF Alerts
    <3>7. ASSUME NEW c \in 1..len PROVE Alert(c)'
      <4>1. c # NoCall /\ c # len + 1
        BY DEF NoCall
      <4>2. \A q \in Phones : Asks(q, c)' <=> Asks(q, c)
        BY <2>1, <3>1, <3>3, <4>1 DEF Asks
      <4>3. Alert(c) /\ calls'[c].alerts = calls[c].alerts
        BY <3>4 DEF Alerts
      <4> QED
        BY <2>1, <4>2, <4>3, SMT DEF Alert
    <3>8. Alert(len + 1)'
      <4>1. \A q \in Phones : Asks(q, len + 1)' <=> q = p
        BY <3>1, <3>3, <3>5 DEF Asks
      <4>2. len + 1 \notin cut
        BY DEF Alerts
      <4> QED
        BY <2>1, <3>4, <4>1, <4>2 DEF Alert
    <3>9. \A c \in 1..len + 1 : Alert(c)'
      BY <3>7, <3>8
    <3>10. cut' \subseteq 1..len + 1
      BY <2>1 DEF Alerts
    <3> QED
      BY <3>4, <3>6, <3>9, <3>10 DEF Alerts
  <2> QED
    BY <2>2, <2>3
<1>5. ASSUME NEW p \in Phones, PushAssistanceAlert(p) PROVE Alerts'
  <2> PICK k : k = asking[p][1].call
    OBVIOUS
  <2>1. asking[p] # Idle /\ asking[p][1].step = "alert"
    BY <1>5 DEF PushAssistanceAlert
  <2>2. k \in 1..len
    BY <2>1, AskSlot DEF Alerts, Ask, NoCall
  <2>3. calls' = [calls EXCEPT ![k] = [calls[k] EXCEPT !.alerts = @ + 1]]
    BY <1>5 DEF PushAssistanceAlert
  <2>4. \A c \in 1..len : calls[c] \in Call
    BY DEF Shapes
  <2>5. Len(calls') = len /\ \A c \in 1..len : calls'[c].alerts = IF c = k THEN calls[c].alerts + 1 ELSE calls[c].alerts
    BY <2>2, <2>3, <2>4 DEF Shapes, Call
  <2>6. asking' = [asking EXCEPT ![p] = Idle] /\ cut' = cut
    BY <1>5 DEF PushAssistanceAlert
  <2>7. \A q \in Phones : asking'[q] = IF q = p THEN Idle ELSE asking[q]
    BY <2>6 DEF Shapes
  <2>8. \A q \in Phones : asking'[q] # Idle =>
          /\ asking'[q][1].call <= len
          /\ asking'[q][1].step = "alert" <=> asking'[q][1].call # NoCall
    BY <2>7 DEF Alerts
  <2>9. ASSUME NEW c \in 1..len PROVE Alert(c)'
    <3>1. Alert(c)
      BY DEF Alerts
    <3>2. CASE c = k
      <4>1. Asks(p, c)
        BY <2>1, <3>2 DEF Asks
      <4>2. calls[c].alerts = 0 /\ c \notin cut /\ \A q \in Phones : Asks(q, c) => q = p
        BY <3>1, <4>1 DEF Alert
      <4>3. \A q \in Phones : ~Asks(q, c)'
        BY <2>7, <4>2 DEF Asks
      <4> QED
        BY <2>5, <2>6, <3>2, <4>2, <4>3 DEF Alert
    <3>3. CASE c # k
      <4>1. \A q \in Phones : Asks(q, c)' <=> Asks(q, c)
        BY <2>7, <3>3 DEF Asks
      <4>2. calls'[c].alerts = calls[c].alerts
        BY <2>5, <3>3
      <4> QED
        BY <2>6, <3>1, <4>1, <4>2, SMT DEF Alert
    <3> QED
      BY <3>2, <3>3
  <2> QED
    BY <2>5, <2>6, <2>8, <2>9 DEF Alerts
<1>6. ASSUME NEW p \in Phones, CancelAssistance(p) PROVE Alerts'
  <2>1. asking[p] # Idle /\ asking[p][1].call = NoCall /\ cut' = cut
    BY <1>6 DEF CancelAssistance, Alerts
  <2>2. asking' = [asking EXCEPT ![p] = Idle] /\ SameAlerts
    BY <1>6, LogsNoAlert DEF CancelAssistance
  <2> QED
    BY <2>1, <2>2, SlotChanges
<1>7. ASSUME NEW n \in Numbers, WorkerAcknowledgeAssistance(n) PROVE Alerts'
  BY <1>1, <1>7, LogsNoAlert DEF WorkerAcknowledgeAssistance
<1>8. CASE Restart
  <2> PICK new : new = {asking[p][1].call : p \in {q \in Phones : asking[q] # Idle}} \ {NoCall}
    OBVIOUS
  <2>1. /\ calls' = calls /\ cut' = cut \cup new
        /\ \A p \in Phones : asking'[p] = Idle
    BY <1>8 DEF Restart
  <2>2. \A c : c \in new <=> c # NoCall /\ \E p \in Phones : Asks(p, c)
    BY DEF Asks
  <2>3. new \subseteq 1..len
    <3>1. ASSUME NEW c \in new PROVE c \in 1..len
      <4> PICK p \in Phones : asking[p] # Idle /\ asking[p][1].call = c
        BY <2>2 DEF Asks
      <4>1. asking[p][1] \in Ask
        BY AskSlot
      <4>2. c <= len /\ c \in Nat /\ c # 0
        BY <2>2, <4>1 DEF Alerts, Ask, NoCall
      <4> QED
        BY <4>2
    <3> QED
      BY <3>1
  <2>4. ASSUME NEW c \in 1..len PROVE Alert(c)'
    <3>1. c # NoCall /\ Alert(c)
      BY DEF NoCall, Alerts
    <3>2. \A p \in Phones : ~Asks(p, c)'
      BY <2>1 DEF Asks
    <3> QED
      BY <2>1, <2>2, <3>1, <3>2 DEF Alert
  <2>5. SlotsOK'
    BY <2>1 DEF SlotsOK
  <2>6. cut' \subseteq 1..len
    BY <2>1, <2>3 DEF Alerts
  <2> QED
    BY <2>1, <2>4, <2>5, <2>6 DEF Alerts, SlotsOK
<1>9. ASSUME NEW p \in Phones, (\E k \in 1..tokens : Scan(p, k)) \/ FinishScan(p) \/ View(p) \/ Leave(p) PROVE Alerts'
  BY <1>1, <1>2, <1>9 DEF Scan, FinishScan, View, Leave
<1>10. ASSUME NEW n \in Numbers, StaffReleaseTable(n) \/ PassIdleTTL(n) \/ AdminDeleteSpot(n) \/ RotateTableToken(n)
       PROVE  Alerts'
  BY <1>1, <1>2, <1>10 DEF StaffReleaseTable, PassIdleTTL, AdminDeleteSpot, RotateTableToken
<1>11. ASSUME NEW r \in Releasers, FreeNext(r) \/ FreeFails(r) \/ EndGuestSession(r) PROVE Alerts'
  BY <1>1, <1>2, <1>11 DEF FreeNext, FreeFails, EndGuestSession
<1>12. CASE ReleaseIdleTables \/ AdminAddSpot \/ DeleteTable
  BY <1>1, <1>2, <1>12 DEF ReleaseIdleTables, AdminAddSpot, DeleteTable
<1>13. CASE UNCHANGED vars
  BY <1>1, <1>2, <1>13 DEF vars
<1> QED
  BY <1>3, <1>4, <1>5, <1>6, <1>7, <1>8, <1>9, <1>10, <1>11, <1>12, <1>13 DEF Next, Guest

-----------------------------------------------------------------------------
(* The theorems.                                                           *)

\* One or none of a set, counted.
LEMMA CountOne ==
  ASSUME NEW c, NEW S
  PROVE  Cardinality({c} \cap S) = IF c \in S THEN 1 ELSE 0
<1>1. CASE c \in S
  <2>1. {c} \cap S = {c}
    BY <1>1
  <2> QED
    BY <1>1, <2>1, FS_Singleton
<1>2. CASE c \notin S
  <2>1. {c} \cap S = {}
    BY <1>2
  <2> QED
    BY <1>2, <2>1, FS_EmptySet
<1> QED
  BY <1>1, <1>2

\* The floor starts inside the invariant.
LEMMA InitInv == Init => FloorInv
<1> SUFFICES ASSUME Init PROVE FloorInv
  OBVIOUS
<1>1. Shapes
  BY InitShapes
<1>2. /\ Numbers = 1..MaxTables0 /\ \A n \in Numbers : tables[n] = NewTable(n)
      /\ tokens = MaxTables0 /\ sessions = 0 /\ released = {} /\ Len(calls) = 0 /\ dropped = {} /\ cut = {}
      /\ \A p \in Phones : cookie[p] = 0 /\ scanning[p] = Idle /\ asking[p] = Idle
      /\ \A r \in Releasers : work[r] = NoWork
  BY FloorAssumption DEF Init, Numbers, Nobody
<1>3. \A n \in Numbers : /\ tables[n].host = 0 /\ tables[n].token = n
                        /\ tables[n].since = NoCall /\ tables[n].called = FALSE
  <2>1. \A n : /\ NewTable(n).host = 0 /\ NewTable(n).token = n
               /\ NewTable(n).since = NoCall /\ NewTable(n).called = FALSE
    BY DEF NewTable, Nobody
  <2> QED
    BY <1>2, <2>1
<1>4. MaxTables0 \in Nat /\ \A i \in 1..0 : FALSE
  BY FloorAssumption
<1>5. Given
  <2>1. \A r \in Releasers : /\ \A i \in 1..Len(work[r].free) : FALSE
                             /\ \A i \in 1..Len(work[r].end) : FALSE
    <3>1. Len(NoWork.free) = 0 /\ Len(NoWork.end) = 0
      BY DEF NoWork
    <3> QED
      BY <1>2, <1>4, <3>1
  <2>2. /\ \A n \in Numbers : tables[n].host <= sessions
        /\ \A p \in Phones : cookie[p] <= sessions
        /\ \A p \in Phones : scanning[p] = Idle
        /\ released = {}
    BY <1>2, <1>3
  <2> QED
    BY <2>1, <2>2 DEF Given
<1>6. Codes
  <2>1. \A n \in 1..MaxTables0 : 1 <= n /\ n <= tokens
    BY <1>2, <1>4
  <2> QED
    BY <1>2, <1>3, <2>1 DEF Codes
<1>7. Clocks
  <2>1. \A n \in Numbers : tables[n].since <= Len(calls)
    BY <1>2, <1>3 DEF NoCall
  <2>2. \A c \in 1..Len(calls) : FALSE
    BY <1>2, <1>4
  <2> QED
    BY <1>2, <1>3, <2>1, <2>2 DEF Clocks
<1>8. Alerts
  BY <1>2 DEF Alerts
<1> QED
  BY <1>1, <1>5, <1>6, <1>7, <1>8 DEF FloorInv

\* The floor keeps its inductive invariant, whatever its phones, tables and
\* calls, its restarts and the requests under way.
THEOREM FloorInvariant == Spec => []FloorInv
<1>1. FloorInv /\ [Next]_vars => FloorInv'
  BY ShapesStep, MovesStep, CodesStep, ClocksStep, GivenStep, AlertsStep DEF FloorInv
<1> QED
  BY <1>1, InitInv, PTL DEF Spec

\* Every row, cookie and released session is one that was given out, and no
\* code stands on two tables (ClaimTable, NewTableToken).
THEOREM FloorTypes == Spec => []TypeOK
<1>1. FloorInv => TypeOK
  <2> SUFFICES ASSUME FloorInv PROVE TypeOK
    OBVIOUS
  <2>1. Shapes /\ Given /\ Codes /\ Clocks
    BY DEF FloorInv
  <2>2. \A n \in Numbers : tables[n].host \in Nat /\ tables[n].since \in Nat /\ tables[n].token \in Nat
    BY <2>1, Kept DEF Row
  <2>3. sessions \in Nat /\ tokens \in Nat /\ Len(calls) \in Nat /\ Numbers \subseteq 1..MaxTables
    BY <2>1 DEF Shapes
  <2>4. \A p \in Phones : cookie[p] \in Nat
    BY <2>1 DEF Shapes
  <2>5. \A s \in released : s \in Nat
    BY <2>1 DEF Shapes
  <2>6. \A p \in Phones : cookie[p] \in 0..sessions
    BY <2>1, <2>3, <2>4 DEF Given
  <2>7. released \subseteq 1..sessions
    BY <2>1, <2>3, <2>5 DEF Given
  <2>8. \A n \in Numbers : /\ tables[n].host \in 0..sessions
                           /\ tables[n].since \in 0..Len(calls)
                           /\ tables[n].token \in 1..tokens
    BY <2>1, <2>2, <2>3 DEF Given, Clocks, Codes
  <2> QED
    BY <2>1, <2>3, <2>6, <2>7, <2>8 DEF TypeOK, Codes
<1> QED
  BY <1>1, FloorInvariant, PTL

\* A call for a waiter waits at one table, or has its one row in the log, or
\* went with its table: one of these and no two (endAssistance).
THEOREM OneEnd == Spec => []CallsEndOnce
<1>1. FloorInv => CallsEndOnce
  <2> SUFFICES ASSUME FloorInv PROVE CallsEndOnce
    OBVIOUS
  <2>1. Clocks
    BY DEF FloorInv
  <2>2. ASSUME NEW c \in 1..Len(calls)
        PROVE  calls[c].logs + Cardinality({c} \cap Waiting) + Cardinality({c} \cap dropped) = 1
    <3>1. c \in Waiting <=> Waits(c)
      <4>1. c # NoCall
        BY DEF NoCall
      <4> QED
        BY <4>1 DEF Waiting, CallsAt, Waits, Numbers
    <3>2. Fate(c)
      BY <2>1 DEF Clocks
    <3>3. Cardinality({c} \cap Waiting) = IF c \in Waiting THEN 1 ELSE 0
      BY CountOne
    <3>4. Cardinality({c} \cap dropped) = IF c \in dropped THEN 1 ELSE 0
      BY CountOne
    <3> QED
      BY <3>1, <3>2, <3>3, <3>4 DEF Fate
  <2> QED
    BY <2>1, <2>2 DEF CallsEndOnce, Clocks
<1> QED
  BY <1>1, FloorInvariant, PTL

\* Staff are alerted to a call exactly once: it was pushed, or one request is
\* about to push it, or a restart cut that request short (RequestAssistance).
THEOREM OneAlert == Spec => []AlertedOnce
<1>1. FloorInv => AlertedOnce
  <2> SUFFICES ASSUME FloorInv, NEW c \in 1..Len(calls)
               PROVE  calls[c].alerts + Cardinality({p \in Phones : asking[p] # Idle /\ asking[p][1].call = c})
                        + Cardinality({c} \cap cut) = 1
    BY DEF AlertedOnce
  <2> PICK askers : askers = {p \in Phones : asking[p] # Idle /\ asking[p][1].call = c}
    OBVIOUS
  <2>1. Alert(c)
    BY DEF FloorInv, Alerts
  <2>2. \A p : p \in askers <=> p \in Phones /\ Asks(p, c)
    BY DEF Asks
  <2>3. Cardinality({c} \cap cut) = IF c \in cut THEN 1 ELSE 0
    BY CountOne
  <2>4. CASE \A p \in Phones : ~Asks(p, c)
    <3>1. askers = {}
      BY <2>2, <2>4
    <3>2. Cardinality(askers) = 0
      BY <3>1, FS_EmptySet
    <3> QED
      BY <2>1, <2>3, <2>4, <3>2 DEF Alert
  <2>5. CASE \E p \in Phones : Asks(p, c)
    <3>1. calls[c].alerts = 0 /\ c \notin cut /\ \E p \in Phones : Asks(p, c) /\ \A q \in Phones : Asks(q, c) => q = p
      BY <2>1, <2>5 DEF Alert
    <3> PICK p \in Phones : Asks(p, c) /\ \A q \in Phones : Asks(q, c) => q = p
      BY <3>1
    <3>2. askers = {p}
      BY <2>2
    <3>3. Cardinality(askers) = 1
      BY <3>2, FS_Singleton
    <3> QED
      BY <2>3, <3>1, <3>3
  <2> QED
    BY <2>4, <2>5
<1> QED
  BY <1>1, FloorInvariant, PTL

=============================================================================
