------------------------------- MODULE Floor -------------------------------
(***************************************************************************)
(* The floor: tables and their guests' sessions, how a session ends (the   *)
(* guest leaves, staff take the table back, the idle sweep does), the      *)
(* calls for a waiter, and the spots the admin adds and removes.           *)
(*                                                                         *)
(* A table that hosts nobody is available: the code writes status and      *)
(* host_session_id together.  A call is numbered when its wait clock       *)
(* starts, so since stands for assistance_requested_at.  Why a guest       *)
(* called is left out.  A request's reads and its writes are separate      *)
(* steps where another request may come between them.                      *)
(***************************************************************************)
EXTENDS Integers, Sequences, FiniteSets, SequencesExt

CONSTANTS
  Phones,
  MaxSessions,  \* bound: guest sessions
  MaxCalls,     \* bound: calls for a waiter
  MaxTokens,    \* bound: QR codes
  MaxTables,    \* bound: numbers of spots
  MaxTables0,   \* the spots there are at first
  MaxInFlight,  \* bound: requests under way at once
  MaxRestarts   \* bound: restarts and failing statements

ASSUME FloorAssumption ==
  /\ MaxSessions \in Nat /\ MaxCalls \in Nat /\ MaxTokens \in Nat
  /\ MaxTables \in Nat /\ MaxTables0 \in 0..MaxTables

VARIABLES
  tables,     \* the tables table, by number
  tokens,     \* QR codes made so far
  cookie,     \* of each phone: its session, 0 without one
  sessions,   \* sessions made so far
  released,   \* releasedSessions, in memory
  scanning,   \* of each phone: the scan it waits for
  asking,     \* of each phone: its request about a waiter
  work,       \* of each releaser: tables to free, sessions to end
  deleting,   \* the spot an admin is removing, checked and not yet removed
  calls,      \* of each call: alerts pushed to staff, assistance_log rows
  dropped,    \* history: calls whose table was released or removed
  cut,        \* history: calls whose request a restart cut short
  restarts    \* bound

requests == <<scanning, asking>>
history == <<dropped, cut>>
vars == <<tables, tokens, cookie, sessions, released, requests, work, deleting,
          calls, history, restarts>>

Nobody == 0
NoCall == 0
Idle == <<>>            \* of a slot for a request
Numbers == DOMAIN tables
Releasers == {"staff", "sweep"}
NoWork == [free |-> <<>>, end |-> <<>>]

NewTable(token) == [host |-> Nobody, called |-> FALSE, since |-> NoCall, idle |-> FALSE, token |-> token]

Init ==
  /\ tables = [n \in 1..MaxTables0 |-> NewTable(n)]
  /\ tokens = MaxTables0
  /\ cookie = [p \in Phones |-> Nobody]
  /\ sessions = 0
  /\ released = {}
  /\ scanning = [p \in Phones |-> Idle]
  /\ asking = [p \in Phones |-> Idle]
  /\ work = [r \in Releasers |-> NoWork]
  /\ deleting = Idle
  /\ calls = <<>>
  /\ dropped = {} /\ cut = {}
  /\ restarts = 0

-----------------------------------------------------------------------------
(* Tables.                                                                 *)

\* db.ClaimTable and db.TouchTableActivity both stamp the activity.
ClaimTable(ts, n, s) == IF n \in DOMAIN ts THEN [ts EXCEPT ![n].host = s, ![n].idle = FALSE] ELSE ts
TouchTableActivity(n) == [tables EXCEPT ![n].idle = FALSE]

\* A released table has nobody left to help: its call goes too.
ReleaseTableKeepsClock(ts, n) ==
  IF n \in DOMAIN ts THEN [ts EXCEPT ![n].host = Nobody, ![n].called = FALSE] ELSE ts
ReleaseTable(ts, n) ==
  IF n \in DOMAIN ts THEN [ts EXCEPT ![n].host = Nobody, ![n].called = FALSE, ![n].since = NoCall] ELSE ts

CallsAt(ts, ns) == {ts[n].since : n \in ns \cap DOMAIN ts} \ {NoCall}

GetTableByHostSession(s) == {n \in Numbers : s # Nobody /\ tables[n].host = s}

InFlight ==
  Cardinality({p \in Phones : scanning[p] # Idle}) + Cardinality({p \in Phones : asking[p] # Idle})
    + Cardinality({r \in Releasers : work[r] # NoWork}) + Len(deleting)
Room == InFlight < MaxInFlight

-----------------------------------------------------------------------------
(* Guests.                                                                 *)

\* The scan reads the table of the code and settles which session it is for:
\* a new one for a phone without any, or whose table was taken back.
Scan(p, token) ==
  /\ scanning[p] = Idle /\ Room
  /\ \E n \in Numbers :
       /\ tables[n].token = token
       /\ LET fresh == cookie[p] = Nobody \/ cookie[p] \in released
              s == IF fresh THEN sessions + 1 ELSE cookie[p]
          IN  /\ s <= MaxSessions
              /\ sessions' = IF fresh THEN s ELSE sessions
              /\ released' = IF fresh THEN released \ {cookie[p]} ELSE released
              /\ scanning' = [scanning EXCEPT ![p] = <<[table |-> n, session |-> s, host |-> tables[n].host]>>]
  /\ UNCHANGED <<tables, tokens, cookie, asking, work, deleting, calls, history, restarts>>

\* It then claims the table if it read it free, letting go of the phone's last
\* one.  The answer may never reach the phone, and with it the new cookie.
FinishScan(p) ==
  /\ scanning[p] # Idle
  /\ LET scan == scanning[p][1]
         last == GetTableByHostSession(scan.session) \ {scan.table}
         freed == IF last = {} THEN tables ELSE ReleaseTable(tables, CHOOSE n \in last : TRUE)
         claims == scan.host = Nobody
     IN  /\ tables' = IF claims THEN ClaimTable(freed, scan.table, scan.session) ELSE tables
         /\ dropped' = IF claims /\ last # {} THEN dropped \cup CallsAt(tables, {CHOOSE n \in last : TRUE}) ELSE dropped
         /\ cookie' \in {cookie, [cookie EXCEPT ![p] = scan.session]}
  /\ scanning' = [scanning EXCEPT ![p] = Idle]
  /\ UNCHANGED <<tokens, sessions, released, asking, work, deleting, calls, cut, restarts>>

\* Opening /table/{n}: a phone whose table was taken back goes home without
\* its session, the host gets the menu, anyone else is told to scan.
View(p) ==
  /\ cookie[p] # Nobody
  /\ IF cookie[p] \in released
     THEN /\ released' = released \ {cookie[p]}
          /\ cookie' = [cookie EXCEPT ![p] = Nobody]
          /\ UNCHANGED tables
     ELSE /\ \E n \in GetTableByHostSession(cookie[p]) : tables' = TouchTableActivity(n)
          /\ UNCHANGED <<released, cookie>>
  /\ UNCHANGED <<tokens, sessions, requests, work, deleting, calls, history, restarts>>

Leave(p) ==
  /\ \E n \in GetTableByHostSession(cookie[p]) :
       /\ tables' = ReleaseTable(tables, n)
       /\ dropped' = dropped \cup CallsAt(tables, {n})
  /\ cookie' = [cookie EXCEPT ![p] = Nobody]
  /\ UNCHANGED <<tokens, sessions, released, requests, work, deleting, calls, cut, restarts>>

-----------------------------------------------------------------------------
(* Calls for a waiter.                                                     *)

\* resolveHostedTable: the table of the caller's own session, touched.
ResolveHostedTable(p, what) ==
  /\ asking[p] = Idle /\ Room
  /\ \E n \in GetTableByHostSession(cookie[p]) :
       /\ tables' = TouchTableActivity(n)
       /\ asking' = [asking EXCEPT ![p] = <<[table |-> n, step |-> what, call |-> NoCall]>>]
  /\ UNCHANGED <<tokens, cookie, sessions, released, scanning, work, deleting, calls, history, restarts>>

\* The first UPDATE of db.RequestAssistance: a call that waits keeps its clock.
StartsCall(n) == n \in Numbers /\ ~tables[n].called

\* Asked again, or of a table that is gone: nobody is alerted.
AlertAgain(p, n) ==
  [asking EXCEPT ![p] = IF n \in Numbers THEN <<[table |-> n, step |-> "alert", call |-> tables[n].since]>> ELSE Idle]
AskedAgain(p, n) == [asking EXCEPT ![p] = Idle]

RequestAssistance(p) ==
  /\ asking[p] # Idle /\ asking[p][1].step = "call"
  /\ LET n == asking[p][1].table
         c == Len(calls) + 1
     IN  IF StartsCall(n)
         THEN /\ c <= MaxCalls
              /\ calls' = Append(calls, [alerts |-> 0, logs |-> 0])
              /\ tables' = [tables EXCEPT ![n].called = TRUE, ![n].since = c]
              /\ asking' = [asking EXCEPT ![p] = <<[table |-> n, step |-> "alert", call |-> c]>>]
         ELSE asking' = AskedAgain(p, n) /\ UNCHANGED <<calls, tables>>
  /\ UNCHANGED <<tokens, cookie, sessions, released, scanning, work, deleting, history, restarts>>

PushAssistanceAlert(p) ==
  /\ asking[p] # Idle /\ asking[p][1].step = "alert"
  /\ calls' = [calls EXCEPT ![asking[p][1].call].alerts = @ + 1]
  /\ asking' = [asking EXCEPT ![p] = Idle]
  /\ UNCHANGED <<tables, tokens, cookie, sessions, released, scanning, work, deleting, history, restarts>>

\* db.endAssistance, one transaction: the log row and the flag together, and no
\* row when no call waits.  A table that is gone is an error, nothing changes.
EndAssistance(n) ==
  IF n \notin Numbers \/ tables[n].since = NoCall THEN UNCHANGED <<calls, tables>>
  ELSE /\ calls' = [calls EXCEPT ![tables[n].since].logs = @ + 1]
       /\ tables' = [tables EXCEPT ![n].called = FALSE, ![n].since = NoCall]

CancelAssistance(p) ==
  /\ asking[p] # Idle /\ asking[p][1].step = "cancel"
  /\ EndAssistance(asking[p][1].table)
  /\ asking' = [asking EXCEPT ![p] = Idle]
  /\ UNCHANGED <<tokens, cookie, sessions, released, scanning, work, deleting, history, restarts>>

\* "Got it", on any table, twice if two waiters tap it.
WorkerAcknowledgeAssistance(n) ==
  /\ EndAssistance(n)
  /\ UNCHANGED <<tokens, cookie, sessions, released, requests, work, deleting, history, restarts>>

-----------------------------------------------------------------------------
(* Taking tables back.                                                     *)

Read(n) == [table |-> n, host |-> tables[n].host]

StaffReleaseTable(n) ==
  /\ \A r \in Releasers : work[r] = NoWork
  /\ work' = [work EXCEPT !["staff"].free = <<Read(n)>>]
  /\ UNCHANGED <<tables, tokens, cookie, sessions, released, requests, deleting, calls, history, restarts>>

\* The clock: nobody touched the table for tableIdleTTL.
PassIdleTTL(n) ==
  /\ tables[n].host # Nobody /\ ~tables[n].idle
  /\ tables' = [tables EXCEPT ![n].idle = TRUE]
  /\ UNCHANGED <<tokens, cookie, sessions, released, requests, work, deleting, calls, history, restarts>>

\* The two date formats compared as text the other way round: none ever is.
IdleTablesNone == {}
IdleTables == {n \in Numbers : tables[n].host # Nobody /\ tables[n].idle}

\* The sweep lists the idle tables, then frees each of them as it listed them.
ReleaseIdleTables ==
  /\ work["sweep"] = NoWork /\ IdleTables # {}
  /\ \E order \in SetToSeqs(IdleTables) :
       work' = [work EXCEPT !["sweep"].free = [i \in DOMAIN order |-> Read(order[i])]]
  /\ UNCHANGED <<tables, tokens, cookie, sessions, released, requests, deleting, calls, history, restarts>>

FreeNext(r) ==
  /\ work[r].free # <<>>
  /\ LET t == Head(work[r].free)
     IN  /\ tables' = ReleaseTable(tables, t.table)
         /\ dropped' = dropped \cup CallsAt(tables, {t.table})
         /\ work' = [work EXCEPT ![r] = [free |-> Tail(@.free), end |-> Append(@.end, t.host)]]
  /\ UNCHANGED <<tokens, cookie, sessions, released, requests, deleting, calls, cut, restarts>>

\* A release that fails ends the request or the sweep there and then: the
\* sessions of the tables it had freed are never ended.
FreeFails(r) ==
  /\ work[r].free # <<>> /\ restarts < MaxRestarts
  /\ restarts' = restarts + 1
  /\ work' = [work EXCEPT ![r] = NoWork]
  /\ UNCHANGED <<tables, tokens, cookie, sessions, released, requests, deleting, calls, history>>

\* Only then are the sessions it read ended.
EndGuestSession(r) ==
  /\ work[r].free = <<>> /\ work[r].end # <<>>
  /\ released' = released \cup ({Head(work[r].end)} \ {Nobody})
  /\ work' = [work EXCEPT ![r].end = Tail(@)]
  /\ UNCHANGED <<tables, tokens, cookie, sessions, requests, deleting, calls, history, restarts>>

-----------------------------------------------------------------------------
(* Spots, codes, restarts.                                                 *)

\* db.NewTableToken: never one that was given out before.
SameToken == tokens
NewTableToken == tokens + 1

\* The number after the last, an upsert and the layout.
AdminAddSpot ==
  /\ tokens < MaxTokens
  /\ tokens' = tokens + 1
  /\ \E n \in 1..MaxTables :
       /\ n = 1 \/ n - 1 \in Numbers
       /\ \A m \in Numbers : m < n
       /\ tables' = [m \in Numbers \cup {n} |-> IF m = n THEN NewTable(NewTableToken) ELSE tables[m]]
  /\ UNCHANGED <<cookie, sessions, released, requests, work, deleting, calls, history, restarts>>

\* db.DeleteTable looks whether somebody is at it ...
AdminDeleteSpot(n) ==
  /\ deleting = Idle /\ Room /\ tables[n].host = Nobody
  /\ deleting' = <<n>>
  /\ UNCHANGED <<tables, tokens, cookie, sessions, released, requests, work, calls, history, restarts>>

\* ... and then removes it without asking again.
DeleteTable ==
  /\ deleting # Idle
  /\ tables' = [m \in Numbers \ {deleting[1]} |-> tables[m]]
  /\ dropped' = dropped \cup CallsAt(tables, {deleting[1]})
  /\ deleting' = Idle
  /\ UNCHANGED <<tokens, cookie, sessions, released, requests, work, calls, cut, restarts>>

RotateTableToken(n) ==
  /\ tokens < MaxTokens
  /\ tokens' = tokens + 1
  /\ tables' = [tables EXCEPT ![n].token = NewTableToken]
  /\ UNCHANGED <<cookie, sessions, released, requests, work, deleting, calls, history, restarts>>

\* Requests die, and the list of released sessions with them.
Restart ==
  /\ restarts < MaxRestarts
  /\ restarts' = restarts + 1
  /\ released' = {}
  /\ scanning' = [p \in Phones |-> Idle]
  /\ asking' = [p \in Phones |-> Idle]
  /\ work' = [r \in Releasers |-> NoWork]
  /\ deleting' = Idle
  /\ cut' = cut \cup ({asking[p][1].call : p \in {q \in Phones : asking[q] # Idle}} \ {NoCall})
  /\ UNCHANGED <<tables, tokens, cookie, sessions, calls, dropped>>

Guest(p) ==
  \/ \E k \in 1..tokens : Scan(p, k)
  \/ FinishScan(p) \/ View(p) \/ Leave(p)
  \/ \E what \in {"call", "cancel"} : ResolveHostedTable(p, what)
  \/ RequestAssistance(p) \/ PushAssistanceAlert(p) \/ CancelAssistance(p)

Next ==
  \/ \E p \in Phones : Guest(p)
  \/ \E n \in Numbers :
       \/ WorkerAcknowledgeAssistance(n) \/ StaffReleaseTable(n) \/ PassIdleTTL(n)
       \/ AdminDeleteSpot(n) \/ RotateTableToken(n)
  \/ ReleaseIdleTables
  \/ \E r \in Releasers : FreeNext(r) \/ FreeFails(r) \/ EndGuestSession(r)
  \/ AdminAddSpot \/ DeleteTable \/ Restart

\* Time passes, the sweep's ticker ticks, and what a releaser started it ends.
\* Guests and staff do as they like.
Fairness ==
  /\ \A n \in 1..MaxTables : WF_vars(n \in Numbers /\ PassIdleTTL(n))
  /\ WF_vars(ReleaseIdleTables)
  /\ \A r \in Releasers : WF_vars(FreeNext(r) \/ EndGuestSession(r))

Spec == Init /\ [][Next]_vars /\ Fairness

-----------------------------------------------------------------------------
(* Properties.                                                             *)

TypeOK ==
  /\ Numbers \subseteq 1..MaxTables
  /\ \A n \in Numbers : /\ tables[n].host \in 0..sessions
                        /\ tables[n].since \in 0..Len(calls)
                        /\ tables[n].token \in 1..tokens
  /\ \A p \in Phones : cookie[p] \in 0..sessions
  /\ released \subseteq 1..sessions
  /\ \A m, n \in Numbers : m # n => tables[m].token # tables[n].token

Waiting == CallsAt(tables, Numbers)

\* Every call ends exactly one way: it still waits, at one table whose flag is
\* up; or the log has one row for it; or its table was released or removed
\* (endAssistance: "the two can never drift apart").
CallsEndOnce ==
  /\ \A n \in Numbers : tables[n].called <=> tables[n].since # NoCall
  /\ \A m, n \in Numbers : tables[m].since = tables[n].since /\ tables[m].since # NoCall => m = n
  /\ \A c \in 1..Len(calls) :
       calls[c].logs + Cardinality({c} \cap Waiting) + Cardinality({c} \cap dropped) = 1

\* Staff phones are alerted once for a call, never again while it waits, and
\* not at all only if the server stopped before the push (RequestAssistance:
\* "so the caller only alerts staff once").
AlertedOnce ==
  \A c \in 1..Len(calls) :
    calls[c].alerts + Cardinality({p \in Phones : asking[p] # Idle /\ asking[p][1].call = c})
      + Cardinality({c} \cap cut) = 1

Abandoned(n) == n \in Numbers /\ tables[n].host # Nobody /\ \A p \in Phones : cookie[p] # tables[n].host

\* A table held by a session no phone has any more (its answer was lost, or it
\* scanned back in while its session was being ended and was then sent home)
\* does not stay locked: the sweep frees it, unless the phone is heard of again
\* (StartIdleTableSweep).
TablesComeBack == \A n \in 1..MaxTables : Abandoned(n) ~> ~Abandoned(n)

=============================================================================
