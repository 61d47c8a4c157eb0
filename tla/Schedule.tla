------------------------------ MODULE Schedule ------------------------------
(***************************************************************************)
(* What can be ordered when: the rules of models.Schedule as operators     *)
(* over a schedule record, a time and a table's area.                      *)
(*                                                                         *)
(* Time is a number of ticks; a day has DayLen of them (the code's 1440    *)
(* minutes) and a week WeekLen days (the code's 7).  A time that does not  *)
(* apply (the code's zero time.Time) is Never.                             *)
(***************************************************************************)
EXTENDS Integers, Sequences, FiniteSets, FiniteSetsExt

CONSTANTS DayLen,          \* ticks in a day
          WeekLen,         \* days in a week
          LastCallWindow,  \* how long before the stop a dish is on last call
          DaysAhead,       \* how many days NextHoursOpen looks ahead
          OrderableSteps,  \* how many steps nextOrderable looks ahead
          Products,        \* product id -> [category, dept, price, own]
          Depts            \* the two stations

\* Times of day.
Clocks == 0 .. DayLen - 1

ASSUME ScheduleAssumption ==
    /\ DayLen \in Nat \ {0} /\ WeekLen \in Nat \ {0}
    /\ {LastCallWindow, DaysAhead, OrderableSteps} \subseteq Nat
    /\ \A p \in DOMAIN Products :
         /\ Products[p].dept \in Depts
         /\ Products[p].price \in Nat
         /\ Products[p].own \in {<<>>} \cup (Clocks \X Clocks)

Never  == -1      \* the zero time
Open   == -1      \* a closed-until value: open
Manual == -2      \* a closed-until value: closed until someone reopens

Day(t)     == t \div DayLen
WeekDay(d) == d % WeekLen
Clock(t)   == t % DayLen

\* The length of a period that runs past midnight when it ends before it starts.
Length(start, end) == IF end <= start THEN end + DayLen - start ELSE end - start

\* The ordering window of a period that starts on day d, last orders cut off.
Occurrence(d, start, end, last) ==
    [from |-> d * DayLen + start, stop |-> d * DayLen + start + Length(start, end) - last]

In(w, t) == w.from <= t /\ t < w.stop

-----------------------------------------------------------------------------
(* Menus and price rules *)

AppliesTo(m, zone) == m.zones = {} \/ zone \in m.zones

Serves(m, p) == m.everything \/ Products[p].category \in m.categories \/ p \in m.products

\* When the occurrence of m that is on at t (started today or yesterday) stops.
Cutoff(m, t) ==
    LET running == {w \in {Occurrence(d, m.start, m.end, m.last) :
                             d \in {x \in {Day(t), Day(t) - 1} : WeekDay(x) \in m.days}} :
                      In(w, t)}
    IN  IF running = {} THEN Never ELSE Max({w.stop : w \in running})

MenuList(s)         == {s.menus[i] : i \in DOMAIN s.menus}
HasMenusFor(s, z)   == \E m \in MenuList(s) : m.enabled /\ AppliesTo(m, z)

Discounted(m, base) ==
    Max({0, IF m.disc = "percent" THEN (base * (100 - m.value) + 50) \div 100 ELSE base - m.value})

\* Is the rule on, for a dish of an area at one moment?
RuleRuns(m, p, zone, t) ==
    m.enabled /\ AppliesTo(m, zone) /\ Serves(m, p) /\ Cutoff(m, t) # Never

\* The last place of a list of rules.
LastPlace(rules) == Max({0} \cup DOMAIN rules)

\* Mutant: the last running rule wins.
PriceLast(s, p, zone, t) ==
    LET upTo[i \in 0 .. LastPlace(s.prices)] ==
          IF i = 0 THEN Products[p].price
          ELSE IF i \in DOMAIN s.prices /\ RuleRuns(s.prices[i], p, zone, t)
               THEN Discounted(s.prices[i], Products[p].price) ELSE upTo[i - 1]
    IN  upTo[LastPlace(s.prices)]

\* The price after the rule in place i, best being the price before it.
Better(s, p, zone, t, i, best) ==
    IF /\ i \in DOMAIN s.prices /\ RuleRuns(s.prices[i], p, zone, t)
       /\ Discounted(s.prices[i], Products[p].price) < best
    THEN Discounted(s.prices[i], Products[p].price) ELSE best

\* The best running price rule wins; a later one only when strictly lower.
Price(s, p, zone, t) ==
    LET upTo[i \in 0 .. LastPlace(s.prices)] ==
          IF i = 0 THEN Products[p].price ELSE Better(s, p, zone, t, i, upTo[i - 1])
    IN  upTo[LastPlace(s.prices)]

-----------------------------------------------------------------------------
(* Closed by hand, special days and opening hours *)

\* One day's opening hours, and a station's for the week: the same every day
\* unless perDay.
DayHours     == [closed : BOOLEAN, open : Clocks, close : Clocks]
StationHours ==
    {h \in [set : BOOLEAN, perDay : BOOLEAN, last : Int, week : [0 .. WeekLen - 1 -> DayHours]] :
       ~h.perDay => \A d \in DOMAIN h.week : ~h.week[d].closed /\ h.week[d] = h.week[0]}

\* Hours of some stations on special days.
SpecialHours == UNION {[ds -> DayHours] : ds \in SUBSET Depts}

\* Is a closed-until value in force at t?
ClosedAt(v, t) == v = Manual \/ (v >= 0 /\ t < v)
UntilOf(v, t)  == IF v >= 0 /\ t < v THEN v ELSE Never

BusyNow(s, dept, t) == IF t < s.busy[dept].until THEN s.busy[dept].wait ELSE 0

Covers(sp, d) == sp.from <= d /\ d <= sp.to

\* Special days are listed soonest first.
Before(a, b) == a.from < b.from \/ (a.from = b.from /\ a.id < b.id)

\* Of those that cover a day, the first one listed counts.
SpecialsOn(s, d) ==
    LET hits == {sp \in s.specials : Covers(sp, d)}
    IN  {sp \in hits : \A x \in hits : x = sp \/ Before(sp, x)}

ClosedToday(s, t) == \E sp \in SpecialsOn(s, Day(t)) : sp.closed

NoLimit == [limited |-> FALSE, ok |-> FALSE, from |-> Never, stop |-> Never]
Shut    == [NoLimit EXCEPT !.limited = TRUE]

\* A station's hours on day d, given the special day that covers it: at most
\* one, none when nothing limits that day.
HoursOn(h, dept, d, special) ==
    CASE \E sp \in special : sp.closed -> {[closed |-> TRUE]}
      [] \E sp \in special : ~sp.closed /\ dept \in DOMAIN sp.hours ->
           {sp.hours[dept] : sp \in special}
      [] OTHER -> IF h.set THEN {h.week[WeekDay(d)]} ELSE {}

OpenWindow(w) == [limited |-> TRUE, ok |-> w.stop > w.from, from |-> w.from, stop |-> w.stop]

\* A station's ordering window for the service that starts on day d.  The
\* last-orders buffer of the usual hours also applies to a special day's.
Window(s, dept, d) ==
    LET windows == {IF x.closed THEN Shut
                    ELSE OpenWindow(Occurrence(d, x.open, x.close, s.hours[dept].last)) :
                      x \in HoursOn(s.hours[dept], dept, d, SpecialsOn(s, d))}
    IN  CHOOSE w \in {NoLimit} \cup windows : windows # {} => w \in windows

\* Given the windows of the services that start today and yesterday: is t
\* inside one, and until when?  Yesterday's counts only when today is limited.
InWindows(today, yest, t) ==
    CASE ~today.limited        -> [in |-> TRUE, stop |-> Never]
      [] today.ok /\ In(today, t) -> [in |-> TRUE, stop |-> today.stop]
      [] today.limited /\ ~(today.ok /\ In(today, t)) /\ yest.ok /\ In(yest, t) ->
           [in |-> TRUE, stop |-> yest.stop]
      [] OTHER                 -> [in |-> FALSE, stop |-> Never]

WithinHours(s, dept, t) == InWindows(Window(s, dept, Day(t)), Window(s, dept, Day(t) - 1), t)

NextHoursOpen(s, dept, t) ==
    LET starts == {w.from : w \in {x \in {Window(s, dept, Day(t) + d) : d \in 0 .. DaysAhead} :
                                     x.ok /\ x.from > t}}
    IN  IF starts = {} THEN Never ELSE Min(starts)

\* The soonest start, within a week, of an enabled menu among the wanted.
NextStart(s, t, wanted) ==
    LET starts == {x[1] * DayLen + x[2].start : x \in
                     {x \in (Day(t) .. Day(t) + WeekLen) \X wanted :
                        /\ x[2].enabled /\ WeekDay(x[1]) \in x[2].days
                        /\ x[1] * DayLen + x[2].start > t}}
    IN  IF starts = {} THEN Never ELSE Min(starts)

-----------------------------------------------------------------------------
(* One dish, for a table in one area, at one moment *)

NotOrderable == [orderable |-> FALSE, lastCall |-> FALSE, until |-> Never]

\* The earlier of two stops, Never meaning no limit.
Earlier(a, b) == IF a = Never THEN b ELSE IF b = Never THEN a ELSE Min({a, b})

\* When a dish's own hours stop it, Never when it has none or is outside them.
OwnStop(own, t) ==
    IF own = <<>> THEN Never
    ELSE Cutoff([days |-> 0 .. WeekLen - 1, start |-> own[1], end |-> own[2], last |-> 0], t)

\* The cut-offs of the menus that serve the dish now.
MenuStops(s, p, zone, t) ==
    {Cutoff(m, t) : m \in {x \in MenuList(s) : x.enabled /\ AppliesTo(x, zone) /\ Serves(x, p)}}
      \ {Never}

Orderable(until, t) == [orderable |-> TRUE, until |-> until,
                        lastCall |-> until # Never /\ until - t <= LastCallWindow]

\* Mutant: a running menu outlasts the station's hours.
ServedByMenuOnly(limit, byMenus, stops, t) ==
    CASE ~byMenus               -> Orderable(limit, t)
      [] byMenus /\ stops = {} -> NotOrderable
      [] OTHER                  -> Orderable(Max(stops), t)

\* With no menu for the area the station's and the dish's own hours decide;
\* otherwise some menu must be serving the dish.
Served(limit, byMenus, stops, t) ==
    CASE ~byMenus                -> Orderable(limit, t)
      [] byMenus /\ stops = {}  -> NotOrderable
      [] OTHER                   -> Orderable(Earlier(limit, Max(stops)), t)

ItemIn(s, p, zone, t, hours, own) ==
    IF \/ ClosedAt(s.stations[Products[p].dept], t)
       \/ ClosedAt(s.areas[zone], t)
       \/ ~hours.in
       \/ Products[p].own # <<>> /\ own = Never
    THEN NotOrderable
    ELSE Served(Earlier(own, hours.stop), HasMenusFor(s, zone), MenuStops(s, p, zone, t), t)

Item(s, p, zone, t) ==
    ItemIn(s, p, zone, t, WithinHours(s, Products[p].dept, t), OwnStop(Products[p].own, t))

\* Every dish of an area at one moment.
Board(s, zone, t) == [p \in DOMAIN Products |-> Item(s, p, zone, t)]

Orderables(board) == {p \in DOMAIN board : board[p].orderable}
LastCalls(board)  == {p \in DOMAIN board : board[p].lastCall}

\* The next step at which a dish becomes orderable.
NextOrderable(s, p, zone, t) ==
    LET later == {n \in 1 .. OrderableSteps : Item(s, p, zone, t + n).orderable}
    IN  IF later = {} THEN Never ELSE t + Min(later)

-----------------------------------------------------------------------------
(* What a guest's page says *)

OfDept(d) == {p \in DOMAIN Products : Products[p].dept = d}

Notice(about, kind, at) == [about |-> about, kind |-> kind, at |-> at]

\* When a station that serves nothing now is said to be back.
BackAt(s, d, zone, t) ==
    LET serving == {m \in MenuList(s) : AppliesTo(m, zone) /\ \E p \in OfDept(d) : Serves(m, p)}
    IN  CASE ClosedAt(s.stations[d], t) -> UntilOf(s.stations[d], t)
          [] ~ClosedAt(s.stations[d], t) /\ ~WithinHours(s, d, t).in -> NextHoursOpen(s, d, t)
          [] OTHER -> NextStart(s, t, serving)

StationNotices(s, d, zone, t, board) ==
    IF OfDept(d) = {} THEN {}
    ELSE IF OfDept(d) \cap Orderables(board) = {} THEN {Notice(d, "closed", BackAt(s, d, zone, t))}
    ELSE {Notice(d, "last", Min(u)) :
            u \in {{board[p].until : p \in OfDept(d) \cap LastCalls(board)}} \ {{}}}
         \cup {Notice(d, "busy", w) : w \in {BusyNow(s, d, t)} \ {0}}

\* The lines at the top of the menu: a venue-wide closure, an area's pause and
\* "not taking orders" each stand alone; otherwise one or two per station.
Notices(s, zone, t, board) ==
    LET here == {m \in MenuList(s) : AppliesTo(m, zone)}
        none == Orderables(board) = {}
    IN  CASE ClosedToday(s, t) /\ none -> {Notice("venue", "closed today", Never)}
          [] ~(ClosedToday(s, t) /\ none) /\ ClosedAt(s.areas[zone], t) /\ zone # "" ->
               {Notice("area", "paused", UntilOf(s.areas[zone], t))}
          [] OTHER -> IF none THEN {Notice("venue", "not now", NextStart(s, t, here))}
                      ELSE UNION {StationNotices(s, d, zone, t, board) : d \in Depts}

GuestMenuOf(s, zone, t, board) ==
    [orderable |-> Orderables(board),
     lastCall  |-> LastCalls(board),
     price     |-> [p \in Orderables(board) |-> Price(s, p, zone, t)],
     later     |-> [p \in DOMAIN board \ Orderables(board) |-> NextOrderable(s, p, zone, t)],
     notices   |-> Notices(s, zone, t, board)]

\* The guest menu of one area: dishes with their price, dishes for later, notices.
GuestMenu(s, zone, t) == GuestMenuOf(s, zone, t, Board(s, zone, t))

=============================================================================
