----------------------------- MODULE MenuHours -----------------------------
(***************************************************************************)
(* Menus & hours: what the manager sets (menus, price rules, station hours *)
(* and closures, busy waits, area pauses, special days), the pages that    *)
(* show it (the guest menu of every area, the manager's own page) and the  *)
(* watcher that follows the clock.                                         *)
(*                                                                         *)
(* Every handler that changes the set-up stores it and pushes all pages.   *)
(* The clock changes what can be ordered without any handler: the watcher  *)
(* (one tick every 30 seconds) compares what guests see with what it last  *)
(* pushed.  A tick of the model is longer than that, so the watcher runs   *)
(* before the clock moves on: `checked` says that it has.                  *)
(***************************************************************************)
EXTENDS Schedule, SequencesExt

CONSTANTS Zones,        \* the areas that tables have
          Staff,        \* who may work the switches: [role, department]
          Morning,      \* when "the rest of today" ends (05:00)
          BusyFor,      \* how long a busy mark lasts (an hour)
          AlertLead,    \* how long before the stop guests are alerted
          KnownCategories,
          CloseChoices, BusyChoices, HoursForms, SpecialForms, MenuForms,
          InitialSetups,  \* set-ups a venue starts the day with
          LastTick, MaxEdits, MaxRestarts   \* bounds

VARIABLES now,
          setup,      \* the stored rows: menus, stations, areas, special days
          rendered,   \* the set-up and moment the open pages were last rendered from
          sigOf,      \* the set-up and moment of the watcher's last signature
          alerted,    \* cut-offs alerted, with the time: the process's memory
          pushed,     \* how often each alert has gone out since the start
          checked,    \* the watcher has looked at this moment
          edits, restarts

vars == <<now, setup, rendered, sigOf, alerted, pushed, checked, edits, restarts>>

\* The areas the rules go through: "" only when no table has an area.
RuleZones == IF Zones = {} THEN {""} ELSE Zones
\* The areas that have a guest page: tables without one share "".
PageZones == Zones \cup {""}

-----------------------------------------------------------------------------
(* What is stored *)

\* Opening and closing differ and last orders fall inside, on every open day.
ValidHours(h) ==
    /\ h.last >= 0
    /\ \A d \in DOMAIN h.week : h.week[d].closed \/
         (h.week[d].open # h.week[d].close /\ h.last < Length(h.week[d].open, h.week[d].close))

\* The rows of menus and price rules.
MenuRows ==
    {m \in [kind : {"menu", "price"}, enabled : BOOLEAN, days : SUBSET (0 .. WeekLen - 1),
            start : Clocks, end : Clocks, last : Nat, everything : BOOLEAN,
            categories : SUBSET KnownCategories, products : SUBSET DOMAIN Products,
            zones : SUBSET Zones, disc : {"", "percent", "amount"}, value : Int] :
       m.days # {} /\ m.last < Length(m.start, m.end)}

StationRows ==
    {s \in [closed : Int, hours : StationHours, busy : [until : Int, wait : Int]] :
       s.hours.set => ValidHours(s.hours)}

SpecialRows == [id : Nat, from : Int, to : Int, closed : BOOLEAN, hours : SpecialHours]

\* A set-up that the handlers can store.
ValidSetup(s) ==
    /\ s = [menus |-> s.menus, stations |-> s.stations, areas |-> s.areas, specials |-> s.specials]
    /\ s.menus \in Seq(MenuRows)
    /\ s.stations \in [Depts -> StationRows]
    /\ s.areas \in [PageZones -> Int]
    /\ s.specials \subseteq SpecialRows /\ IsFiniteSet(s.specials)

\* What a browser can send in a form, and what a venue may start with.
ASSUME HoursAssumption ==
    /\ Morning \in Nat /\ BusyFor \in Nat /\ AlertLead \in 1 .. DayLen
    /\ {LastTick, MaxEdits, MaxRestarts} \subseteq Nat
    /\ CloseChoices \subseteq Int /\ BusyChoices \subseteq Int
    /\ HoursForms \subseteq StationHours
    /\ SpecialForms \subseteq [from : Int, to : Int, closed : BOOLEAN, hours : SpecialHours]
    /\ \A f \in MenuForms :
         /\ f.kind \in {"menu", "price"} /\ f.days \subseteq 0 .. WeekLen - 1
         /\ {f.start, f.end} \subseteq Clocks /\ f.last \in Int /\ f.everything \in BOOLEAN
         /\ f.products \subseteq DOMAIN Products
         /\ f.disc \in {"", "percent", "amount"} /\ f.value \in Int
    /\ \A s \in InitialSetups : ValidSetup(s)

\* Mutant: special days from today on.
ListSpecialDaysToday(all, t) == {sp \in all : sp.to >= Day(t)}

\* Special days from yesterday on: a service that began yesterday may still be
\* running.
ListSpecialDays(all, t) == {sp \in all : sp.to >= Day(t) - 1}

\* The stored rows, as the db functions write them.
SaveServiceMenu(stored, i, row) ==     \* i = 0: a new menu, after the others
    IF i = 0 THEN [stored EXCEPT !.menus = Append(@, row)]
    ELSE [stored EXCEPT !.menus[i] = row]
SetServiceMenuEnabled(stored, i, on) == [stored EXCEPT !.menus[i].enabled = on]
DeleteServiceMenu(stored, i)         == [stored EXCEPT !.menus = RemoveAt(@, i)]
SetStationClosed(stored, dept, v)    == [stored EXCEPT !.stations[dept].closed = v]
SetStationHours(stored, dept, h)     == [stored EXCEPT !.stations[dept].hours = h]
SetStationBusy(stored, dept, wait, until) ==
    [stored EXCEPT !.stations[dept].busy =
       [until |-> IF wait > 0 THEN until ELSE Never, wait |-> wait]]
SetAreaClosed(stored, zone, v)       == [stored EXCEPT !.areas[zone] = v]
SaveSpecialDay(stored, id, row) ==     \* id = 0: a new one
    LET ids == {0} \cup {sp.id : sp \in stored.specials}
    IN  [stored EXCEPT !.specials =
           {sp \in @ : sp.id # id} \cup
             {[id |-> IF id = 0 THEN Max(ids) + 1 ELSE id, from |-> row.from, to |-> row.to,
               closed |-> row.closed, hours |-> row.hours]}]
DeleteSpecialDay(stored, id)         == [stored EXCEPT !.specials = {sp \in @ : sp.id # id}]

\* The menus, or the price rules, by the place they are shown at.
ListServiceMenus(stored, kind) ==
    [i \in {j \in DOMAIN stored.menus : stored.menus[j].kind = kind} |-> stored.menus[i]]

Rules(stored, specials) ==
    [menus    |-> ListServiceMenus(stored, "menu"),
     prices   |-> ListServiceMenus(stored, "price"),
     stations |-> [d \in Depts |-> stored.stations[d].closed],
     hours    |-> [d \in Depts |-> stored.stations[d].hours],
     busy     |-> [d \in Depts |-> stored.stations[d].busy],
     areas    |-> stored.areas,
     specials |-> specials]

GetSchedule(stored, t) == Rules(stored, ListSpecialDays(stored.specials, t))

-----------------------------------------------------------------------------
(* The pages *)

\* A station's card on the manager's page, given the boards of the rule zones.
StationCard(s, d, t, boards) ==
    LET dishes == {p \in OfDept(d) : \E z \in RuleZones : boards[z][p].orderable}
    IN  [closed |-> ClosedAt(s.stations[d], t),
         until  |-> UntilOf(s.stations[d], t),
         off    |-> ~WithinHours(s, d, t).in,
         items  |-> Cardinality(dishes),
         busy   |-> BusyNow(s, d, t),
         next   |-> CASE ClosedAt(s.stations[d], t) -> Never
                      [] ~ClosedAt(s.stations[d], t) /\ ~WithinHours(s, d, t).in -> NextHoursOpen(s, d, t)
                      [] OTHER -> IF dishes = {} /\ (\E m \in MenuList(s) : m.enabled)
                                  THEN NextStart(s, t, MenuList(s)) ELSE Never,
         on     |-> {m \in MenuList(s) : m.enabled /\ Cutoff(m, t) # Never
                                          /\ \E p \in OfDept(d) : Serves(m, p)}]

StationView(s, d, t) == StationCard(s, d, t, [z \in RuleZones |-> Board(s, z, t)])

\* Mutant: warns in areas no menu covers, too.
NeverServedAnywhere(s) ==
    UNION {{z} \X {p \in DOMAIN Products :
             ~\E m \in MenuList(s) : m.enabled /\ AppliesTo(m, z) /\ Serves(m, p)} :
             z \in RuleZones}

\* What setupWarnings points out: dishes no menu ever serves in an area, menus
\* aimed at areas or categories that are gone, menus on while a station with
\* the same hours every day is closed.
NeverServed(s) ==
    UNION {{z} \X {p \in DOMAIN Products :
             ~\E m \in MenuList(s) : m.enabled /\ AppliesTo(m, z) /\ Serves(m, p)} :
             z \in {y \in RuleZones : HasMenusFor(s, y)}}

GoneTargets(s) ==
    UNION {{m} \X ((m.zones \ RuleZones)
                    \cup IF m.everything THEN {} ELSE m.categories \ KnownCategories) :
             m \in {x \in MenuList(s) : x.enabled}}

\* Does the menu's ordering window reach beyond hours that are the same every day?
\* The code looks each quarter of an hour; so a tick is one here.
ReachesBeyond(m, h) ==
    LET wd == h.week[0]
        inWin(c) == IF wd.close <= wd.open THEN c >= wd.open \/ c < wd.close
                    ELSE c >= wd.open /\ c < wd.close
    IN  \E i \in 0 .. Length(m.start, m.end) - m.last - 1 : ~inWin(Clock(m.start + i))

OutsideHours(s) ==
    UNION {{m} \X {d \in Depts :
             /\ s.hours[d].set /\ ~s.hours[d].perDay
             /\ \E p \in OfDept(d) : Serves(m, p)
             /\ ReachesBeyond(m, s.hours[d])} :
             m \in {x \in MenuList(s) : x.enabled}}

\* AdminHoursPreview: the dishes a table in the area could order at t, by the
\* rules as they are loaded now.
Preview(stored, z, t) == Orderables(Board(GetSchedule(stored, now), z, t))

\* BroadcastAllMenus: every open page, the guests' and the manager's, is
\* rendered from what is stored now.  A page is known by what it shows.
PushPages(stored) == rendered' = [setup |-> stored, at |-> now]

RulesOf(snapshot) == GetSchedule(snapshot.setup, snapshot.at)

\* Mutant: only the dishes are compared.
AreaSignatureDishes(s, z, t, board) == <<Orderables(board)>>

\* What the watcher compares: dishes, last calls and notices of the rule zones.
AreaSignature(s, z, t, board) == <<Orderables(board), LastCalls(board), Notices(s, z, t, board)>>
SignatureAt(s, t) == [z \in RuleZones |-> AreaSignature(s, z, t, Board(s, z, t))]
MenuSignature(snapshot) == SignatureAt(RulesOf(snapshot), snapshot.at)

-----------------------------------------------------------------------------
(* The watcher and the clock *)

\* When a station stops serving an area altogether: none when it is not
\* serving or something runs on with no end.
StationEnds(d, board) ==
    LET untils == {board[p].until : p \in OfDept(d) \cap Orderables(board)}
    IN  IF Never \in untils THEN {} ELSE {u \in untils : \A v \in untils : u >= v}

\* Mutant: too late for the alert at the last moment before the stop.
AlertsForLate(d, z, ends) == {[dept |-> d, to |-> who, end |-> e] :
                                who \in {z, "staff"}, e \in ends \cap (now + 2 .. now + AlertLead)}

\* The alerts due now: for each area whose station ends within the lead, one
\* for its guests and one for the waiters.
AlertsFor(d, z, ends) == {[dept |-> d, to |-> who, end |-> e] :
                            who \in {z, "staff"}, e \in ends \cap (now + 1 .. now + AlertLead)}

AlertsDue(s) ==
    UNION {AlertsFor(x[1], x[2], StationEnds(x[1], Board(s, x[2], now))) : x \in Depts \X RuleZones}

\* Mutant: the memory of old cut-offs is kept and the recent one forgotten.
CheckLastOrderAlertsSwapped(s) ==
    LET kept == {a \in alerted : now - a.at > DayLen}
        new  == {k \in AlertsDue(s) : ~\E a \in kept : a.key = k}
    IN  /\ alerted' = kept \cup {[key |-> k, at |-> now] : k \in new}
        /\ pushed' = [k \in DOMAIN pushed \cup new |->
                        (IF k \in DOMAIN pushed THEN pushed[k] ELSE 0) + (IF k \in new THEN 1 ELSE 0)]

CheckLastOrderAlerts(s) ==
    LET kept == {a \in alerted : now - a.at <= DayLen}   \* forget old cut-offs
        new  == {k \in AlertsDue(s) : ~\E a \in kept : a.key = k}
    IN  /\ alerted' = kept \cup {[key |-> k, at |-> now] : k \in new}
        /\ pushed' = [k \in DOMAIN pushed \cup new |->
                        (IF k \in DOMAIN pushed THEN pushed[k] ELSE 0) + (IF k \in new THEN 1 ELSE 0)]

WatcherTick ==
    /\ ~checked
    /\ checked' = TRUE
    /\ CheckLastOrderAlerts(GetSchedule(setup, now))
    /\ LET new == [setup |-> setup, at |-> now]
       IN  IF MenuSignature(new) # MenuSignature(sigOf)
           THEN sigOf' = new /\ PushPages(setup)
           ELSE UNCHANGED <<sigOf, rendered>>
    /\ UNCHANGED <<now, setup, edits, restarts>>

ClockMoves ==
    /\ checked /\ now < LastTick
    /\ now' = now + 1
    /\ checked' = FALSE
    /\ UNCHANGED <<setup, rendered, sigOf, alerted, pushed, edits, restarts>>

\* The server restarts: the watcher starts from what it sees now and has
\* forgotten its alerts; pages reload and reconnect.
Restart ==
    /\ restarts < MaxRestarts
    /\ restarts' = restarts + 1
    /\ PushPages(setup)
    /\ sigOf' = [setup |-> setup, at |-> now]
    /\ alerted' = {} /\ pushed' = <<>>
    /\ checked' = FALSE
    /\ UNCHANGED <<now, setup, edits>>

-----------------------------------------------------------------------------
(* The manager's handlers *)

\* Every save that succeeds ends with BroadcastAllMenus.
Saved(new) ==
    /\ edits < MaxEdits
    /\ edits' = edits + 1
    /\ setup' = new
    /\ PushPages(new)
    /\ checked' = FALSE
    /\ UNCHANGED <<now, sigOf, alerted, pushed, restarts>>

\* A button's choice as a closed-until value; {} when it is not a valid one.
CloseUntil(choice) ==
    LET morning == Day(now) * DayLen + Morning
    IN  CASE choice = Open -> {Open}
          [] choice = Manual -> {Manual}
          [] choice = 0 -> {IF morning > now THEN morning ELSE morning + DayLen}   \* "today"
          [] choice \in 1 .. DayLen -> {now + choice}
          [] OTHER -> {}

CanSwitchStation(u, dept) ==
    u.role = "admin" \/ u.department = "superworker" \/ u.department = dept

SetStation(u, dept, choice) ==
    /\ CanSwitchStation(u, dept)
    /\ \E v \in CloseUntil(choice) : Saved(SetStationClosed(setup, dept, v))

SetBusy(u, dept, wait) ==
    /\ CanSwitchStation(u, dept)
    /\ Saved(SetStationBusy(setup, dept, wait, now + BusyFor))

AdminSetStationHours(dept, h) ==
    /\ h.set => ValidHours(h)
    /\ Saved(SetStationHours(setup, dept, h))

AdminSetArea(zone, choice) ==
    /\ zone \in Zones
    /\ \E v \in CloseUntil(choice) : Saved(SetAreaClosed(setup, zone, v))

\* A new special day (id 0) or a changed one.  Its hours are not held against
\* the station's last-orders buffer.
SpecialDaySave(id, form) ==
    /\ form.from <= form.to
    /\ form.closed \/ DOMAIN form.hours # {}
    /\ \A d \in DOMAIN form.hours : form.hours[d].closed \/ form.hours[d].open # form.hours[d].close
    /\ Saved(SaveSpecialDay(setup, id, [form EXCEPT !.hours = IF form.closed THEN <<>> ELSE @]))

SpecialDayDelete(id) ==
    /\ id \in {sp.id : sp \in setup.specials}
    /\ Saved(DeleteSpecialDay(setup, id))

\* Mutant: last orders are not held against the menu's length.
MenuFormOKAnyLast(f) ==
    /\ f.days # {} /\ f.start # f.end /\ f.last >= 0
    /\ f.somewhere => f.zones \cap Zones # {}
    /\ f.everything \/ f.categories \cap KnownCategories # {} \/ f.products # {}

\* Does the menu form pass its checks?
MenuFormOK(f) ==
    /\ f.days # {}
    /\ f.start # f.end
    /\ f.last >= 0 /\ f.last < Length(f.start, f.end)
    /\ f.somewhere => f.zones \cap Zones # {}
    /\ f.kind = "price" => \/ f.disc = "percent" /\ f.value \in 1 .. 90
                           \/ f.disc = "amount" /\ f.value > 0
    /\ f.everything \/ f.categories \cap KnownCategories # {} \/ f.products # {}

MenuRow(f, enabled) ==
    [kind |-> f.kind, enabled |-> enabled, days |-> f.days, start |-> f.start, end |-> f.end,
     last |-> IF f.kind = "price" THEN 0 ELSE f.last, everything |-> f.everything,
     categories |-> IF f.everything THEN {} ELSE f.categories \cap KnownCategories,
     products |-> IF f.everything THEN {} ELSE f.products,
     zones |-> IF f.somewhere THEN f.zones \cap Zones ELSE {}, disc |-> f.disc, value |-> f.value]

\* A new menu goes last; a changed one keeps its place, kind and switch.
ServiceMenuSave(i, f) ==
    /\ MenuFormOK(f)
    /\ (i # 0 => f.kind = setup.menus[i].kind)
    /\ Saved(SaveServiceMenu(setup, i, MenuRow(f, i = 0 \/ setup.menus[i].enabled)))

ServiceMenuToggle(i) == Saved(SetServiceMenuEnabled(setup, i, ~setup.menus[i].enabled))

ServiceMenuDelete(i) == Saved(DeleteServiceMenu(setup, i))

-----------------------------------------------------------------------------
Init ==
    /\ now = 2 * DayLen
    /\ setup \in InitialSetups
    /\ rendered = [setup |-> setup, at |-> now]
    /\ sigOf = [setup |-> setup, at |-> now]
    /\ alerted = {} /\ pushed = <<>>
    /\ checked = FALSE
    /\ edits = 0 /\ restarts = 0

Next ==
    \/ WatcherTick
    \/ ClockMoves
    \/ Restart
    \/ \E u \in Staff, d \in Depts, c \in CloseChoices : SetStation(u, d, c)
    \/ \E u \in Staff, d \in Depts, w \in BusyChoices : SetBusy(u, d, w)
    \/ \E d \in Depts, h \in HoursForms : AdminSetStationHours(d, h)
    \/ \E z \in PageZones, c \in CloseChoices : AdminSetArea(z, c)
    \/ \E f \in SpecialForms, id \in {0} \cup {sp.id : sp \in setup.specials} : SpecialDaySave(id, f)
    \/ \E sp \in setup.specials : SpecialDayDelete(sp.id)
    \/ \E f \in MenuForms, i \in 0 .. Len(setup.menus) : ServiceMenuSave(i, f)
    \/ \E i \in DOMAIN setup.menus : ServiceMenuToggle(i)
    \/ \E i \in DOMAIN setup.menus : ServiceMenuDelete(i)

Spec == Init /\ [][Next]_vars

-----------------------------------------------------------------------------
(* Properties *)

TypeOK ==
    /\ now \in Nat /\ edits \in 0 .. MaxEdits /\ restarts \in 0 .. MaxRestarts
    /\ checked \in BOOLEAN
    /\ ValidSetup(setup)
    /\ {rendered.at, sigOf.at} \subseteq 0 .. now
    /\ {a.key : a \in alerted} \subseteq DOMAIN pushed

Current == GetSchedule(setup, now)

SameMenu(page, fresh) == /\ page.orderable = fresh.orderable
                         /\ page.lastCall = fresh.lastCall
                         /\ page.notices = fresh.notices

\* Once the watcher has looked at a moment, the open guest pages of every area
\* that tables have show the dishes, last calls and notices of that moment, and
\* the manager's page counts the same dishes, though nobody touched anything.
MenusInStep ==
    checked => /\ \A z \in RuleZones : SameMenu(GuestMenu(RulesOf(rendered), z, rendered.at),
                                                GuestMenu(Current, z, now))
               /\ \A d \in Depts : StationView(RulesOf(rendered), d, rendered.at).items
                                     = StationView(Current, d, now).items

\* A dish of a station with set hours that can be ordered until u stays
\* orderable up to u: the last-orders time guests are told is kept.
UntilIsKept ==
    \A z \in PageZones, p \in DOMAIN Products :
      Current.hours[Products[p].dept].set =>
        \A t \in now .. Item(Current, p, z, now).until - 1 : Item(Current, p, z, t).orderable

\* The clock alone never ends the orders of a station with set hours in an
\* area without its guests and the waiters having been alerted.
Serving(d, z, t) == OfDept(d) \cap Orderables(Board(GetSchedule(setup, t), z, t)) # {}
EveryStopAnnounced ==
    [][ClockMoves => \A d \in Depts, z \in RuleZones :
         Current.hours[d].set /\ Serving(d, z, now) /\ ~Serving(d, z, now')
         => \A who \in {z, "staff"} : [dept |-> d, to |-> who, end |-> now'] \in DOMAIN pushed]_vars

\* However often the watcher looks, a cut-off is alerted once per process.
AlertOncePerCutoff == \A k \in DOMAIN pushed : pushed[k] = 1

\* A dish costs what the best running price rule makes it, never more than its
\* own price: whichever order the rules are listed in.
BestDeal ==
    \A z \in PageZones, p \in DOMAIN Products :
      Price(Current, p, z, now) =
        Min({Products[p].price} \cup
            {Discounted(m, Products[p].price) : m \in
               {Current.prices[i] : i \in {j \in DOMAIN Current.prices :
                  RuleRuns(Current.prices[j], p, z, now)}}})

\* The preview is true: what it says now of any moment of the coming day is what
\* can be ordered at that moment when nothing is changed, though the special days
\* that have ended are left out of the rules by then.
PreviewIsTrue ==
    \A z \in PageZones, t \in now .. now + DayLen :
      Preview(setup, z, t) = Orderables(Board(GetSchedule(setup, t), z, t))

\* The set-up warnings are true: a dish warned about is not orderable in that
\* area at any moment of the week ahead, and a menu said to run outside a
\* station's hours is on at some moment when that station is closed.
WarningsTrue ==
    LET week == now .. now + WeekLen * DayLen
    IN  /\ \A w \in NeverServed(Current), t \in week : ~Item(Current, w[2], w[1], t).orderable
        /\ Current.specials = {} =>
             \A w \in OutsideHours(Current) :
               \E t \in week : Cutoff(w[1], t) # Never /\ ~WithinHours(Current, w[2], t).in

\* "guestNotices explains, per station, what guests can't order right now and
\* when that changes": when it names a time, something of it is orderable then.
BackAtIsTrue ==
    \A z \in RuleZones : \A n \in Notices(Current, z, now, Board(Current, z, now)) :
      n.kind \in {"closed", "not now"} /\ n.at # Never =>
        \E p \in DOMAIN Products :
          /\ n.about \in {"venue", Products[p].dept}
          /\ Item(Current, p, z, n.at).orderable

\* "StartMenuScheduleWatcher keeps every open guest menu in step with the clock":
\* each area's page, also the page of tables with no area, shows the dishes
\* that can be ordered.
EveryMenuInStep ==
    checked => \A z \in PageZones : GuestMenu(RulesOf(rendered), z, rendered.at).orderable
                                      = Orderables(Board(Current, z, now))

=============================================================================
