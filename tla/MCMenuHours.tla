---------------------------- MODULE MCMenuHours ----------------------------
(***************************************************************************)
(* A venue with a kitchen and a bar, tables on the beach and tables in no  *)
(* area, days of eight ticks (a tick is about a quarter of an hour: last   *)
(* call is two ticks, the alert one) and weeks of two days.  It starts     *)
(* with station hours past midnight and a special day behind it, or with   *)
(* scheduled menus, one for the beach only, and a happy hour, or with      *)
(* hours that vary by day and two special days that overlap.               *)
(***************************************************************************)
EXTENDS MenuHours

MCProducts ==
    [steak |-> [category |-> "mains",  dept |-> "kitchen", price |-> 2000, own |-> <<>>],
     juice |-> [category |-> "drinks", dept |-> "bar", price |-> 455, own |-> <<1, 4>>]]
MCStaff == {[role |-> "worker", department |-> "bar"], [role |-> "admin", department |-> ""]}
MCCategories == {"mains", "drinks"}
MCCloseChoices == {Open, Manual, 0, 3}

AllWeek(o, c) == [d \in 0 .. WeekLen - 1 |-> [closed |-> FALSE, open |-> o, close |-> c]]
NoHours == [set |-> FALSE, perDay |-> FALSE, last |-> 0, week |-> AllWeek(0, 0)]
Late    == [set |-> TRUE, perDay |-> FALSE, last |-> 1, week |-> AllWeek(5, 2)]
Varies  == [set |-> TRUE, perDay |-> TRUE, last |-> 0,
            week |-> [AllWeek(2, 6) EXCEPT ![1].closed = TRUE]]
Wrong   == [Late EXCEPT !.last = 5]
MCHoursForms == {NoHours, Varies, Wrong}

Hol(from, to, closed, hours) == [from |-> from, to |-> to, closed |-> closed, hours |-> hours]
Short == [kitchen |-> [closed |-> FALSE, open |-> 1, close |-> 4]]
MCSpecialForms == {Hol(3, 3, TRUE, <<>>), Hol(2, 3, FALSE, Short), Hol(3, 2, TRUE, <<>>)}

Form(kind, start, end, last, everything, zones) ==
    [kind |-> kind, days |-> 0 .. WeekLen - 1, start |-> start, end |-> end, last |-> last,
     everything |-> everything, categories |-> {"mains", "gone"}, products |-> {},
     somewhere |-> zones # {}, zones |-> zones,
     disc |-> IF kind = "price" THEN "percent" ELSE "", value |-> IF kind = "price" THEN 25 ELSE 0]
Dinner == Form("menu", 5, 1, 1, FALSE, {})
Beach  == [Form("menu", 2, 6, 0, TRUE, {"beach"}) EXCEPT !.days = {1}]
Happy  == Form("price", 3, 6, 0, TRUE, {})
Two    == [Happy EXCEPT !.disc = "amount", !.value = 100, !.start = 4, !.end = 7]
MCMenuForms == {Beach, [Dinner EXCEPT !.last = 4], Two}

Station(h) == [closed |-> Open, hours |-> h, busy |-> [until |-> Never, wait |-> 0]]
Setup(kitchen, bar, menus, specials) ==
    [menus |-> menus, stations |-> [kitchen |-> Station(kitchen), bar |-> Station(bar)],
     areas |-> [z \in PageZones |-> Open], specials |-> specials]
MCInitialSetups ==
    {Setup(Late, NoHours, <<>>,
        {[id |-> 1, from |-> 1, to |-> 1, closed |-> FALSE,
          hours |-> [kitchen |-> [closed |-> FALSE, open |-> 4, close |-> 3]]]}),
     Setup(Late, NoHours,
        <<MenuRow(Dinner, TRUE), MenuRow(Beach, TRUE),
          MenuRow(Happy, TRUE), MenuRow(Two, TRUE)>>, {}),
     Setup(Varies, Late, <<MenuRow(Beach, FALSE), MenuRow(Two, TRUE)>>,
        {[id |-> 1, from |-> 3, to |-> 3, closed |-> TRUE, hours |-> <<>>],
         [id |-> 2, from |-> 2, to |-> 4, closed |-> FALSE, hours |-> Short]})}

=============================================================================
