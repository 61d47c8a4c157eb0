----------------------------- MODULE Popularity -----------------------------
(***************************************************************************)
(* The popularity snapshot behind the guest menu's "Popular" section: what *)
(* each dish sold in each part of the day, rebuilt on a schedule, by a     *)
(* sales spike, by hand, or when the admin picks another period.           *)
(*                                                                         *)
(* Time runs in units of the ranker's check interval, one daypart long.    *)
(* Nothing a request or a check does takes that long: the clock moves when *)
(* they are done.                                                          *)
(***************************************************************************)
EXTENDS Integers, Sequences, FiniteSets

CONSTANTS
  Dishes,         \* in menu order: a sequence
  Baskets,        \* what an order may hold: units of each dish
  Dayparts,       \* dayparts in a day (4 in the code)
  RerankEvery,    \* the normal cadence
  SpikeCooldown,  \* at most one spike re-rank in so long
  SpikeMinUnits,  \* fewer units than this are no trend
  Week,           \* what a spike is judged by
  Periods,        \* the periods the admin may pick
  PopularCount,   \* dishes in the section
  MaxTime,        \* bound: the clock
  MaxOrders,      \* bound: orders
  MaxUpsets       \* bound: crashes, failures and the admin's requests

Dish == {Dishes[i] : i \in DOMAIN Dishes}

ASSUME PopularityAssumption ==
  /\ Dishes \in Seq(Dish)
  /\ Baskets \subseteq [Dish -> Nat] /\ Periods \subseteq Nat \ {0}
  /\ Dayparts \in Nat \ {0} /\ PopularCount \in Nat \ {0, 1}
  /\ SpikeCooldown \in Nat \ {0} /\ RerankEvery \in Nat /\ SpikeCooldown < RerankEvery

VARIABLES
  clock,      \* the clock
  orders,     \* what was ordered when, and whether it was cancelled
  period,     \* settings.popular_days
  orderable,  \* dishes that can be ordered now and are in stock
  snapshot,   \* the popularity table
  rankedAt,   \* settings.popularity_ranked_at
  job,        \* of the ranker and the admin: the re-rank under way
  up,         \* whether the server runs
  looked,     \* whether the ranker's check of this time has started
  upsets,     \* bound
  autoAt,     \* history: when the ranker last rebuilt the snapshot
  covers,     \* history: the period the snapshot covers
  excused     \* history: why the snapshot may be another period's, or old

store == <<period, snapshot, rankedAt, covers>>
popularityVars == <<clock, orders, orderable, store, job, up, looked, upsets, autoAt, excused>>

NotYet == -1
NoJob == <<>>
Callers == {"ranker", "admin"}
DaypartOf(t) == t % Dayparts

-----------------------------------------------------------------------------
(* Counts.                                                                 *)

\* Units, each one named by where it is counted and a number.
CountUnits(units, where) == Cardinality(UNION {{x} \X (1 .. units[x]) : x \in where})

UnitsIn(d, os) == CountUnits([i \in os |-> orders[i].basket[d]], os)
Standing(since) == {i \in DOMAIN orders : ~orders[i].cancelled /\ orders[i].at >= since}

UnitsSince(since) == [d \in Dish |-> UnitsIn(d, Standing(since))]
Sales(since) ==
  [d \in Dish |-> [dp \in 0..Dayparts - 1 |->
     UnitsIn(d, {i \in Standing(since) : DaypartOf(orders[i].at) = dp})]]
Total(s) == CountUnits(s, DOMAIN s)

\* week >= SpikeFactor * (total * Week / days), with SpikeFactor = 5/2.
Spikes(d, days) ==
  LET week == UnitsSince(clock - Week)[d]
  IN  week >= SpikeMinUnits /\ 2 * week * days >= 5 * Total(snapshot[d]) * Week

NeedsRerankNoCooldown(days) ==
  \/ rankedAt = NotYet
  \/ clock - rankedAt >= RerankEvery
  \/ \E d \in Dish : Spikes(d, days)
NeedsRerank(days) ==
  \/ rankedAt = NotYet
  \/ clock - rankedAt >= RerankEvery
  \/ clock - rankedAt >= SpikeCooldown /\ \E d \in Dish : Spikes(d, days)

-----------------------------------------------------------------------------
(* The guest menu's section.                                               *)

InMenu(d) == CHOOSE i \in DOMAIN Dishes : Dishes[i] = d

\* Dishes that score alike stay in menu order.
Ahead(score, d, e) == score[d] > score[e] \/ (score[d] = score[e] /\ InMenu(d) < InMenu(e))

\* The dishes picked, each with its place.
Ranked(score, dishes) ==
  LET cands == {d \in dishes : score[d] > 0}
      places == {<<d, 1 + Cardinality({e \in cands : Ahead(score, e, d)})>> : d \in cands}
  IN  {p \in places : p[2] <= PopularCount}

ByNow == Ranked([d \in Dish |-> snapshot[d][DaypartOf(clock)]], orderable)
AllDay == Ranked([d \in Dish |-> Total(snapshot[d])], orderable)

\* What sells at this time of day; with too little of that, the all-day best
\* sellers; one dish is no list.
PopularUnlessFull == IF Cardinality(ByNow) < PopularCount THEN AllDay ELSE ByNow
PopularPick == IF Cardinality(ByNow) < 2 THEN AllDay ELSE ByNow
Popular == IF Cardinality(PopularPick) < 2 THEN {} ELSE PopularPick

-----------------------------------------------------------------------------
PopularityInit ==
  /\ clock = 0 /\ orders = <<>>
  /\ period \in Periods /\ orderable = Dish
  /\ snapshot = [d \in Dish |-> [dp \in 0..Dayparts - 1 |-> 0]]
  /\ rankedAt = NotYet /\ covers = NotYet
  /\ job = [c \in Callers |-> NoJob]
  /\ up = FALSE /\ looked = FALSE
  /\ upsets = 0 /\ autoAt = NotYet /\ excused = {}

Upset == upsets < MaxUpsets /\ upsets' = upsets + 1

(* Guests, staff, the clock.                                               *)

PlaceOrder(b) ==
  /\ up /\ Len(orders) < MaxOrders
  /\ orders' = Append(orders, [basket |-> b, at |-> clock, cancelled |-> FALSE])
  /\ UNCHANGED <<clock, orderable, store, job, up, looked, upsets, autoAt, excused>>

CancelOrder(i) ==
  /\ up /\ ~orders[i].cancelled
  /\ Upset
  /\ orders' = [orders EXCEPT ![i].cancelled = TRUE]
  /\ UNCHANGED <<clock, orderable, store, job, up, looked, autoAt, excused>>

\* A sold-out dish, a kitchen that opens or closes.
ChangeOrderable(d) ==
  /\ Upset
  /\ orderable' = IF d \in orderable THEN orderable \ {d} ELSE orderable \cup {d}
  /\ UNCHANGED <<clock, orders, store, job, up, looked, autoAt, excused>>

Tick ==
  /\ clock < MaxTime
  /\ up => looked /\ \A c \in Callers : job[c] = NoJob
  /\ clock' = clock + 1 /\ looked' = FALSE
  /\ UNCHANGED <<orders, orderable, store, job, up, upsets, autoAt, excused>>

-----------------------------------------------------------------------------
(* rerankPopularity, for the ranker (not forced) and the admin (forced).   *)

Begins(c, forced) == job' = [job EXCEPT ![c] = <<[forced |-> forced, days |-> NotYet]>>]

\* StartPopularityRanker: a check at every interval, and one at the start.
Check ==
  /\ up /\ ~looked
  /\ looked' = TRUE
  /\ Begins("ranker", FALSE)
  /\ excused' = excused \ {"age"}
  /\ UNCHANGED <<clock, orders, orderable, store, up, upsets, autoAt>>

AdminRerankPopularity ==
  /\ up /\ job["admin"] = NoJob
  /\ Upset
  /\ Begins("admin", TRUE)
  /\ UNCHANGED <<clock, orders, orderable, store, up, looked, autoAt, excused>>

NoNewPeriod(days) == FALSE
NewPeriod(days) == days # period

AdminGuestSuggestions(days) ==
  /\ up /\ job["admin"] = NoJob
  /\ Upset
  /\ period' = days
  /\ IF NewPeriod(days) THEN Begins("admin", TRUE) ELSE UNCHANGED job
  /\ UNCHANGED <<clock, orders, orderable, snapshot, rankedAt, covers, up, looked, autoAt, excused>>

\* The settings, the snapshot and the week's sales are read ...
Decide(c) ==
  /\ job[c] # NoJob /\ job[c][1].days = NotYet
  /\ job' = [job EXCEPT ![c] = IF @[1].forced \/ NeedsRerank(period) THEN <<[@[1] EXCEPT !.days = period]>> ELSE NoJob]
  /\ UNCHANGED <<clock, orders, orderable, store, up, looked, upsets, autoAt, excused>>

\* ... and the snapshot rebuilt and stamped, in one transaction.
RecomputePopularity(days) ==
  /\ snapshot' = Sales(clock - days)
  /\ covers' = days
  /\ rankedAt' = clock

Rerank(c) ==
  /\ job[c] # NoJob /\ job[c][1].days # NotYet
  /\ RecomputePopularity(job[c][1].days)
  /\ autoAt' = IF c = "ranker" THEN clock ELSE autoAt
  /\ excused' = IF job[c][1].days = period THEN {} ELSE {"period"}
  /\ job' = [job EXCEPT ![c] = NoJob]
  /\ UNCHANGED <<clock, orders, orderable, period, up, looked, upsets>>

\* It may fail, and is then only logged.
RerankFails(c) ==
  /\ job[c] # NoJob /\ job[c][1].days # NotYet
  /\ Upset
  /\ excused' = excused \cup (IF c = "ranker" THEN {"age"} ELSE {"period"})
  /\ job' = [job EXCEPT ![c] = NoJob]
  /\ UNCHANGED <<clock, orders, orderable, store, up, looked, autoAt>>

Crash ==
  /\ up
  /\ Upset
  /\ up' = FALSE
  /\ job' = [c \in Callers |-> NoJob]
  /\ excused' = IF job["admin"] # NoJob THEN excused \cup {"period"} ELSE excused
  /\ UNCHANGED <<clock, orders, orderable, store, looked, autoAt>>

Start ==
  /\ ~up
  /\ up' = TRUE /\ looked' = TRUE
  /\ Begins("ranker", FALSE)
  /\ excused' = excused \ {"age"}
  /\ UNCHANGED <<clock, orders, orderable, store, upsets, autoAt>>

PopularityNext ==
  \/ \E b \in Baskets : PlaceOrder(b)
  \/ \E i \in DOMAIN orders : CancelOrder(i)
  \/ \E d \in Dish : ChangeOrderable(d)
  \/ Tick \/ Check \/ AdminRerankPopularity
  \/ \E days \in Periods : AdminGuestSuggestions(days)
  \/ \E c \in Callers : Decide(c) \/ Rerank(c) \/ RerankFails(c)
  \/ Crash \/ Start

PopularitySpec == PopularityInit /\ [][PopularityNext]_popularityVars

-----------------------------------------------------------------------------
(* Properties.                                                             *)

\* The ranker moves the menu at most once in SpikeCooldown, over restarts, by
\* hand re-ranks and changes of the period (popularity.go: "at most one spike
\* re-rank every few days").
MenuStaysPut ==
  [][autoAt' # autoAt /\ autoAt # NotYet => clock - autoAt >= SpikeCooldown]_popularityVars

InOrder(list) == {<<pq[1][1], pq[2][1]>> : pq \in {pq \in list \X list : pq[1][2] < pq[2][2]}}

\* While neither the snapshot nor the time of day changes, two dishes of the
\* section that stay in it stay in the same order, whatever is ordered,
\* cancelled or sold out meanwhile (guestMenu: "nothing shuffles after each
\* order").
NeverShuffles ==
  [][snapshot' = snapshot /\ DaypartOf(clock') = DaypartOf(clock) =>
       {<<de[2], de[1]>> : de \in InOrder(Popular)} \cap InOrder(Popular)' = {}]_<<clock, orders, orderable, snapshot>>

Rested == up /\ looked /\ \A c \in Callers : job[c] = NoJob

\* Between requests the snapshot is of the period the settings name (hours.go:
\* "a new period needs a fresh snapshot"), unless a re-rank for it failed, was
\* cut short, or was overwritten by one that had read the old period; and even
\* then it is replaced within RerankEvery (rankedLabel: "next by"), if the ranker's
\* own attempt does not fail.
PeriodInMonth ==
  Rested => /\ covers = period \/ excused # {}
            /\ clock - rankedAt < RerankEvery \/ "age" \in excused

=============================================================================
