---------------------------- MODULE MenuHours_proofs ----------------------------
(* What guests are told of the menus is true and kept: for every set-up, every *)
(* length of day and week, and every product, station and area.  At the end: *)
(* the popularity snapshot, which orders the dishes shown.                   *)
EXTENDS MenuHours, Popularity, FiniteSetTheorems, TLAPS

----------------------------------------------------------------------------
(* Days and times of day *)

\* A time is a day and a time of that day.
LEMMA DayAndClock ==
  ASSUME NEW t \in Int
  PROVE  /\ Day(t) \in Int /\ Clock(t) \in Clocks
         /\ t = Day(t) * DayLen + Clock(t)
<1>1. t \div DayLen \in Int /\ t % DayLen \in 0 .. DayLen - 1
  BY ScheduleAssumption
<1>2. t = (t \div DayLen) * DayLen + (t % DayLen)
  BY ScheduleAssumption
<1> QED
  BY <1>1, <1>2 DEF Day, Clock, Clocks

\* The day of a time is the one it lies in.
LEMMA DayOf ==
  ASSUME NEW t \in Int, NEW d \in Int, d * DayLen <= t, t < (d + 1) * DayLen
  PROVE  Day(t) = d
<1>1. t \div DayLen \in Int /\ t % DayLen \in 0 .. DayLen - 1
  BY ScheduleAssumption
<1>2. t = (t \div DayLen) * DayLen + (t % DayLen)
  BY ScheduleAssumption
<1> QED
  BY <1>1, <1>2, ScheduleAssumption DEF Day

\* Later times are on later days.
LEMMA DaysPass ==
  ASSUME NEW t \in Int, NEW u \in Int, t <= u
  PROVE  Day(t) \in Int /\ Day(u) \in Int /\ Day(t) <= Day(u)
<1>1. /\ t \div DayLen \in Int /\ t % DayLen \in 0 .. DayLen - 1
      /\ u \div DayLen \in Int /\ u % DayLen \in 0 .. DayLen - 1
  BY ScheduleAssumption
<1>2. /\ t = (t \div DayLen) * DayLen + (t % DayLen)
      /\ u = (u \div DayLen) * DayLen + (u % DayLen)
  BY ScheduleAssumption
<1> QED
  BY <1>1, <1>2, ScheduleAssumption DEF Day

\* A period lasts no longer than a day.
LEMMA LengthOfDay ==
  ASSUME NEW a \in Clocks, NEW b \in Clocks
  PROVE  Length(a, b) \in 1 .. DayLen
BY ScheduleAssumption DEF Length, Clocks

\* The window of a period, in numbers.
LEMMA WindowOf ==
  ASSUME NEW d \in Int, NEW a \in Clocks, NEW b \in Clocks, NEW last \in Int
  PROVE  /\ Occurrence(d, a, b, last).from = d * DayLen + a
         /\ Occurrence(d, a, b, last).stop = d * DayLen + a + Length(a, b) - last
         /\ Occurrence(d, a, b, last).from \in Int /\ Occurrence(d, a, b, last).stop \in Int
<1>1. Length(a, b) \in Int /\ DayLen \in Int /\ a \in Int
  BY LengthOfDay, ScheduleAssumption DEF Clocks
<1> QED
  BY <1>1 DEF Occurrence

\* A period that is on at some time started that day or the day before.
LEMMA StartedLately ==
  ASSUME NEW d \in Int, NEW a \in Clocks, NEW b \in Clocks, NEW last \in Nat, NEW t \in Int,
         In(Occurrence(d, a, b, last), t)
  PROVE  d \in {Day(t), Day(t) - 1}
<1>1. /\ a \in Int /\ 0 <= a /\ a < DayLen /\ DayLen \in Nat \ {0}
      /\ Length(a, b) \in Int /\ Length(a, b) <= DayLen
  BY LengthOfDay, ScheduleAssumption DEF Clocks
<1>2. d * DayLen + a <= t /\ t < d * DayLen + a + Length(a, b) - last
  BY WindowOf DEF In
<1>3. d * DayLen <= t /\ t < (d + 2) * DayLen
  BY <1>1, <1>2
<1>4. CASE t < (d + 1) * DayLen
  BY <1>3, <1>4, DayOf
<1>5. CASE ~(t < (d + 1) * DayLen)
  <2>1. (d + 1) * DayLen <= t /\ t < ((d + 1) + 1) * DayLen
    BY <1>1, <1>3, <1>5
  <2>2. Day(t) = d + 1
    BY <2>1, DayOf
  <2> QED
    BY <2>2
<1> QED
  BY <1>4, <1>5

----------------------------------------------------------------------------
(* What the handlers store *)

\* A station closed or opened by hand keeps its hours and its busy mark.
LEMMA ClosedStored ==
  ASSUME NEW s, ValidSetup(s), NEW d \in Depts, NEW v \in Int
  PROVE  ValidSetup(SetStationClosed(s, d, v))
<1>1. PICK n : n = SetStationClosed(s, d, v)
  OBVIOUS
<1>2. PICK row : row = [s.stations[d] EXCEPT !.closed = v]
  OBVIOUS
<1>3. row \in StationRows
  BY <1>2 DEF ValidSetup, StationRows
<1>4. n = [menus |-> s.menus, stations |-> [s.stations EXCEPT ![d] = row],
           areas |-> s.areas, specials |-> s.specials]
  BY <1>1, <1>2 DEF SetStationClosed, ValidSetup
<1>5. [s.stations EXCEPT ![d] = row] \in [Depts -> StationRows]
  BY <1>3 DEF ValidSetup
<1>6. ValidSetup(n)
  BY <1>4, <1>5 DEF ValidSetup
<1> QED
  BY <1>1, <1>6

\* New hours replace the old; they are valid when they are set.
LEMMA HoursStored ==
  ASSUME NEW s, ValidSetup(s), NEW d \in Depts, NEW h \in StationHours, h.set => ValidHours(h)
  PROVE  ValidSetup(SetStationHours(s, d, h))
<1>1. PICK n : n = SetStationHours(s, d, h)
  OBVIOUS
<1>2. PICK row : row = [s.stations[d] EXCEPT !.hours = h]
  OBVIOUS
<1>3. row \in StationRows
  BY <1>2 DEF ValidSetup, StationRows
<1>4. n = [menus |-> s.menus, stations |-> [s.stations EXCEPT ![d] = row],
           areas |-> s.areas, specials |-> s.specials]
  BY <1>1, <1>2 DEF SetStationHours, ValidSetup
<1>5. [s.stations EXCEPT ![d] = row] \in [Depts -> StationRows]
  BY <1>3 DEF ValidSetup
<1>6. ValidSetup(n)
  BY <1>4, <1>5 DEF ValidSetup
<1> QED
  BY <1>1, <1>6

\* A busy mark is a wait and the time it lasts to.
LEMMA BusyStored ==
  ASSUME NEW s, ValidSetup(s), NEW d \in Depts, NEW wait \in Int, NEW until \in Int
  PROVE  ValidSetup(SetStationBusy(s, d, wait, until))
<1>1. PICK n : n = SetStationBusy(s, d, wait, until)
  OBVIOUS
<1>2. PICK b : b = [until |-> IF wait > 0 THEN until ELSE Never, wait |-> wait]
  OBVIOUS
<1>3. b \in [until : Int, wait : Int]
  BY <1>2 DEF Never
<1>4. PICK row : row = [s.stations[d] EXCEPT !.busy = b]
  OBVIOUS
<1>5. row \in StationRows
  BY <1>3, <1>4 DEF ValidSetup, StationRows
<1>6. n = [menus |-> s.menus, stations |-> [s.stations EXCEPT ![d] = row],
           areas |-> s.areas, specials |-> s.specials]
  BY <1>1, <1>2, <1>4 DEF SetStationBusy, ValidSetup
<1>7. [s.stations EXCEPT ![d] = row] \in [Depts -> StationRows]
  BY <1>5 DEF ValidSetup
<1>8. ValidSetup(n)
  BY <1>6, <1>7 DEF ValidSetup
<1> QED
  BY <1>1, <1>8

\* An area is paused or taken up again.
LEMMA AreaStored ==
  ASSUME NEW s, ValidSetup(s), NEW z \in Zones, NEW v \in Int
  PROVE  ValidSetup(SetAreaClosed(s, z, v))
<1>1. z \in PageZones
  BY DEF PageZones
<1>2. PICK n : n = SetAreaClosed(s, z, v)
  OBVIOUS
<1>3. n = [menus |-> s.menus, stations |-> s.stations,
           areas |-> [s.areas EXCEPT ![z] = v], specials |-> s.specials]
  BY <1>2 DEF SetAreaClosed, ValidSetup
<1>4. [s.areas EXCEPT ![z] = v] \in [PageZones -> Int]
  BY <1>1 DEF ValidSetup
<1>5. ValidSetup(n)
  BY <1>3, <1>4 DEF ValidSetup
<1> QED
  BY <1>2, <1>5

\* A menu or price rule is added after the others, or changed where it is.
LEMMA MenuStored ==
  ASSUME NEW s, ValidSetup(s), NEW i \in 0 .. Len(s.menus), NEW row \in MenuRows
  PROVE  ValidSetup(SaveServiceMenu(s, i, row))
<1>0. s.menus \in Seq(MenuRows) /\ Len(s.menus) \in Nat
  BY DEF ValidSetup
<1>1. Append(s.menus, row) \in Seq(MenuRows)
  BY <1>0
<1>5. i # 0 => [s.menus EXCEPT ![i] = row] \in Seq(MenuRows)
  BY <1>0
<1>2. PICK n : n = SaveServiceMenu(s, i, row)
  OBVIOUS
<1>3. n = [menus |-> IF i = 0 THEN Append(s.menus, row) ELSE [s.menus EXCEPT ![i] = row],
           stations |-> s.stations, areas |-> s.areas, specials |-> s.specials]
  BY <1>2 DEF SaveServiceMenu, ValidSetup
<1>4. ValidSetup(n)
  BY <1>1, <1>3, <1>5 DEF ValidSetup
<1> QED
  BY <1>2, <1>4

\* A menu is switched on or off.
LEMMA ToggleStored ==
  ASSUME NEW s, ValidSetup(s), NEW i \in DOMAIN s.menus
  PROVE  ValidSetup(SetServiceMenuEnabled(s, i, ~s.menus[i].enabled))
<1>1. PICK row : row = [s.menus[i] EXCEPT !.enabled = ~s.menus[i].enabled]
  OBVIOUS
<1>0. s.menus[i] \in MenuRows
  BY DEF ValidSetup
<1>2. row \in MenuRows
  BY <1>0, <1>1 DEF MenuRows
<1>3. [s.menus EXCEPT ![i] = row] \in Seq(MenuRows)
  BY <1>2 DEF ValidSetup
<1>4. PICK n : n = SetServiceMenuEnabled(s, i, ~s.menus[i].enabled)
  OBVIOUS
<1>5. n = [menus |-> [s.menus EXCEPT ![i] = row],
           stations |-> s.stations, areas |-> s.areas, specials |-> s.specials]
  BY <1>1, <1>4 DEF SetServiceMenuEnabled, ValidSetup
<1>6. ValidSetup(n)
  BY <1>3, <1>5 DEF ValidSetup
<1> QED
  BY <1>4, <1>6

\* A menu is deleted; the others keep their order.
LEMMA DeleteStored ==
  ASSUME NEW s, ValidSetup(s), NEW i \in DOMAIN s.menus
  PROVE  ValidSetup(DeleteServiceMenu(s, i))
<1>1. s.menus \in Seq(MenuRows) /\ i \in 1 .. Len(s.menus) /\ Len(s.menus) \in Nat
  BY DEF ValidSetup
<1>2. SubSeq(s.menus, 1, i - 1) \in Seq(MenuRows)
  BY <1>1
<1>3. SubSeq(s.menus, i + 1, Len(s.menus)) \in Seq(MenuRows)
  BY <1>1
<1>4. RemoveAt(s.menus, i) \in Seq(MenuRows)
  BY <1>2, <1>3 DEF RemoveAt
<1>5. PICK n : n = DeleteServiceMenu(s, i)
  OBVIOUS
<1>6. n = [menus |-> RemoveAt(s.menus, i),
           stations |-> s.stations, areas |-> s.areas, specials |-> s.specials]
  BY <1>5 DEF DeleteServiceMenu, ValidSetup
<1>7. ValidSetup(n)
  BY <1>4, <1>6 DEF ValidSetup
<1> QED
  BY <1>5, <1>7

\* Some set of natural numbers has a least one.
LEMMA LeastNatural ==
  ASSUME NEW S, S \subseteq Nat, S # {}
  PROVE  \E m \in S : \A x \in S : m <= x
<1> DEFINE below == {1 .. n : n \in S}
<1>1. \A n \in S : 1 .. n \in SUBSET Nat /\ IsFiniteSet(1 .. n)
  BY FS_Interval
<1>2. below \subseteq FiniteSubsetsOf(Nat) /\ below # {}
  BY <1>1 DEF FiniteSubsetsOf
<1> HIDE DEF below
<1>3. PICK T \in below : \A U \in below : ~ (<<U, T>> \in StrictSubsetOrdering(Nat))
  BY <1>2, FS_StrictSubsetOrderingWellFounded, WFMin
<1>4. PICK m \in S : T = 1 .. m
  BY DEF below
<1>5. ASSUME NEW x \in S, ~(m <= x)
      PROVE  FALSE
  <2>1. /\ 1 .. x \subseteq 1 .. m /\ 1 .. x \in SUBSET Nat /\ 1 .. m \in SUBSET Nat
        /\ m \in 1 .. m /\ m \notin 1 .. x
    BY <1>5
  <2>2. 1 .. x \in below
    BY DEF below
  <2> QED
    BY <1>3, <1>4, <2>1, <2>2 DEF StrictSubsetOrdering
<1> QED
  BY <1>5

\* A set of integers that stays below a bound has a greatest element.
LEMMA GreatestIsMax ==
  ASSUME NEW S, S \subseteq Int, S # {}, NEW b \in Int, \A x \in S : x <= b
  PROVE  Max(S) \in S /\ \A x \in S : x <= Max(S)
<1> DEFINE gaps == {b - x : x \in S}
<1>1. gaps \subseteq Nat /\ gaps # {}
  OBVIOUS
<1>2. PICK g \in gaps : \A h \in gaps : g <= h
  BY <1>1, LeastNatural
<1>4. PICK m \in S : g = b - m
  BY <1>2
<1>5. \A x \in S : m >= x
  BY <1>2, <1>4
<1>6. \E m1 \in S : \A x \in S : m1 >= x
  BY <1>5
<1> QED
  BY <1>6 DEF Max

\* A set of integers that stays above a bound has a least element.
LEMMA LeastIsMin ==
  ASSUME NEW S, S \subseteq Int, S # {}, NEW b \in Int, \A x \in S : b <= x
  PROVE  Min(S) \in S /\ \A x \in S : Min(S) <= x
<1> DEFINE gaps == {x - b : x \in S}
<1>3. \A x \in S : x - b \in Nat
  OBVIOUS
<1>1. gaps \subseteq Nat /\ gaps # {}
  BY <1>3
<1>2. PICK g \in gaps : \A h \in gaps : g <= h
  BY <1>1, LeastNatural
<1>4. PICK m \in S : g = m - b
  BY <1>2
<1>5. \A x \in S : m <= x
  <2> TAKE x \in S
  <2>1. m - b <= x - b /\ m \in Int /\ x \in Int
    BY <1>2, <1>4
  <2> QED
    BY <2>1
<1>6. \E m1 \in S : \A x \in S : m1 <= x
  BY <1>5
<1> QED
  BY <1>6 DEF Min

\* The ids of stored special days stay below some bound.
LEMMA IdsBounded ==
  ASSUME NEW S, S \subseteq SpecialRows, IsFiniteSet(S)
  PROVE  \E b \in Nat : \A sp \in S : sp.id <= b
<1> DEFINE n == Cardinality(S)
           upTo(k, f) == \E b \in Nat : \A i \in 1 .. k : f[i].id <= b
<1>1. n \in Nat /\ ExistsBijection(1 .. n, S)
  BY FS_CardinalityType
<1>2. PICK f : f \in [1 .. n -> S] /\ \A sp \in S : \E i \in 1 .. n : f[i] = sp
  BY <1>1 DEF ExistsBijection, Bijection, Surjection
<1>3. \A i \in 1 .. n : f[i].id \in Nat
  BY <1>2 DEF SpecialRows
<1> HIDE DEF n
<1>4. \A k \in 0 .. n : upTo(k, f)
  <2> DEFINE bad == {k \in 0 .. n : ~ upTo(k, f)}
  <2>1. SUFFICES ASSUME bad # {} PROVE FALSE
    OBVIOUS
  <2>a. bad \subseteq 0 .. n /\ bad \subseteq Nat
    <3>1. bad \subseteq 0 .. n
      OBVIOUS
    <3>2. 0 .. n \subseteq Nat
      BY <1>1
    <3> QED
      BY <3>1, <3>2
  <2>b. \A k \in 0 .. n : k \in bad <=> ~ upTo(k, f)
    OBVIOUS
  <2> HIDE DEF bad
  <2>2. PICK k \in bad : \A x \in bad : k <= x
    BY <2>a, <2>1, LeastNatural
  <2>3. k # 0
    <3>1. upTo(0, f)
      OBVIOUS
    <3> QED
      BY <1>1, <2>b, <2>2, <3>1
  <2>c. k \in 1 .. n
    BY <1>1, <2>a, <2>3
  <2>4. k - 1 \in 0 .. n /\ k - 1 \notin bad
    <3>1. k - 1 \in 0 .. n /\ ~ (k <= k - 1)
      BY <1>1, <2>c
    <3> QED
      BY <2>2, <3>1
  <2>5. PICK b \in Nat : \A i \in 1 .. k - 1 : f[i].id <= b
    BY <2>4, <2>b
  <2>6. f[k].id \in Nat
    BY <1>3, <2>c
  <2>7. \A i \in 1 .. k : f[i].id <= b + f[k].id
    <3> TAKE i \in 1 .. k
    <3>1. i \in 1 .. n /\ f[i].id \in Nat
      BY <1>1, <1>3, <2>c
    <3>2. CASE i = k
      BY <2>6, <3>2
    <3>3. CASE i # k
      <4>1. f[i].id <= b
        BY <2>c, <2>5, <3>3
      <4> QED
        BY <2>6, <3>1, <4>1
    <3> QED
      BY <3>2, <3>3
  <2>8. b + f[k].id \in Nat
    BY <2>6
  <2>9. upTo(k, f)
    BY <2>7, <2>8
  <2> QED
    BY <2>b, <2>c, <2>2, <2>9
<1>5. n \in 0 .. n
  BY <1>1
<1> HIDE DEF upTo
<1>6. upTo(n, f)
  BY <1>4, <1>5
<1>7. PICK b \in Nat : \A i \in 1 .. n : f[i].id <= b
  BY <1>6 DEF upTo
<1> QED
  BY <1>2, <1>7

\* A special day is stored under its id, a new one under an id of its own.
LEMMA SpecialStored ==
  ASSUME NEW s, ValidSetup(s), NEW id \in Nat,
         NEW row, row.from \in Int, row.to \in Int, row.closed \in BOOLEAN, row.hours \in SpecialHours
  PROVE  ValidSetup(SaveSpecialDay(s, id, row))
<1> DEFINE ids == {0} \cup {sp.id : sp \in s.specials}
<1>1. s.specials \subseteq SpecialRows /\ IsFiniteSet(s.specials)
  BY DEF ValidSetup
<1>2. Max(ids) \in Nat
  <2>1. PICK b \in Nat : \A sp \in s.specials : sp.id <= b
    BY <1>1, IdsBounded
  <2>2. ids \subseteq Nat /\ ids # {} /\ \A x \in ids : x <= b
    BY <1>1, <2>1 DEF SpecialRows
  <2>3. ids \subseteq Int /\ b \in Int
    BY <2>2
  <2> HIDE DEF ids
  <2>4. Max(ids) \in ids
    BY <2>2, <2>3, GreatestIsMax
  <2> QED
    BY <2>2, <2>4
<1>3. PICK new : new = [id |-> IF id = 0 THEN Max(ids) + 1 ELSE id, from |-> row.from,
                        to |-> row.to, closed |-> row.closed, hours |-> row.hours]
  OBVIOUS
<1>4. new \in SpecialRows
  <2> HIDE DEF ids
  <2> QED
    BY <1>2, <1>3 DEF SpecialRows
<1>5. PICK others : others = {sp \in s.specials : sp.id # id}
  OBVIOUS
<1>6. others \cup {new} \subseteq SpecialRows /\ IsFiniteSet(others \cup {new})
  <2>1. others \in SUBSET s.specials
    BY <1>5
  <2>2. IsFiniteSet(others)
    BY <1>1, <2>1, FS_Subset
  <2>3. IsFiniteSet(others \cup {new})
    BY <2>2, FS_AddElement
  <2> QED
    BY <1>1, <1>4, <2>1, <2>3
<1>7. PICK n : n = SaveSpecialDay(s, id, row)
  OBVIOUS
<1>8. n = [menus |-> s.menus, stations |-> s.stations, areas |-> s.areas,
           specials |-> others \cup {new}]
  BY <1>3, <1>5, <1>7 DEF SaveSpecialDay, ValidSetup
<1>9. ValidSetup(n)
  BY <1>6, <1>8 DEF ValidSetup
<1> QED
  BY <1>7, <1>9

\* A special day is deleted.
LEMMA SpecialGone ==
  ASSUME NEW s, ValidSetup(s), NEW id
  PROVE  ValidSetup(DeleteSpecialDay(s, id))
<1>1. PICK others : others = {sp \in s.specials : sp.id # id}
  OBVIOUS
<1>2. others \in SUBSET s.specials /\ s.specials \subseteq SpecialRows /\ IsFiniteSet(s.specials)
  BY <1>1 DEF ValidSetup
<1>3. others \subseteq SpecialRows /\ IsFiniteSet(others)
  BY <1>2, FS_Subset
<1>4. PICK n : n = DeleteSpecialDay(s, id)
  OBVIOUS
<1>5. n = [menus |-> s.menus, stations |-> s.stations, areas |-> s.areas, specials |-> others]
  BY <1>1, <1>4 DEF DeleteSpecialDay, ValidSetup
<1>6. ValidSetup(n)
  BY <1>3, <1>5 DEF ValidSetup
<1> QED
  BY <1>4, <1>6

----------------------------------------------------------------------------
(* What a step does: the watcher looks, the clock moves, the server restarts, *)
(* or a handler stores another set-up that can be stored.                   *)

\* The numbers a venue is set up with, and those the buttons send.
LEMMA Numbers ==
  /\ Morning \in Int /\ BusyFor \in Int /\ AlertLead \in 1 .. DayLen
  /\ LastTick \in Nat /\ MaxEdits \in Nat /\ MaxRestarts \in Nat
  /\ \A c \in CloseChoices : c \in Int
  /\ \A w \in BusyChoices : w \in Int
  /\ DayLen \in Nat /\ DayLen > 0 /\ WeekLen \in Nat /\ WeekLen > 0
<1>1. /\ Morning \in Nat /\ BusyFor \in Nat /\ AlertLead \in 1 .. DayLen
      /\ {LastTick, MaxEdits, MaxRestarts} \subseteq Nat
      /\ CloseChoices \subseteq Int /\ BusyChoices \subseteq Int
  BY Zenon, HoursAssumption
<1>2. DayLen \in Nat \ {0} /\ WeekLen \in Nat \ {0}
  BY Zenon, ScheduleAssumption
<1> QED
  BY <1>1, <1>2

\* A button's choice is a closed-until value.
LEMMA ChoiceStored ==
  ASSUME now \in Nat, NEW choice \in CloseChoices, NEW v \in CloseUntil(choice)
  PROVE  v \in Int
<1>1. choice \in Int /\ Morning \in Int /\ DayLen \in Int /\ Day(now) \in Int
  BY DayAndClock, Numbers
<1>2. PICK morning : morning = Day(now) * DayLen + Morning
  OBVIOUS
<1>3. morning \in Int /\ morning + DayLen \in Int
  BY <1>1, <1>2
<1> QED
  BY <1>1, <1>2, <1>3 DEF CloseUntil, Open, Manual

\* A form that passes its checks makes a menu or price rule.
LEMMA RowStored ==
  ASSUME NEW f \in MenuForms, MenuFormOK(f), NEW on \in BOOLEAN
  PROVE  MenuRow(f, on) \in MenuRows
<1>1. /\ f.kind \in {"menu", "price"} /\ f.days \subseteq 0 .. WeekLen - 1
      /\ {f.start, f.end} \subseteq Clocks /\ f.last \in Int /\ f.everything \in BOOLEAN
      /\ f.products \subseteq DOMAIN Products
      /\ f.disc \in {"", "percent", "amount"} /\ f.value \in Int
  BY HoursAssumption
<1>2. f.last >= 0 /\ f.last < Length(f.start, f.end) /\ f.days # {}
  BY Zenon DEF MenuFormOK
<1>3. f.last \in Nat /\ 0 < Length(f.start, f.end)
  <2>1. Length(f.start, f.end) \in 1 .. DayLen
    BY <1>1, LengthOfDay
  <2>2. DayLen \in Nat
    BY Numbers
  <2>3. Length(f.start, f.end) \in Int /\ 0 < Length(f.start, f.end)
    BY <2>1, <2>2
  <2>4. f.last \in Int /\ f.last >= 0
    BY Zenon, <1>1, <1>2
  <2> QED
    BY <2>3, <2>4
<1>4. PICK r : r = MenuRow(f, on)
  OBVIOUS
<1>5. PICK last, categories, products, zones :
        /\ last = IF f.kind = "price" THEN 0 ELSE f.last
        /\ categories = IF f.everything THEN {} ELSE f.categories \cap KnownCategories
        /\ products = IF f.everything THEN {} ELSE f.products
        /\ zones = IF f.somewhere THEN f.zones \cap Zones ELSE {}
  OBVIOUS
<1>6. /\ last \in Nat /\ last < Length(f.start, f.end)
      /\ categories \subseteq KnownCategories /\ products \subseteq DOMAIN Products
      /\ zones \subseteq Zones
  BY <1>1, <1>2, <1>3, <1>5
<1>7. r = [kind |-> f.kind, enabled |-> on, days |-> f.days, start |-> f.start, end |-> f.end,
           last |-> last, everything |-> f.everything, categories |-> categories,
           products |-> products, zones |-> zones, disc |-> f.disc, value |-> f.value]
  BY <1>4, <1>5 DEF MenuRow
<1>8. r \in MenuRows
  BY <1>1, <1>2, <1>6, <1>7 DEF MenuRows
<1> QED
  BY <1>4, <1>8

\* Every handler of the manager stores a set-up of the right shape.
LEMMA StepsStore ==
  ASSUME Next, ValidSetup(setup), now \in Nat
  PROVE  \/ WatcherTick \/ ClockMoves \/ Restart
         \/ \E new : ValidSetup(new) /\ Saved(new)
<1>1. ASSUME NEW u \in Staff, NEW d \in Depts, NEW c \in CloseChoices, SetStation(u, d, c)
      PROVE  \E new : ValidSetup(new) /\ Saved(new)
  <2>1. PICK v \in CloseUntil(c) : Saved(SetStationClosed(setup, d, v))
    BY <1>1 DEF SetStation
  <2>2. v \in Int
    BY <2>1, ChoiceStored
  <2> QED
    BY <2>1, <2>2, ClosedStored
<1>2. ASSUME NEW u \in Staff, NEW d \in Depts, NEW w \in BusyChoices, SetBusy(u, d, w)
      PROVE  \E new : ValidSetup(new) /\ Saved(new)
  <2>1. w \in Int /\ now + BusyFor \in Int
    BY Numbers
  <2> QED
    BY <1>2, <2>1, BusyStored DEF SetBusy
<1>3. ASSUME NEW d \in Depts, NEW h \in HoursForms, AdminSetStationHours(d, h)
      PROVE  \E new : ValidSetup(new) /\ Saved(new)
  BY <1>3, HoursStored, HoursAssumption DEF AdminSetStationHours
<1>4. ASSUME NEW z \in PageZones, NEW c \in CloseChoices, AdminSetArea(z, c)
      PROVE  \E new : ValidSetup(new) /\ Saved(new)
  <2>1. PICK v \in CloseUntil(c) : Saved(SetAreaClosed(setup, z, v))
    BY <1>4 DEF AdminSetArea
  <2>2. v \in Int /\ z \in Zones
    BY <1>4, <2>1, ChoiceStored DEF AdminSetArea
  <2> QED
    BY <2>1, <2>2, AreaStored
<1>5. ASSUME NEW f \in SpecialForms, NEW id \in {0} \cup {sp.id : sp \in setup.specials},
             SpecialDaySave(id, f)
      PROVE  \E new : ValidSetup(new) /\ Saved(new)
  <2>1. f \in [from : Int, to : Int, closed : BOOLEAN, hours : SpecialHours]
    BY HoursAssumption
  <2>2. id \in Nat
    BY DEF ValidSetup, SpecialRows
  <2>3. PICK row : row = [f EXCEPT !.hours = IF f.closed THEN <<>> ELSE @]
    OBVIOUS
  <2>4. <<>> \in SpecialHours
    <3>1. <<>> \in [{} -> DayHours]
      OBVIOUS
    <3> QED
      BY <3>1 DEF SpecialHours
  <2>5. row.from \in Int /\ row.to \in Int /\ row.closed \in BOOLEAN /\ row.hours \in SpecialHours
    BY <2>1, <2>3, <2>4
  <2>6. Saved(SaveSpecialDay(setup, id, row))
    BY <1>5, <2>3 DEF SpecialDaySave
  <2> QED
    BY <2>2, <2>5, <2>6, SpecialStored
<1>6. ASSUME NEW sp \in setup.specials, SpecialDayDelete(sp.id)
      PROVE  \E new : ValidSetup(new) /\ Saved(new)
  BY <1>6, SpecialGone DEF SpecialDayDelete
<1>7. ASSUME NEW f \in MenuForms, NEW i \in 0 .. Len(setup.menus), ServiceMenuSave(i, f)
      PROVE  \E new : ValidSetup(new) /\ Saved(new)
  <2>1. PICK on : on = (i = 0 \/ setup.menus[i].enabled)
    OBVIOUS
  <2>2. on \in BOOLEAN
    BY <2>1
  <2>3. MenuRow(f, on) \in MenuRows
    BY <1>7, <2>2, RowStored DEF ServiceMenuSave
  <2>4. Saved(SaveServiceMenu(setup, i, MenuRow(f, on)))
    BY <1>7, <2>1 DEF ServiceMenuSave
  <2> QED
    BY <2>3, <2>4, MenuStored
<1>8. ASSUME NEW i \in DOMAIN setup.menus, ServiceMenuToggle(i)
      PROVE  \E new : ValidSetup(new) /\ Saved(new)
  BY <1>8, ToggleStored DEF ServiceMenuToggle
<1>9. ASSUME NEW i \in DOMAIN setup.menus, ServiceMenuDelete(i)
      PROVE  \E new : ValidSetup(new) /\ Saved(new)
  BY <1>9, DeleteStored DEF ServiceMenuDelete
<1> QED
  BY <1>1, <1>2, <1>3, <1>4, <1>5, <1>6, <1>7, <1>8, <1>9 DEF Next

----------------------------------------------------------------------------
(* What always holds *)

\* What the pages were last rendered from and what the watcher last saw are
\* moments of the past.  When the watcher has looked at this moment, all three
\* look the same; until then the pages show either what is stored now or what
\* the watcher last saw.
Fresh == [setup |-> setup, at |-> now]
SeenSame ==
    /\ checked => /\ MenuSignature(sigOf) = MenuSignature(Fresh)
                  /\ MenuSignature(rendered) = MenuSignature(sigOf)
    /\ ~checked => \/ rendered = Fresh
                   \/ MenuSignature(rendered) = MenuSignature(sigOf)

\* An alert has gone out once, and the watcher remembers it until the cut-off is
\* over; it never remembers one for less than the lead it was sent with.
AlertsKnown ==
    /\ \A k \in DOMAIN pushed : /\ pushed[k] = 1 /\ k.end \in Int
                                /\ (\E a \in alerted : a.key = k) \/ k.end <= now
    /\ \A a \in alerted : /\ a.at \in Nat /\ a.key.end \in Int
                          /\ a.key.end <= a.at + AlertLead
                          /\ a.key \in DOMAIN pushed

\* Once the watcher has looked, every alert that is due has gone out.
AlertsOut == checked => AlertsDue(GetSchedule(setup, now)) \subseteq DOMAIN pushed

HoursInv == TypeOK /\ SeenSame /\ AlertsKnown /\ AlertsOut

\* An alert that is due ends within the lead.
LEMMA DueSoon ==
  ASSUME NEW s, NEW k \in AlertsDue(s), now \in Nat
  PROVE  k.end \in Int /\ now < k.end /\ k.end <= now + AlertLead
<1>1. PICK d, z, ends : k \in AlertsFor(d, z, ends)
  BY DEF AlertsDue
<1>2. PICK who, e : k = [dept |-> d, to |-> who, end |-> e] /\ e \in now + 1 .. now + AlertLead
  BY <1>1 DEF AlertsFor
<1>3. k.end = e
  BY <1>2
<1> QED
  BY <1>2, <1>3, Numbers

\* The invariant holds at the start.
LEMMA HoursInit ==
  ASSUME Init
  PROVE  HoursInv
<1>1. now \in Nat /\ edits \in 0 .. MaxEdits /\ restarts \in 0 .. MaxRestarts
  BY Numbers DEF Init
<1>2. rendered = Fresh /\ sigOf = Fresh /\ checked = FALSE /\ alerted = {} /\ pushed = <<>>
  BY DEF Init, Fresh
<1>3. rendered.at = now /\ sigOf.at = now
  BY <1>2 DEF Fresh
<1>4. ValidSetup(setup)
  BY HoursAssumption DEF Init
<1>8. {rendered.at, sigOf.at} \subseteq 0 .. now
  BY <1>1, <1>3
<1>9. checked \in BOOLEAN /\ {a.key : a \in alerted} \subseteq DOMAIN pushed
  BY <1>2
<1>5. TypeOK
  BY Zenon, <1>1, <1>4, <1>8, <1>9 DEF TypeOK
<1>6. SeenSame /\ AlertsOut
  BY <1>2 DEF SeenSame, AlertsOut
<1>7. AlertsKnown
  BY <1>2 DEF AlertsKnown
<1> QED
  BY <1>5, <1>6, <1>7 DEF HoursInv

\* What the watcher's alerts leave behind.
LEMMA AlertsStep ==
  ASSUME now \in Nat, AlertsKnown, NEW s, CheckLastOrderAlerts(s)
  PROVE  /\ \A k \in DOMAIN pushed' : /\ pushed'[k] = 1 /\ k.end \in Int
                                      /\ (\E a \in alerted' : a.key = k) \/ k.end <= now
         /\ \A a \in alerted' : /\ a.at \in Nat /\ a.key.end \in Int
                                /\ a.key.end <= a.at + AlertLead
                                /\ a.key \in DOMAIN pushed'
         /\ AlertsDue(s) \subseteq DOMAIN pushed'
<1> DEFINE kept == {a \in alerted : now - a.at <= DayLen}
           new  == {k \in AlertsDue(s) : ~\E a \in kept : a.key = k}
           asked(k) == [key |-> k, at |-> now]
           count(k) == (IF k \in DOMAIN pushed THEN pushed[k] ELSE 0) + (IF k \in new THEN 1 ELSE 0)
<1>1. /\ alerted' = kept \cup {asked(k) : k \in new}
      /\ pushed' = [k \in DOMAIN pushed \cup new |-> count(k)]
  BY DEF CheckLastOrderAlerts
<1>2. \A a \in alerted : a \in kept <=> now - a.at <= DayLen
  OBVIOUS
<1>3. kept \subseteq alerted
  OBVIOUS
<1>4. \A k \in new : k \in AlertsDue(s) /\ ~\E a \in kept : a.key = k
  OBVIOUS
<1>5. \A k \in AlertsDue(s) : k \in new \/ \E a \in kept : a.key = k
  OBVIOUS
<1>6. \A k : asked(k).key = k /\ asked(k).at = now
  OBVIOUS
<1>7. DOMAIN pushed' = DOMAIN pushed \cup new /\ \A k \in DOMAIN pushed' : pushed'[k] = count(k)
  BY <1>1
<1> HIDE DEF kept, new, asked
<1>8. \A a \in alerted : a \notin kept => a.key.end <= now
  <2> TAKE a \in alerted
  <2>1. /\ a.at \in Nat /\ a.key.end \in Int /\ a.key.end <= a.at + AlertLead
    BY DEF AlertsKnown
  <2> QED
    BY <1>2, <2>1, Numbers
<1>9. \A k \in new : k \notin DOMAIN pushed
  <2> SUFFICES ASSUME NEW k \in new, k \in DOMAIN pushed PROVE FALSE
    OBVIOUS
  <2>1. k.end \in Int /\ now < k.end
    BY <1>4, DueSoon
  <2>2. PICK a \in alerted : a.key = k
    BY <2>1 DEF AlertsKnown
  <2>3. a \notin kept
    BY <1>4, <2>2
  <2>4. k.end <= now
    BY <1>8, <2>2, <2>3
  <2> QED
    BY <2>1, <2>4
<1>10. \A k \in DOMAIN pushed' : /\ pushed'[k] = 1 /\ k.end \in Int
                                 /\ (\E a \in alerted' : a.key = k) \/ k.end <= now
  <2> TAKE k \in DOMAIN pushed'
  <2>1. CASE k \in new
    <3>1. k \notin DOMAIN pushed /\ k.end \in Int
      BY <1>4, <1>9, <2>1, DueSoon
    <3>2. pushed'[k] = 1
      BY <1>7, <2>1, <3>1
    <3>3. asked(k) \in alerted' /\ asked(k).key = k
      BY <1>1, <1>6, <2>1
    <3> QED
      BY <3>1, <3>2, <3>3
  <2>2. CASE k \notin new
    <3>1. k \in DOMAIN pushed
      BY <1>7, <2>2
    <3>2. pushed[k] = 1 /\ k.end \in Int
      BY <3>1 DEF AlertsKnown
    <3>3. pushed'[k] = 1
      BY <1>7, <2>2, <3>1, <3>2
    <3>4. (\E a \in alerted : a.key = k) \/ k.end <= now
      BY <3>1 DEF AlertsKnown
    <3>5. ASSUME NEW a \in alerted, a.key = k
          PROVE  (\E b \in alerted' : b.key = k) \/ k.end <= now
      BY <1>1, <1>8, <3>5
    <3> QED
      BY <3>2, <3>3, <3>4, <3>5
  <2> QED
    BY <2>1, <2>2
<1>11. \A a \in alerted' : /\ a.at \in Nat /\ a.key.end \in Int
                           /\ a.key.end <= a.at + AlertLead
                           /\ a.key \in DOMAIN pushed'
  <2> TAKE a \in alerted'
  <2>1. CASE a \in kept
    BY <1>3, <1>7, <2>1 DEF AlertsKnown
  <2>2. ASSUME NEW k \in new, a = asked(k)
        PROVE  /\ a.at \in Nat /\ a.key.end \in Int
               /\ a.key.end <= a.at + AlertLead
               /\ a.key \in DOMAIN pushed'
    <3>1. a.key = k /\ a.at = now
      BY <1>6, <2>2
    <3>2. k.end \in Int /\ k.end <= now + AlertLead
      BY <1>4, DueSoon
    <3> QED
      BY <1>7, <3>1, <3>2
  <2> QED
    BY <1>1, <2>1, <2>2
<1>12. AlertsDue(s) \subseteq DOMAIN pushed'
  <2> SUFFICES ASSUME NEW k \in AlertsDue(s) PROVE k \in DOMAIN pushed'
    OBVIOUS
  <2>1. CASE k \in new
    BY <1>7, <2>1
  <2>2. ASSUME NEW a \in kept, a.key = k PROVE k \in DOMAIN pushed
    BY <1>3, <2>2 DEF AlertsKnown
  <2> QED
    BY <1>5, <1>7, <2>1, <2>2
<1> QED
  BY <1>10, <1>11, <1>12

\* The watcher looks: it keeps the invariant and brings the pages up to date.
LEMMA LookKeeps ==
  ASSUME HoursInv, WatcherTick
  PROVE  HoursInv'
<1>1. now \in Nat /\ AlertsKnown /\ SeenSame /\ TypeOK
  BY DEF HoursInv, TypeOK
<1>2. /\ now' = now /\ setup' = setup /\ edits' = edits /\ restarts' = restarts
      /\ checked' = TRUE /\ ~checked /\ CheckLastOrderAlerts(GetSchedule(setup, now))
  BY DEF WatcherTick
<1>3. PICK s : s = GetSchedule(setup, now)
  OBVIOUS
<1>4. /\ \A k \in DOMAIN pushed' : /\ pushed'[k] = 1 /\ k.end \in Int
                                   /\ (\E a \in alerted' : a.key = k) \/ k.end <= now
      /\ \A a \in alerted' : /\ a.at \in Nat /\ a.key.end \in Int
                             /\ a.key.end <= a.at + AlertLead
                             /\ a.key \in DOMAIN pushed'
      /\ AlertsDue(s) \subseteq DOMAIN pushed'
  BY <1>1, <1>2, <1>3, AlertsStep
<1>5. AlertsKnown'
  BY <1>2, <1>4 DEF AlertsKnown
<1>6. AlertsOut'
  BY <1>2, <1>3, <1>4 DEF AlertsOut, AlertsDue, AlertsFor
<1>7. \/ MenuSignature(Fresh) # MenuSignature(sigOf) /\ sigOf' = Fresh /\ rendered' = Fresh
      \/ MenuSignature(Fresh) = MenuSignature(sigOf) /\ sigOf' = sigOf /\ rendered' = rendered
  BY DEF WatcherTick, PushPages, Fresh
<1>8. Fresh' = Fresh
  BY <1>2 DEF Fresh
<1>9. SeenSame'
  <2>1. CASE sigOf' = Fresh /\ rendered' = Fresh
    BY <1>2, <1>8, <2>1 DEF SeenSame
  <2>2. CASE MenuSignature(Fresh) = MenuSignature(sigOf) /\ sigOf' = sigOf /\ rendered' = rendered
    BY <1>1, <1>2, <1>8, <2>2 DEF SeenSame
  <2> QED
    BY <1>7, <2>1, <2>2
<1>10. Fresh.at = now
  BY DEF Fresh
<1>11. {rendered', sigOf'} \subseteq {rendered, sigOf, Fresh}
  BY <1>7
<1>12. {rendered'.at, sigOf'.at} \subseteq 0 .. now'
  BY <1>1, <1>2, <1>10, <1>11 DEF TypeOK
<1>14. {a.key : a \in alerted'} \subseteq DOMAIN pushed'
  BY <1>4
<1>13. TypeOK'
  BY <1>1, <1>2, <1>12, <1>14 DEF TypeOK
<1> QED
  BY <1>5, <1>6, <1>9, <1>13 DEF HoursInv

\* The clock moves on; the watcher has yet to look.
LEMMA ClockKeeps ==
  ASSUME HoursInv, ClockMoves
  PROVE  HoursInv'
<1>1. now \in Nat /\ AlertsKnown /\ SeenSame /\ TypeOK
  BY DEF HoursInv, TypeOK
<1>2. /\ checked /\ checked' = FALSE /\ now' = now + 1
      /\ setup' = setup /\ rendered' = rendered /\ sigOf' = sigOf /\ alerted' = alerted
      /\ pushed' = pushed /\ edits' = edits /\ restarts' = restarts
  BY DEF ClockMoves
<1>3. AlertsKnown'
  <2>1. \A k \in DOMAIN pushed : pushed[k] = 1 /\ k.end \in Int
                                 /\ ((\E a \in alerted : a.key = k) \/ k.end <= now + 1)
    BY <1>1 DEF AlertsKnown
  <2> QED
    BY <1>1, <1>2, <2>1 DEF AlertsKnown
<1>4. AlertsOut' /\ SeenSame'
  BY <1>1, <1>2 DEF AlertsOut, SeenSame
<1>5. {rendered'.at, sigOf'.at} \subseteq 0 .. now' /\ now' \in Nat
  BY <1>1, <1>2 DEF TypeOK
<1>7. {a.key : a \in alerted'} \subseteq DOMAIN pushed'
  BY <1>1, <1>2 DEF TypeOK
<1>6. TypeOK'
  BY Zenon, <1>1, <1>2, <1>5, <1>7 DEF TypeOK
<1> QED
  BY <1>3, <1>4, <1>6 DEF HoursInv

\* The server restarts: the alerts are forgotten, the pages are fresh.
LEMMA RestartKeeps ==
  ASSUME HoursInv, Restart
  PROVE  HoursInv'
<1>1. TypeOK
  BY DEF HoursInv
<1>2. /\ restarts < MaxRestarts /\ restarts' = restarts + 1
      /\ rendered' = Fresh /\ sigOf' = Fresh /\ alerted' = {} /\ pushed' = <<>>
      /\ checked' = FALSE /\ now' = now /\ setup' = setup /\ edits' = edits
  BY DEF Restart, PushPages, Fresh
<1>3. Fresh' = Fresh /\ Fresh.at = now
  BY <1>2 DEF Fresh
<1>4. TypeOK'
  <2>1. restarts + 1 \in 0 .. MaxRestarts
    BY <1>1, <1>2, Numbers DEF TypeOK
  <2>2. {a.key : a \in alerted'} \subseteq DOMAIN pushed' /\ checked' \in BOOLEAN
    BY <1>2
  <2>3. {rendered'.at, sigOf'.at} \subseteq 0 .. now'
    BY <1>1, <1>2, <1>3 DEF TypeOK
  <2> QED
    BY Zenon, <1>1, <1>2, <2>1, <2>2, <2>3 DEF TypeOK
<1>5. SeenSame' /\ AlertsOut'
  BY <1>2, <1>3 DEF SeenSame, AlertsOut
<1>6. AlertsKnown'
  BY <1>2 DEF AlertsKnown
<1> QED
  BY <1>4, <1>5, <1>6 DEF HoursInv

\* A handler stores a set-up and pushes the pages.
LEMMA SaveKeeps ==
  ASSUME HoursInv, NEW new, ValidSetup(new), Saved(new)
  PROVE  HoursInv'
<1>1. TypeOK /\ AlertsKnown
  BY DEF HoursInv
<1>2. /\ edits < MaxEdits /\ edits' = edits + 1 /\ setup' = new
      /\ rendered' = [setup |-> new, at |-> now] /\ checked' = FALSE
      /\ now' = now /\ sigOf' = sigOf /\ alerted' = alerted /\ pushed' = pushed
      /\ restarts' = restarts
  BY DEF Saved, PushPages
<1>3. rendered' = Fresh' /\ rendered'.at = now
  BY <1>2 DEF Fresh
<1>4. TypeOK'
  <2>1. edits + 1 \in 0 .. MaxEdits
    BY <1>1, <1>2, Numbers DEF TypeOK
  <2>2. {a.key : a \in alerted'} \subseteq DOMAIN pushed' /\ checked' \in BOOLEAN
    BY <1>1, <1>2 DEF TypeOK
  <2>3. {rendered'.at, sigOf'.at} \subseteq 0 .. now'
    BY <1>1, <1>2, <1>3 DEF TypeOK
  <2> QED
    BY Zenon, <1>1, <1>2, <2>1, <2>2, <2>3 DEF TypeOK
<1>5. SeenSame' /\ AlertsOut'
  BY <1>2, <1>3 DEF SeenSame, AlertsOut
<1>6. AlertsKnown'
  BY <1>1, <1>2 DEF AlertsKnown
<1> QED
  BY <1>4, <1>5, <1>6 DEF HoursInv

\* The invariant is kept by every step.
LEMMA HoursStep ==
  ASSUME HoursInv, [Next]_vars
  PROVE  HoursInv'
<1>1. CASE Next
  <2>1. ValidSetup(setup) /\ now \in Nat
    BY DEF HoursInv, TypeOK
  <2>2. \/ WatcherTick \/ ClockMoves \/ Restart \/ \E new : ValidSetup(new) /\ Saved(new)
    BY <1>1, <2>1, StepsStore
  <2> QED
    BY <2>2, LookKeeps, ClockKeeps, RestartKeeps, SaveKeeps
<1>2. CASE UNCHANGED vars
  BY <1>2 DEF vars, HoursInv, TypeOK, SeenSame, Fresh, AlertsKnown, AlertsOut, AlertsDue, AlertsFor
<1> QED
  BY <1>1, <1>2

\* What the pages show, what the watcher saw and what it alerted belong together.
THEOREM HoursInvariant == Spec => []HoursInv
<1>1. Init => HoursInv
  BY HoursInit
<1>2. HoursInv /\ [Next]_vars => HoursInv'
  BY HoursStep
<1> QED
  BY <1>1, <1>2, PTL DEF Spec

\* Whatever the forms send, what is stored are menus, price rules, hours and
\* special days of the right shape, and nothing on screen is from the future.
THEOREM HoursTypes == Spec => []TypeOK
<1>1. HoursInv => TypeOK
  BY DEF HoursInv
<1> QED
  BY <1>1, HoursInvariant, PTL

\* However often the watcher looks, in a day as long as you like, a cut-off is
\* alerted once per process: the memory of it is kept as long as it is due.
THEOREM OneAlertPerCutoff == Spec => []AlertOncePerCutoff
<1>1. HoursInv => AlertOncePerCutoff
  BY DEF HoursInv, AlertsKnown, AlertOncePerCutoff
<1> QED
  BY <1>1, HoursInvariant, PTL

\* Pages with the same signature show the same in every area the rules go through.
LEMMA SameSignature ==
  ASSUME NEW a, NEW b, MenuSignature(a) = MenuSignature(b), NEW z \in RuleZones
  PROVE  /\ Orderables(Board(RulesOf(a), z, a.at)) = Orderables(Board(RulesOf(b), z, b.at))
         /\ LastCalls(Board(RulesOf(a), z, a.at)) = LastCalls(Board(RulesOf(b), z, b.at))
         /\ Notices(RulesOf(a), z, a.at, Board(RulesOf(a), z, a.at))
              = Notices(RulesOf(b), z, b.at, Board(RulesOf(b), z, b.at))
<1>1. \A s, t : SignatureAt(s, t)[z] = AreaSignature(s, z, t, Board(s, z, t))
  BY Zenon DEF SignatureAt
<1>2. AreaSignature(RulesOf(a), z, a.at, Board(RulesOf(a), z, a.at))
        = AreaSignature(RulesOf(b), z, b.at, Board(RulesOf(b), z, b.at))
  BY Zenon, <1>1 DEF MenuSignature
<1> QED
  BY <1>2 DEF AreaSignature

\* The manager's page counts what the boards of the areas show.
LEMMA ItemsShown ==
  ASSUME NEW s, NEW t, NEW d
  PROVE  StationView(s, d, t).items
           = Cardinality({p \in OfDept(d) : \E z \in RuleZones : p \in Orderables(Board(s, z, t))})
<1>1. \A z \in RuleZones, p \in OfDept(d) :
        [y \in RuleZones |-> Board(s, y, t)][z][p].orderable <=> p \in Orderables(Board(s, z, t))
  <2> TAKE z \in RuleZones, p \in OfDept(d)
  <2>1. p \in DOMAIN Board(s, z, t)
    BY DEF OfDept, Board
  <2>2. [y \in RuleZones |-> Board(s, y, t)][z] = Board(s, z, t)
    OBVIOUS
  <2>3. Board(s, z, t)[p].orderable <=> p \in Orderables(Board(s, z, t))
    BY <2>1 DEF Orderables
  <2> QED
    BY <2>2, <2>3
<1>2. {p \in OfDept(d) : \E z \in RuleZones : [y \in RuleZones |-> Board(s, y, t)][z][p].orderable}
        = {p \in OfDept(d) : \E z \in RuleZones : p \in Orderables(Board(s, z, t))}
  BY <1>1
<1>3. StationView(s, d, t).items
        = Cardinality({p \in OfDept(d) :
            \E z \in RuleZones : [y \in RuleZones |-> Board(s, y, t)][z][p].orderable})
  BY Zenon DEF StationView, StationCard
<1> QED
  BY <1>2, <1>3

\* Whatever the clock and the manager did since: once the watcher has looked, the
\* open pages of every area that tables have, and the manager's, show this moment.
THEOREM PagesInStep == Spec => []MenusInStep
<1>1. ASSUME HoursInv, checked
      PROVE  /\ \A z \in RuleZones : SameMenu(GuestMenu(RulesOf(rendered), z, rendered.at),
                                              GuestMenu(Current, z, now))
             /\ \A d \in Depts : StationView(RulesOf(rendered), d, rendered.at).items
                                   = StationView(Current, d, now).items
  <2>1. MenuSignature(rendered) = MenuSignature(Fresh)
    BY <1>1 DEF HoursInv, SeenSame
  <2>2. RulesOf(Fresh) = Current /\ Fresh.at = now
    BY DEF Fresh, RulesOf, Current
  <2>3. \A z \in RuleZones :
          /\ Orderables(Board(RulesOf(rendered), z, rendered.at)) = Orderables(Board(Current, z, now))
          /\ LastCalls(Board(RulesOf(rendered), z, rendered.at)) = LastCalls(Board(Current, z, now))
          /\ Notices(RulesOf(rendered), z, rendered.at, Board(RulesOf(rendered), z, rendered.at))
               = Notices(Current, z, now, Board(Current, z, now))
    BY <2>1, <2>2, SameSignature
  <2>4. \A s, z, t : /\ GuestMenu(s, z, t).orderable = Orderables(Board(s, z, t))
                     /\ GuestMenu(s, z, t).lastCall = LastCalls(Board(s, z, t))
                     /\ GuestMenu(s, z, t).notices = Notices(s, z, t, Board(s, z, t))
    BY DEF GuestMenu, GuestMenuOf
  <2>5. \A z \in RuleZones : SameMenu(GuestMenu(RulesOf(rendered), z, rendered.at),
                                      GuestMenu(Current, z, now))
    BY <2>3, <2>4 DEF SameMenu
  <2>6. ASSUME NEW d \in Depts
        PROVE  StationView(RulesOf(rendered), d, rendered.at).items = StationView(Current, d, now).items
    <3>1. {p \in OfDept(d) : \E z \in RuleZones :
             p \in Orderables(Board(RulesOf(rendered), z, rendered.at))}
          = {p \in OfDept(d) : \E z \in RuleZones : p \in Orderables(Board(Current, z, now))}
      BY <2>3
    <3>2. StationView(Current, d, now).items
            = Cardinality({p \in OfDept(d) : \E z \in RuleZones : p \in Orderables(Board(Current, z, now))})
      BY Zenon, ItemsShown
    <3>3. StationView(RulesOf(rendered), d, rendered.at).items
            = Cardinality({p \in OfDept(d) : \E z \in RuleZones :
                             p \in Orderables(Board(RulesOf(rendered), z, rendered.at))})
      <4>1. PICK s, t : s = RulesOf(rendered) /\ t = rendered.at
        OBVIOUS
      <4>2. StationView(s, d, t).items
              = Cardinality({p \in OfDept(d) : \E z \in RuleZones : p \in Orderables(Board(s, z, t))})
        BY Zenon, ItemsShown
      <4> QED
        BY Zenon, <4>1, <4>2
    <3> QED
      BY Zenon, <3>1, <3>2, <3>3
  <2> QED
    BY <2>5, <2>6
<1>2. HoursInv => MenusInStep
  BY <1>1 DEF MenusInStep
<1> QED
  BY <1>2, HoursInvariant, PTL

----------------------------------------------------------------------------
(* What the rules in force hold *)

\* The rules in force keep the shape of what is stored.
LEMMA RulesShape ==
  ASSUME NEW stored, ValidSetup(stored), NEW t
  PROVE  LET s == GetSchedule(stored, t)
         IN  /\ MenuList(s) \subseteq MenuRows
             /\ \A i \in DOMAIN s.prices : s.prices[i] \in MenuRows
             /\ DOMAIN s.prices \subseteq 1 .. Len(stored.menus) /\ Len(stored.menus) \in Nat
             /\ \A d \in Depts : /\ s.stations[d] \in Int /\ s.hours[d] \in StationHours
                                 /\ s.hours[d].set => ValidHours(s.hours[d])
             /\ \A z \in PageZones : s.areas[z] \in Int
             /\ s.specials = {sp \in stored.specials : sp.to >= Day(t) - 1}
             /\ s.specials \subseteq SpecialRows
<1>1. /\ stored.menus \in Seq(MenuRows) /\ stored.stations \in [Depts -> StationRows]
      /\ stored.areas \in [PageZones -> Int] /\ stored.specials \subseteq SpecialRows
  BY DEF ValidSetup
<1>2. PICK s : s = GetSchedule(stored, t)
  OBVIOUS
<1>3. /\ s.menus = ListServiceMenus(stored, "menu") /\ s.prices = ListServiceMenus(stored, "price")
      /\ s.stations = [d \in Depts |-> stored.stations[d].closed]
      /\ s.hours = [d \in Depts |-> stored.stations[d].hours]
      /\ s.areas = stored.areas
      /\ s.specials = {sp \in stored.specials : sp.to >= Day(t) - 1}
  BY <1>2 DEF GetSchedule, Rules, ListSpecialDays
<1>4. Len(stored.menus) \in Nat /\ DOMAIN stored.menus = 1 .. Len(stored.menus)
      /\ \A i \in DOMAIN stored.menus : stored.menus[i] \in MenuRows
  BY <1>1
<1>5. \A kind : /\ DOMAIN ListServiceMenus(stored, kind) \subseteq DOMAIN stored.menus
                /\ \A i \in DOMAIN ListServiceMenus(stored, kind) :
                     ListServiceMenus(stored, kind)[i] = stored.menus[i]
  BY DEF ListServiceMenus
<1>6. MenuList(s) \subseteq MenuRows
  BY <1>3, <1>4, <1>5 DEF MenuList
<1>7. /\ \A i \in DOMAIN s.prices : s.prices[i] \in MenuRows
      /\ DOMAIN s.prices \subseteq 1 .. Len(stored.menus)
  BY <1>3, <1>4, <1>5
<1>8. \A d \in Depts : /\ s.stations[d] \in Int /\ s.hours[d] \in StationHours
                       /\ s.hours[d].set => ValidHours(s.hours[d])
  <2> TAKE d \in Depts
  <2>1. s.stations[d] = stored.stations[d].closed /\ s.hours[d] = stored.stations[d].hours
    BY <1>3
  <2>2. stored.stations[d] \in StationRows
    BY <1>1
  <2> QED
    BY <2>1, <2>2 DEF StationRows
<1>9. \A z \in PageZones : s.areas[z] \in Int
  BY <1>1, <1>3
<1> QED
  BY <1>1, <1>2, <1>3, <1>4, <1>6, <1>7, <1>8, <1>9

\* Special days that have ended make no difference to a day that is not over:
\* the rules loaded now and those loaded at a later moment agree on its dishes.
LEMMA SameRulesLater ==
  ASSUME NEW stored, ValidSetup(stored), NEW t \in Int, NEW u \in Int, t <= u, NEW z
  PROVE  Board(GetSchedule(stored, t), z, u) = Board(GetSchedule(stored, u), z, u)
<1>1. PICK a, b : a = GetSchedule(stored, t) /\ b = GetSchedule(stored, u)
  OBVIOUS
<1>2. /\ a.specials = {sp \in stored.specials : sp.to >= Day(t) - 1}
      /\ b.specials = {sp \in stored.specials : sp.to >= Day(u) - 1}
      /\ stored.specials \subseteq SpecialRows
  BY <1>1, RulesShape DEF ValidSetup
<1>3. /\ a.menus = b.menus /\ a.prices = b.prices /\ a.stations = b.stations
      /\ a.hours = b.hours /\ a.areas = b.areas
  BY <1>1 DEF GetSchedule, Rules
<1>4. Day(t) \in Int /\ Day(u) \in Int /\ Day(t) <= Day(u)
  BY DaysPass
<1>5. \A d \in {Day(u), Day(u) - 1} : SpecialsOn(a, d) = SpecialsOn(b, d)
  <2> TAKE d \in {Day(u), Day(u) - 1}
  <2>1. d \in Int /\ Day(u) - 1 <= d
    BY <1>4
  <2>2. \A sp \in stored.specials : Covers(sp, d) => sp.to >= Day(t) - 1 /\ sp.to >= Day(u) - 1
    BY <1>2, <1>4, <2>1 DEF Covers, SpecialRows
  <2>3. {sp \in a.specials : Covers(sp, d)} = {sp \in b.specials : Covers(sp, d)}
    BY <1>2, <2>2
  <2> QED
    BY Zenon, <2>3 DEF SpecialsOn
<1>6. \A dept : /\ Window(a, dept, Day(u)) = Window(b, dept, Day(u))
                /\ Window(a, dept, Day(u) - 1) = Window(b, dept, Day(u) - 1)
  <2>1. ASSUME NEW dept, NEW d, SpecialsOn(a, d) = SpecialsOn(b, d)
        PROVE  Window(a, dept, d) = Window(b, dept, d)
    BY Zenon, <1>3, <2>1 DEF Window
  <2> QED
    BY Zenon, <1>5, <2>1
<1>7. \A dept : WithinHours(a, dept, u) = WithinHours(b, dept, u)
  BY Zenon, <1>6 DEF WithinHours
<1>8. MenuList(a) = MenuList(b)
  BY Zenon, <1>3 DEF MenuList
<1>11. HasMenusFor(a, z) = HasMenusFor(b, z)
  BY Zenon, <1>8 DEF HasMenusFor
<1>12. \A p : MenuStops(a, p, z, u) = MenuStops(b, p, z, u)
  BY Zenon, <1>8 DEF MenuStops
<1>13. \A p, h, own : ItemIn(a, p, z, u, h, own) = ItemIn(b, p, z, u, h, own)
  BY Zenon, <1>3, <1>11, <1>12 DEF ItemIn
<1>9. \A p : Item(a, p, z, u) = Item(b, p, z, u)
  BY Zenon, <1>7, <1>13 DEF Item
<1>10. Board(a, z, u) = Board(b, z, u)
  BY Zenon, <1>9 DEF Board
<1> QED
  BY <1>1, <1>10

\* The hours preview shows the manager what guests will be able to order at that
\* moment if nothing is changed, over however many days: the special days left out
\* of the rules meanwhile were over.
THEOREM PreviewHolds == Spec => []PreviewIsTrue
<1>1. ASSUME HoursInv
      PROVE  PreviewIsTrue
  <2>1. now \in Nat /\ ValidSetup(setup)
    BY <1>1 DEF HoursInv, TypeOK
  <2>2. \A z, t : t \in now .. now + DayLen =>
          Board(GetSchedule(setup, now), z, t) = Board(GetSchedule(setup, t), z, t)
    <3> TAKE z, t
    <3> HAVE t \in now .. now + DayLen
    <3>1. now \in Int /\ t \in Int /\ now <= t
      BY <2>1, Numbers
    <3> QED
      BY <2>1, <3>1, SameRulesLater
  <2> QED
    BY <2>2 DEF PreviewIsTrue, Preview
<1> QED
  BY <1>1, HoursInvariant, PTL

----------------------------------------------------------------------------
(* A menu and when it stops *)

\* The occurrence of m that starts on day d is on at t.
RunsFrom(m, d, t) == WeekDay(d) \in m.days /\ In(Occurrence(d, m.start, m.end, m.last), t)

\* The cut-off of a menu that is on is that of an occurrence that is on: the
\* latest, and not over.
LEMMA CutoffOf ==
  ASSUME NEW m, m.start \in Clocks, m.end \in Clocks, m.last \in Nat, NEW t \in Nat
  PROVE  /\ Cutoff(m, t) \in Int
         /\ Cutoff(m, t) # Never =>
              /\ t < Cutoff(m, t) /\ Cutoff(m, t) <= t + DayLen
              /\ \E d \in Int : /\ RunsFrom(m, d, t)
                                /\ Cutoff(m, t) = Occurrence(d, m.start, m.end, m.last).stop
         /\ \A d \in Int : RunsFrom(m, d, t) =>
              /\ Cutoff(m, t) # Never
              /\ Occurrence(d, m.start, m.end, m.last).stop <= Cutoff(m, t)
<1> DEFINE occ(d) == Occurrence(d, m.start, m.end, m.last)
           running == {w \in {occ(d) : d \in {x \in {Day(t), Day(t) - 1} : WeekDay(x) \in m.days}} :
                         In(w, t)}
           stops == {w.stop : w \in running}
<1>1. Day(t) \in Int /\ t \in Int /\ DayLen \in Nat /\ m.last \in Int
  BY DayAndClock, Numbers
<1>2. \A d \in Int : RunsFrom(m, d, t) => occ(d) \in running
  BY <1>1, StartedLately DEF RunsFrom
<1>3. \A w \in running : \E d \in Int : w = occ(d) /\ RunsFrom(m, d, t)
  BY <1>1 DEF RunsFrom
<1>4. \A d \in Int : RunsFrom(m, d, t) =>
        occ(d).stop \in Int /\ t < occ(d).stop /\ occ(d).stop <= t + DayLen
  <2> TAKE d \in Int
  <2> HAVE RunsFrom(m, d, t)
  <2>1. occ(d).from <= t /\ t < occ(d).stop
    BY DEF RunsFrom, In
  <2>2. /\ occ(d).from = d * DayLen + m.start
        /\ occ(d).stop = d * DayLen + m.start + Length(m.start, m.end) - m.last
        /\ occ(d).from \in Int /\ occ(d).stop \in Int
    BY <1>1, WindowOf
  <2>3. Length(m.start, m.end) \in Int /\ Length(m.start, m.end) <= DayLen
    BY <1>1, LengthOfDay
  <2>4. occ(d).stop = occ(d).from + Length(m.start, m.end) - m.last
    BY <2>2
  <2> QED
    BY <1>1, <2>1, <2>2, <2>3, <2>4
<1>5. Cutoff(m, t) = IF running = {} THEN Never ELSE Max(stops)
  BY Zenon DEF Cutoff
<1>6. \A x : x \in stops <=> \E w \in running : x = w.stop
  OBVIOUS
<1> HIDE DEF running, stops, occ
<1>7. \A x \in stops : x \in Int /\ t < x /\ x <= t + DayLen
  BY <1>3, <1>4, <1>6
<1>8. running # {} => stops # {}
  BY <1>6
<1>9. running # {} => Max(stops) \in stops /\ \A x \in stops : x <= Max(stops)
  <2>1. stops \subseteq Int /\ t + DayLen \in Int
    BY <1>1, <1>7
  <2> QED
    BY <1>7, <1>8, <2>1, GreatestIsMax
<1>10. CASE running = {}
  BY <1>2, <1>5, <1>10 DEF Never
<1>11. CASE running # {}
  <2>1. Cutoff(m, t) = Max(stops) /\ Cutoff(m, t) \in stops
    BY <1>5, <1>9, <1>11
  <2>2. Cutoff(m, t) \in Int /\ t < Cutoff(m, t) /\ Cutoff(m, t) <= t + DayLen
    BY <1>7, <2>1
  <2>3. Cutoff(m, t) # Never
    BY <2>2 DEF Never
  <2>4. \E d \in Int : RunsFrom(m, d, t) /\ Cutoff(m, t) = occ(d).stop
    BY <1>3, <1>6, <2>1
  <2>5. \A d \in Int : RunsFrom(m, d, t) => occ(d).stop <= Cutoff(m, t)
    BY <1>2, <1>6, <1>9, <1>11, <2>1
  <2> QED
    BY <2>2, <2>3, <2>4, <2>5 DEF occ
<1> QED
  BY <1>10, <1>11

\* A menu that is on stays on until its cut-off.
LEMMA OnToCutoff ==
  ASSUME NEW m, m.start \in Clocks, m.end \in Clocks, m.last \in Nat,
         NEW t \in Nat, NEW u \in Nat, t <= u, Cutoff(m, t) # Never, u < Cutoff(m, t)
  PROVE  Cutoff(m, u) # Never
<1>1. PICK d \in Int : /\ RunsFrom(m, d, t)
                       /\ Cutoff(m, t) = Occurrence(d, m.start, m.end, m.last).stop
  BY CutoffOf
<1>4. m.last \in Int
  OBVIOUS
<1>2. Occurrence(d, m.start, m.end, m.last).from \in Int
  BY <1>4, WindowOf
<1>3. RunsFrom(m, d, u)
  BY <1>1, <1>2 DEF RunsFrom, In
<1> QED
  BY <1>3, CutoffOf

\* The earlier of two stops is one of them, and no later than either.
LEMMA EarlierOf ==
  ASSUME NEW a \in Int, NEW b \in Int
  PROVE  /\ Earlier(a, b) \in {a, b}
         /\ a # Never => Earlier(a, b) # Never /\ Earlier(a, b) <= a
         /\ b # Never => Earlier(a, b) # Never /\ Earlier(a, b) <= b
<1>1. Min({a, b}) \in {a, b} /\ Min({a, b}) <= a /\ Min({a, b}) <= b
  <2>1. PICK c \in {a, b} : c <= a /\ c <= b
    OBVIOUS
  <2>2. {a, b} \subseteq Int /\ {a, b} # {} /\ c \in Int /\ \A x \in {a, b} : c <= x
    BY <2>1
  <2> QED
    BY <2>2, LeastIsMin
<1> QED
  BY <1>1 DEF Earlier

\* What was closed until some time, or open, stays so open afterwards.
LEMMA StaysOpen ==
  ASSUME NEW v \in Int, NEW t \in Int, NEW u \in Int, t <= u, ~ClosedAt(v, t)
  PROVE  ~ClosedAt(v, u)
BY DEF ClosedAt, Manual

----------------------------------------------------------------------------
(* A station's hours *)

\* The shape of the rules in force.
GoodRules(s) ==
    /\ MenuList(s) \subseteq MenuRows
    /\ \A d \in Depts : /\ s.stations[d] \in Int /\ s.hours[d] \in StationHours
                        /\ s.hours[d].set => ValidHours(s.hours[d])
    /\ \A z \in PageZones : s.areas[z] \in Int
    /\ s.specials \subseteq SpecialRows

\* The rules loaded from what is stored have it.
LEMMA GoodNow ==
  ASSUME NEW stored, ValidSetup(stored), NEW t
  PROVE  GoodRules(GetSchedule(stored, t))
BY RulesShape DEF GoodRules

\* At most one special day counts for a day.
LEMMA OneSpecial ==
  ASSUME NEW s, s.specials \subseteq SpecialRows, NEW d,
         NEW a \in SpecialsOn(s, d), NEW b \in SpecialsOn(s, d)
  PROVE  a = b
<1>1. a \in SpecialRows /\ b \in SpecialRows
  BY DEF SpecialsOn
<1>2. a = b \/ (Before(a, b) /\ Before(b, a))
  BY DEF SpecialsOn
<1>3. a.from \in Int /\ b.from \in Int /\ a.id \in Int /\ b.id \in Int
  BY <1>1 DEF SpecialRows
<1> QED
  BY <1>2, <1>3 DEF Before

\* The window of a station with set hours: shut, or the period of some opening
\* and closing time that starts that day, less its last orders.
ShutOr(w, d, last) ==
    w = Shut \/ \E a \in Clocks, b \in Clocks : w = OpenWindow(Occurrence(d, a, b, last))

\* The window of a day is shut, or opens at a clock time of that day.
LEMMA WindowShape ==
  ASSUME NEW s, GoodRules(s), NEW dept \in Depts, s.hours[dept].set, NEW d \in Int
  PROVE  ShutOr(Window(s, dept, d), d, s.hours[dept].last)
<1> DEFINE hs == HoursOn(s.hours[dept], dept, d, SpecialsOn(s, d))
           win(x) == IF x.closed THEN Shut
                     ELSE OpenWindow(Occurrence(d, x.open, x.close, s.hours[dept].last))
           windows == {win(x) : x \in hs}
<1>1. s.specials \subseteq SpecialRows /\ SpecialsOn(s, d) \subseteq SpecialRows
  BY DEF GoodRules, SpecialsOn
<1>2. hs # {} /\ \A x \in hs : x.closed \/ (x.open \in Clocks /\ x.close \in Clocks)
  <2>1. CASE \E sp \in SpecialsOn(s, d) : sp.closed
    <3>2. ~(\E sp \in SpecialsOn(s, d) : ~sp.closed /\ dept \in DOMAIN sp.hours)
      BY <1>1, <2>1, OneSpecial
    <3>1. hs = {[closed |-> TRUE]}
      BY <2>1, <3>2 DEF HoursOn
    <3> QED
      BY <3>1
  <2>2. CASE ~(\E sp \in SpecialsOn(s, d) : sp.closed)
             /\ \E sp \in SpecialsOn(s, d) : ~sp.closed /\ dept \in DOMAIN sp.hours
    <3>1. PICK sp \in SpecialsOn(s, d) : dept \in DOMAIN sp.hours
      BY <2>2
    <3>2. hs = {x.hours[dept] : x \in SpecialsOn(s, d)}
      BY <2>2 DEF HoursOn
    <3>3. SpecialsOn(s, d) = {sp}
      BY <1>1, OneSpecial
    <3>4. hs = {sp.hours[dept]}
      BY <3>2, <3>3
    <3>5. sp.hours \in SpecialHours
      BY <1>1 DEF SpecialRows
    <3>6. sp.hours[dept] \in DayHours
      BY <3>1, <3>5 DEF SpecialHours
    <3> QED
      BY <3>4, <3>6 DEF DayHours
  <2>3. CASE ~(\E sp \in SpecialsOn(s, d) : sp.closed)
             /\ ~(\E sp \in SpecialsOn(s, d) : ~sp.closed /\ dept \in DOMAIN sp.hours)
    <3>1. hs = {s.hours[dept].week[WeekDay(d)]}
      BY <2>3 DEF HoursOn
    <3>2. WeekDay(d) \in 0 .. WeekLen - 1
      BY Numbers DEF WeekDay
    <3>3. s.hours[dept] \in StationHours
      BY DEF GoodRules
    <3>4. s.hours[dept].week[WeekDay(d)] \in DayHours
      BY <3>2, <3>3 DEF StationHours
    <3> QED
      BY <3>1, <3>4 DEF DayHours
  <2> QED
    BY <2>1, <2>2, <2>3
<1>3. Window(s, dept, d) = CHOOSE w \in {NoLimit} \cup windows : windows # {} => w \in windows
  BY Zenon DEF Window
<1> HIDE DEF hs
<1>4. windows # {}
  BY <1>2
<1>5. Window(s, dept, d) \in windows
  <2> HIDE DEF windows
  <2> QED
    BY <1>3, <1>4
<1>6. PICK x \in hs : Window(s, dept, d) = win(x)
  BY <1>5
<1>7. CASE x.closed
  BY <1>6, <1>7 DEF ShutOr
<1>8. CASE ~x.closed
  BY <1>2, <1>6, <1>8 DEF ShutOr
<1> QED
  BY <1>7, <1>8

\* A station that is limited today takes orders within today's window, or still
\* within yesterday's, and then until the end of that window.
LEMMA InOneWindow ==
  ASSUME NEW today, NEW yest, NEW t, today.limited
  PROVE  /\ InWindows(today, yest, t).in
              <=> (today.ok /\ In(today, t)) \/ (yest.ok /\ In(yest, t))
         /\ today.ok /\ In(today, t) => InWindows(today, yest, t).stop = today.stop
         /\ ~(today.ok /\ In(today, t)) /\ yest.ok /\ In(yest, t) =>
              InWindows(today, yest, t).stop = yest.stop
<1>1. CASE today.ok /\ In(today, t)
  <2>1. InWindows(today, yest, t) = [in |-> TRUE, stop |-> today.stop]
    BY <1>1 DEF InWindows
  <2> QED
    BY <1>1, <2>1
<1>2. CASE ~(today.ok /\ In(today, t)) /\ yest.ok /\ In(yest, t)
  <2>1. InWindows(today, yest, t) = [in |-> TRUE, stop |-> yest.stop]
    BY <1>2 DEF InWindows
  <2> QED
    BY <1>2, <2>1
<1>3. CASE ~(today.ok /\ In(today, t)) /\ ~(yest.ok /\ In(yest, t))
  <2>1. InWindows(today, yest, t) = [in |-> FALSE, stop |-> Never]
    BY <1>3 DEF InWindows
  <2> QED
    BY <1>3, <2>1
<1> QED
  BY <1>1, <1>2, <1>3

\* A window that is open, in numbers.
LEMMA OpenWindowIs ==
  ASSUME NEW w, NEW d \in Int, NEW last \in Int, ShutOr(w, d, last)
  PROVE  /\ w.limited
         /\ w.ok => \E a \in Clocks, b \in Clocks :
                      /\ w = OpenWindow(Occurrence(d, a, b, last))
                      /\ w.from = Occurrence(d, a, b, last).from
                      /\ w.stop = Occurrence(d, a, b, last).stop
                      /\ w.from \in Int /\ w.stop \in Int
<1>1. CASE w = Shut
  BY <1>1 DEF Shut, NoLimit
<1>2. ASSUME NEW a \in Clocks, NEW b \in Clocks, w = OpenWindow(Occurrence(d, a, b, last))
      PROVE  /\ w.limited /\ w = OpenWindow(Occurrence(d, a, b, last))
             /\ w.from = Occurrence(d, a, b, last).from
             /\ w.stop = Occurrence(d, a, b, last).stop
             /\ w.from \in Int /\ w.stop \in Int
  <2>1. Occurrence(d, a, b, last).from \in Int /\ Occurrence(d, a, b, last).stop \in Int
    BY WindowOf
  <2> QED
    BY <1>2, <2>1 DEF OpenWindow
<1> QED
  BY <1>1, <1>2 DEF ShutOr

\* A station with set hours that takes orders goes on to the end of its window.
LEMMA InHours ==
  ASSUME NEW s, GoodRules(s), NEW dept \in Depts, s.hours[dept].set,
         NEW t \in Int, WithinHours(s, dept, t).in
  PROVE  /\ WithinHours(s, dept, t).stop \in Int /\ t < WithinHours(s, dept, t).stop
         /\ \A u \in Int : t <= u /\ u < WithinHours(s, dept, t).stop => WithinHours(s, dept, u).in
<1> DEFINE last == s.hours[dept].last
           w(d) == Window(s, dept, d)
<1>1. last \in Nat
  <2>1. ValidHours(s.hours[dept]) /\ s.hours[dept] \in StationHours
    BY DEF GoodRules
  <2>2. s.hours[dept].last \in Int /\ s.hours[dept].last >= 0
    BY <2>1 DEF ValidHours, StationHours
  <2> QED
    BY <2>2
<1>2. \A d \in Int : ShutOr(w(d), d, last)
  BY WindowShape
<1> HIDE DEF last, w
<1>3. \A u \in Int : /\ Day(u) \in Int /\ Day(u) - 1 \in Int
                     /\ WithinHours(s, dept, u) = InWindows(w(Day(u)), w(Day(u) - 1), u)
  BY DayAndClock DEF WithinHours, w
<1>4. \A d \in Int : w(d).limited
  BY <1>1, <1>2, OpenWindowIs
<1>5. \A u \in Int : \A d \in {Day(u), Day(u) - 1} :
        w(d).ok /\ In(w(d), u) => WithinHours(s, dept, u).in
  BY <1>3, <1>4, InOneWindow
<1>6. PICK d \in {Day(t), Day(t) - 1} :
        w(d).ok /\ In(w(d), t) /\ WithinHours(s, dept, t).stop = w(d).stop
  BY <1>3, <1>4, InOneWindow
<1>7. d \in Int
  BY <1>3, <1>6
<1>8. PICK a \in Clocks, b \in Clocks : /\ w(d).from = Occurrence(d, a, b, last).from
                                        /\ w(d).stop = Occurrence(d, a, b, last).stop
                                        /\ w(d).from \in Int /\ w(d).stop \in Int
  BY <1>1, <1>2, <1>6, <1>7, OpenWindowIs
<1>9. ASSUME NEW u \in Int, t <= u, u < w(d).stop
      PROVE  WithinHours(s, dept, u).in
  <2>1. In(Occurrence(d, a, b, last), u) /\ In(w(d), u)
    BY <1>6, <1>8, <1>9 DEF In
  <2>2. d \in {Day(u), Day(u) - 1}
    BY <1>1, <1>7, <2>1, StartedLately
  <2> QED
    BY <1>5, <1>6, <2>1, <2>2
<1>10. w(d).stop \in Int /\ t < w(d).stop
  BY <1>6, <1>8 DEF In
<1> QED
  BY <1>6, <1>9, <1>10

----------------------------------------------------------------------------
(* A dish and when it stops *)

\* A dish's own hours, as a menu of every day.
OwnHours(own) == [days |-> 0 .. WeekLen - 1, start |-> own[1], end |-> own[2], last |-> 0]

\* A product's own hours stop after now, and no earlier later on.
LEMMA OwnOf ==
  ASSUME NEW own \in Clocks \X Clocks, NEW t \in Nat
  PROVE  /\ OwnStop(own, t) \in Int
         /\ OwnStop(own, t) # Never => t < OwnStop(own, t)
         /\ \A u \in Nat : t <= u /\ OwnStop(own, t) # Never /\ u < OwnStop(own, t)
                             => OwnStop(own, u) # Never
<1>1. PICK m : m = OwnHours(own)
  OBVIOUS
<1>2. m.start \in Clocks /\ m.end \in Clocks /\ m.last \in Nat
  BY <1>1 DEF OwnHours
<1>3. own # <<>>
  OBVIOUS
<1>4. \A u : OwnStop(own, u) = Cutoff(m, u)
  BY <1>1, <1>3 DEF OwnStop, OwnHours
<1> QED
  BY <1>2, <1>4, CutoffOf, OnToCutoff

\* The latest cut-off of the menus that serve a dish is that of one of them.
LEMMA LatestStop ==
  ASSUME NEW s, GoodRules(s), NEW p, NEW z, NEW t \in Nat, MenuStops(s, p, z, t) # {}
  PROVE  /\ Max(MenuStops(s, p, z, t)) \in Int
         /\ t < Max(MenuStops(s, p, z, t))
         /\ \A u \in Nat : t <= u /\ u < Max(MenuStops(s, p, z, t)) => MenuStops(s, p, z, u) # {}
<1> DEFINE serving == {x \in MenuList(s) : x.enabled /\ AppliesTo(x, z) /\ Serves(x, p)}
<1>1. \A u : MenuStops(s, p, z, u) = {Cutoff(m, u) : m \in serving} \ {Never}
  BY Zenon DEF MenuStops
<1>2. \A m \in serving : m.start \in Clocks /\ m.end \in Clocks /\ m.last \in Nat
  BY DEF GoodRules, MenuRows
<1> HIDE DEF serving
<1>3. \A x \in MenuStops(s, p, z, t) : x \in Int /\ t < x /\ x <= t + DayLen
  BY <1>1, <1>2, CutoffOf
<1>4. Max(MenuStops(s, p, z, t)) \in MenuStops(s, p, z, t)
  <2>1. MenuStops(s, p, z, t) \subseteq Int /\ t + DayLen \in Int
    BY <1>3, Numbers
  <2> QED
    BY <1>3, <2>1, GreatestIsMax
<1>5. PICK m \in serving : Max(MenuStops(s, p, z, t)) = Cutoff(m, t) /\ Cutoff(m, t) # Never
  BY <1>1, <1>4
<1>6. ASSUME NEW u \in Nat, t <= u, u < Cutoff(m, t)
      PROVE  MenuStops(s, p, z, u) # {}
  <2>1. Cutoff(m, u) # Never
    BY <1>2, <1>5, <1>6, OnToCutoff
  <2> QED
    BY <1>1, <2>1
<1> QED
  BY <1>3, <1>4, <1>5, <1>6

\* When a dish can be ordered: nothing of it is closed, its own hours are on, and
\* where menus decide one of them serves it.
CanOrder(s, p, z, t) ==
    /\ ~ClosedAt(s.stations[Products[p].dept], t) /\ ~ClosedAt(s.areas[z], t)
    /\ WithinHours(s, Products[p].dept, t).in
    /\ Products[p].own # <<>> => OwnStop(Products[p].own, t) # Never
    /\ HasMenusFor(s, z) => MenuStops(s, p, z, t) # {}

\* And until when.
Limit(s, p, t) == Earlier(OwnStop(Products[p].own, t), WithinHours(s, Products[p].dept, t).stop)
LastUntil(s, p, z, t) ==
    IF HasMenusFor(s, z) THEN Earlier(Limit(s, p, t), Max(MenuStops(s, p, z, t))) ELSE Limit(s, p, t)

\* What the page shows of a product, from CanOrder and LastUntil.
LEMMA ItemIs ==
  ASSUME NEW s, NEW p, NEW z, NEW t
  PROVE  /\ CanOrder(s, p, z, t) =>
              Item(s, p, z, t).orderable /\ Item(s, p, z, t).until = LastUntil(s, p, z, t)
         /\ ~CanOrder(s, p, z, t) =>
              ~Item(s, p, z, t).orderable /\ Item(s, p, z, t).until = Never
<1> DEFINE h == WithinHours(s, Products[p].dept, t)
           own == OwnStop(Products[p].own, t)
           shut == \/ ClosedAt(s.stations[Products[p].dept], t)
                   \/ ClosedAt(s.areas[z], t)
                   \/ ~h.in
                   \/ Products[p].own # <<>> /\ own = Never
           left == Served(Limit(s, p, t), HasMenusFor(s, z), MenuStops(s, p, z, t), t)
<1>1. Item(s, p, z, t) = IF shut THEN NotOrderable ELSE left
  BY Zenon DEF Item, ItemIn, Limit
<1>2. CanOrder(s, p, z, t) <=> ~shut /\ (HasMenusFor(s, z) => MenuStops(s, p, z, t) # {})
  BY Zenon DEF CanOrder
<1> HIDE DEF shut
<1>3. HasMenusFor(s, z) \in BOOLEAN
  BY DEF HasMenusFor
<1>4. \A l, m, u : \A b \in BOOLEAN :
        /\ ~b => Served(l, b, m, u) = Orderable(l, u)
        /\ b /\ m = {} => Served(l, b, m, u) = NotOrderable
        /\ b /\ m # {} => Served(l, b, m, u) = Orderable(Earlier(l, Max(m)), u)
  BY DEF Served
<1>5. \A u : Orderable(u, t).orderable /\ Orderable(u, t).until = u
  BY DEF Orderable
<1>6. ~NotOrderable.orderable /\ NotOrderable.until = Never
  BY DEF NotOrderable
<1>7. CASE CanOrder(s, p, z, t)
  <2>1. Item(s, p, z, t) = left
    BY <1>1, <1>2, <1>7
  <2>2. left = Orderable(LastUntil(s, p, z, t), t)
    <3>1. CASE HasMenusFor(s, z)
      <4>1. MenuStops(s, p, z, t) # {}
        BY <1>2, <1>7, <3>1
      <4>2. LastUntil(s, p, z, t) = Earlier(Limit(s, p, t), Max(MenuStops(s, p, z, t)))
        BY <3>1 DEF LastUntil
      <4> QED
        <5>1. PICK l, b, m : /\ l = Limit(s, p, t) /\ b = HasMenusFor(s, z)
                             /\ m = MenuStops(s, p, z, t)
          OBVIOUS
        <5>2. b \in BOOLEAN /\ b /\ m # {}
          BY <1>3, <3>1, <4>1, <5>1
        <5>3. Served(l, b, m, t) = Orderable(Earlier(l, Max(m)), t)
          BY <5>2 DEF Served
        <5> QED
          BY Zenon, <4>2, <5>1, <5>3
    <3>2. CASE ~HasMenusFor(s, z)
      <4>2. LastUntil(s, p, z, t) = Limit(s, p, t)
        BY <3>2 DEF LastUntil
      <4> QED
        BY <1>3, <1>4, <3>2, <4>2
    <3> QED
      BY <3>1, <3>2
  <2> QED
    BY <1>5, <1>7, <2>1, <2>2
<1>8. CASE ~CanOrder(s, p, z, t)
  <2>1. CASE shut
    BY <1>1, <1>6, <1>8, <2>1
  <2>2. CASE ~shut
    <3>1. HasMenusFor(s, z) /\ MenuStops(s, p, z, t) = {}
      BY <1>2, <1>8, <2>2
    <3>2. Item(s, p, z, t) = NotOrderable
      BY Zenon, <1>1, <1>3, <1>4, <2>2, <3>1
    <3> QED
      BY <1>6, <1>8, <3>2
  <2> QED
    BY <2>1, <2>2
<1> QED
  BY <1>7, <1>8

\* A dish of a station with set hours that can be ordered can be ordered for a
\* while, up to the time that is told.
LEMMA DishKept ==
  ASSUME NEW s, GoodRules(s), NEW z \in PageZones, NEW p \in DOMAIN Products,
         s.hours[Products[p].dept].set, NEW t \in Nat, CanOrder(s, p, z, t)
  PROVE  /\ LastUntil(s, p, z, t) \in Int /\ t < LastUntil(s, p, z, t)
         /\ \A u \in Nat : t <= u /\ u < LastUntil(s, p, z, t) => CanOrder(s, p, z, u)
<1> DEFINE dept == Products[p].dept
           own == Products[p].own
           h(u) == WithinHours(s, dept, u)
           stops(u) == MenuStops(s, p, z, u)
<1>1. dept \in Depts /\ own \in {<<>>} \cup (Clocks \X Clocks)
  BY ScheduleAssumption
<1>2. s.stations[dept] \in Int /\ s.areas[z] \in Int
  BY <1>1 DEF GoodRules
<1>3. /\ h(t).in /\ ~ClosedAt(s.stations[dept], t) /\ ~ClosedAt(s.areas[z], t)
      /\ own # <<>> => OwnStop(own, t) # Never
      /\ HasMenusFor(s, z) => stops(t) # {}
  BY DEF CanOrder
<1>4. /\ h(t).stop \in Int /\ t < h(t).stop
      /\ \A u \in Int : t <= u /\ u < h(t).stop => h(u).in
  BY <1>1, <1>3, InHours
<1>5. /\ OwnStop(own, t) \in Int
      /\ OwnStop(own, t) # Never => t < OwnStop(own, t)
      /\ \A u \in Nat : t <= u /\ OwnStop(own, t) # Never /\ u < OwnStop(own, t)
                          => OwnStop(own, u) # Never
  <2>1. CASE own = <<>>
    BY <2>1 DEF OwnStop, Never
  <2>2. CASE own \in Clocks \X Clocks
    BY <2>2, OwnOf
  <2> QED
    BY <1>1, <2>1, <2>2
<1>6. h(t).stop # Never
  BY <1>4 DEF Never
<1>7. /\ Limit(s, p, t) \in {OwnStop(own, t), h(t).stop}
      /\ Limit(s, p, t) # Never /\ Limit(s, p, t) <= h(t).stop
      /\ OwnStop(own, t) # Never => Limit(s, p, t) <= OwnStop(own, t)
  BY <1>4, <1>5, <1>6, EarlierOf DEF Limit
<1>8. Limit(s, p, t) \in Int /\ t < Limit(s, p, t)
  BY <1>4, <1>5, <1>7
<1>9. HasMenusFor(s, z) =>
        /\ Max(stops(t)) \in Int /\ t < Max(stops(t)) /\ Max(stops(t)) # Never
        /\ \A u \in Nat : t <= u /\ u < Max(stops(t)) => stops(u) # {}
  <2> HAVE HasMenusFor(s, z)
  <2>1. /\ Max(stops(t)) \in Int /\ t < Max(stops(t))
        /\ \A u \in Nat : t <= u /\ u < Max(stops(t)) => stops(u) # {}
    BY <1>3, LatestStop
  <2> QED
    BY <2>1 DEF Never
<1>10. /\ LastUntil(s, p, z, t) \in Int /\ t < LastUntil(s, p, z, t)
       /\ LastUntil(s, p, z, t) <= Limit(s, p, t)
       /\ HasMenusFor(s, z) => LastUntil(s, p, z, t) <= Max(stops(t))
  <2>1. CASE HasMenusFor(s, z)
    <3>1. LastUntil(s, p, z, t) = Earlier(Limit(s, p, t), Max(stops(t)))
      BY <2>1 DEF LastUntil
    <3> QED
      BY <1>7, <1>8, <1>9, <2>1, <3>1, EarlierOf
  <2>2. CASE ~HasMenusFor(s, z)
    BY <1>8, <2>2 DEF LastUntil
  <2> QED
    BY <2>1, <2>2
<1>11. ASSUME NEW u \in Nat, t <= u, u < LastUntil(s, p, z, t)
       PROVE  CanOrder(s, p, z, u)
  <2>1. ~ClosedAt(s.stations[dept], u) /\ ~ClosedAt(s.areas[z], u)
    BY <1>2, <1>3, <1>11, StaysOpen
  <2>2. u < Limit(s, p, t) /\ u < h(t).stop
    BY <1>4, <1>7, <1>8, <1>10, <1>11
  <2>3. h(u).in
    BY <1>4, <1>11, <2>2
  <2>4. own # <<>> => OwnStop(own, u) # Never
    <3> HAVE own # <<>>
    <3>1. OwnStop(own, t) # Never /\ u < OwnStop(own, t)
      BY <1>3, <1>5, <1>7, <1>8, <2>2
    <3> QED
      BY <1>5, <1>11, <3>1
  <2>5. HasMenusFor(s, z) => stops(u) # {}
    <3> HAVE HasMenusFor(s, z)
    <3>1. u < Max(stops(t))
      BY <1>9, <1>10, <1>11
    <3> QED
      BY <1>9, <1>11, <3>1
  <2> QED
    BY <2>1, <2>3, <2>4, <2>5 DEF CanOrder
<1> QED
  BY <1>10, <1>11

\* The last-orders time a guest is told is kept: for every menu, special day and
\* hours past midnight, a dish that can be ordered until some time stays orderable
\* to the last moment before it, unless someone changes the set-up.
THEOREM LastOrdersKept == Spec => []UntilIsKept
<1>1. ASSUME HoursInv
      PROVE  UntilIsKept
  <2>1. PICK s, t : s = Current /\ t = now
    OBVIOUS
  <2>2. GoodRules(s) /\ t \in Nat
    BY <1>1, <2>1, GoodNow DEF HoursInv, TypeOK, Current
  <2>3. ASSUME NEW z \in PageZones, NEW p \in DOMAIN Products, s.hours[Products[p].dept].set,
               NEW u \in t .. Item(s, p, z, t).until - 1
        PROVE  Item(s, p, z, u).orderable
    <3>1. CASE CanOrder(s, p, z, t)
      <4>1. Item(s, p, z, t).until = LastUntil(s, p, z, t)
        BY <3>1, ItemIs
      <4>2. LastUntil(s, p, z, t) \in Int
        BY <2>2, <2>3, <3>1, DishKept
      <4>3. u \in Nat /\ t <= u /\ u < LastUntil(s, p, z, t)
        BY <2>2, <2>3, <4>1, <4>2
      <4>4. CanOrder(s, p, z, u)
        BY <2>2, <2>3, <3>1, <4>3, DishKept
      <4> QED
        BY <4>4, ItemIs
    <3>2. CASE ~CanOrder(s, p, z, t)
      <4>1. Item(s, p, z, t).until = -1
        BY <3>2, ItemIs DEF Never
      <4>2. u \in Int /\ t <= u /\ u <= -2
        BY <2>2, <2>3, <4>1
      <4> QED
        BY <2>2, <4>2
    <3> QED
      BY <3>1, <3>2
  <2>4. \A z \in PageZones, p \in DOMAIN Products : s.hours[Products[p].dept].set =>
          \A u \in t .. Item(s, p, z, t).until - 1 : Item(s, p, z, u).orderable
    BY <2>3
  <2> QED
    BY Zenon, <2>1, <2>4 DEF UntilIsKept
<1> QED
  BY <1>1, HoursInvariant, PTL

\* A dish on a board is one that can be ordered.
LEMMA OnBoard ==
  ASSUME NEW s, NEW z, NEW t, NEW p
  PROVE  /\ p \in Orderables(Board(s, z, t)) <=> p \in DOMAIN Products /\ CanOrder(s, p, z, t)
         /\ p \in Orderables(Board(s, z, t)) => Board(s, z, t)[p].until = LastUntil(s, p, z, t)
<1>1. DOMAIN Board(s, z, t) = DOMAIN Products
      /\ \A x \in DOMAIN Products : Board(s, z, t)[x] = Item(s, x, z, t)
  BY DEF Board
<1>2. p \in Orderables(Board(s, z, t)) <=> p \in DOMAIN Products /\ Item(s, p, z, t).orderable
  BY <1>1 DEF Orderables
<1>3. /\ CanOrder(s, p, z, t) =>
           Item(s, p, z, t).orderable /\ Item(s, p, z, t).until = LastUntil(s, p, z, t)
      /\ ~CanOrder(s, p, z, t) => ~Item(s, p, z, t).orderable
  BY ItemIs
<1> QED
  BY <1>1, <1>2, <1>3

\* When every dish of a station that can be ordered stops at the same time, that
\* is when the station ends, and its alerts are due a tick before.
LEMMA EndIsDue ==
  ASSUME now \in Nat, NEW s, NEW d \in Depts, NEW z \in RuleZones,
         OfDept(d) \cap Orderables(Board(s, z, now)) # {},
         \A p \in OfDept(d) \cap Orderables(Board(s, z, now)) : Board(s, z, now)[p].until = now + 1,
         NEW who \in {z, "staff"}
  PROVE  [dept |-> d, to |-> who, end |-> now + 1] \in AlertsDue(s)
<1>1. PICK board : board = Board(s, z, now)
  OBVIOUS
<1>2. {board[p].until : p \in OfDept(d) \cap Orderables(board)} = {now + 1}
  BY <1>1
<1>3. now + 1 # Never /\ now + 1 >= now + 1
  BY DEF Never
<1>4. StationEnds(d, board) = {now + 1}
  BY <1>2, <1>3 DEF StationEnds
<1>5. now + 1 \in now + 1 .. now + AlertLead
  BY Numbers
<1>6. \A ends : now + 1 \in ends => [dept |-> d, to |-> who, end |-> now + 1] \in AlertsFor(d, z, ends)
  BY <1>5 DEF AlertsFor
<1>7. [dept |-> d, to |-> who, end |-> now + 1] \in AlertsFor(d, z, StationEnds(d, board))
  BY <1>4, <1>6
<1> DEFINE sets == {AlertsFor(x[1], x[2], StationEnds(x[1], Board(s, x[2], now))) : x \in Depts \X RuleZones}
<1>8. AlertsFor(d, z, StationEnds(d, Board(s, z, now))) \in sets
  <2>1. <<d, z>> \in Depts \X RuleZones /\ <<d, z>>[1] = d /\ <<d, z>>[2] = z
    OBVIOUS
  <2> QED
    BY <2>1
<1>9. AlertsDue(s) = UNION sets
  BY Zenon DEF AlertsDue
<1> QED
  BY <1>1, <1>7, <1>8, <1>9

\* The clock alone never ends the orders of a station with set hours unannounced:
\* however short the lead, the guests of the area and the waiters were alerted, for
\* the watcher looked at the moment before and the end it saw was this one.
THEOREM StopsAnnounced == Spec => EveryStopAnnounced
<1>1. ASSUME HoursInv, ClockMoves, NEW d \in Depts, NEW z \in RuleZones,
             Current.hours[d].set, Serving(d, z, now), ~Serving(d, z, now'), NEW who \in {z, "staff"}
      PROVE  [dept |-> d, to |-> who, end |-> now'] \in DOMAIN pushed
  <2>1. now \in Nat /\ ValidSetup(setup) /\ now' = now + 1 /\ checked
    BY <1>1 DEF HoursInv, TypeOK, ClockMoves
  <2>2. PICK s : s = GetSchedule(setup, now)
    OBVIOUS
  <2>3. GoodRules(s) /\ s.hours[d].set
    BY <1>1, <2>1, <2>2, GoodNow DEF Current
  <2>4. Board(s, z, now + 1) = Board(GetSchedule(setup, now + 1), z, now + 1)
    <3>1. now \in Int /\ now + 1 \in Int /\ now <= now + 1
      BY <2>1
    <3> QED
      BY <2>1, <2>2, <3>1, SameRulesLater
  <2>5. OfDept(d) \cap Orderables(Board(s, z, now)) # {}
    BY <1>1, <2>2 DEF Serving
  <2>6. OfDept(d) \cap Orderables(Board(s, z, now + 1)) = {}
    BY <1>1, <2>1, <2>4 DEF Serving
  <2>7. z \in PageZones
    BY DEF RuleZones, PageZones
  <2>8. ASSUME NEW p \in OfDept(d) \cap Orderables(Board(s, z, now))
        PROVE  Board(s, z, now)[p].until = now + 1
    <3>1. p \in DOMAIN Products /\ Products[p].dept = d
      BY DEF OfDept
    <3>2. CanOrder(s, p, z, now) /\ Board(s, z, now)[p].until = LastUntil(s, p, z, now)
      BY OnBoard
    <3>3. /\ LastUntil(s, p, z, now) \in Int /\ now < LastUntil(s, p, z, now)
          /\ \A u \in Nat : now <= u /\ u < LastUntil(s, p, z, now) => CanOrder(s, p, z, u)
      BY <2>1, <2>3, <2>7, <3>1, <3>2, DishKept
    <3>4. ~CanOrder(s, p, z, now + 1)
      BY <2>6, <3>1, OnBoard
    <3>5. ~(now + 1 < LastUntil(s, p, z, now))
      BY <2>1, <3>3, <3>4
    <3>6. LastUntil(s, p, z, now) = now + 1
      BY <2>1, <3>3, <3>5
    <3> QED
      BY <3>2, <3>6
  <2>9. [dept |-> d, to |-> who, end |-> now + 1] \in AlertsDue(s)
    BY <1>1, <2>1, <2>5, <2>8, EndIsDue
  <2>10. AlertsDue(s) \subseteq DOMAIN pushed
    BY <1>1, <2>1, <2>2 DEF HoursInv, AlertsOut
  <2> QED
    BY <2>1, <2>9, <2>10
<1>2. HoursInv /\ [Next]_vars =>
        [ClockMoves => \A d \in Depts, z \in RuleZones :
           Current.hours[d].set /\ Serving(d, z, now) /\ ~Serving(d, z, now')
           => \A who \in {z, "staff"} : [dept |-> d, to |-> who, end |-> now'] \in DOMAIN pushed]_vars
  BY <1>1
<1> QED
  BY <1>2, HoursInvariant, PTL DEF Spec, EveryStopAnnounced

----------------------------------------------------------------------------
(* The manager's warnings *)

\* A dish that no menu of an area ever serves cannot be ordered there.
LEMMA NeverOnMenu ==
  ASSUME NEW s, NEW w \in NeverServed(s), NEW t
  PROVE  ~Item(s, w[2], w[1], t).orderable
<1>1. PICK z \in RuleZones : /\ HasMenusFor(s, z)
                             /\ w \in {z} \X {p \in DOMAIN Products :
                                  ~\E m \in MenuList(s) : m.enabled /\ AppliesTo(m, z) /\ Serves(m, p)}
  BY DEF NeverServed
<1>2. w[1] = z /\ ~\E m \in MenuList(s) : m.enabled /\ AppliesTo(m, z) /\ Serves(m, w[2])
  BY <1>1
<1>3. MenuStops(s, w[2], z, t) = {}
  BY <1>2 DEF MenuStops
<1>4. ~CanOrder(s, w[2], z, t)
  BY <1>1, <1>3 DEF CanOrder
<1> QED
  BY <1>2, <1>4, ItemIs

\* The time of day of an occurrence's moment is that of its offset.
LEMMA ClockOf ==
  ASSUME NEW d \in Int, NEW x \in Int
  PROVE  Clock(d * DayLen + x) = Clock(x)
<1>1. PICK t : t = d * DayLen + x
  OBVIOUS
<1>2. t \in Int /\ DayLen \in Nat /\ DayLen > 0
  BY <1>1, Numbers
<1>3. /\ Day(t) \in Int /\ Clock(t) \in Clocks /\ t = Day(t) * DayLen + Clock(t)
      /\ Day(x) \in Int /\ Clock(x) \in Clocks /\ x = Day(x) * DayLen + Clock(x)
  BY <1>2, DayAndClock
<1>4. /\ Clock(t) \in Int /\ 0 <= Clock(t) /\ Clock(t) < DayLen
      /\ Clock(x) \in Int /\ 0 <= Clock(x) /\ Clock(x) < DayLen
  BY <1>2, <1>3 DEF Clocks
<1>5. PICK q \in Int, c \in Int, n \in Int :
        /\ q = Day(x) /\ c = Clock(x) /\ n = DayLen /\ x = q * n + c /\ t = d * n + x
  <2>1. Day(x) \in Int /\ Clock(x) \in Int /\ DayLen \in Int
    BY <1>2, <1>3, <1>4
  <2> QED
    BY Zenon, <1>1, <1>3, <2>1
<1>6. t = (d + q) * n + c
  BY <1>5
<1>7. Day(t) = d + q
  <2>1. (d + q) * DayLen <= t /\ t < (d + q + 1) * DayLen /\ d + q \in Int
    BY <1>2, <1>4, <1>5, <1>6
  <2> QED
    BY <1>2, <2>1, DayOf
<1>8. (d + q) * n + Clock(t) = (d + q) * n + c
  BY <1>3, <1>5, <1>6, <1>7
<1>9. Clock(t) = c
  <2>1. (d + q) * n \in Int /\ Clock(t) \in Int
    BY <1>4
  <2> QED
    BY <1>8, <2>1
<1> QED
  BY <1>1, <1>5, <1>9

\* Whole weeks do not change the day of the week.
LEMMA WeeksPass ==
  ASSUME NEW wd \in 0 .. WeekLen - 1, NEW k \in Int
  PROVE  WeekDay(wd - k * WeekLen) = wd
<1>1. PICK x : x = wd - k * WeekLen
  OBVIOUS
<1>2. x \in Int /\ WeekLen \in Nat /\ WeekLen > 0
  BY <1>1, Numbers
<1>3. x \div WeekLen \in Int /\ x % WeekLen \in 0 .. WeekLen - 1
      /\ x = (x \div WeekLen) * WeekLen + (x % WeekLen)
  BY <1>2
<1>4. PICK q \in Int, r \in Int : /\ q = x \div WeekLen /\ r = x % WeekLen
                                  /\ 0 <= r /\ r < WeekLen /\ x = q * WeekLen + r
  BY <1>2, <1>3
<1>5. (q + k) * WeekLen = wd - r
  BY <1>1, <1>2, <1>4
<1>6. q + k = 0
  BY <1>2, <1>4, <1>5
<1>7. r = wd
  BY <1>2, <1>4, <1>5, <1>6
<1> QED
  BY <1>1, <1>4, <1>7 DEF WeekDay

\* Some moment of the week ahead is a given offset into a given day of the week.
LEMMA SomeMoment ==
  ASSUME NEW now0 \in Nat, NEW wd \in 0 .. WeekLen - 1, NEW x \in Int
  PROVE  \E d \in Int : /\ WeekDay(d) = wd
                        /\ d * DayLen + x \in now0 .. now0 + WeekLen * DayLen
<1>1. PICK week : week = WeekLen * DayLen
  OBVIOUS
<1>2. week \in Nat /\ week > 0 /\ DayLen \in Nat /\ WeekLen \in Nat
  BY <1>1, Numbers
<1>3. PICK gap : gap = wd * DayLen + x - now0
  OBVIOUS
<1>4. gap \in Int
  BY <1>2, <1>3
<1>5. gap \div week \in Int /\ gap % week \in 0 .. week - 1
      /\ gap = (gap \div week) * week + (gap % week)
  BY <1>2, <1>4
<1>6. PICK k \in Int, r \in 0 .. week - 1 : gap = k * week + r
  BY <1>5
<1>7. wd - k * WeekLen \in Int
  BY <1>2, <1>6
<1>8. (wd - k * WeekLen) * DayLen + x = now0 + r
  BY <1>1, <1>2, <1>3, <1>6
<1>9. now0 + r \in now0 .. now0 + week
  BY <1>2, <1>6
<1> QED
  BY <1>1, <1>6, <1>7, <1>8, <1>9, WeeksPass

\* The time of day of a moment within a daily period lies within its times.
LEMMA InPeriod ==
  ASSUME NEW a \in Clocks, NEW b \in Clocks, NEW last \in Nat, NEW t \in Int, NEW d \in Int,
         d \in {Day(t), Day(t) - 1}, In(Occurrence(d, a, b, last), t)
  PROVE  /\ b <= a => Clock(t) >= a \/ Clock(t) < b
         /\ ~(b <= a) => Clock(t) >= a /\ Clock(t) < b
<1>1. /\ Day(t) \in Int /\ Clock(t) \in Clocks /\ t = Day(t) * DayLen + Clock(t)
      /\ DayLen \in Nat /\ last \in Int
  BY DayAndClock, Numbers
<1>2. d * DayLen + a <= t /\ t < d * DayLen + a + Length(a, b) - last
  <2>1. /\ Occurrence(d, a, b, last).from = d * DayLen + a
        /\ Occurrence(d, a, b, last).stop = d * DayLen + a + Length(a, b) - last
    BY <1>1, WindowOf
  <2> QED
    BY <2>1 DEF In
<1>3. /\ a \in Int /\ 0 <= a /\ a < DayLen /\ b \in Int /\ 0 <= b /\ b < DayLen
      /\ Clock(t) \in Int /\ 0 <= Clock(t) /\ Clock(t) < DayLen
  BY <1>1 DEF Clocks
<1>4. CASE d = Day(t)
  BY <1>1, <1>2, <1>3, <1>4 DEF Length
<1>5. CASE d = Day(t) - 1
  <2>1. d * DayLen = Day(t) * DayLen - DayLen
    BY <1>1, <1>5
  <2> QED
    BY <1>1, <1>2, <1>3, <2>1 DEF Length
<1> QED
  BY <1>4, <1>5

\* Without special days a station with the same hours every day has the same
\* window every day.
LEMMA DailyWindow ==
  ASSUME NEW s, GoodRules(s), s.specials = {}, NEW dept \in Depts, s.hours[dept].set,
         ~s.hours[dept].perDay, NEW d \in Int
  PROVE  Window(s, dept, d) = OpenWindow(Occurrence(d, s.hours[dept].week[0].open,
                                                    s.hours[dept].week[0].close, s.hours[dept].last))
<1>1. PICK h : h = s.hours[dept]
  OBVIOUS
<1>2. h \in StationHours /\ h.set /\ ~h.perDay
  BY <1>1 DEF GoodRules
<1>3. WeekDay(d) \in 0 .. WeekLen - 1
  BY Numbers DEF WeekDay
<1>4. DOMAIN h.week = 0 .. WeekLen - 1
  BY <1>2 DEF StationHours
<1>5. h.week[WeekDay(d)] = h.week[0] /\ ~h.week[0].closed
  <2>1. ~h.week[WeekDay(d)].closed /\ h.week[WeekDay(d)] = h.week[0]
    BY <1>2, <1>3, <1>4 DEF StationHours
  <2> QED
    BY <2>1
<1>6. SpecialsOn(s, d) = {}
  BY DEF SpecialsOn
<1>7. HoursOn(h, dept, d, SpecialsOn(s, d)) = {h.week[0]}
  BY <1>2, <1>5, <1>6 DEF HoursOn
<1> DEFINE win(x) == IF x.closed THEN Shut
                     ELSE OpenWindow(Occurrence(d, x.open, x.close, s.hours[dept].last))
           windows == {win(x) : x \in HoursOn(s.hours[dept], dept, d, SpecialsOn(s, d))}
<1>8. Window(s, dept, d) = CHOOSE w \in {NoLimit} \cup windows : windows # {} => w \in windows
  BY Zenon DEF Window
<1>9. windows = {win(h.week[0])}
  BY <1>1, <1>7
<1>10. win(h.week[0]) = OpenWindow(Occurrence(d, h.week[0].open, h.week[0].close, h.last))
  BY <1>1, <1>5
<1> HIDE DEF windows, win
<1>11. Window(s, dept, d) = win(h.week[0])
  BY <1>8, <1>9
<1> QED
  BY <1>1, <1>10, <1>11

\* A menu said to run outside a station's hours is on at some moment of the week
\* ahead when the station takes no orders.
LEMMA RunsOutside ==
  ASSUME NEW s, GoodRules(s), s.specials = {}, NEW w \in OutsideHours(s), NEW now0 \in Nat
  PROVE  \E t \in now0 .. now0 + WeekLen * DayLen :
           Cutoff(w[1], t) # Never /\ ~WithinHours(s, w[2], t).in
<1>1. PICK m \in MenuList(s), dept \in Depts :
         /\ w = <<m, dept>> /\ s.hours[dept].set /\ ~s.hours[dept].perDay
         /\ ReachesBeyond(m, s.hours[dept])
  BY DEF OutsideHours
<1>2. PICK h : h = s.hours[dept]
  OBVIOUS
<1>3. h \in StationHours /\ h.set /\ ValidHours(h)
  BY <1>1, <1>2 DEF GoodRules
<1>4. h.last \in Nat /\ h.week[0].open \in Clocks /\ h.week[0].close \in Clocks
  <2>1. h.last \in Int /\ h.last >= 0 /\ 0 \in 0 .. WeekLen - 1
    BY <1>3, Numbers DEF StationHours, ValidHours
  <2>2. h.week[0] \in DayHours
    BY <1>3, <2>1 DEF StationHours
  <2> QED
    BY <2>1, <2>2 DEF DayHours
<1>5. /\ m.start \in Clocks /\ m.end \in Clocks /\ m.last \in Nat
      /\ m.days \subseteq 0 .. WeekLen - 1 /\ m.days # {}
  BY DEF GoodRules, MenuRows
<1>6. PICK i \in 0 .. Length(m.start, m.end) - m.last - 1 :
        LET c == Clock(m.start + i)
        IN  ~(IF h.week[0].close <= h.week[0].open THEN c >= h.week[0].open \/ c < h.week[0].close
              ELSE c >= h.week[0].open /\ c < h.week[0].close)
  BY <1>1, <1>2 DEF ReachesBeyond
<1>7. PICK wd \in m.days : wd \in 0 .. WeekLen - 1
  BY <1>5
<1>8. /\ m.start \in Int /\ m.start + i \in Int /\ 0 <= i
      /\ i < Length(m.start, m.end) - m.last /\ Length(m.start, m.end) \in Int
  BY <1>5, LengthOfDay, Numbers DEF Clocks
<1>9. PICK d \in Int : WeekDay(d) = wd /\ d * DayLen + (m.start + i) \in now0 .. now0 + WeekLen * DayLen
  BY <1>7, <1>8, SomeMoment
<1>10. PICK t : t = d * DayLen + (m.start + i)
  OBVIOUS
<1>11. t \in now0 .. now0 + WeekLen * DayLen /\ t \in Nat /\ DayLen \in Nat
  BY <1>9, <1>10, Numbers
<1>12. Cutoff(m, t) # Never
  <2>3. /\ Occurrence(d, m.start, m.end, m.last).from = d * DayLen + m.start
        /\ Occurrence(d, m.start, m.end, m.last).stop
             = d * DayLen + m.start + Length(m.start, m.end) - m.last
    BY DEF Occurrence
  <2>4. d * DayLen \in Int /\ m.last \in Int
    BY <1>5, <1>11
  <2>1. In(Occurrence(d, m.start, m.end, m.last), t)
    BY <1>8, <1>10, <1>11, <2>3, <2>4 DEF In
  <2>2. RunsFrom(m, d, t)
    BY <1>7, <1>9, <2>1 DEF RunsFrom
  <2> QED
    BY <1>5, <1>11, <2>2, CutoffOf
<1>13. Clock(t) = Clock(m.start + i)
  BY <1>8, <1>10, ClockOf
<1>14. ~WithinHours(s, dept, t).in
  <2> SUFFICES ASSUME WithinHours(s, dept, t).in PROVE FALSE
    OBVIOUS
  <2>1. \A x \in Int : Window(s, dept, x) =
          OpenWindow(Occurrence(x, h.week[0].open, h.week[0].close, h.last))
    BY <1>1, <1>2, DailyWindow
  <2>2. t \in Int /\ Day(t) \in Int /\ Day(t) - 1 \in Int
    BY <1>11, DayAndClock
  <2>3. \A o : OpenWindow(o).limited /\ OpenWindow(o).from = o.from /\ OpenWindow(o).stop = o.stop
    BY DEF OpenWindow
  <2>4. WithinHours(s, dept, t) = InWindows(Window(s, dept, Day(t)), Window(s, dept, Day(t) - 1), t)
    BY DEF WithinHours
  <2>5. Window(s, dept, Day(t)).limited
    BY <2>1, <2>2, <2>3
  <2>6. In(Window(s, dept, Day(t)), t) \/ In(Window(s, dept, Day(t) - 1), t)
    BY <2>4, <2>5, InOneWindow
  <2>7. PICK x \in {Day(t), Day(t) - 1} : In(Window(s, dept, x), t)
    BY <2>6
  <2>8. x \in Int /\ In(Occurrence(x, h.week[0].open, h.week[0].close, h.last), t)
    BY <2>1, <2>2, <2>3, <2>7 DEF In
  <2>9. /\ h.week[0].close <= h.week[0].open => Clock(t) >= h.week[0].open \/ Clock(t) < h.week[0].close
        /\ ~(h.week[0].close <= h.week[0].open) =>
             Clock(t) >= h.week[0].open /\ Clock(t) < h.week[0].close
    BY <1>4, <2>2, <2>7, <2>8, InPeriod
  <2> QED
    BY <1>6, <1>13, <2>9
<1> QED
  BY <1>1, <1>11, <1>12, <1>14

\* The warnings the manager is shown are true for every set-up: a dish that is
\* warned about is never orderable in that area, at any time, and a menu said to
\* run outside a station's hours does so within a week.
THEOREM WarningsHold == Spec => []WarningsTrue
<1>1. ASSUME HoursInv
      PROVE  WarningsTrue
  <2>1. now \in Nat /\ GoodRules(Current)
    BY <1>1, GoodNow DEF HoursInv, TypeOK, Current
  <2>2. \A w \in NeverServed(Current), t \in now .. now + WeekLen * DayLen :
          ~Item(Current, w[2], w[1], t).orderable
    BY NeverOnMenu
  <2>3. Current.specials = {} =>
          \A w \in OutsideHours(Current) : \E t \in now .. now + WeekLen * DayLen :
             Cutoff(w[1], t) # Never /\ ~WithinHours(Current, w[2], t).in
    BY <2>1, RunsOutside
  <2> QED
    BY Zenon, <2>2, <2>3 DEF WarningsTrue
<1> QED
  BY <1>1, HoursInvariant, PTL

----------------------------------------------------------------------------
(* What a dish costs *)

\* A discount leaves a price.
LEMMA DiscountLeaves ==
  ASSUME NEW m \in MenuRows, NEW base \in Nat
  PROVE  Discounted(m, base) \in Nat
<1>1. m.value \in Int
  BY DEF MenuRows
<1>2. PICK x : x = IF m.disc = "percent" THEN (base * (100 - m.value) + 50) \div 100
                   ELSE base - m.value
  OBVIOUS
<1>3. (base * (100 - m.value) + 50) \div 100 \in Int /\ base - m.value \in Int
  BY <1>1
<1>4. x \in Int
  BY <1>2, <1>3
<1>5. PICK b \in {0, x} : 0 <= b /\ x <= b
  BY <1>4
<1>6. {0, x} \subseteq Int /\ {0, x} # {} /\ b \in Int /\ \A y \in {0, x} : y <= b
  BY <1>4, <1>5
<1>7. Max({0, x}) \in Int /\ 0 <= Max({0, x})
  BY <1>6, GreatestIsMax
<1>8. Discounted(m, base) = Max({0, x})
  BY Zenon, <1>2 DEF Discounted
<1> QED
  BY <1>7, <1>8

\* The prices that the rules up to place i offer for a dish.
Offers(s, p, z, t, i) ==
    {Products[p].price} \cup
      {Discounted(s.prices[j], Products[p].price) :
         j \in {k \in DOMAIN s.prices : k <= i /\ RuleRuns(s.prices[k], p, z, t)}}

\* Rules that can be gone through: rows in places from one up.
Listed(s) == /\ \A i \in DOMAIN s.prices : s.prices[i] \in MenuRows
             /\ \E n \in Nat : DOMAIN s.prices \subseteq 1 .. n

\* The cheapest offer is one of them.
LEMMA CheapestOffer ==
  ASSUME NEW s, Listed(s), NEW p \in DOMAIN Products, NEW z, NEW t, NEW i
  PROVE  /\ Offers(s, p, z, t, i) \subseteq Nat
         /\ Min(Offers(s, p, z, t, i)) \in Offers(s, p, z, t, i)
         /\ \A x \in Offers(s, p, z, t, i) : Min(Offers(s, p, z, t, i)) <= x
<1>1. Products[p].price \in Nat
  BY ScheduleAssumption
<1>2. \A j \in DOMAIN s.prices : Discounted(s.prices[j], Products[p].price) \in Nat
  BY <1>1, DiscountLeaves DEF Listed
<1>3. Offers(s, p, z, t, i) \subseteq Nat /\ Offers(s, p, z, t, i) # {}
  BY <1>1, <1>2 DEF Offers
<1>4. Offers(s, p, z, t, i) \subseteq Int /\ 0 \in Int /\ \A x \in Offers(s, p, z, t, i) : 0 <= x
  BY <1>3
<1> QED
  BY <1>3, <1>4, LeastIsMin

\* A rule that is strictly lower takes the cheapest offer's place.
LEMMA BetterOffer ==
  ASSUME NEW s, Listed(s), NEW p \in DOMAIN Products, NEW z, NEW t, NEW i \in Nat, i # 0
  PROVE  Better(s, p, z, t, i, Min(Offers(s, p, z, t, i - 1))) = Min(Offers(s, p, z, t, i))
<1> DEFINE base == Products[p].price
           old == Offers(s, p, z, t, i - 1)
           new == Offers(s, p, z, t, i)
           offer == Discounted(s.prices[i], base)
<1>1. DOMAIN s.prices \subseteq Nat
  BY DEF Listed
<1>2. \A k \in DOMAIN s.prices : k <= i <=> k <= i - 1 \/ k = i
  BY <1>1
<1>3. /\ old \subseteq Nat /\ Min(old) \in old /\ \A x \in old : Min(old) <= x
      /\ new \subseteq Nat /\ Min(new) \in new /\ \A x \in new : Min(new) <= x
  BY CheapestOffer
<1>4. CASE i \in DOMAIN s.prices /\ RuleRuns(s.prices[i], p, z, t)
  <2>1. \A x : x \in new <=> x \in old \/ x = offer
    BY <1>2, <1>4 DEF Offers
  <2>2. Better(s, p, z, t, i, Min(old)) = IF offer < Min(old) THEN offer ELSE Min(old)
    BY <1>4 DEF Better
  <2> HIDE DEF old, new, offer
  <2>3. offer \in Nat /\ Min(old) \in Nat /\ Min(new) \in Nat
    BY <1>3, <2>1
  <2>4. CASE offer < Min(old)
    <3>1. Min(new) <= offer /\ (Min(new) \in old \/ Min(new) = offer)
      BY <1>3, <2>1
    <3>2. Min(new) = offer
      BY <1>3, <2>3, <2>4, <3>1
    <3> QED
      BY <2>2, <2>4, <3>2 DEF old, new
  <2>5. CASE ~(offer < Min(old))
    <3>1. Min(new) <= Min(old) /\ (Min(new) \in old \/ Min(new) = offer)
      BY <1>3, <2>1
    <3>2. Min(new) = Min(old)
      BY <1>3, <2>3, <2>5, <3>1
    <3> QED
      BY <2>2, <2>5, <3>2 DEF old, new
  <2> QED
    BY <2>4, <2>5
<1>5. CASE ~(i \in DOMAIN s.prices /\ RuleRuns(s.prices[i], p, z, t))
  <2>1. new = old
    BY <1>2, <1>5 DEF Offers
  <2>2. Better(s, p, z, t, i, Min(old)) = Min(old)
    BY <1>5 DEF Better
  <2> QED
    BY <2>1, <2>2
<1> QED
  BY <1>4, <1>5

\* The last place is a place after which there is no rule.
LEMMA LastIsLast ==
  ASSUME NEW s, Listed(s)
  PROVE  LastPlace(s.prices) \in Nat /\ \A j \in DOMAIN s.prices : j <= LastPlace(s.prices)
<1>1. PICK n \in Nat : DOMAIN s.prices \subseteq 1 .. n
  BY DEF Listed
<1>2. PICK places : places = {0} \cup DOMAIN s.prices
  OBVIOUS
<1>3. places \subseteq Nat /\ places # {} /\ \A x \in places : x <= n
  BY <1>1, <1>2
<1>4. Max(places) \in places /\ \A x \in places : x <= Max(places)
  <2>1. places \subseteq Int /\ n \in Int
    BY <1>3
  <2> QED
    BY <1>3, <2>1, GreatestIsMax
<1>5. LastPlace(s.prices) = Max(places)
  BY <1>2 DEF LastPlace
<1> QED
  BY <1>2, <1>3, <1>4, <1>5

\* Going through the rules one by one ends with the cheapest offer of all.
LEMMA PriceIsCheapest ==
  ASSUME NEW s, Listed(s), NEW p \in DOMAIN Products, NEW z, NEW t
  PROVE  Price(s, p, z, t) = Min(Offers(s, p, z, t, LastPlace(s.prices)))
<1> DEFINE n == LastPlace(s.prices)
           base == Products[p].price
           step(f) == [i \in 0 .. n |-> IF i = 0 THEN base ELSE Better(s, p, z, t, i, f[i - 1])]
           upTo == CHOOSE f : f = step(f)
           best(i) == Min(Offers(s, p, z, t, i))
           closed == [i \in 0 .. n |-> best(i)]
<1>1. n \in Nat /\ DOMAIN s.prices \subseteq Nat \ {0}
  BY LastIsLast DEF Listed
<1>2. Price(s, p, z, t) = upTo[n]
  BY Zenon DEF Price
<1>3. best(0) = base
  <2>1. \A k \in DOMAIN s.prices : ~(k <= 0)
    BY <1>1
  <2>2. Offers(s, p, z, t, 0) = {base}
    BY <2>1 DEF Offers
  <2>3. best(0) \in {base}
    BY <2>2, CheapestOffer
  <2> QED
    BY <2>3
<1>4. \A i \in 0 .. n : i # 0 => Better(s, p, z, t, i, best(i - 1)) = best(i)
  BY <1>1, BetterOffer
<1> HIDE DEF n, best
<1>5. closed = step(closed)
  <2>1. ASSUME NEW i \in 0 .. n
        PROVE  closed[i] = IF i = 0 THEN base ELSE Better(s, p, z, t, i, closed[i - 1])
    <3>1. CASE i = 0
      BY <1>3, <3>1
    <3>2. CASE i # 0
      <4>1. i - 1 \in 0 .. n
        BY <1>1, <3>2
      <4>2. closed[i - 1] = best(i - 1) /\ closed[i] = best(i)
        BY <4>1
      <4> QED
        BY <1>4, <3>2, <4>2
    <3> QED
      BY <3>1, <3>2
  <2> QED
    BY <2>1
<1>6. upTo = step(upTo)
  BY <1>5
<1> HIDE DEF upTo
<1>7. \A i \in 0 .. n : upTo[i] = IF i = 0 THEN base ELSE Better(s, p, z, t, i, upTo[i - 1])
  BY <1>6
<1>8. \A i \in 0 .. n : upTo[i] = best(i)
  <2> DEFINE bad == {i \in 0 .. n : upTo[i] # best(i)}
  <2>1. SUFFICES ASSUME bad # {} PROVE FALSE
    OBVIOUS
  <2>2. bad \subseteq Nat
    BY <1>1
  <2>3. PICK i \in bad : \A x \in bad : i <= x
    BY <2>1, <2>2, LeastNatural
  <2>4. i \in 0 .. n /\ upTo[i] # best(i)
    BY <2>3
  <2>5. i # 0
    BY <1>3, <1>7, <2>4
  <2>6. i - 1 \in 0 .. n /\ ~(i <= i - 1)
    BY <1>1, <2>4, <2>5
  <2>7. upTo[i - 1] = best(i - 1)
    BY <2>3, <2>6
  <2>8. upTo[i] = best(i)
    BY <1>4, <1>7, <2>4, <2>5, <2>7
  <2> QED
    BY <2>4, <2>8
<1>9. n \in 0 .. n
  BY <1>1
<1> QED
  BY <1>2, <1>8, <1>9 DEF n, best

\* Whichever order the price rules are listed in and however they overlap, a dish
\* costs what the best running rule makes it, and never more than its own price.
THEOREM DealIsBest == Spec => []BestDeal
<1>1. ASSUME HoursInv
      PROVE  BestDeal
  <2>1. PICK s, t : s = Current /\ t = now
    OBVIOUS
  <2>2. Listed(s)
    BY <1>1, <2>1, RulesShape DEF HoursInv, TypeOK, Current, Listed
  <2>3. ASSUME NEW z \in PageZones, NEW p \in DOMAIN Products
        PROVE  Price(s, p, z, t) =
                 Min({Products[p].price} \cup
                     {Discounted(m, Products[p].price) : m \in
                        {s.prices[i] : i \in {j \in DOMAIN s.prices : RuleRuns(s.prices[j], p, z, t)}}})
    <3>1. \A j \in DOMAIN s.prices : j <= LastPlace(s.prices)
      BY <2>2, LastIsLast
    <3>2. Offers(s, p, z, t, LastPlace(s.prices)) =
            {Products[p].price} \cup
              {Discounted(m, Products[p].price) : m \in
                 {s.prices[i] : i \in {j \in DOMAIN s.prices : RuleRuns(s.prices[j], p, z, t)}}}
      BY <3>1 DEF Offers
    <3> QED
      BY Zenon, <2>2, <3>2, PriceIsCheapest
  <2>4. \A z \in PageZones, p \in DOMAIN Products :
          Price(s, p, z, t) =
            Min({Products[p].price} \cup
                {Discounted(m, Products[p].price) : m \in
                   {s.prices[i] : i \in {j \in DOMAIN s.prices : RuleRuns(s.prices[j], p, z, t)}}})
    BY <2>3
  <2> QED
    BY <2>1, <2>4 DEF BestDeal
<1> QED
  BY <1>1, HoursInvariant, PTL

-----------------------------------------------------------------------------
(* The popularity snapshot behind the menu's section                       *)

\* A job: none, or one that knows who asked and perhaps the period it read.
Jobs == {NoJob} \cup {<<[forced |-> f, days |-> n]>> : f \in BOOLEAN, n \in {NotYet} \cup Periods}

\* An order, as a row.
OrderRow == [basket : Baskets, at : Nat, cancelled : BOOLEAN]

\* What the re-ranking works on has its types.
PopularityTypes ==
  /\ clock \in Nat /\ rankedAt \in Int /\ autoAt \in Int /\ period \in Periods
  /\ orderable \subseteq Dish
  /\ orders \in Seq(OrderRow)
  /\ snapshot \in [Dish -> [0..Dayparts - 1 -> Nat]]
  /\ job \in [Callers -> Jobs]
  /\ up \in BOOLEAN /\ looked \in BOOLEAN

\* No job outlives the server; the admin's are forced, the ranker's are not.
JobsInOrder ==
  /\ ~up => \A c \in Callers : job[c] = NoJob
  /\ job["admin"] # NoJob => job["admin"][1].forced
  /\ job["ranker"] # NoJob => ~job["ranker"][1].forced

\* The ranker may rebuild: it never did, or long enough ago.  Its stamps are
\* in order, and a job of its own that has decided to rebuild is not too
\* early.
Cooled == autoAt = NotYet \/ clock - autoAt >= SpikeCooldown
StampsInOrder ==
  /\ NotYet <= autoAt /\ autoAt <= rankedAt /\ rankedAt <= clock
  /\ job["ranker"] # NoJob /\ job["ranker"][1].days # NotYet => Cooled

\* The snapshot is of the period set and is young enough, or something
\* accounts for it: a job under way, an upset.
Accounted ==
  /\ covers = period \/ "period" \in excused \/ job["admin"] # NoJob \/ rankedAt = NotYet
  /\ up /\ looked =>
       \/ job["ranker"] # NoJob \/ "age" \in excused
       \/ rankedAt # NotYet /\ clock - rankedAt < RerankEvery

PopularityInv == PopularityTypes /\ JobsInOrder /\ StampsInOrder /\ Accounted

\* Finitely many units are counted.
LEMMA CountIsNatural ==
  ASSUME NEW W, IsFiniteSet(W), NEW units \in [W -> Nat]
  PROVE  CountUnits(units, W) \in Nat
<1> DEFINE named == [x \in W |-> {x} \X (1 .. units[x])]
           all == {{x} \X (1 .. units[x]) : x \in W}
<1>1. named \in Surjection(W, all)
  BY DEF Surjection
<1>2. IsFiniteSet(all)
  BY <1>1, FS_Surjection
<1>3. \A x \in W : IsFiniteSet({x} \X (1 .. units[x]))
  <2> TAKE x \in W
  <2>1. IsFiniteSet({x})
    BY FS_Singleton
  <2>2. units[x] \in Int /\ IsFiniteSet(1 .. units[x])
    BY FS_Interval
  <2> QED
    BY <2>1, <2>2, FS_Product
<1>4. \A s \in all : IsFiniteSet(s)
  BY <1>3
<1> HIDE DEF all
<1>5. IsFiniteSet(UNION all)
  BY <1>2, <1>4, FS_UNION
<1> QED
  BY <1>5, FS_CardinalityType DEF CountUnits, all

\* The dishes are finitely many.
LEMMA DishesFinite ==
  IsFiniteSet(Dish)
<1>1. Dishes \in Surjection(1 .. Len(Dishes), Dish)
  <2>1. Dishes \in [1 .. Len(Dishes) -> Dish] /\ DOMAIN Dishes = 1 .. Len(Dishes)
    BY PopularityAssumption
  <2> QED
    BY <2>1 DEF Surjection, Dish
<1>2. IsFiniteSet(1 .. Len(Dishes))
  BY PopularityAssumption, FS_Interval
<1> QED
  BY <1>1, <1>2, FS_Surjection

\* Every dish has its place in the menu.
LEMMA MenuPlaces ==
  ASSUME NEW d \in Dish
  PROVE  InMenu(d) \in Nat /\ Dishes[InMenu(d)] = d
<1>1. \E i \in DOMAIN Dishes : Dishes[i] = d
  BY DEF Dish
<1>2. DOMAIN Dishes = 1 .. Len(Dishes) /\ Len(Dishes) \in Nat
  BY PopularityAssumption
<1>3. InMenu(d) \in DOMAIN Dishes /\ Dishes[InMenu(d)] = d
  BY <1>1 DEF InMenu
<1> QED
  BY <1>2, <1>3

\* Of two dishes one is ahead, and being ahead is passed on.
LEMMA AheadIsAnOrder ==
  ASSUME NEW score \in [Dish -> Nat], NEW d \in Dish, NEW e \in Dish
  PROVE  /\ ~(Ahead(score, d, e) /\ Ahead(score, e, d))
         /\ d # e => Ahead(score, d, e) \/ Ahead(score, e, d)
         /\ \A x \in Dish : Ahead(score, x, d) /\ Ahead(score, d, e) => Ahead(score, x, e)
<1>1. \A x \in Dish : score[x] \in Nat /\ InMenu(x) \in Nat /\ Dishes[InMenu(x)] = x
  BY MenuPlaces
<1> QED
  BY <1>1 DEF Ahead

\* The dishes a list is picked from, and those of them ahead of one.
Cands(score, dishes) == {d \in dishes : score[d] > 0}
AheadOf(score, S, d) == {e \in S : Ahead(score, e, d)}

\* They are finitely many.
LEMMA CandidatesFinite ==
  ASSUME NEW score, NEW dishes \in SUBSET Dish
  PROVE  /\ Cands(score, dishes) \subseteq Dish
         /\ IsFiniteSet(Cands(score, dishes))
         /\ \A S \in SUBSET Cands(score, dishes) : \A d :
              /\ IsFiniteSet(AheadOf(score, S, d))
              /\ Cardinality(AheadOf(score, S, d)) \in Nat
<1>1. Cands(score, dishes) \subseteq Dish /\ IsFiniteSet(Cands(score, dishes))
  BY DishesFinite, FS_Subset DEF Cands
<1>2. ASSUME NEW S \in SUBSET Cands(score, dishes), NEW d
      PROVE  IsFiniteSet(AheadOf(score, S, d)) /\ Cardinality(AheadOf(score, S, d)) \in Nat
  <2>1. AheadOf(score, S, d) \subseteq Dish
    BY <1>1 DEF AheadOf
  <2> QED
    BY <2>1, DishesFinite, FS_Subset, FS_CardinalityType
<1> QED
  BY <1>1, <1>2

\* A dish has more others ahead of it than one it is behind.
LEMMA BehindHasMoreAhead ==
  ASSUME NEW score \in [Dish -> Nat], NEW dishes \in SUBSET Dish,
         NEW S \in SUBSET Cands(score, dishes), NEW d \in S, NEW e \in S, Ahead(score, d, e)
  PROVE  Cardinality(AheadOf(score, S, d)) < Cardinality(AheadOf(score, S, e))
<1> DEFINE D == AheadOf(score, S, d)
           E == AheadOf(score, S, e)
<1>1. S \subseteq Dish /\ IsFiniteSet(D) /\ IsFiniteSet(E)
      /\ Cardinality(D) \in Nat /\ Cardinality(E) \in Nat
  BY CandidatesFinite
<1>2. D \subseteq E
  BY <1>1, AheadIsAnOrder DEF AheadOf
<1>3. d \in E /\ d \notin D
  BY <1>1, AheadIsAnOrder DEF AheadOf
<1>4. D # E
  BY <1>3
<1> HIDE DEF D, E
<1>5. Cardinality(D) <= Cardinality(E) /\ Cardinality(D) # Cardinality(E)
  BY <1>1, <1>2, <1>4, FS_Subset
<1> QED
  BY <1>1, <1>5 DEF D, E

\* Of some dishes one leads.
LEMMA SomeoneLeads ==
  ASSUME NEW score \in [Dish -> Nat], NEW dishes \in SUBSET Dish,
         NEW S \in SUBSET Cands(score, dishes), S # {}
  PROVE  \E d \in S : AheadOf(score, S, d) = {}
<1> DEFINE counts == {Cardinality(AheadOf(score, S, d)) : d \in S}
<1>1. counts \subseteq Nat /\ counts # {}
  BY CandidatesFinite
<1>2. PICK n \in counts : \A k \in counts : n <= k
  BY <1>1, LeastNatural
<1>3. PICK d \in S : n = Cardinality(AheadOf(score, S, d))
  BY <1>2
<1>4. ASSUME NEW e \in AheadOf(score, S, d)
      PROVE  FALSE
  <2>1. e \in S /\ Ahead(score, e, d)
    BY <1>4 DEF AheadOf
  <2>2. Cardinality(AheadOf(score, S, e)) < n
    BY <1>3, <2>1, BehindHasMoreAhead
  <2>3. Cardinality(AheadOf(score, S, e)) \in counts
    BY <2>1
  <2> QED
    BY <1>1, <1>2, <2>2, <2>3
<1> QED
  BY <1>4

\* The list in these words.
LEMMA RankedIs ==
  ASSUME NEW score, NEW dishes
  PROVE  Ranked(score, dishes) =
           {p \in {<<d, 1 + Cardinality(AheadOf(score, Cands(score, dishes), d))>> : d \in Cands(score, dishes)} :
              p[2] <= PopularCount}
  BY DEF Ranked, AheadOf, Cands

\* A list is finite.
LEMMA RankedFinite ==
  ASSUME NEW score, NEW dishes \in SUBSET Dish
  PROVE  IsFiniteSet(Ranked(score, dishes))
<1> DEFINE C == Cands(score, dishes)
           place == [d \in C |-> <<d, 1 + Cardinality(AheadOf(score, C, d))>>]
           all == {<<d, 1 + Cardinality(AheadOf(score, C, d))>> : d \in C}
<1>1. IsFiniteSet(C)
  BY CandidatesFinite
<1>2. place \in Surjection(C, all)
  BY DEF Surjection
<1>3. IsFiniteSet(all)
  BY <1>1, <1>2, FS_Surjection
<1>4. Ranked(score, dishes) \in SUBSET all
  BY RankedIs
<1> QED
  BY <1>3, <1>4, FS_Subset

\* Of two dishes of a list the earlier one is ahead.
LEMMA RankedInOrder ==
  ASSUME NEW score \in [Dish -> Nat], NEW dishes \in SUBSET Dish,
         NEW de \in InOrder(Ranked(score, dishes))
  PROVE  /\ de = <<de[1], de[2]>>
         /\ de[1] \in Cands(score, dishes) /\ de[2] \in Cands(score, dishes)
         /\ de[1] # de[2] /\ Ahead(score, de[1], de[2])
<1> DEFINE C == Cands(score, dishes)
           n(d) == Cardinality(AheadOf(score, C, d))
<1>1. PICK p \in Ranked(score, dishes), q \in Ranked(score, dishes) :
        de = <<p[1], q[1]>> /\ p[2] < q[2]
  BY DEF InOrder
<1>2. PICK d \in C : p = <<d, 1 + n(d)>>
  BY RankedIs
<1>3. PICK e \in C : q = <<e, 1 + n(e)>>
  BY RankedIs
<1>4. n(d) \in Nat /\ n(e) \in Nat /\ C \subseteq Dish
  BY CandidatesFinite
<1>5. n(d) < n(e) /\ de = <<d, e>>
  BY <1>1, <1>2, <1>3, <1>4
<1>6. d # e
  BY <1>4, <1>5
<1>7. ~Ahead(score, e, d)
  BY <1>4, <1>5, BehindHasMoreAhead
<1> QED
  BY <1>4, <1>5, <1>6, <1>7, AheadIsAnOrder

\* Two dishes that sold are enough for a list.
LEMMA TwoAreAList ==
  ASSUME NEW score \in [Dish -> Nat], NEW dishes \in SUBSET Dish,
         NEW d \in Cands(score, dishes), NEW e \in Cands(score, dishes), d # e
  PROVE  ~(Cardinality(Ranked(score, dishes)) < 2)
<1> DEFINE C == Cands(score, dishes)
           list == Ranked(score, dishes)
           n(x) == Cardinality(AheadOf(score, C, x))
<1>1. PICK f \in C : AheadOf(score, C, f) = {}
  BY SomeoneLeads
<1>2. PICK s \in C \ {f} : AheadOf(score, C \ {f}, s) = {}
  <2>1. C \ {f} \in SUBSET Cands(score, dishes) /\ C \ {f} # {}
    OBVIOUS
  <2> HIDE DEF C
  <2> QED
    BY <2>1, SomeoneLeads
<1>3. PopularCount \in Nat /\ 2 <= PopularCount
  BY PopularityAssumption
<1>4. n(f) = 0
  BY <1>1, FS_EmptySet
<1>5. n(s) \in Nat /\ n(s) <= 1
  <2>1. AheadOf(score, C, s) \in SUBSET {f}
    BY <1>2 DEF AheadOf
  <2> QED
    <3>1. IsFiniteSet({f}) /\ Cardinality({f}) = 1
      BY FS_Singleton
    <3>2. IsFiniteSet(AheadOf(score, C, s)) /\ Cardinality(AheadOf(score, C, s)) <= 1
      BY <2>1, <3>1, FS_Subset
    <3> QED
      BY <3>2, FS_CardinalityType
<1>6. <<f, 1 + n(f)>> \in list /\ <<s, 1 + n(s)>> \in list
  BY <1>3, <1>4, <1>5, RankedIs
<1>7. {<<f, 1 + n(f)>>, <<s, 1 + n(s)>>} \in SUBSET list
  BY <1>6
<1>8. <<f, 1 + n(f)>> # <<s, 1 + n(s)>>
  BY <1>2
<1>9. IsFiniteSet(list)
  BY RankedFinite
<1> HIDE DEF list, n
<1>10. Cardinality({<<f, 1 + n(f)>>, <<s, 1 + n(s)>>}) = 2
  <2>1. \A x, y : x # y => Cardinality({x, y}) = 2
    <3> TAKE x, y
    <3> HAVE x # y
    <3>1. {x, y} = {x} \cup {y} /\ y \notin {x}
      OBVIOUS
    <3>2. IsFiniteSet({x}) /\ Cardinality({x}) = 1
      BY FS_Singleton
    <3>3. Cardinality({x} \cup {y}) = Cardinality({x}) + 1
      BY <3>1, <3>2, FS_AddElement
    <3> QED
      BY <3>1, <3>2, <3>3
  <2> QED
    BY <2>1, <1>8
<1>11. 2 <= Cardinality(list) /\ Cardinality(list) \in Nat
  BY <1>7, <1>9, <1>10, FS_Subset, FS_CardinalityType
<1> QED
  BY <1>11 DEF list

\* The section of one snapshot and one time of day never holds two dishes in
\* both orders, even if it changes between the time of day and all day: two
\* dishes that sold at this time of day are enough of a list for it.
LEMMA SectionKeepsOrder ==
  ASSUME PopularityTypes, PopularityTypes',
         snapshot' = snapshot, DaypartOf(clock') = DaypartOf(clock)
  PROVE  {<<de[2], de[1]>> : de \in InOrder(Popular)} \cap InOrder(Popular)' = {}
<1> DEFINE hour == [d \in Dish |-> snapshot[d][DaypartOf(clock)]]
           day == [d \in Dish |-> Total(snapshot[d])]
<1>1. /\ orderable \in SUBSET Dish /\ orderable' \in SUBSET Dish
      /\ \A d \in Dish : snapshot[d] \in [0 .. Dayparts - 1 -> Nat]
  BY DEF PopularityTypes
<1>2. hour \in [Dish -> Nat]
  <2>1. DaypartOf(clock) \in 0 .. Dayparts - 1
    BY PopularityAssumption DEF DaypartOf, PopularityTypes
  <2> QED
    BY <1>1, <2>1
<1>3. day \in [Dish -> Nat]
  <2>1. ASSUME NEW d \in Dish
        PROVE  Total(snapshot[d]) \in Nat
    <3>1. IsFiniteSet(0 .. Dayparts - 1) /\ DOMAIN snapshot[d] = 0 .. Dayparts - 1
      <4>1. 0 \in Int /\ Dayparts - 1 \in Int
        BY PopularityAssumption
      <4> QED
        BY <1>1, <4>1, FS_Interval
    <3> QED
      BY <1>1, <3>1, CountIsNatural DEF Total
  <2> QED
    BY <2>1
<1>4. /\ ByNow = Ranked(hour, orderable) /\ ByNow' = Ranked(hour, orderable')
      /\ AllDay = Ranked(day, orderable) /\ AllDay' = Ranked(day, orderable')
  BY DEF ByNow, AllDay
<1> HIDE DEF hour, day
<1> SUFFICES ASSUME NEW de \in InOrder(Popular), <<de[2], de[1]>> \in InOrder(Popular')
             PROVE  FALSE
  BY DEF InOrder
<1>5. InOrder({}) = {}
  BY DEF InOrder
<1>6. /\ (Cardinality(ByNow) < 2 /\ Popular = AllDay) \/ (~(Cardinality(ByNow) < 2) /\ Popular = ByNow)
      /\ (Cardinality(ByNow') < 2 /\ Popular' = AllDay') \/ (~(Cardinality(ByNow') < 2) /\ Popular' = ByNow')
  <2>1. Popular # {} /\ Popular' # {}
    BY <1>5
  <2>2. Popular = PopularPick /\ Popular' = PopularPick'
    BY <2>1 DEF Popular
  <2> QED
    BY <2>2 DEF PopularPick
<1>7. CASE Popular = AllDay /\ Popular' = AllDay'
  BY <1>1, <1>3, <1>4, <1>7, RankedInOrder, AheadIsAnOrder, CandidatesFinite
<1>8. CASE Popular = ByNow /\ Popular' = ByNow'
  BY <1>1, <1>2, <1>4, <1>8, RankedInOrder, AheadIsAnOrder, CandidatesFinite
<1>9. CASE Popular = ByNow /\ Popular' = AllDay' /\ Cardinality(ByNow') < 2
  <2>1. de[1] \in Cands(hour, orderable) /\ de[2] \in Cands(hour, orderable) /\ de[1] # de[2]
    BY <1>1, <1>2, <1>4, <1>9, RankedInOrder
  <2>2. de[2] \in orderable' /\ de[1] \in orderable'
    BY <1>1, <1>3, <1>4, <1>9, RankedInOrder DEF Cands
  <2>3. de[1] \in Cands(hour, orderable') /\ de[2] \in Cands(hour, orderable')
    BY <2>1, <2>2 DEF Cands
  <2> QED
    BY <1>1, <1>2, <1>4, <1>9, <2>1, <2>3, TwoAreAList
<1>10. CASE Popular = AllDay /\ Popular' = ByNow' /\ Cardinality(ByNow) < 2
  <2>1. de[1] \in Cands(hour, orderable') /\ de[2] \in Cands(hour, orderable') /\ de[1] # de[2]
    BY <1>1, <1>2, <1>4, <1>10, RankedInOrder
  <2>2. de[2] \in orderable /\ de[1] \in orderable
    BY <1>1, <1>3, <1>4, <1>10, RankedInOrder DEF Cands
  <2>3. de[1] \in Cands(hour, orderable) /\ de[2] \in Cands(hour, orderable)
    BY <2>1, <2>2 DEF Cands
  <2> QED
    BY <1>1, <1>2, <1>4, <1>10, <2>1, <2>3, TwoAreAList
<1> QED
  BY <1>6, <1>7, <1>8, <1>9, <1>10

\* A rebuilt snapshot has its type.
LEMMA SalesTyped ==
  ASSUME PopularityTypes, NEW since \in Int
  PROVE  Sales(since) \in [Dish -> [0 .. Dayparts - 1 -> Nat]]
<1>1. ASSUME NEW d \in Dish, NEW os \in SUBSET DOMAIN orders
      PROVE  UnitsIn(d, os) \in Nat
  <2>1. DOMAIN orders = 1 .. Len(orders) /\ Len(orders) \in Nat
    BY DEF PopularityTypes
  <2>2. IsFiniteSet(os)
    <3>1. 1 \in Int /\ Len(orders) \in Int
      BY <2>1
    <3>2. IsFiniteSet(1 .. Len(orders))
      BY <3>1, FS_Interval
    <3> QED
      BY <2>1, <3>2, FS_Subset
  <2>3. \A i \in DOMAIN orders : orders[i].basket \in Baskets
    <3> TAKE i \in DOMAIN orders
    <3>1. orders[i] \in OrderRow
      BY <2>1 DEF PopularityTypes
    <3> QED
      BY <3>1 DEF OrderRow
  <2>4. [i \in os |-> orders[i].basket[d]] \in [os -> Nat]
    BY PopularityAssumption, <2>3
  <2> QED
    BY <2>2, <2>4, CountIsNatural DEF UnitsIn
<1>2. \A dp : {i \in Standing(since) : DaypartOf(orders[i].at) = dp} \in SUBSET DOMAIN orders
  BY DEF Standing
<1> QED
  BY <1>1, <1>2 DEF Sales

-----------------------------------------------------------------------------
(* The inductive invariant holds                                           *)

\* A server that never ranked satisfies the invariant.
LEMMA PopularityBegins ==
  ASSUME PopularityInit
  PROVE  PopularityInv
<1> USE DEF PopularityInit, NotYet
<1>1. PopularityTypes
  <2>1. job \in [Callers -> Jobs]
    BY DEF Jobs
  <2>2. snapshot \in [Dish -> [0 .. Dayparts - 1 -> Nat]]
    OBVIOUS
  <2>3. orders \in Seq(OrderRow)
    OBVIOUS
  <2>5. clock \in Nat /\ rankedAt \in Int /\ autoAt \in Int
    OBVIOUS
  <2>6. period \in Periods /\ orderable \subseteq Dish
    OBVIOUS
  <2>7. up \in BOOLEAN /\ looked \in BOOLEAN
    OBVIOUS
  <2>4. /\ clock \in Nat /\ rankedAt \in Int /\ autoAt \in Int /\ period \in Periods
        /\ orderable \subseteq Dish /\ up \in BOOLEAN /\ looked \in BOOLEAN
    BY <2>5, <2>6, <2>7
  <2> HIDE DEF PopularityInit
  <2> QED
    BY <2>1, <2>2, <2>3, <2>4 DEF PopularityTypes
<1>2. JobsInOrder
  BY DEF JobsInOrder, Callers
<1>3. StampsInOrder /\ Accounted
  BY DEF StampsInOrder, Accounted, Callers
<1> QED
  BY <1>1, <1>2, <1>3 DEF PopularityInv

\* What the actions do to the jobs.
Begun(c, forced) ==
  /\ job' = [job EXCEPT ![c] = <<[forced |-> forced, days |-> NotYet]>>]
Ended(c) == job' = [job EXCEPT ![c] = NoJob]
Decided(c) == job' = [job EXCEPT ![c] = <<[@[1] EXCEPT !.days = period]>>]

\* A job that begins, ends or decides is a job.
LEMMA JobShapes ==
  ASSUME PopularityTypes, NEW c \in Callers
  PROVE  /\ \/ job[c] = NoJob
            \/ job[c] = <<job[c][1]>> /\ job[c] # NoJob /\ job[c][1] \in [forced : BOOLEAN, days : {NotYet} \cup Periods]
         /\ \A f \in BOOLEAN : Begun(c, f) =>
              /\ job' \in [Callers -> Jobs]
              /\ job'[c] # NoJob /\ job'[c][1].forced = f /\ job'[c][1].days = NotYet
              /\ \A x \in Callers \ {c} : job'[x] = job[x]
         /\ Ended(c) =>
              /\ job' \in [Callers -> Jobs]
              /\ job'[c] = NoJob
              /\ \A x \in Callers \ {c} : job'[x] = job[x]
         /\ job[c] # NoJob /\ Decided(c) =>
              /\ job' \in [Callers -> Jobs]
              /\ job'[c] # NoJob /\ job'[c][1].forced = job[c][1].forced /\ job'[c][1].days = period
              /\ \A x \in Callers \ {c} : job'[x] = job[x]
<1> DEFINE Rec == [forced : BOOLEAN, days : {NotYet} \cup Periods]
<1>1. job \in [Callers -> Jobs] /\ period \in Periods
  BY DEF PopularityTypes
<1>2. \A x : x \in Jobs <=> x = NoJob \/ \E rec \in Rec : x = <<rec>>
  <2>1. \A f \in BOOLEAN, n \in {NotYet} \cup Periods : [forced |-> f, days |-> n] \in Rec
    OBVIOUS
  <2>2. \A rec \in Rec : rec = [forced |-> rec.forced, days |-> rec.days]
    OBVIOUS
  <2>3. \A rec \in Rec : rec.forced \in BOOLEAN /\ rec.days \in {NotYet} \cup Periods
    OBVIOUS
  <2> QED
    BY <2>1, <2>2, <2>3 DEF Jobs
<1>3. \A rec : <<rec>> # NoJob /\ <<rec>>[1] = rec
  BY DEF NoJob
<1>4. job[c] = NoJob \/ (job[c] = <<job[c][1]>> /\ job[c] # NoJob /\ job[c][1] \in Rec)
  BY <1>1, <1>2, <1>3
<1>5. ASSUME NEW f \in BOOLEAN, Begun(c, f)
      PROVE  /\ job' \in [Callers -> Jobs]
             /\ job'[c] # NoJob /\ job'[c][1].forced = f /\ job'[c][1].days = NotYet
             /\ \A x \in Callers \ {c} : job'[x] = job[x]
  <2>1. [forced |-> f, days |-> NotYet] \in Rec
    OBVIOUS
  <2>2. job'[c] = <<[forced |-> f, days |-> NotYet]>>
    BY <1>1, <1>5 DEF Begun
  <2>3. job'[c] \in Jobs
    BY <1>2, <2>1, <2>2
  <2> QED
    BY <1>1, <1>3, <1>5, <2>2, <2>3 DEF Begun
<1>6. ASSUME Ended(c)
      PROVE  /\ job' \in [Callers -> Jobs]
             /\ job'[c] = NoJob
             /\ \A x \in Callers \ {c} : job'[x] = job[x]
  BY <1>1, <1>2, <1>6 DEF Ended
<1>7. ASSUME job[c] # NoJob, Decided(c)
      PROVE  /\ job' \in [Callers -> Jobs]
             /\ job'[c] # NoJob /\ job'[c][1].forced = job[c][1].forced /\ job'[c][1].days = period
             /\ \A x \in Callers \ {c} : job'[x] = job[x]
  <2> DEFINE rec == [job[c][1] EXCEPT !.days = period]
  <2>1. rec \in Rec /\ rec.forced = job[c][1].forced /\ rec.days = period
    BY <1>1, <1>4, <1>7
  <2>2. job'[c] = <<rec>>
    BY <1>1, <1>7 DEF Decided
  <2> HIDE DEF rec, Rec
  <2>3. job'[c] \in Jobs
    BY <1>2, <2>1, <2>2
  <2> QED
    BY <1>1, <1>3, <1>7, <2>1, <2>2, <2>3 DEF Decided
<1> QED
  BY <1>4, <1>5, <1>6, <1>7

\* What a step does to the jobs.
JobsMove ==
  \/ job' = job
  \/ \E c \in Callers : Begun(c, c = "admin") \/ Ended(c) \/ (job[c] # NoJob /\ Decided(c))
  \/ job' = [c \in Callers |-> NoJob]

\* Every step does at most one of these.
LEMMA JobsMoveSo ==
  ASSUME PopularityInv, [PopularityNext]_popularityVars
  PROVE  JobsMove
<1>1. CASE UNCHANGED popularityVars
  BY <1>1 DEF popularityVars, JobsMove
<1>2. CASE \E b \in Baskets : PlaceOrder(b)
  BY <1>2 DEF PlaceOrder, JobsMove
<1>3. CASE \E i \in DOMAIN orders : CancelOrder(i)
  BY <1>3 DEF CancelOrder, JobsMove
<1>4. CASE \E d \in Dish : ChangeOrderable(d)
  BY <1>4 DEF ChangeOrderable, JobsMove
<1>5. CASE Tick
  BY <1>5 DEF Tick, JobsMove
<1>6. CASE Check \/ Start
  <2>1. Begins("ranker", FALSE)
    BY <1>6 DEF Check, Start
  <2>2. Begun("ranker", "ranker" = "admin") /\ "ranker" \in Callers
    BY <2>1 DEF Begins, Begun, Callers
  <2> QED
    BY <2>2 DEF JobsMove
<1>7. ASSUME Begins("admin", TRUE)
      PROVE  JobsMove
  <2>2. Begun("admin", "admin" = "admin") /\ "admin" \in Callers
    BY <1>7 DEF Begins, Begun, Callers
  <2> QED
    BY <2>2 DEF JobsMove
<1>8. CASE AdminRerankPopularity
  BY <1>7, <1>8 DEF AdminRerankPopularity
<1>9. CASE \E days \in Periods : AdminGuestSuggestions(days)
  BY <1>7, <1>9 DEF AdminGuestSuggestions, JobsMove
<1>10. ASSUME NEW c \in Callers, Decide(c)
       PROVE  JobsMove
  <2>1. job[c] # NoJob /\ (Ended(c) \/ Decided(c))
    BY <1>10 DEF Decide, Ended, Decided
  <2> QED
    BY <2>1 DEF JobsMove
<1>11. ASSUME NEW c \in Callers, Rerank(c) \/ RerankFails(c)
       PROVE  JobsMove
  <2>1. Ended(c)
    BY <1>11 DEF Rerank, RerankFails, Ended
  <2> QED
    BY <2>1 DEF JobsMove
<1>12. CASE Crash
  BY <1>12 DEF Crash, JobsMove
<1> QED
  BY <1>1, <1>2, <1>3, <1>4, <1>5, <1>6, <1>8, <1>9, <1>10, <1>11, <1>12 DEF PopularityNext

\* Every step keeps the jobs typed.
LEMMA JobsStayTyped ==
  ASSUME PopularityInv, [PopularityNext]_popularityVars
  PROVE  job' \in [Callers -> Jobs]
<1>1. PopularityTypes /\ JobsMove
  BY JobsMoveSo DEF PopularityInv
<1>2. job \in [Callers -> Jobs] /\ NoJob \in Jobs
  BY <1>1 DEF PopularityTypes, Jobs
<1>3. ASSUME NEW c \in Callers, Begun(c, c = "admin") \/ Ended(c) \/ (job[c] # NoJob /\ Decided(c))
      PROVE  job' \in [Callers -> Jobs]
  BY <1>1, <1>3, JobShapes
<1> QED
  BY <1>1, <1>2, <1>3 DEF JobsMove

\* Every step keeps the orders typed.
LEMMA OrdersStayTyped ==
  ASSUME PopularityInv, [PopularityNext]_popularityVars
  PROVE  orders' \in Seq(OrderRow)
<1>1. orders \in Seq(OrderRow) /\ clock \in Nat
  BY DEF PopularityInv, PopularityTypes
<1>2. ASSUME NEW b \in Baskets, PlaceOrder(b)
      PROVE  orders' \in Seq(OrderRow)
  <2>1. [basket |-> b, at |-> clock, cancelled |-> FALSE] \in OrderRow
    BY <1>1 DEF OrderRow
  <2> QED
    BY <1>1, <1>2, <2>1 DEF PlaceOrder
<1>3. ASSUME NEW i \in DOMAIN orders, CancelOrder(i)
      PROVE  orders' \in Seq(OrderRow)
  <2>1. i \in 1 .. Len(orders) /\ DOMAIN orders = 1 .. Len(orders) /\ Len(orders) \in Nat
    BY <1>1
  <2>2. orders[i] \in OrderRow
    BY <1>1, <2>1
  <2>3. [orders[i] EXCEPT !.cancelled = TRUE] \in OrderRow
    BY <2>2 DEF OrderRow
  <2>4. orders' = [orders EXCEPT ![i] = [orders[i] EXCEPT !.cancelled = TRUE]]
    BY <1>3 DEF CancelOrder
  <2> QED
    BY <1>1, <2>1, <2>3, <2>4
<1>4. CASE UNCHANGED orders
  BY <1>1, <1>4
<1>5. (\E b \in Baskets : PlaceOrder(b)) \/ (\E i \in DOMAIN orders : CancelOrder(i)) \/ UNCHANGED orders
  BY DEF PopularityNext, popularityVars, ChangeOrderable, Tick, Check, AdminRerankPopularity, AdminGuestSuggestions,
         Decide, Rerank, RerankFails, Crash, Start
<1> QED
  BY <1>2, <1>3, <1>4, <1>5

\* Every step keeps the snapshot typed.
LEMMA SnapshotStaysTyped ==
  ASSUME PopularityInv, [PopularityNext]_popularityVars
  PROVE  snapshot' \in [Dish -> [0 .. Dayparts - 1 -> Nat]]
<1>1. PopularityTypes
  BY DEF PopularityInv
<1>2. CASE UNCHANGED snapshot
  BY <1>1, <1>2 DEF PopularityTypes
<1>3. ASSUME NEW c \in Callers, Rerank(c)
      PROVE  snapshot' \in [Dish -> [0 .. Dayparts - 1 -> Nat]]
  <2>1. snapshot' = Sales(clock - job[c][1].days) /\ job[c] # NoJob
    BY <1>3 DEF Rerank, RecomputePopularity
  <2>2. job[c][1] \in [forced : BOOLEAN, days : {NotYet} \cup Periods]
    BY <1>1, <2>1, JobShapes
  <2>4. job[c][1].days \in Int
    <3>1. job[c][1].days \in {NotYet} \cup Periods
      BY <2>2
    <3>2. Periods \subseteq Nat
      BY PopularityAssumption
    <3>3. NotYet \in Int
      BY DEF NotYet
    <3>4. \A n \in {NotYet} \cup Periods : n \in Int
      BY <3>2, <3>3
    <3> QED
      BY <3>1, <3>4
  <2>3. clock - job[c][1].days \in Int
    BY <1>1, <2>4 DEF PopularityTypes
  <2> QED
    BY <1>1, <2>1, <2>3, SalesTyped
<1>4. UNCHANGED snapshot \/ \E c \in Callers : Rerank(c)
  BY DEF PopularityNext, popularityVars, store, PlaceOrder, CancelOrder, ChangeOrderable, Tick, Check, AdminRerankPopularity,
         AdminGuestSuggestions, Decide, RerankFails, Crash, Start
<1> QED
  BY <1>2, <1>3, <1>4

\* Every step keeps the types.
LEMMA PopularityTypesStep ==
  ASSUME PopularityInv, [PopularityNext]_popularityVars
  PROVE  PopularityTypes'
<1>1. /\ job' \in [Callers -> Jobs]
      /\ orders' \in Seq(OrderRow)
      /\ snapshot' \in [Dish -> [0 .. Dayparts - 1 -> Nat]]
  BY JobsStayTyped, OrdersStayTyped, SnapshotStaysTyped
<1>2. /\ clock \in Nat /\ rankedAt \in Int /\ autoAt \in Int /\ period \in Periods
      /\ orderable \subseteq Dish /\ up \in BOOLEAN /\ looked \in BOOLEAN
  BY DEF PopularityInv, PopularityTypes
<1>6. clock' = clock \/ clock' = clock + 1
  BY DEF PopularityNext, popularityVars, PlaceOrder, CancelOrder, ChangeOrderable, Tick, Check, AdminRerankPopularity,
         AdminGuestSuggestions, Decide, Rerank, RerankFails, Crash, Start
<1>7. rankedAt' \in {rankedAt, clock} /\ autoAt' \in {autoAt, clock}
  BY DEF PopularityNext, popularityVars, store, PlaceOrder, CancelOrder, ChangeOrderable, Tick, Check, AdminRerankPopularity,
         AdminGuestSuggestions, Decide, Rerank, RecomputePopularity, RerankFails, Crash, Start
<1>3. clock' \in Nat /\ rankedAt' \in Int /\ autoAt' \in Int
  BY <1>2, <1>6, <1>7
<1>4. period' \in Periods /\ orderable' \subseteq Dish
  BY <1>2 DEF PopularityNext, popularityVars, store, PlaceOrder, CancelOrder, ChangeOrderable, Tick, Check, AdminRerankPopularity,
         AdminGuestSuggestions, Decide, Rerank, RecomputePopularity, RerankFails, Crash, Start
<1>5. up' \in BOOLEAN /\ looked' \in BOOLEAN
  BY <1>2 DEF PopularityNext, popularityVars, store, PlaceOrder, CancelOrder, ChangeOrderable, Tick, Check, AdminRerankPopularity,
         AdminGuestSuggestions, Decide, Rerank, RecomputePopularity, RerankFails, Crash, Start
<1> QED
  BY <1>1, <1>3, <1>4, <1>5 DEF PopularityTypes

\* Every step keeps the jobs in order.
LEMMA JobsInOrderStep ==
  ASSUME PopularityInv, [PopularityNext]_popularityVars
  PROVE  JobsInOrder'
<1>1. PopularityTypes /\ JobsInOrder /\ JobsMove
  BY JobsMoveSo DEF PopularityInv
<1>2. "ranker" \in Callers /\ "admin" \in Callers /\ "ranker" # "admin" /\ \A c \in Callers : c = "ranker" \/ c = "admin"
  BY DEF Callers
<1>3. (job["admin"] # NoJob => job["admin"][1].forced)' /\ (job["ranker"] # NoJob => ~job["ranker"][1].forced)'
  <2>1. CASE job' = job
    BY <1>1, <2>1 DEF JobsInOrder
  <2>2. CASE job' = [c \in Callers |-> NoJob]
    BY <1>2, <2>2
  <2>3. ASSUME NEW c \in Callers, Begun(c, c = "admin") \/ Ended(c) \/ (job[c] # NoJob /\ Decided(c))
        PROVE  (job["admin"] # NoJob => job["admin"][1].forced)' /\ (job["ranker"] # NoJob => ~job["ranker"][1].forced)'
    <3>1. CASE c = "admin"
      BY <1>1, <1>2, <2>3, <3>1, JobShapes DEF JobsInOrder
    <3>2. CASE c = "ranker"
      BY <1>1, <1>2, <2>3, <3>2, JobShapes DEF JobsInOrder
    <3> QED
      BY <1>2, <3>1, <3>2
  <2> QED
    BY <1>1, <2>1, <2>2, <2>3 DEF JobsMove
<1>4. ~up' => \A c \in Callers : job'[c] = NoJob
  <2>1. CASE Crash
    BY <2>1 DEF Crash
  <2>2. CASE UNCHANGED <<up, job>>
    BY <1>1, <2>2 DEF JobsInOrder
  <2>3. CASE up' = TRUE
    BY <2>3
  <2>4. ASSUME NEW c \in Callers, Decide(c) \/ Rerank(c) \/ RerankFails(c)
        PROVE  up' = up /\ up
    BY <1>1, <2>4 DEF Decide, Rerank, RerankFails, JobsInOrder
  <2>5. Crash \/ UNCHANGED <<up, job>> \/ up' = TRUE \/ (\E c \in Callers : Decide(c) \/ Rerank(c) \/ RerankFails(c))
    BY <1>1 DEF PopularityTypes, PopularityNext, popularityVars, PlaceOrder, CancelOrder, ChangeOrderable, Tick, Check, AdminRerankPopularity,
         AdminGuestSuggestions, Start
  <2> QED
    BY <1>1, <2>1, <2>2, <2>3, <2>4, <2>5 DEF PopularityTypes
<1> QED
  BY <1>3, <1>4 DEF JobsInOrder

\* Every step keeps the stamps in order.
LEMMA StampsStep ==
  ASSUME PopularityInv, [PopularityNext]_popularityVars
  PROVE  StampsInOrder'
<1>1. PopularityTypes /\ JobsInOrder /\ StampsInOrder
  BY DEF PopularityInv
<1>2. /\ clock \in Nat /\ rankedAt \in Int /\ autoAt \in Int
      /\ -1 <= autoAt /\ autoAt <= rankedAt /\ rankedAt <= clock
  BY <1>1 DEF PopularityTypes, StampsInOrder, NotYet
<1>3. SpikeCooldown \in Nat /\ RerankEvery \in Nat /\ SpikeCooldown < RerankEvery
  BY PopularityAssumption
<1>4. "ranker" \in Callers /\ "admin" \in Callers /\ \A c \in Callers : c = "ranker" \/ c = "admin"
  BY DEF Callers
<1> DEFINE due == job["ranker"] # NoJob /\ job["ranker"][1].days # NotYet
<1>5. due => Cooled
  BY <1>1 DEF StampsInOrder
<1>6. ASSUME UNCHANGED <<clock, rankedAt, autoAt>>, due' => due
      PROVE  StampsInOrder'
  BY <1>2, <1>5, <1>6 DEF StampsInOrder, Cooled, NotYet
<1>7. ASSUME \/ UNCHANGED popularityVars
             \/ \E b \in Baskets : PlaceOrder(b)
             \/ \E i \in DOMAIN orders : CancelOrder(i)
             \/ \E d \in Dish : ChangeOrderable(d)
      PROVE  StampsInOrder'
  BY <1>6, <1>7 DEF popularityVars, store, PlaceOrder, CancelOrder, ChangeOrderable
<1>8. CASE Tick
  <2>1. ~due /\ job' = job
    BY <1>1, <1>4, <1>8 DEF Tick, JobsInOrder
  <2>2. clock' = clock + 1 /\ rankedAt' = rankedAt /\ autoAt' = autoAt
    BY <1>8 DEF Tick, store
  <2> QED
    BY <1>2, <2>1, <2>2 DEF StampsInOrder, NotYet
<1>9. CASE Check \/ Start
  <2>1. Begun("ranker", FALSE)
    BY <1>9 DEF Check, Start, Begins, Begun
  <2>2. ~due'
    BY <1>1, <1>4, <2>1, JobShapes
  <2> QED
    BY <1>6, <1>9, <2>2 DEF Check, Start, store
<1>10. ASSUME Begins("admin", TRUE)
       PROVE  due' => due
  <2>1. Begun("admin", TRUE)
    BY <1>10 DEF Begins, Begun
  <2>2. job'["ranker"] = job["ranker"]
    BY <1>1, <1>4, <2>1, JobShapes
  <2> QED
    BY <2>2
<1>11. CASE AdminRerankPopularity
  BY <1>6, <1>10, <1>11 DEF AdminRerankPopularity, store
<1>12. ASSUME NEW days \in Periods, AdminGuestSuggestions(days)
       PROVE  StampsInOrder'
  <2>1. due' => due
    BY <1>10, <1>12 DEF AdminGuestSuggestions
  <2> QED
    BY <1>6, <1>12, <2>1 DEF AdminGuestSuggestions
<1>13. ASSUME NEW c \in Callers, Decide(c)
       PROVE  StampsInOrder'
  <2>1. UNCHANGED <<clock, rankedAt, autoAt>> /\ job[c] # NoJob /\ (Ended(c) \/ Decided(c))
    BY <1>13 DEF Decide, store, Ended, Decided
  <2>2. CASE c = "admin"
    <3>1. job'["ranker"] = job["ranker"]
      BY <1>1, <1>4, <2>1, <2>2, JobShapes
    <3> QED
      BY <1>6, <2>1, <3>1
  <2>3. CASE c = "ranker" /\ ~NeedsRerank(period)
    <3>1. ~job[c][1].forced
      BY <1>1, <2>1, <2>3 DEF JobsInOrder
    <3>2. Ended(c)
      BY <1>13, <2>3, <3>1 DEF Decide, Ended
    <3>3. job'["ranker"] = NoJob
      BY <1>1, <1>4, <2>3, <3>2, JobShapes
    <3> QED
      BY <1>6, <2>1, <3>3
  <2>4. CASE NeedsRerank(period)
    <3>1. rankedAt = -1 \/ clock - rankedAt >= RerankEvery \/ clock - rankedAt >= SpikeCooldown
      BY <2>4 DEF NeedsRerank, NotYet
    <3>2. autoAt = -1 \/ clock - autoAt >= SpikeCooldown
      BY <1>2, <1>3, <3>1
    <3> QED
      BY <1>2, <2>1, <3>2 DEF StampsInOrder, Cooled, NotYet
  <2> QED
    BY <1>4, <2>2, <2>3, <2>4
<1>14. ASSUME NEW c \in Callers, Rerank(c)
       PROVE  StampsInOrder'
  <2>1. Ended(c) /\ clock' = clock /\ rankedAt' = clock /\ autoAt' = IF c = "ranker" THEN clock ELSE autoAt
    BY <1>14 DEF Rerank, RecomputePopularity, Ended
  <2>2. CASE c = "ranker"
    <3>1. job'["ranker"] = NoJob
      BY <1>1, <1>4, <2>1, <2>2, JobShapes
    <3> QED
      BY <1>2, <2>1, <2>2, <3>1 DEF StampsInOrder, NotYet
  <2>3. CASE c = "admin"
    <3>1. job'["ranker"] = job["ranker"]
      BY <1>1, <1>4, <2>1, <2>3, JobShapes
    <3>2. due' => Cooled'
      BY <1>5, <2>1, <2>3, <3>1 DEF Cooled
    <3> HIDE DEF due
    <3>3. -1 <= autoAt' /\ autoAt' <= rankedAt' /\ rankedAt' <= clock'
      BY <1>2, <2>1, <2>3
    <3> QED
      BY <3>2, <3>3 DEF StampsInOrder, NotYet, due
  <2> QED
    BY <1>4, <2>2, <2>3
<1>15. ASSUME NEW c \in Callers, RerankFails(c)
       PROVE  StampsInOrder'
  <2>1. Ended(c) /\ UNCHANGED <<clock, rankedAt, autoAt>>
    BY <1>15 DEF RerankFails, Ended, store
  <2>2. due' => due
    BY <1>1, <1>4, <2>1, JobShapes
  <2> QED
    BY <1>6, <2>1, <2>2
<1>16. CASE Crash
  <2>1. ~due'
    BY <1>4, <1>16 DEF Crash
  <2> QED
    BY <1>6, <1>16, <2>1 DEF Crash, store
<1> QED
  BY <1>7, <1>8, <1>9, <1>11, <1>12, <1>13, <1>14, <1>15, <1>16 DEF PopularityNext

\* Every step keeps the snapshot accounted for.
LEMMA AccountedStep ==
  ASSUME PopularityInv, [PopularityNext]_popularityVars
  PROVE  Accounted'
<1>1. PopularityTypes /\ JobsInOrder /\ Accounted
  BY DEF PopularityInv
<1>2. /\ clock \in Nat /\ rankedAt \in Int /\ -1 <= rankedAt /\ rankedAt <= clock
      /\ RerankEvery \in Nat /\ RerankEvery > 0
  BY PopularityAssumption DEF PopularityInv, PopularityTypes, StampsInOrder, NotYet
<1>4. "ranker" \in Callers /\ "admin" \in Callers /\ \A c \in Callers : c = "ranker" \/ c = "admin"
  BY DEF Callers
<1> DEFINE named == covers = period \/ "period" \in excused \/ job["admin"] # NoJob \/ rankedAt = NotYet
           fresh == \/ job["ranker"] # NoJob \/ "age" \in excused
                    \/ rankedAt # NotYet /\ clock - rankedAt < RerankEvery
<1>5. named /\ (up /\ looked => fresh)
  BY <1>1 DEF Accounted
<1>6. ASSUME named', (up /\ looked => fresh)'
      PROVE  Accounted'
  BY <1>6 DEF Accounted
<1>7. ASSUME \/ UNCHANGED popularityVars
             \/ \E b \in Baskets : PlaceOrder(b)
             \/ \E i \in DOMAIN orders : CancelOrder(i)
             \/ \E d \in Dish : ChangeOrderable(d)
      PROVE  Accounted'
  <2>1. UNCHANGED <<covers, period, excused, job, rankedAt, clock, up, looked>>
    BY <1>7 DEF popularityVars, store, PlaceOrder, CancelOrder, ChangeOrderable
  <2> QED
    BY <1>5, <1>6, <2>1
<1>8. CASE Tick
  <2>1. looked' = FALSE /\ UNCHANGED <<covers, period, excused, job, rankedAt>>
    BY <1>8 DEF Tick, store
  <2> QED
    BY <1>5, <1>6, <2>1
<1>9. CASE Check \/ Start
  <2>1. Begun("ranker", FALSE) /\ excused' = excused \ {"age"} /\ UNCHANGED <<covers, period, rankedAt>>
    BY <1>9 DEF Check, Start, Begins, Begun, store
  <2>2. job'["ranker"] # NoJob /\ job'["admin"] = job["admin"]
    BY <1>1, <1>4, <2>1, JobShapes
  <2> QED
    BY <1>5, <1>6, <2>1, <2>2
<1>10. ASSUME Begins("admin", TRUE)
       PROVE  job'["ranker"] = job["ranker"] /\ job'["admin"] # NoJob
  <2>1. Begun("admin", TRUE)
    BY <1>10 DEF Begins, Begun
  <2> QED
    BY <1>1, <1>4, <2>1, JobShapes
<1>11. CASE AdminRerankPopularity
  BY <1>5, <1>6, <1>10, <1>11 DEF AdminRerankPopularity, store
<1>12. ASSUME NEW days \in Periods, AdminGuestSuggestions(days)
       PROVE  Accounted'
  <2>1. UNCHANGED <<rankedAt, covers, up, looked, clock, excused>>
    BY <1>12 DEF AdminGuestSuggestions
  <2>2. (job' = job /\ period' = period) \/ (job'["ranker"] = job["ranker"] /\ job'["admin"] # NoJob)
    BY <1>10, <1>12 DEF AdminGuestSuggestions, NewPeriod
  <2> QED
    BY <1>5, <1>6, <2>1, <2>2
<1>13. ASSUME NEW c \in Callers, Decide(c)
       PROVE  Accounted'
  <2>1. UNCHANGED <<covers, period, excused, rankedAt, clock, up, looked>> /\ job[c] # NoJob /\ (Ended(c) \/ Decided(c))
    BY <1>13 DEF Decide, store, Ended, Decided
  <2>2. CASE c = "admin"
    <3>1. Decided(c)
      BY <1>1, <1>13, <2>1, <2>2 DEF Decide, Decided, JobsInOrder
    <3>2. job'["ranker"] = job["ranker"] /\ job'["admin"] # NoJob
      BY <1>1, <1>4, <2>1, <2>2, <3>1, JobShapes
    <3> QED
      BY <1>5, <1>6, <2>1, <3>2
  <2>3. CASE c = "ranker" /\ ~NeedsRerank(period)
    <3>1. rankedAt # NotYet /\ clock - rankedAt < RerankEvery
      BY <1>2, <2>3 DEF NeedsRerank
    <3>2. job'["admin"] = job["admin"]
      BY <1>1, <1>4, <2>1, <2>3, JobShapes
    <3> QED
      BY <1>5, <1>6, <2>1, <3>1, <3>2
  <2>4. CASE c = "ranker" /\ NeedsRerank(period)
    <3>1. Decided(c)
      BY <1>13, <2>4 DEF Decide, Decided
    <3>2. job'["admin"] = job["admin"] /\ job'["ranker"] # NoJob
      BY <1>1, <1>4, <2>1, <2>4, <3>1, JobShapes
    <3> QED
      BY <1>5, <1>6, <2>1, <3>2
  <2> QED
    BY <1>4, <2>2, <2>3, <2>4
<1>14. ASSUME NEW c \in Callers, Rerank(c)
       PROVE  Accounted'
  <2>1. /\ clock' = clock /\ rankedAt' = clock /\ covers' = job[c][1].days /\ period' = period
        /\ excused' = IF job[c][1].days = period THEN {} ELSE {"period"}
    BY <1>14 DEF Rerank, RecomputePopularity
  <2>2. named'
    BY <2>1
  <2>3. fresh'
    BY <1>2, <2>1 DEF NotYet
  <2> QED
    BY <1>6, <2>2, <2>3
<1>15. ASSUME NEW c \in Callers, RerankFails(c)
       PROVE  Accounted'
  <2>1. Ended(c) /\ UNCHANGED <<clock, period, rankedAt, covers, up, looked>>
        /\ excused' = excused \cup (IF c = "ranker" THEN {"age"} ELSE {"period"})
    BY <1>15 DEF RerankFails, Ended, store
  <2>2. CASE c = "ranker"
    <3>1. job'["admin"] = job["admin"]
      BY <1>1, <1>4, <2>1, <2>2, JobShapes
    <3> QED
      BY <1>5, <1>6, <2>1, <2>2, <3>1
  <2>3. CASE c = "admin"
    <3>1. job'["ranker"] = job["ranker"]
      BY <1>1, <1>4, <2>1, <2>3, JobShapes
    <3> QED
      BY <1>5, <1>6, <2>1, <2>3, <3>1
  <2> QED
    BY <1>4, <2>2, <2>3
<1>16. CASE Crash
  <2>1. up' = FALSE /\ UNCHANGED <<covers, period, rankedAt>>
        /\ excused' = IF job["admin"] # NoJob THEN excused \cup {"period"} ELSE excused
    BY <1>16 DEF Crash, store
  <2> QED
    BY <1>5, <1>6, <2>1
<1> QED
  BY <1>7, <1>8, <1>9, <1>11, <1>12, <1>13, <1>14, <1>15, <1>16 DEF PopularityNext

\* Every step of Next keeps the invariant.
LEMMA PopularityStep ==
  ASSUME PopularityInv, [PopularityNext]_popularityVars
  PROVE  PopularityInv'
  BY PopularityTypesStep, JobsInOrderStep, StampsStep, AccountedStep DEF PopularityInv

\* The invariant of the re-ranking (popularity.go) holds whatever is ordered,
\* cancelled, picked or cut short.
THEOREM SnapshotInOrder == PopularitySpec => []PopularityInv
<1>1. PopularityInit => PopularityInv
  BY PopularityBegins
<1>2. PopularityInv /\ [PopularityNext]_popularityVars => PopularityInv'
  BY PopularityStep
<1> QED
  BY <1>1, <1>2, PTL DEF PopularitySpec

\* Between requests the snapshot is of the period the settings name and no
\* older than the ranker lets it get, unless a failure excuses it.
THEOREM PeriodIsCurrent == PopularitySpec => []PeriodInMonth
<1>1. PopularityInv => PeriodInMonth
  <2> SUFFICES ASSUME PopularityInv, Rested
               PROVE  /\ covers = period \/ excused # {}
                      /\ clock - rankedAt < RerankEvery \/ "age" \in excused
    BY DEF PeriodInMonth
  <2>1. up /\ looked /\ job["ranker"] = NoJob /\ job["admin"] = NoJob
    BY DEF Rested, Callers
  <2> QED
    BY <2>1 DEF PopularityInv, Accounted
<1> QED
  BY <1>1, SnapshotInOrder, PTL

\* The ranker rebuilds the snapshot at most once in SpikeCooldown.
THEOREM CooldownKept == PopularitySpec => MenuStaysPut
<1> DEFINE A == autoAt' # autoAt /\ autoAt # NotYet => clock - autoAt >= SpikeCooldown
<1>1. PopularityInv /\ [PopularityNext]_popularityVars => [A]_popularityVars
  <2> SUFFICES ASSUME PopularityInv, [PopularityNext]_popularityVars, autoAt' # autoAt
               PROVE  autoAt # NotYet => clock - autoAt >= SpikeCooldown
    OBVIOUS
  <2>1. Rerank("ranker")
    <3>1. \E c \in Callers : Rerank(c)
      BY DEF PopularityNext, popularityVars, PlaceOrder, CancelOrder, ChangeOrderable, Tick, Check, AdminRerankPopularity,
             AdminGuestSuggestions, Decide, RerankFails, Crash, Start
    <3> QED
      BY <3>1 DEF Rerank, Callers
  <2>2. job["ranker"] # NoJob /\ job["ranker"][1].days # NotYet
    BY <2>1 DEF Rerank
  <2> QED
    BY <2>2 DEF PopularityInv, StampsInOrder, Cooled
<1> HIDE DEF A
<1>2. PopularitySpec => [][A]_popularityVars
  BY <1>1, SnapshotInOrder, PTL DEF PopularitySpec
<1> QED
  BY <1>2 DEF MenuStaysPut, A

\* While snapshot and time of day stay, no two dishes of the Popular section
\* change places.
THEOREM OrderIsKept == PopularitySpec => NeverShuffles
<1>1. PopularityInv /\ PopularityInv' =>
        (snapshot' = snapshot /\ DaypartOf(clock') = DaypartOf(clock) =>
           {<<de[2], de[1]>> : de \in InOrder(Popular)} \cap InOrder(Popular)' = {})
  BY SectionKeepsOrder DEF PopularityInv
<1> QED
  BY <1>1, SnapshotInOrder, PTL DEF NeverShuffles

=============================================================================
