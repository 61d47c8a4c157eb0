---------------------------- MODULE LiveFeed_proofs ----------------------------
(* The live screens: where the newest page of every topic is on its way to      *)
(* every screen, whatever the handlers, sockets and sequences of topics.        *)
EXTENDS LiveFeed, SequenceTheorems, TLAPS

----------------------------------------------------------------------------
(* The inductive invariant *)

Order == [status : Statuses \cup {"none"}, paid : BOOLEAN]
Message(s) == Slots(s) \X Page

Work ==
  /\ order \in [Orders -> Order]
  /\ todo \in [Handlers -> Seq(Topics)]
  /\ page \in [Handlers -> {Nothing} \cup {<<p>> : p \in Page}]
  /\ \A h \in Handlers : page[h] # Nothing => todo[h] # <<>>
  /\ last \in [Topics -> BOOLEAN]

\* What the socket of a screen holds.
Buffers(s) ==
  /\ chan[s] \in [Slots(s) -> Seq(Page)] /\ \A i \in Slots(s) : Len(chan[s][i]) <= ChannelCap
  /\ out[s] \in Seq(Message(s)) /\ Len(out[s]) <= ChannelCap
  /\ shown[s] \in [Slots(s) -> Page]
  /\ at[s] # "on" => chan[s] = Blank(s) /\ out[s] = <<>>

Sockets ==
  /\ at \in [Screens -> {"off", "drawn", "on", "closed"}]
  /\ DOMAIN chan = Screens /\ DOMAIN out = Screens /\ DOMAIN shown = Screens /\ DOMAIN lost = Screens
  /\ \A s \in Screens : Buffers(s)

\* Some handler has still to draw and send topic t.
Coming(t) == \E h \in Handlers : \E k \in 1 .. Len(todo[h]) : todo[h][k] = t

\* p is the newest page for the i-th topic of a screen: the last one in its
\* channel, or of the merged one, or the one it shows.
Newest(s, i, p) ==
  \/ chan[s][i] # <<>> /\ chan[s][i][Len(chan[s][i])] = p
  \/ /\ chan[s][i] = <<>>
     /\ \E k \in 1 .. Len(out[s]) : /\ out[s][k] = <<i, p>>
                                    /\ \A j \in 1 .. Len(out[s]) : j > k => out[s][j][1] # i
  \/ Settled(s, i) /\ shown[s][i] = p

\* The newest page of a topic is the page as it is now, or it is about to be
\* drawn again, or one of the two known things went wrong with the last one.
Current(s, i) ==
  LET t == TopicsOf[s][i]
  IN  Coming(t) \/ ~last[t] \/ t \in lost[s] \/ Newest(s, i, Render(t))

UpToDate == \A s \in Screens : at[s] \in {"drawn", "on"} => \A i \in Slots(s) : Current(s, i)

FeedInv == Work /\ Sockets /\ UpToDate

----------------------------------------------------------------------------
(* Pages and topics *)

\* A page is drawn of orders that were placed.
LEMMA RenderIsAPage ==
  ASSUME Work, NEW t
  PROVE  Render(t) \in Page
<1> DEFINE listed == CASE t = "table" -> TableOrders
                       [] t = "session" -> SessionOrders
                       [] OTHER -> FeedOrders(t)
<1>1. listed \subseteq Orders /\ \A o \in listed : order[o].status # "none"
  BY DEF TableOrders, SessionOrders, FeedOrders, staffActive, categoryActive
<1>2. \A o \in listed : order[o] \in [status : Statuses, paid : BOOLEAN]
  <2>1. \A o \in listed : order[o] \in Order
    BY <1>1 DEF Work
  <2> QED
    BY <1>1, <2>1 DEF Order
<1>3. Render(t) = {<<o, order[o]>> : o \in listed}
  BY DEF Render
<1> HIDE DEF listed
<1> QED
  BY <1>1, <1>2, <1>3 DEF Page

\* Each slot of a screen shows a topic.
LEMMA TopicOfSlot == \A s \in Screens : \A i \in Slots(s) : TopicsOf[s][i] \in Topics
  BY FeedAssumption DEF Slots

\* What a sequence holds, its concatenation with another holds.
Holds(seq, x) == \E k \in 1 .. Len(seq) : seq[k] = x

\* The concatenation of two sequences holds what either holds.
LEMMA ConcatHolds ==
  ASSUME NEW S, NEW a \in Seq(S), NEW b \in Seq(S)
  PROVE  /\ a \o b \in Seq(S)
         /\ \A x : Holds(a, x) \/ Holds(b, x) => Holds(a \o b, x)
<1>1. /\ a \o b \in Seq(S) /\ Len(a \o b) = Len(a) + Len(b) /\ Len(a) \in Nat /\ Len(b) \in Nat
      /\ \A k \in 1 .. Len(a) : (a \o b)[k] = a[k]
      /\ \A k \in 1 .. Len(b) : (a \o b)[k + Len(a)] = b[k]
  BY ConcatProperties
<1>2. ASSUME NEW x, Holds(a, x) PROVE Holds(a \o b, x)
  BY <1>1, <1>2 DEF Holds
<1>3. ASSUME NEW x, Holds(b, x) PROVE Holds(a \o b, x)
  <2>1. PICK k \in 1 .. Len(b) : b[k] = x
    BY <1>3 DEF Holds
  <2>2. k + Len(a) \in 1 .. Len(a \o b) /\ (a \o b)[k + Len(a)] = x
    BY <1>1, <2>1
  <2> QED
    BY <2>2 DEF Holds
<1> QED
  BY <1>1, <1>2, <1>3

IsFollowed(t) == \E s \in Screens : \E i \in Slots(s) : TopicsOf[s][i] = t

\* Followed keeps a topic that some screen shows.
LEMMA FollowedHolds ==
  ASSUME NEW t \in Topics
  PROVE  Followed(t) \in Seq(Topics) /\ (IsFollowed(t) => Holds(Followed(t), t))
<1>1. CASE IsFollowed(t)
  <2>1. Followed(t) = <<t>>
    BY <1>1 DEF Followed, IsFollowed
  <2> QED
    BY <2>1 DEF Holds
<1>2. CASE ~IsFollowed(t)
  <2>1. Followed(t) = <<>>
    BY <1>2 DEF Followed, IsFollowed
  <2> QED
    BY <1>2, <2>1
<1> QED
  BY <1>1, <1>2

\* After a change every page a screen shows is drawn again, whichever of the two
\* orders the handler draws them in.
LEMMA EveryTopicAfter ==
  /\ AfterChange \in Seq(Topics) /\ AfterCollect \in Seq(Topics)
  /\ \A t \in Topics : IsFollowed(t) => Holds(AfterChange, t) /\ Holds(AfterCollect, t)
<1> DEFINE f(t) == Followed(t)
           b2 == f("superworker") \o f("bar")
           b3 == b2 \o f("kitchen")
           b4 == b3 \o f("waiter")
           c1 == b4 \o f("table")
           d1 == f("session") \o f("table")
<1>1. \A t \in Topics : f(t) \in Seq(Topics) /\ (IsFollowed(t) => Holds(f(t), t))
  BY FollowedHolds
<1>2. /\ "superworker" \in Topics /\ "bar" \in Topics /\ "kitchen" \in Topics /\ "waiter" \in Topics
      /\ "table" \in Topics /\ "session" \in Topics
  BY DEF Topics
<1>3. orderFeedBuckets = b4 /\ AfterChange = c1 \o f("session") /\ AfterCollect = d1 \o b4
  BY DEF orderFeedBuckets, AfterChange, AfterCollect
<1> HIDE DEF f
<1>4. b2 \in Seq(Topics) /\ \A x : Holds(f("superworker"), x) \/ Holds(f("bar"), x) => Holds(b2, x)
  BY <1>1, <1>2, ConcatHolds
<1> HIDE DEF b2
<1>5. b3 \in Seq(Topics) /\ \A x : Holds(b2, x) \/ Holds(f("kitchen"), x) => Holds(b3, x)
  BY <1>1, <1>2, <1>4, ConcatHolds
<1> HIDE DEF b3
<1>6. b4 \in Seq(Topics) /\ \A x : Holds(b3, x) \/ Holds(f("waiter"), x) => Holds(b4, x)
  BY <1>1, <1>2, <1>5, ConcatHolds
<1> HIDE DEF b4
<1>7. c1 \in Seq(Topics) /\ \A x : Holds(b4, x) \/ Holds(f("table"), x) => Holds(c1, x)
  BY <1>1, <1>2, <1>6, ConcatHolds
<1>8. d1 \in Seq(Topics) /\ \A x : Holds(f("session"), x) \/ Holds(f("table"), x) => Holds(d1, x)
  BY <1>1, <1>2, ConcatHolds
<1> HIDE DEF c1, d1
<1>9. AfterChange \in Seq(Topics) /\ \A x : Holds(c1, x) \/ Holds(f("session"), x) => Holds(AfterChange, x)
  BY <1>1, <1>2, <1>3, <1>7, ConcatHolds
<1>10. AfterCollect \in Seq(Topics) /\ \A x : Holds(d1, x) \/ Holds(b4, x) => Holds(AfterCollect, x)
  BY <1>3, <1>6, <1>8, ConcatHolds
<1>11. ASSUME NEW t \in Topics, IsFollowed(t) PROVE Holds(AfterChange, t) /\ Holds(AfterCollect, t)
  <2>1. t \in {"superworker", "bar", "kitchen", "waiter", "table", "session"}
    BY DEF Topics
  <2>2. Holds(f(t), t)
    BY <1>1, <1>11
  <2> QED
    BY <2>1, <2>2, <1>4, <1>5, <1>6, <1>7, <1>8, <1>9, <1>10
<1> QED
  BY <1>9, <1>10, <1>11

----------------------------------------------------------------------------
(* What leaves a screen up to date *)

\* A step that leaves a socket and all pending pages alone leaves it as current as it was.
LEMMA SameScreen ==
  ASSUME NEW s \in Screens, NEW i \in Slots(s), UNCHANGED <<order, todo, last>>,
         chan'[s] = chan[s], out'[s] = out[s], shown'[s] = shown[s], lost'[s] = lost[s]
  PROVE  Current(s, i)' <=> Current(s, i)
<1>1. \A t : Render(t)' = Render(t)
  BY DEF Render, TableOrders, SessionOrders, FeedOrders
<1>2. \A t : Coming(t)' <=> Coming(t)
  BY DEF Coming
<1>3. \A p : Newest(s, i, p)' <=> Newest(s, i, p)
  BY DEF Newest, Settled
<1> QED
  BY <1>1, <1>2, <1>3 DEF Current

\* The orders change: every page a screen shows is about to be drawn again.
LEMMA BeginKeeps ==
  ASSUME FeedInv, NEW h \in Handlers, NEW state \in [Orders -> Order], NEW topics \in Seq(Topics),
         \A t \in Topics : IsFollowed(t) => Holds(topics, t), Begin(h, state, topics)
  PROVE  FeedInv'
<1>1. todo' = [todo EXCEPT ![h] = topics] /\ order' = state
  BY DEF Begin
<1>2. Work'
  BY <1>1 DEF Begin, FeedInv, Work
<1>3. Sockets'
  BY DEF Begin, sockets, FeedInv, Sockets, Buffers
<1>4. ASSUME NEW s \in Screens, NEW i \in Slots(s) PROVE Current(s, i)'
  <2>1. TopicsOf[s][i] \in Topics /\ IsFollowed(TopicsOf[s][i])
    BY TopicOfSlot DEF IsFollowed
  <2>2. todo'[h] = topics
    BY <1>1 DEF FeedInv, Work
  <2>3. Coming(TopicsOf[s][i])'
    BY <2>1, <2>2 DEF Coming, Holds
  <2> QED
    BY <2>3 DEF Current
<1> QED
  BY <1>2, <1>3, <1>4 DEF FeedInv, UpToDate

\* An order that changes queues every page that shows it.
LEMMA ChangeKeeps ==
  ASSUME FeedInv, NEW h \in Handlers, NEW o \in Orders, ChangeOrder(h, o)
  PROVE  FeedInv'
<1>0. order \in [Orders -> Order]
  BY DEF FeedInv, Work
<1>1. CASE order[o] = None /\ Begin(h, [order EXCEPT ![o].status = "pending"], AfterChange)
  <2>1. [order EXCEPT ![o].status = "pending"] \in [Orders -> Order]
    BY <1>0 DEF Order, Statuses
  <2> QED
    BY <1>1, <2>1, EveryTopicAfter, BeginKeeps
<1>2. ASSUME NEW move \in Moves, Begin(h, [order EXCEPT ![o] = move], AfterChange) PROVE FeedInv'
  <2>1. move \in Order
    BY MovesAssumption DEF Order
  <2>2. [order EXCEPT ![o] = move] \in [Orders -> Order]
    BY <1>0, <2>1
  <2> QED
    BY <1>2, <2>2, EveryTopicAfter, BeginKeeps
<1> QED
  BY <1>1, <1>2 DEF ChangeOrder

\* Taking payment for a table queues every page that shows its orders.
LEMMA PayKeeps ==
  ASSUME FeedInv, NEW h \in Handlers, WorkerPayTable(h)
  PROVE  FeedInv'
<1> DEFINE unpaid == {o \in Orders : order[o] # None /\ ~order[o].paid /\ order[o].status # "cancelled"}
           state == [o \in Orders |-> IF o \in unpaid THEN [order[o] EXCEPT !.paid = TRUE] ELSE order[o]]
<1>1. state \in [Orders -> Order]
  <2>1. ASSUME NEW o \in Orders PROVE order[o] \in Order /\ [order[o] EXCEPT !.paid = TRUE] \in Order
    <3>1. order[o] \in Order
      BY DEF FeedInv, Work
    <3> QED
      BY <3>1 DEF Order
  <2> QED
    BY <2>1
<1>2. Begin(h, state, AfterCollect)
  BY DEF WorkerPayTable
<1> HIDE DEF state
<1> QED
  BY <1>1, <1>2, EveryTopicAfter, BeginKeeps

\* A handler that renders a page renders the present one.
LEMMA DrawKeeps ==
  ASSUME FeedInv, NEW h \in Handlers, Draw(h)
  PROVE  FeedInv'
<1>1. Work'
  <2>1. Render(Head(todo[h])) \in Page
    BY RenderIsAPage DEF FeedInv
  <2> QED
    BY <2>1 DEF Draw, FeedInv, Work
<1>2. Sockets'
  BY DEF Draw, sockets, FeedInv, Sockets, Buffers
<1>3. UpToDate'
  BY SameScreen DEF Draw, sockets, FeedInv, UpToDate
<1> QED
  BY <1>1, <1>2, <1>3 DEF FeedInv

\* Steps beside orders, pages and sockets keep the invariant.
LEMMA AsideKeeps ==
  ASSUME FeedInv, UNCHANGED <<order, todo, page, sockets, last, lost>>
  PROVE  FeedInv'
<1>1. Work' /\ Sockets'
  BY DEF sockets, FeedInv, Work, Sockets, Buffers
<1>2. UpToDate'
  BY SameScreen DEF sockets, FeedInv, UpToDate
<1> QED
  BY <1>1, <1>2 DEF FeedInv

----------------------------------------------------------------------------
(* A page is broadcast *)

\* A message sent to a channel with room is the newest there.
LEMMA SendLast ==
  ASSUME NEW S, NEW q \in Seq(S), NEW msg \in S
  PROVE  /\ Send(q, msg) \in Seq(S)
         /\ Len(q) <= ChannelCap => Len(Send(q, msg)) <= ChannelCap
         /\ Len(q) < ChannelCap => Send(q, msg) # <<>> /\ Send(q, msg)[Len(Send(q, msg))] = msg
<1>1. CASE Len(q) < ChannelCap
  <2>1. Send(q, msg) = Append(q, msg)
    BY <1>1 DEF Send
  <2>2. Append(q, msg) \in Seq(S) /\ Len(Append(q, msg)) = Len(q) + 1 /\ Append(q, msg)[Len(q) + 1] = msg
    OBVIOUS
  <2> QED
    BY <1>1, <2>1, <2>2, FeedAssumption
<1>2. CASE ~(Len(q) < ChannelCap)
  BY <1>2 DEF Send
<1> QED
  BY <1>1, <1>2

\* A broadcast reaches every subscribed screen or marks it lost.
LEMMA BroadcastKeeps ==
  ASSUME FeedInv, NEW h \in Handlers, Broadcast(h)
  PROVE  FeedInv'
<1>1. PICK t, msg : t = Head(todo[h]) /\ msg = Head(page[h])
  OBVIOUS
<1>2. /\ todo[h] \in Seq(Topics) /\ todo[h] # <<>> /\ t \in Topics /\ msg \in Page
      /\ Tail(todo[h]) \in Seq(Topics)
      /\ \A k \in 1 .. Len(todo[h]) : todo[h][k] = t \/ (k - 1 \in 1 .. Len(Tail(todo[h])) /\ Tail(todo[h])[k - 1] = todo[h][k])
  <2>1. todo[h] \in Seq(Topics) /\ todo[h] # <<>>
    BY DEF Broadcast, FeedInv, Work
  <2>2. msg \in Page
    <3>1. PICK p \in Page : page[h] = <<p>>
      BY DEF Broadcast, FeedInv, Work
    <3> QED
      BY <1>1, <3>1
  <2> QED
    BY <1>1, <2>1, <2>2
<1>3. Deliver(h, t, msg)
  BY <1>1 DEF Broadcast
<1>4. Work'
  <2>1. todo' = [todo EXCEPT ![h] = Tail(todo[h])] /\ page' = [page EXCEPT ![h] = Nothing]
    BY <1>3 DEF Deliver, FeedInv, Work
  <2>2. last' = [last EXCEPT ![t] = (msg = Render(t))] /\ order' = order
    BY <1>3 DEF Deliver
  <2>3. last' \in [Topics -> BOOLEAN]
    BY <2>2, Zenon DEF FeedInv, Work
  <2> QED
    BY <1>2, <2>1, <2>2, <2>3 DEF FeedInv, Work
<1>5. /\ \A s \in Screens : \A i \in Slots(s) :
           chan'[s][i] = IF Subscribed(s, i, t) THEN Send(chan[s][i], msg) ELSE chan[s][i]
      /\ DOMAIN chan' = Screens /\ \A s \in Screens : DOMAIN chan'[s] = Slots(s)
      /\ chan' = [s \in Screens |-> [i \in Slots(s) |->
                   IF Subscribed(s, i, t) THEN Send(chan[s][i], msg) ELSE chan[s][i]]]
      /\ UNCHANGED <<at, out, shown>>
  BY <1>3 DEF Deliver
<1>6. Sockets'
  <2>1. ASSUME NEW s \in Screens
        PROVE  chan'[s] \in [Slots(s) -> Seq(Page)] /\ \A i \in Slots(s) : Len(chan'[s][i]) <= ChannelCap
    <3>1. ASSUME NEW i \in Slots(s) PROVE chan'[s][i] \in Seq(Page) /\ Len(chan'[s][i]) <= ChannelCap
      <4>1. chan[s][i] \in Seq(Page) /\ Len(chan[s][i]) <= ChannelCap
        BY DEF FeedInv, Sockets, Buffers
      <4> QED
        <5>1. Send(chan[s][i], msg) \in Seq(Page) /\ Len(Send(chan[s][i], msg)) <= ChannelCap
          BY <1>2, <4>1, SendLast
        <5> QED
          BY <1>5, <4>1, <5>1
    <3>2. chan'[s] = [i \in Slots(s) |-> IF Subscribed(s, i, t) THEN Send(chan[s][i], msg) ELSE chan[s][i]]
      BY <1>5
    <3> QED
      BY <1>5, <3>1, <3>2
  <2>2. ASSUME NEW s \in Screens, at[s] # "on" PROVE chan'[s] = chan[s]
    <3>1. chan'[s] = [i \in Slots(s) |-> chan[s][i]]
      BY <1>5, <2>2 DEF Subscribed
    <3> QED
      BY <3>1 DEF FeedInv, Sockets, Buffers
  <2>3. DOMAIN lost' = Screens
    BY <1>3 DEF Deliver
  <2> QED
    BY <1>5, <2>1, <2>2, <2>3 DEF FeedInv, Sockets, Buffers
<1>7. \A x : Render(x)' = Render(x)
  BY <1>3 DEF Deliver, Render, TableOrders, SessionOrders, FeedOrders
<1>8. \A x : x # t /\ Coming(x) => Coming(x)'
  <2> SUFFICES ASSUME NEW x, x # t, Coming(x) PROVE Coming(x)'
    OBVIOUS
  <2>0. PICK g \in Handlers : \E k \in 1 .. Len(todo[g]) : todo[g][k] = x
    BY DEF Coming
  <2>1. PICK k \in 1 .. Len(todo[g]) : todo[g][k] = x
    BY <2>0
  <2>2. todo' = [todo EXCEPT ![h] = Tail(todo[h])] /\ todo \in [Handlers -> Seq(Topics)]
    BY <1>3 DEF Deliver, FeedInv, Work
  <2>3. CASE g = h
    <3>1. k - 1 \in 1 .. Len(todo'[h]) /\ todo'[h][k - 1] = x
      BY <1>2, <2>1, <2>2, <2>3
    <3> QED
      BY <3>1 DEF Coming
  <2>4. CASE g # h
    BY <2>1, <2>2, <2>4 DEF Coming
  <2> QED
    BY <2>3, <2>4
<1>9. ASSUME NEW s \in Screens, at[s] \in {"drawn", "on"}, NEW i \in Slots(s) PROVE Current(s, i)'
  <2>1. Current(s, i) /\ TopicsOf[s][i] \in Topics
    BY <1>9, TopicOfSlot DEF FeedInv, UpToDate
  <2>2. lost'[s] = IF \E j \in Slots(s) : TopicsOf[s][j] = t /\ ~(Subscribed(s, j, t) /\ Room(s, j))
                   THEN lost[s] \cup {t} ELSE lost[s] \ {t}
    BY <1>3, <1>9 DEF Deliver
  <2>3. CASE TopicsOf[s][i] = t
    <3>1. CASE Subscribed(s, i, t) /\ Room(s, i)
      <4>1. chan[s][i] \in Seq(Page)
        BY DEF FeedInv, Sockets, Buffers
      <4>2. chan'[s][i] # <<>> /\ chan'[s][i][Len(chan'[s][i])] = msg
        BY <1>2, <1>5, <3>1, <4>1, SendLast DEF Room
      <4>3. last'[t] => msg = Render(t)
        BY <1>2, <1>3 DEF Deliver, FeedInv, Work
      <4>4. Newest(s, i, msg)'
        BY <4>2 DEF Newest
      <4> QED
        BY <1>7, <2>3, <4>3, <4>4 DEF Current
    <3>2. CASE ~(Subscribed(s, i, t) /\ Room(s, i))
      BY <2>2, <2>3, <3>2 DEF Current
    <3> QED
      BY <3>1, <3>2
  <2>4. CASE TopicsOf[s][i] # t
    <3>1. chan'[s][i] = chan[s][i] /\ out'[s] = out[s] /\ shown'[s] = shown[s]
      BY <1>5, <2>4 DEF Subscribed
    <3>2. \A p : Newest(s, i, p)' <=> Newest(s, i, p)
      BY <3>1 DEF Newest, Settled
    <3>3. last'[TopicsOf[s][i]] = last[TopicsOf[s][i]]
      BY <1>2, <1>3, <2>1, <2>4 DEF Deliver, FeedInv, Work
    <3>4. TopicsOf[s][i] \in lost[s] => TopicsOf[s][i] \in lost'[s]
      BY <2>2, <2>4
    <3> QED
      BY <1>7, <1>8, <2>1, <2>4, <3>2, <3>3, <3>4 DEF Current
  <2> QED
    BY <2>3, <2>4
<1> QED
  BY <1>4, <1>5, <1>6, <1>9 DEF FeedInv, UpToDate

----------------------------------------------------------------------------
(* Sockets *)

\* A screen connects with the page it has just drawn.
LEMMA ConnectKeeps ==
  ASSUME FeedInv, NEW s \in Screens, Connect(s)
  PROVE  FeedInv'
<1>1. Work'
  BY DEF Connect, FeedInv, Work
<1>2. FirstPage(s) \in [Slots(s) -> Page]
  BY RenderIsAPage DEF FirstPage, FeedInv
<1>3. Sockets'
  BY <1>2 DEF Connect, FeedInv, Sockets, Buffers
<1>4. ASSUME NEW z \in Screens, at'[z] \in {"drawn", "on"}, NEW i \in Slots(z) PROVE Current(z, i)'
  <2>1. CASE z = s
    <3>1. chan'[s][i] = <<>> /\ out'[s] = <<>>
      BY <2>1 DEF Connect, FeedInv, Sockets, Buffers, Blank
    <3>2. shown'[s][i] = Render(TopicsOf[s][i])
      BY <2>1 DEF Connect, FeedInv, Sockets, FirstPage
    <3>3. Render(TopicsOf[s][i])' = Render(TopicsOf[s][i])
      BY DEF Connect, Render, TableOrders, SessionOrders, FeedOrders
    <3>4. Newest(s, i, Render(TopicsOf[s][i]))'
      BY <3>1, <3>2, <3>3 DEF Newest, Settled
    <3> QED
      BY <2>1, <3>4 DEF Current
  <2>2. CASE z # s
    <3>1. /\ chan'[z] = chan[z] /\ out'[z] = out[z] /\ shown'[z] = shown[z] /\ lost'[z] = lost[z]
          /\ at[z] \in {"drawn", "on"}
      BY <1>4, <2>2 DEF Connect, FeedInv, Sockets
    <3>2. Current(z, i)
      BY <3>1 DEF FeedInv, UpToDate
    <3> QED
      BY <3>1, <3>2, SameScreen DEF Connect
  <2> QED
    BY <2>1, <2>2
<1> QED
  BY <1>1, <1>3, <1>4 DEF FeedInv, UpToDate

\* Subscribing changes no page.
LEMMA SubscribeKeeps ==
  ASSUME FeedInv, NEW s \in Screens, Subscribe(s)
  PROVE  FeedInv'
<1>1. Work' /\ Sockets'
  BY DEF Subscribe, FeedInv, Work, Sockets, Buffers
<1>2. \A z \in Screens : at'[z] \in {"drawn", "on"} => at[z] \in {"drawn", "on"}
  BY DEF Subscribe, FeedInv, Sockets
<1>3. UpToDate'
  BY <1>2, SameScreen DEF Subscribe, FeedInv, UpToDate
<1> QED
  BY <1>1, <1>3 DEF FeedInv

\* The oldest page of a channel goes to the end of the merged one.
LEMMA ForwardKeeps ==
  ASSUME FeedInv, NEW s \in Screens, NEW i \in Slots(s), Forward(s, i)
  PROVE  FeedInv'
<1> DEFINE c == chan[s][i]
<1>1. PICK q, o : q = chan[s][i] /\ o = out[s]
  OBVIOUS
<1>2. q \in Seq(Page) /\ q # <<>> /\ Len(q) <= ChannelCap /\ o \in Seq(Message(s)) /\ Len(o) < ChannelCap /\ at[s] = "on"
  BY <1>1 DEF Forward, FeedInv, Sockets, Buffers, Blank
<1>3. PICK m : m = <<i, Head(q)>>
  OBVIOUS
<1>4. m \in Message(s) /\ m[1] = i /\ m[2] = Head(q)
  BY <1>2, <1>3 DEF Message
<1>5. /\ Tail(q) \in Seq(Page) /\ Len(Tail(q)) = Len(q) - 1 /\ Len(q) \in Nat /\ Len(q) > 0
      /\ Len(q) > 1 => Tail(q) # <<>> /\ Tail(q)[Len(q) - 1] = q[Len(q)]
      /\ Len(q) = 1 => Tail(q) = <<>> /\ Head(q) = q[Len(q)]
  <2>1. /\ Tail(q) \in Seq(Page) /\ Len(Tail(q)) = Len(q) - 1 /\ Len(q) \in Nat /\ Len(q) > 0
        /\ Head(q) = q[1] /\ \A k \in 1 .. Len(q) - 1 : Tail(q)[k] = q[k + 1]
    BY <1>2
  <2>2. Len(q) > 1 => Tail(q) # <<>> /\ Tail(q)[Len(q) - 1] = q[Len(q)]
    <3>1. PICK r : r = Tail(q)
      OBVIOUS
    <3>2. r \in Seq(Page) /\ Len(r) = Len(q) - 1 /\ \A k \in 1 .. Len(q) - 1 : r[k] = q[k + 1]
      BY <2>1, <3>1
    <3>3. Len(q) > 1 => Len(r) # 0 /\ Len(q) - 1 \in 1 .. Len(q) - 1 /\ (Len(q) - 1) + 1 = Len(q)
      BY <2>1, <3>2
    <3>4. Len(q) > 1 => r # <<>> /\ r[Len(q) - 1] = q[Len(q)]
      BY <3>2, <3>3
    <3> QED
      BY <3>1, <3>4
  <2>3. Len(q) = 1 => Tail(q) = <<>>
    <3>1. PICK r : r = Tail(q)
      OBVIOUS
    <3>2. r \in Seq(Page) /\ Len(r) = Len(q) - 1
      BY <2>1, <3>1
    <3>3. Len(q) = 1 => r = <<>>
      BY <3>2, EmptySeq
    <3> QED
      BY <3>1, <3>3
  <2> QED
    BY <2>1, <2>2, <2>3
<1>6. /\ Append(o, m) \in Seq(Message(s)) /\ Len(Append(o, m)) = Len(o) + 1 /\ Len(o) \in Nat
      /\ Append(o, m)[Len(o) + 1] = m /\ \A k \in 1 .. Len(o) : Append(o, m)[k] = o[k]
  BY <1>2, <1>4
<1>7. /\ DOMAIN out' = Screens /\ out'[s] = Append(o, m) /\ \A z \in Screens : z # s => out'[z] = out[z]
      /\ DOMAIN chan' = Screens /\ \A z \in Screens : z # s => chan'[z] = chan[z]
      /\ chan'[s] = [chan[s] EXCEPT ![i] = Tail(q)]
  BY <1>1, <1>3 DEF Forward, FeedInv, Sockets
<1>8. chan'[s][i] = Tail(q) /\ \A j \in Slots(s) : j # i => chan'[s][j] = chan[s][j]
  BY <1>7 DEF FeedInv, Sockets, Buffers
<1>9. Work'
  BY DEF Forward, FeedInv, Work
<1>10. Sockets'
  <2>1. chan'[s] \in [Slots(s) -> Seq(Page)]
    BY <1>5, <1>7 DEF FeedInv, Sockets, Buffers
  <2>2. \A j \in Slots(s) : Len(chan'[s][j]) <= ChannelCap
    <3>1. Len(Tail(q)) <= ChannelCap
      BY <1>2, <1>5, FeedAssumption
    <3>2. \A j \in Slots(s) : Len(chan[s][j]) <= ChannelCap
      BY DEF FeedInv, Sockets, Buffers
    <3> QED
      BY <1>8, <3>1, <3>2
  <2>3. out'[s] \in Seq(Message(s)) /\ Len(out'[s]) <= ChannelCap
    BY <1>2, <1>6, <1>7, FeedAssumption
  <2>4. Buffers(s)'
    BY <1>2, <2>1, <2>2, <2>3 DEF Forward, FeedInv, Sockets, Buffers, Message
  <2>5. \A z \in Screens : z # s => Buffers(z)'
    BY <1>7 DEF Forward, FeedInv, Sockets, Buffers
  <2> QED
    BY <1>7, <2>4, <2>5 DEF Forward, FeedInv, Sockets
<1>11. \A x : Render(x)' = Render(x) /\ (Coming(x)' <=> Coming(x))
  BY DEF Forward, Render, TableOrders, SessionOrders, FeedOrders, Coming
<1>12. ASSUME NEW j \in Slots(s), NEW p, Newest(s, j, p) PROVE Newest(s, j, p)'
  <2>1. CASE j = i
    <3>1. p = q[Len(q)]
      BY <1>1, <1>2, <1>12, <2>1 DEF Newest, Settled
    <3>2. CASE Len(q) > 1
      BY <1>5, <1>8, <2>1, <3>1, <3>2 DEF Newest
    <3>3. CASE Len(q) = 1
      <4>1. chan'[s][i] = <<>> /\ m = <<i, p>>
        BY <1>3, <1>5, <1>8, <3>1, <3>3
      <4>2. /\ Len(o) + 1 \in 1 .. Len(out'[s]) /\ out'[s][Len(o) + 1] = <<i, p>>
            /\ \A k \in 1 .. Len(out'[s]) : k > Len(o) + 1 => out'[s][k][1] # i
        BY <1>6, <1>7, <4>1
      <4> QED
        BY <2>1, <4>1, <4>2 DEF Newest
    <3> QED
      BY <1>5, <3>2, <3>3
  <2>2. CASE j # i
    <3>1. chan'[s][j] = chan[s][j] /\ shown'[s][j] = shown[s][j]
      BY <1>8, <2>2 DEF Forward
    <3>2. CASE chan[s][j] # <<>>
      BY <1>12, <3>1, <3>2 DEF Newest, Settled
    <3>3. ASSUME chan[s][j] = <<>>, NEW k \in 1 .. Len(o), o[k] = <<j, p>>,
                 \A l \in 1 .. Len(o) : l > k => o[l][1] # j
          PROVE  Newest(s, j, p)'
      <4>1. k \in 1 .. Len(out'[s]) /\ out'[s][k] = <<j, p>>
        BY <1>6, <1>7, <3>3
      <4>2. \A l \in 1 .. Len(out'[s]) : l > k => out'[s][l][1] # j
        <5>1. \A l \in 1 .. Len(o) + 1 : l = Len(o) + 1 \/ l \in 1 .. Len(o)
          BY <1>6
        <5>2. out'[s][Len(o) + 1][1] # j
          BY <1>4, <1>6, <1>7, <2>2
        <5> QED
          BY <1>6, <1>7, <3>3, <5>1, <5>2
      <4> QED
        BY <3>1, <3>3, <4>1, <4>2 DEF Newest
    <3>4. CASE Settled(s, j) /\ shown[s][j] = p
      <4>1. \A l \in 1 .. Len(o) : o[l][1] # j
        BY <1>1, <1>2, <3>4 DEF Settled
      <4>2. \A l \in DOMAIN out'[s] : out'[s][l][1] # j
        BY <1>4, <1>6, <1>7, <2>2, <4>1
      <4> QED
        BY <3>1, <3>4, <4>2 DEF Newest, Settled
    <3> QED
      BY <1>1, <1>12, <3>2, <3>3, <3>4 DEF Newest
  <2> QED
    BY <2>1, <2>2
<1>13. ASSUME NEW z \in Screens, at'[z] \in {"drawn", "on"}, NEW j \in Slots(z) PROVE Current(z, j)'
  <2>1. Current(z, j)
    BY <1>13 DEF Forward, FeedInv, UpToDate
  <2>2. CASE z = s
    BY <1>11, <1>12, <2>1, <2>2 DEF Current, Forward
  <2>3. CASE z # s
    BY <1>7, <2>1, <2>3, SameScreen DEF Forward
  <2> QED
    BY <2>2, <2>3
<1> QED
  BY <1>9, <1>10, <1>13 DEF FeedInv, UpToDate

\* The oldest page of the merged channel is shown.
LEMMA WriteKeeps ==
  ASSUME FeedInv, NEW s \in Screens, Write(s)
  PROVE  FeedInv'
<1>1. PICK o : o = out[s]
  OBVIOUS
<1>2. o \in Seq(Message(s)) /\ o # <<>> /\ Len(o) <= ChannelCap /\ at[s] = "on"
  BY <1>1 DEF Write, FeedInv, Sockets, Buffers
<1>3. PICK m : m = Head(o)
  OBVIOUS
<1>4. m = o[1] /\ m \in Message(s) /\ m[1] \in Slots(s) /\ m[2] \in Page /\ m = <<m[1], m[2]>>
  <2>1. m = o[1] /\ m \in Message(s)
    BY <1>2, <1>3
  <2> QED
    BY <2>1 DEF Message
<1>5. PICK r : r = Tail(o)
  OBVIOUS
<1>6. /\ r \in Seq(Message(s)) /\ Len(r) = Len(o) - 1 /\ Len(o) \in Nat /\ Len(o) > 0
      /\ \A k \in 1 .. Len(r) : r[k] = o[k + 1]
  BY <1>2, <1>5
<1>7. /\ DOMAIN out' = Screens /\ out'[s] = r /\ \A z \in Screens : z # s => out'[z] = out[z]
      /\ DOMAIN shown' = Screens /\ \A z \in Screens : z # s => shown'[z] = shown[z]
      /\ shown'[s] = [shown[s] EXCEPT ![m[1]] = m[2]]
  BY <1>1, <1>3, <1>5 DEF Write, FeedInv, Sockets
<1>8. shown'[s][m[1]] = m[2] /\ \A j \in Slots(s) : j # m[1] => shown'[s][j] = shown[s][j]
  BY <1>4, <1>7 DEF FeedInv, Sockets, Buffers
<1>9. Work'
  BY DEF Write, FeedInv, Work
<1>10. Sockets'
  <2>1. shown'[s] \in [Slots(s) -> Page]
    BY <1>4, <1>7 DEF FeedInv, Sockets, Buffers
  <2>2. out'[s] \in Seq(Message(s)) /\ Len(out'[s]) <= ChannelCap
    BY <1>2, <1>6, <1>7, FeedAssumption
  <2>3. Buffers(s)'
    BY <1>2, <2>1, <2>2 DEF Write, FeedInv, Sockets, Buffers, Message
  <2>4. \A z \in Screens : z # s => Buffers(z)'
    BY <1>7 DEF Write, FeedInv, Sockets, Buffers
  <2> QED
    BY <1>7, <2>3, <2>4 DEF Write, FeedInv, Sockets
<1>11. \A x : Render(x)' = Render(x) /\ (Coming(x)' <=> Coming(x))
  BY DEF Write, Render, TableOrders, SessionOrders, FeedOrders, Coming
<1>12. ASSUME NEW j \in Slots(s), NEW p, Newest(s, j, p) PROVE Newest(s, j, p)'
  <2>1. chan'[s][j] = chan[s][j]
    BY DEF Write
  <2>2. CASE chan[s][j] # <<>>
    BY <1>12, <2>1, <2>2 DEF Newest, Settled
  <2>3. ASSUME chan[s][j] = <<>>, NEW k \in 1 .. Len(o), o[k] = <<j, p>>,
               \A l \in 1 .. Len(o) : l > k => o[l][1] # j
        PROVE  Newest(s, j, p)'
    <3>1. CASE k = 1
      <4>1. m[1] = j /\ m[2] = p
        BY <1>4, <2>3, <3>1
      <4>2. \A l \in 1 .. Len(r) : r[l][1] # j
        <5>1. \A l \in 1 .. Len(r) : l + 1 \in 1 .. Len(o) /\ l + 1 > 1
          BY <1>6
        <5> QED
          BY <1>6, <2>3, <3>1, <5>1
      <4>3. Settled(s, j)' /\ shown'[s][j] = p
        BY <1>6, <1>7, <1>8, <2>1, <2>3, <4>1, <4>2 DEF Settled
      <4> QED
        BY <4>3 DEF Newest
    <3>2. CASE k # 1
      <4>1. k - 1 \in 1 .. Len(r) /\ r[k - 1] = <<j, p>>
        BY <1>6, <2>3, <3>2
      <4>2. \A l \in 1 .. Len(r) : l > k - 1 => r[l][1] # j
        <5>1. \A l \in 1 .. Len(r) : l > k - 1 => l + 1 \in 1 .. Len(o) /\ l + 1 > k
          BY <1>6
        <5> QED
          BY <1>6, <2>3, <5>1
      <4> QED
        BY <1>7, <2>1, <2>3, <4>1, <4>2 DEF Newest
    <3> QED
      BY <3>1, <3>2
  <2>4. CASE Settled(s, j) /\ shown[s][j] = p
    <3>1. \A l \in 1 .. Len(o) : o[l][1] # j
      BY <1>1, <1>2, <2>4 DEF Settled
    <3>2. m[1] # j
      BY <1>4, <1>6, <3>1
    <3>3. \A l \in 1 .. Len(r) : r[l][1] # j
      <4>1. \A l \in 1 .. Len(r) : l + 1 \in 1 .. Len(o)
        BY <1>6
      <4> QED
        BY <1>6, <3>1, <4>1
    <3> QED
      BY <1>6, <1>7, <1>8, <2>1, <2>4, <3>2, <3>3 DEF Newest, Settled
  <2> QED
    BY <1>1, <1>12, <2>2, <2>3, <2>4 DEF Newest
<1>13. ASSUME NEW z \in Screens, at'[z] \in {"drawn", "on"}, NEW j \in Slots(z) PROVE Current(z, j)'
  <2>1. Current(z, j)
    BY <1>13 DEF Write, FeedInv, UpToDate
  <2>2. CASE z = s
    BY <1>11, <1>12, <2>1, <2>2 DEF Current, Write
  <2>3. CASE z # s
    BY <1>7, <2>1, <2>3, SameScreen DEF Write
  <2> QED
    BY <2>2, <2>3
<1> QED
  BY <1>9, <1>10, <1>13 DEF FeedInv, UpToDate

\* A socket that ends leaves nothing behind.
LEMMA EndKeeps ==
  ASSUME FeedInv, NEW s \in Screens, NEW next \in {"off", "closed"}, End(s, next)
  PROVE  FeedInv'
<1>1. Work'
  BY DEF End, FeedInv, Work
<1>2. Sockets'
  <2>1. /\ \A z \in Screens : z # s => /\ chan'[z] = chan[z] /\ out'[z] = out[z]
                                       /\ shown'[z] = shown[z] /\ at'[z] = at[z]
        /\ chan'[s] = Blank(s) /\ out'[s] = <<>> /\ shown'[s] = NoPages(s) /\ at'[s] = next
        /\ DOMAIN chan' = Screens /\ DOMAIN out' = Screens /\ DOMAIN shown' = Screens /\ DOMAIN lost' = Screens
        /\ at' \in [Screens -> {"off", "drawn", "on", "closed"}]
    BY DEF End, FeedInv, Sockets
  <2>2. Blank(s) \in [Slots(s) -> Seq(Page)] /\ (\A i \in Slots(s) : Len(Blank(s)[i]) <= ChannelCap)
    BY FeedAssumption DEF Blank
  <2>3. NoPages(s) \in [Slots(s) -> Page]
    BY DEF NoPages, Page
  <2>4. <<>> \in Seq(Message(s)) /\ Len(<<>>) <= ChannelCap
    BY FeedAssumption
  <2>5. Buffers(s)'
    BY <2>1, <2>2, <2>3, <2>4 DEF Buffers, Message
  <2>6. \A z \in Screens : z # s => Buffers(z)'
    BY <2>1 DEF FeedInv, Sockets, Buffers
  <2> QED
    BY <2>1, <2>5, <2>6 DEF Sockets
<1>3. ASSUME NEW z \in Screens, at'[z] \in {"drawn", "on"}, NEW j \in Slots(z) PROVE Current(z, j)'
  <2>1. z # s
    BY <1>3 DEF End, FeedInv, Sockets
  <2>2. /\ at[z] \in {"drawn", "on"} /\ chan'[z] = chan[z] /\ out'[z] = out[z]
        /\ shown'[z] = shown[z] /\ lost'[z] = lost[z]
    BY <1>3, <2>1 DEF End, FeedInv, Sockets
  <2>3. Current(z, j)
    BY <2>2 DEF FeedInv, UpToDate
  <2> QED
    BY <2>2, <2>3, SameScreen DEF End
<1> QED
  BY <1>1, <1>2, <1>3 DEF FeedInv, UpToDate

----------------------------------------------------------------------------
(* Every screen is up to date, or known not to be *)

\* No screen is connected at the start.
LEMMA InitFeed == Init => FeedInv
<1> SUFFICES ASSUME Init PROVE FeedInv
  OBVIOUS
<1>1. Work
  <2>1. None \in Order
    BY DEF None, Order
  <2> QED
    BY <2>1 DEF Init, Work
<1>2. Sockets
  <2>1. ASSUME NEW s \in Screens PROVE Buffers(s)
    <3>1. chan[s] = Blank(s) /\ out[s] = <<>> /\ shown[s] = NoPages(s)
      BY DEF Init
    <3>2. Blank(s) \in [Slots(s) -> Seq(Page)] /\ (\A i \in Slots(s) : Len(Blank(s)[i]) <= ChannelCap)
      BY FeedAssumption DEF Blank
    <3>3. NoPages(s) \in [Slots(s) -> Page]
      BY DEF NoPages, Page
    <3>4. <<>> \in Seq(Message(s)) /\ Len(<<>>) <= ChannelCap
      BY FeedAssumption
    <3> QED
      BY <3>1, <3>2, <3>3, <3>4 DEF Buffers
  <2> QED
    BY <2>1 DEF Init, Sockets
<1>3. UpToDate
  BY DEF Init, UpToDate
<1> QED
  BY <1>1, <1>2, <1>3 DEF FeedInv

\* Every step keeps the invariant.
LEMMA NextFeed ==
  ASSUME FeedInv, [Next]_vars
  PROVE  FeedInv'
<1>1. ASSUME NEW h \in Handlers, Handle(h) \/ WorkerPayTable(h) \/ \E o \in Orders : ChangeOrder(h, o)
      PROVE  FeedInv'
  BY <1>1, DrawKeeps, BroadcastKeeps, PayKeeps, ChangeKeeps DEF Handle
<1>2. ASSUME NEW s \in Screens,
             Connect(s) \/ Pump(s) \/ Recheck(s) \/ Disconnect(s) \/ SignOut(s) \/ Freeze(s)
      PROVE  FeedInv'
  <2>1. CASE Pump(s)
    BY <2>1, SubscribeKeeps, WriteKeeps, ForwardKeeps DEF Pump, Forwarders
  <2>2. CASE Recheck(s) \/ Disconnect(s)
    BY <2>2, EndKeeps DEF Recheck, Disconnect
  <2>3. CASE SignOut(s) \/ Freeze(s)
    BY <2>3, AsideKeeps DEF SignOut, Freeze
  <2> QED
    BY <1>2, <2>1, <2>2, <2>3, ConnectKeeps
<1>3. CASE UNCHANGED vars
  BY <1>3, AsideKeeps DEF vars, sockets
<1>4. CASE Next
  BY <1>1, <1>2, <1>4, Zenon DEF Next
<1> QED
  BY <1>3, <1>4

\* The inductive invariant.
THEOREM FeedInvariant == Spec => []FeedInv
<1> QED
  BY InitFeed, NextFeed, PTL DEF Spec

\* Buffers stay within their caps, only a subscribed socket has any, and a
\* handler holds a page only for a topic it has still to send.
THEOREM FeedTypes == Spec => []TypeOK
<1>1. FeedInv => TypeOK
  BY DEF FeedInv, Work, Sockets, Buffers, TypeOK
<1> QED
  BY <1>1, FeedInvariant, PTL

\* Once every handler is done and nothing is on its way, a connected screen shows
\* the orders as they are, but for the two exceptions the property names: the
\* last page of the topic was drawn too early, or did not reach the screen
\* (the handlers' broadcasts, Hub.Broadcast, mergeTopics, pumpWS).
THEOREM ScreensAgree == Spec => []ScreensTrue
<1>1. ASSUME FeedInv, Quiet, NEW s \in Screens, at[s] = "on", NEW i \in Slots(s),
             Settled(s, i), last[TopicsOf[s][i]], TopicsOf[s][i] \notin lost[s]
      PROVE  shown[s][i] = Render(TopicsOf[s][i])
  <2>1. ~Coming(TopicsOf[s][i])
    BY <1>1 DEF Coming, Quiet
  <2>2. Newest(s, i, Render(TopicsOf[s][i]))
    BY <1>1, <2>1 DEF FeedInv, UpToDate, Current
  <2>3. out[s] \in Seq(Message(s))
    BY <1>1 DEF FeedInv, Sockets, Buffers
  <2> QED
    BY <1>1, <2>2, <2>3 DEF Newest, Settled
<1>2. FeedInv => ScreensTrue
  BY <1>1 DEF ScreensTrue
<1> QED
  BY <1>2, FeedInvariant, PTL

=============================================================================
