----------------------------- MODULE LiveFeed -----------------------------
(***************************************************************************)
(* The live screens: handlers that change an order, draw the pages it is   *)
(* on and hand them to the hub; the hub's buffered channels; the sockets   *)
(* that subscribe, merge their topics and write to one screen each.        *)
(*                                                                         *)
(* A page is the set of orders it shows, with their state.  What a handler *)
(* may do to an order is OrderDesk's business: here it moves the order to  *)
(* any state and the question is which screens get to know.  A handler's   *)
(* statement, each of its renders and each of its broadcasts is a step; so *)
(* is each hand-over of a message.                                         *)
(***************************************************************************)
EXTENDS Integers, Sequences, FiniteSets

CONSTANTS
  Orders,         \* orders of one table and one guest session
  Handlers,       \* requests that may be in flight at once
  Screens,        \* browsers with a live page
  TopicsOf,       \* the topics a screen's socket subscribes to, in order
  Guarded,        \* screens of staff: their sockets carry a session
  Stuck,          \* screens that may stop reading
  Preparers,      \* the stations an order has items for
  ChannelCap,     \* messages a channel buffers (16 in the code)
  Moves,          \* bound: the states handlers move an order to
  MaxChanges,     \* bound: changes of an order's state
  MaxOverlaps,    \* bound: requests that start while another is handled
  MaxConnections, \* bound: times a screen connects
  MaxUpsets       \* bound: screens signed out, disconnected or frozen

Statuses == {"pending", "preparing", "ready", "served", "cancelled"}
Topics == {"superworker", "bar", "kitchen", "waiter", "table", "session"}

ASSUME FeedAssumption ==
  /\ TopicsOf \in [Screens -> Seq(Topics)]
  /\ Guarded \subseteq Screens /\ Stuck \subseteq Screens
  /\ Preparers \in [Orders -> SUBSET {"bar", "kitchen"}]
  /\ ChannelCap \in Nat \ {0}
ASSUME MovesAssumption == Moves \subseteq [status : Statuses, paid : BOOLEAN]

VARIABLES
  order,      \* the orders table: status and payment
  todo,       \* of each handler: the broadcasts it has still to make
  page,       \* of each handler: the page it drew for the first of them
  at,         \* of each socket: "off", "drawn", "on", "closed"
  chan,       \* of each socket: the channel of each of its topics
  out,        \* of each socket: the merged channel
  shown,      \* of each connected screen: the page shown for each topic
  signedIn,   \* of each screen: whether its session is still good
  frozen,     \* screens that stopped reading
  connections, changes, overlaps, upsets,  \* bounds
  last,       \* history: the last page broadcast on each topic was up to date
  lost        \* history: screens the last broadcast of a topic did not reach

sockets == <<at, chan, out, shown, connections>>
vars == <<order, todo, page, at, chan, out, shown, signedIn, frozen,
          connections, changes, overlaps, upsets, last, lost>>

Slots(s) == 1..Len(TopicsOf[s])

-----------------------------------------------------------------------------
(* Pages.                                                                  *)

None == [status |-> "none", paid |-> FALSE]

categoryActive == {"pending", "preparing"}
staffActive == {"pending", "preparing", "ready"}

\* The orders a bucket's feed lists.  A station sees an order while it has
\* items for it and they are still to be made; the waiter what is ready.
FeedOrders(bucket) ==
  {o \in Orders :
     \/ bucket \in Preparers[o] /\ order[o].status \in categoryActive
     \/ bucket = "waiter" /\ order[o].status = "ready"
     \/ bucket = "superworker" /\ order[o].status \in staffActive}

\* What a table's guests see of it, and what a guest has ordered.
TableOrders == {o \in Orders : order[o].status \in staffActive}
SessionOrders == {o \in Orders : order[o].status # "none"}

Render(topic) ==
  LET listed == CASE topic = "table" -> TableOrders
                  [] topic = "session" -> SessionOrders
                  [] OTHER -> FeedOrders(topic)
  IN  {<<o, order[o]>> : o \in listed}

\* A broadcast on a topic nobody ever subscribes to does nothing: left out.
Followed(t) == IF \E s \in Screens : \E i \in Slots(s) : TopicsOf[s][i] = t THEN <<t>> ELSE <<>>

orderFeedBucketsNoWaiter == Followed("superworker") \o Followed("bar") \o Followed("kitchen")
orderFeedBuckets == Followed("superworker") \o Followed("bar") \o Followed("kitchen") \o Followed("waiter")

\* Collect tells the guest before the feed, the other handlers after it.
AfterChange == orderFeedBuckets \o Followed("table") \o Followed("session")
AfterCollect == Followed("session") \o Followed("table") \o orderFeedBuckets

-----------------------------------------------------------------------------
NoPages(s) == [i \in Slots(s) |-> {}]
Nothing == <<>>
Blank(s) == [i \in Slots(s) |-> <<>>]

Init ==
  /\ order = [o \in Orders |-> None]
  /\ todo = [h \in Handlers |-> <<>>]
  /\ page = [h \in Handlers |-> Nothing]
  /\ at = [s \in Screens |-> "off"]
  /\ chan = [s \in Screens |-> Blank(s)]
  /\ out = [s \in Screens |-> <<>>]
  /\ shown = [s \in Screens |-> NoPages(s)]
  /\ signedIn = [s \in Screens |-> TRUE]
  /\ frozen = {}
  /\ changes = 0 /\ overlaps = 0 /\ upsets = 0
  /\ connections = [s \in Screens |-> 0]
  /\ last = [t \in Topics |-> TRUE]
  /\ lost = [s \in Screens |-> {}]

Quiet == \A h \in Handlers : todo[h] = <<>>

-----------------------------------------------------------------------------
(* Handlers.                                                               *)

Begin(h, state, topics) ==
  /\ todo[h] = <<>> /\ changes < MaxChanges
  /\ order' = state
  /\ changes' = changes + 1
  /\ overlaps' = IF Quiet THEN overlaps ELSE overlaps + 1
  /\ overlaps' <= MaxOverlaps
  /\ todo' = [todo EXCEPT ![h] = topics]
  /\ UNCHANGED <<page, sockets, signedIn, frozen, upsets, last, lost>>

\* Checkout, a status or payment change, a cancellation.
ChangeOrder(h, o) ==
  \/ order[o] = None /\ Begin(h, [order EXCEPT ![o].status = "pending"], AfterChange)
  \/ /\ order[o] # None
     /\ \E move \in Moves \ {order[o]} : Begin(h, [order EXCEPT ![o] = move], AfterChange)

\* Collect settles a table: every order of the unpaid list it read.
WorkerPayTable(h) ==
  LET unpaid == {o \in Orders : order[o] # None /\ ~order[o].paid /\ order[o].status # "cancelled"}
  IN  /\ unpaid # {}
      /\ Begin(h, [o \in Orders |-> IF o \in unpaid THEN [order[o] EXCEPT !.paid = TRUE] ELSE order[o]],
               AfterCollect)

Draw(h) ==
  /\ todo[h] # <<>> /\ page[h] = Nothing
  /\ page' = [page EXCEPT ![h] = <<Render(Head(todo[h]))>>]
  /\ UNCHANGED <<order, todo, sockets, signedIn, frozen, changes, overlaps, upsets, last, lost>>

\* A channel subscribed to topic t, and what a full one does with a message.
Subscribed(s, i, t) == at[s] = "on" /\ TopicsOf[s][i] = t
Room(s, i) == Len(chan[s][i]) < ChannelCap
Send(queue, msg) == IF Len(queue) < ChannelCap THEN Append(queue, msg) ELSE queue

\* Under the hub's read lock: every subscriber of the topic with room gets the
\* message, the others miss it.
Deliver(h, t, msg) ==
  /\ chan' = [s \in Screens |-> [i \in Slots(s) |->
                IF Subscribed(s, i, t) THEN Send(chan[s][i], msg) ELSE chan[s][i]]]
  /\ todo' = [todo EXCEPT ![h] = Tail(@)]
  /\ page' = [page EXCEPT ![h] = Nothing]
  /\ last' = [last EXCEPT ![t] = (msg = Render(t))]
  /\ lost' = [s \in Screens |->
                IF /\ at[s] \in {"drawn", "on"}
                   /\ \E i \in Slots(s) : TopicsOf[s][i] = t /\ ~(Subscribed(s, i, t) /\ Room(s, i))
                THEN lost[s] \cup {t} ELSE lost[s] \ {t}]
  /\ UNCHANGED <<order, at, out, shown, connections, signedIn, frozen, changes, overlaps, upsets>>

BroadcastBlocking(h) ==
  /\ page[h] # Nothing
  /\ \A s \in Screens : \A i \in Slots(s) : Subscribed(s, i, Head(todo[h])) => Room(s, i)
  /\ Deliver(h, Head(todo[h]), Head(page[h]))
Broadcast(h) ==
  /\ page[h] # Nothing
  /\ Deliver(h, Head(todo[h]), Head(page[h]))

-----------------------------------------------------------------------------
(* Sockets.                                                                *)

FirstPage(s) == [i \in Slots(s) |-> Render(TopicsOf[s][i])]

\* The first snapshot is drawn before the socket subscribes.
Connect(s) ==
  /\ at[s] = "off" /\ connections[s] < MaxConnections /\ signedIn[s]
  /\ connections' = [connections EXCEPT ![s] = @ + 1]
  /\ shown' = [shown EXCEPT ![s] = FirstPage(s)]
  /\ lost' = [lost EXCEPT ![s] = {}]
  /\ at' = [at EXCEPT ![s] = "drawn"]
  /\ UNCHANGED <<order, todo, page, chan, out, signedIn, frozen, changes, overlaps, upsets, last>>

\* Upgrade, subscribe to every topic, write the snapshot.
Subscribe(s) ==
  /\ at[s] = "drawn"
  /\ at' = [at EXCEPT ![s] = "on"]
  /\ UNCHANGED <<order, todo, page, chan, out, shown, connections, signedIn, frozen, changes, overlaps, upsets, last, lost>>

\* mergeTopics starts a forwarder for each topic's channel.
ForwardersShort(s) == Slots(s) \ {Len(TopicsOf[s])}
Forwarders(s) == Slots(s)

\* A forwarder hands the messages of its topic's channel to the merged one,
\* waiting while that is full.  The one in its hand counts as still in the
\* channel.
Forward(s, i) ==
  /\ chan[s][i] # <<>> /\ Len(out[s]) < ChannelCap
  /\ out' = [out EXCEPT ![s] = Append(@, <<i, Head(chan[s][i])>>)]
  /\ chan' = [chan EXCEPT ![s][i] = Tail(@)]
  /\ UNCHANGED <<order, todo, page, at, shown, connections, signedIn, frozen, changes, overlaps, upsets, last, lost>>

\* pumpWS writes to the connection; a screen that stopped reading blocks it.
Write(s) ==
  /\ at[s] = "on" /\ out[s] # <<>> /\ s \notin frozen
  /\ shown' = [shown EXCEPT ![s][Head(out[s])[1]] = Head(out[s])[2]]
  /\ out' = [out EXCEPT ![s] = Tail(@)]
  /\ UNCHANGED <<order, todo, page, at, chan, connections, signedIn, frozen, changes, overlaps, upsets, last, lost>>

\* What a socket lets go of when it ends: its channels close after what they
\* hold, and nobody takes from the merged one any more.  The browser connects
\* again later, on channels of its own.
End(s, next) ==
  /\ at' = [at EXCEPT ![s] = next]
  /\ chan' = [chan EXCEPT ![s] = Blank(s)]
  /\ out' = [out EXCEPT ![s] = <<>>]
  /\ shown' = [shown EXCEPT ![s] = NoPages(s)]
  /\ lost' = [lost EXCEPT ![s] = {}]
  /\ UNCHANGED <<order, todo, page, connections, signedIn, frozen, changes, overlaps, last>>

\* Every few seconds a staff socket asks whether its session is still good.
Recheck(s) ==
  /\ at[s] = "on" /\ s \in Guarded /\ ~signedIn[s]
  /\ End(s, "closed") /\ UNCHANGED upsets

Upset ==
  /\ upsets < MaxUpsets
  /\ upsets' = upsets + 1

Disconnect(s) ==
  /\ at[s] = "on"
  /\ End(s, "off") /\ Upset

SignOut(s) ==
  /\ s \in Guarded /\ signedIn[s] /\ at[s] = "on"
  /\ signedIn' = [signedIn EXCEPT ![s] = FALSE]
  /\ Upset
  /\ UNCHANGED <<order, todo, page, sockets, frozen, changes, overlaps, last, lost>>

\* A phone in a pocket, a laptop put to sleep.
Freeze(s) ==
  /\ s \in Stuck \ frozen /\ at[s] = "on"
  /\ frozen' = frozen \cup {s}
  /\ Upset
  /\ UNCHANGED <<order, todo, page, sockets, signedIn, changes, overlaps, last, lost>>

Handle(h) == Draw(h) \/ Broadcast(h)
Pump(s) == Subscribe(s) \/ Write(s) \/ \E i \in Forwarders(s) : Forward(s, i)

Next ==
  \/ \E h \in Handlers : Handle(h) \/ WorkerPayTable(h) \/ \E o \in Orders : ChangeOrder(h, o)
  \/ \E s \in Screens : Connect(s) \/ Pump(s) \/ Recheck(s) \/ Disconnect(s) \/ SignOut(s) \/ Freeze(s)

\* Goroutines run on.  A frozen screen's writes are not enabled, so nothing is
\* assumed of them; the recheck of a socket blocked in a write may never come.
Fairness ==
  /\ \A h \in Handlers : WF_vars(Handle(h))
  /\ \A s \in Screens : WF_vars(Pump(s))
  /\ \A s \in Screens \ Stuck : WF_vars(Recheck(s))

Spec == Init /\ [][Next]_vars /\ Fairness

-----------------------------------------------------------------------------
(* Properties.                                                             *)

Page == SUBSET (Orders \X [status : Statuses, paid : BOOLEAN])

\* Buffers stay within their caps, and only a subscribed socket has any.
TypeOK ==
  /\ \A s \in Screens :
       /\ at[s] \in {"off", "drawn", "on", "closed"}
       /\ Len(out[s]) <= ChannelCap
       /\ \A i \in Slots(s) : /\ chan[s][i] \in Seq(Page) /\ Len(chan[s][i]) <= ChannelCap
                              /\ shown[s][i] \in Page
       /\ at[s] # "on" => chan[s] = Blank(s) /\ out[s] = <<>>
  /\ \A h \in Handlers : page[h] # Nothing => todo[h] # <<>>

\* Nothing on its way to the screen for its i-th topic.
Settled(s, i) ==
  /\ chan[s][i] = <<>>
  /\ \A k \in DOMAIN out[s] : out[s][k][1] # i

\* When no handler is at work and nothing is on its way, a connected screen
\* shows the orders as they are, unless the last page of that topic was drawn
\* before a change another handler made, or never reached the screen: it came
\* between the snapshot and the subscription, or its channel was full
\* (setOrderPaid: "so every screen agrees").  These are the only ways.
ScreensTrue ==
  Quiet =>
    \A s \in Screens : at[s] = "on" =>
      \A i \in Slots(s) :
        LET t == TopicsOf[s][i]
        IN  Settled(s, i) /\ last[t] /\ t \notin lost[s] => shown[s][i] = Render(t)

\* The same without the exceptions, which is what the comment says.
EveryScreenAgrees ==
  Quiet =>
    \A s \in Screens : at[s] = "on" =>
      \A i \in Slots(s) : Settled(s, i) => shown[s][i] = Render(TopicsOf[s][i])

\* A handler at work is never held up by a screen, the ones that stopped
\* reading included: it can always take its next step (Hub.Broadcast: "drop
\* rather than block the broadcaster").
NeverHeldUp == \A h \in Handlers : todo[h] # <<>> => ENABLED Handle(h)

\* What is broadcast to a connected screen that reads arrives: its buffers
\* empty again, or the socket ends.
PagesArrive ==
  \A s \in Screens \ Stuck : \A i \in Slots(s) : chan[s][i] # <<>> ~> Settled(s, i) \/ at[s] # "on"

=============================================================================
