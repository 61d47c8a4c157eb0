----------------------------- MODULE MCLiveFeed -----------------------------
(***************************************************************************)
(* Two handlers, a waiter's screen, and a guest's phone with its orders,   *)
(* which may fall asleep.                                                  *)
(***************************************************************************)
EXTENDS LiveFeed, TLC

CONSTANTS o1, h1, h2, waiter, phone

MCOrders == {o1}
MCHandlers == {h1, h2}
MCScreens == {waiter, phone}
MCTopicsOf == waiter :> <<"waiter">> @@ phone :> <<"session">>
MCMoves == {[status |-> "ready", paid |-> FALSE]}
MCPreparers == [o \in MCOrders |-> {"kitchen"}]
=============================================================================
