------------------------------- MODULE Diary -------------------------------
(* What a booking diary promises, without statuses, holds, locks or clocks:  *)
(* a booking gets places (a table at a minute) only while nobody else keeps  *)
(* them, and any number of bookings may let go of theirs.  Module Bookings   *)
(* implements it.                                                            *)
CONSTANTS
  Id,     \* bookings
  Place   \* a table at a minute

VARIABLE diary  \* the places every booking keeps

\* A booking is made, moved, shortened or taken up again.
Take(i, places) ==
  /\ \A k \in Id \ {i} : diary[k] \cap places = {}
  /\ diary' = [diary EXCEPT ![i] = places]

\* Bookings end, are called off or run out.
Give(ids) == diary' = [i \in Id |-> IF i \in ids THEN {} ELSE diary[i]]

Init == diary = [i \in Id |-> {}]

Next ==
  \/ \E i \in Id, places \in SUBSET Place : Take(i, places)
  \/ \E ids \in SUBSET Id : Give(ids)

Spec == Init /\ [][Next]_diary

\* No two bookings ever keep the same place.
Exclusive == \A i, k \in Id : i # k => diary[i] \cap diary[k] = {}
=============================================================================
