--------------------------- MODULE MCStaffAccess ---------------------------
(***************************************************************************)
(* Staff accounts on one browser with two requests at a time: an admin     *)
(* who is set up, and an account for a worker that is still to be made.    *)
(***************************************************************************)
EXTENDS StaffAccess, TLC

CONSTANTS boss, bar, d1, s1, s2

MCUsers == {boss, bar}
MCAdmins == {boss}
MCSeeded == {boss}
MCSetUp == {boss}
MCDevices == {d1}
MCSlots == {s1,s2}
MCDepartments == {"superworker", "bar"}
MCPageChoices == {{"map"}, {"bookings", "staff"}}

Symmetric == Permutations(MCSlots)
=============================================================================
