----------------------------- MODULE MCBookings -----------------------------
(* Two rows, one handler in flight, an evening of three minutes.             *)
EXTENDS Bookings, TLC

CONSTANTS i1, i2, j1, t1, t2

MCTime == 0 .. 2
=============================================================================
