----------------------------- MODULE MCStartup -----------------------------
(* Three starts over new, older and half-migrated databases.               *)
EXTENDS Startup
=============================================================================
