------------------------------ MODULE MCFloor ------------------------------
(* A phone that comes and goes over two tables, with and without a reply.  *)
EXTENDS Floor
=============================================================================
