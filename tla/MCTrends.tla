------------------------------ MODULE MCTrends ------------------------------
(* A small instance of Trends. *)
EXTENDS Trends

CONSTANT p
=============================================================================
