------------------------------- MODULE MCWatch -------------------------------
(* A small instance of Watch. *)
EXTENDS Watch
=============================================================================
