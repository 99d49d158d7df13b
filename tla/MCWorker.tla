------------------------------ MODULE MCWorker ------------------------------
(* A small instance of Worker: two goroutines. *)
EXTENDS Worker

CONSTANTS w1, w2
=============================================================================
