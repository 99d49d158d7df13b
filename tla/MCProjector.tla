----------------------------- MODULE MCProjector -----------------------------
(* A small instance of Projector: one scope sentence, one file the operator *)
(* refers to by the name the agent writes it under.                        *)
EXTENDS Projector

CONSTANTS s, f

MCContentOf == [k \in Sentences |-> NoContent]
=============================================================================
