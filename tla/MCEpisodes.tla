----------------------------- MODULE MCEpisodes -----------------------------
(* A small instance of Episodes.  The path f reads the same in an operator  *)
(* turn and in a write; g does not survive normalization, so no turn can    *)
(* name it by its key.                                                      *)
EXTENDS Episodes

CONSTANTS f, g

=============================================================================
