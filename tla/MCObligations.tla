--------------------------- MODULE MCObligations ---------------------------
(* A small instance of Obligations: two sentences that say the same thing  *)
(* in different words and one that carries no content tokens.              *)
EXTENDS Obligations, TLC

CONSTANTS s1, s2, s3, c

MCContentOf == [k \in Keys |-> IF k = s3 THEN NoContent ELSE c]

MCRephrasings == Permutations({s1, s2})
=============================================================================
