----------------------------- MODULE MCSemantic -----------------------------
(* A small instance of Semantic: a turn of two characters that states one  *)
(* requirement, one that releases it and corrects, an agent's turn, and a  *)
(* model that labels a span, finds a requirement, resolves one, or answers *)
(* with something that does not fit.                                       *)
EXTENDS Semantic

CONSTANTS k, watch, second, model, another

Symmetry == Permutations(Observers) \cup Permutations(Identities)

Turn(speaker, bytes, starts, stated, released, corrects) ==
  [speaker |-> speaker, bytes |-> bytes, starts |-> starts, stated |-> stated,
   released |-> released, corrects |-> corrects]

MCTurns == {Turn("operator", 3, {0, 1}, {k}, {}, FALSE),
            Turn("operator", 3, {0, 1}, {}, {k}, TRUE),
            Turn("agent", 1, {0}, {}, {}, FALSE)}

Labelled(start, end) == [label |-> "forward", start |-> start, end |-> end]

Out(spans, stated, resolved, corrects) ==
  [wellFormed |-> TRUE, spans |-> spans, stated |-> stated, resolved |-> resolved,
   corrects |-> corrects]

Satisfied(e) == [key |-> k, kind |-> "satisfied", evidence |-> e]

MCAnswers ==
  {Out(<<>>, <<>>, <<>>, FALSE),
   Out(<<Labelled(0, 1)>>, <<k>>, <<>>, FALSE),
   Out(<<Labelled(1, 3)>>, <<>>, <<Satisfied(TRUE)>>, TRUE),
   Out(<<Labelled(1, 3), Labelled(0, 1)>>, <<>>, <<>>, FALSE),
   Out(<<Labelled(0, 2)>>, <<>>, <<>>, FALSE),
   Out(<<>>, <<k, k>>, <<>>, FALSE),
   Out(<<>>, <<>>, <<Satisfied(FALSE)>>, FALSE)}
=============================================================================
