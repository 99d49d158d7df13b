------------------------------ MODULE Scoring ------------------------------
(***************************************************************************)
(* The score of one family (internal/labels): label files are read or      *)
(* refused whole, labels and predictions are matched by their record and   *)
(* the bytes they share (align.go), and the pairs are counted (score.go).  *)
(*                                                                         *)
(* A span is a first and a last-but-one byte; an empty one stands for the  *)
(* whole record.  A prediction is read out of the projector's events and   *)
(* the classifier's candidates (calibrate/run.go): it is whatever the      *)
(* build claimed.                                                          *)
(***************************************************************************)
EXTENDS Integers, Sequences, FiniteSets, SequencesExt

CONSTANTS
  Records,         \* the operator turns of the sessions
  Spans,           \* the spans a label or a prediction has, as pairs <<start, end>>
  Classes,         \* the vocabulary of the family without "unlabelable"
  Positives,       \* the classes the family counts as positive
  MaxLabels, MaxPredictions

ASSUME ScoringAssumption ==
  /\ Positives \subseteq Classes /\ "unlabelable" \notin Classes
  /\ \A span \in Spans : span[1] \in Nat /\ span[2] \in Nat

VARIABLES
  labels,      \* the labels read
  predictions, \* the predictions read out
  refused,     \* a label file was refused, and with it the run
  score        \* the score, once there is one

scoringVars == <<labels, predictions, refused, score>>

Line(r, span, v) ==
  [session |-> "in scope", record |-> r, start |-> span[1], end |-> span[2], label |-> v,
   note |-> IF v = "unlabelable" THEN "why" ELSE "", labeler |-> "m/pass1"]

LabelLines ==
  LET lines == {Line(r, span, v) : r \in Records, span \in Spans, v \in Classes \cup {"unlabelable"}}
  IN  lines
      \cup {[l EXCEPT !.session = "other split"] : l \in lines}
      \cup {[l EXCEPT !.record = ""] : l \in lines} \cup {[l EXCEPT !.labeler = ""] : l \in lines}
      \cup {[l EXCEPT !.label = "unheard of"] : l \in lines} \cup {[l EXCEPT !.note = ""] : l \in lines}

(* parse: a malformed line refuses the file, and with it the run. *)
Valid(l) ==
  /\ l.record # "" /\ l.labeler # ""
  /\ l.label \in Classes \cup {"unlabelable"}
  /\ l.label = "unlabelable" => l.note # ""

-----------------------------------------------------------------------------
WholeRecord(x) == x.end <= x.start

Least(a, b) == IF a < b THEN a ELSE b
Greatest(a, b) == IF a < b THEN b ELSE a

Shared(l, p) ==
  LET low == Greatest(l.start, p.start)
      high == Least(l.end, p.end)
  IN  IF WholeRecord(l) \/ WholeRecord(p) THEN 1 ELSE Greatest(high - low, 0)

(* The label and the prediction of a candidate, by their places. *)
Candidates(ls, ps) ==
  {c \in (DOMAIN ls) \X (DOMAIN ps) : ls[c[1]].record = ps[c[2]].record /\ Shared(ls[c[1]], ps[c[2]]) > 0}

(* Descending overlap, then the earlier prediction; the sort is stable, so *)
(* what is left is the order of the labels and of the predictions.         *)
Before(ls, ps, c, d) ==
  LET shared(x) == Shared(ls[x[1]], ps[x[2]])
      start(x) == ps[x[2]].start
  IN  \/ shared(c) > shared(d)
      \/ /\ shared(c) = shared(d)
         /\ \/ start(c) < start(d)
            \/ start(c) = start(d) /\ (c[1] < d[1] \/ (c[1] = d[1] /\ c[2] < d[2]))

(* Mutant: a prediction may be taken by several labels. *)
Free_LabelOnly(taken, c) == \A d \in taken : d[1] # c[1]

Free(taken, c) == \A d \in taken : d[1] # c[1] /\ d[2] # c[2]

(* In that order, a candidate is taken exactly if no candidate that was    *)
(* taken before it has one of its sides.                                   *)
Matched(ls, ps) ==
  LET cands == Candidates(ls, ps)
  IN  CHOOSE taken \in SUBSET cands :
        \A c \in cands : c \in taken <=> Free({d \in taken : Before(ls, ps, d, c)}, c)

(* Align: what is matched, and each side alone; 0 is the absent side. *)
Align(ls, ps) ==
  LET matched == Matched(ls, ps)
  IN  matched
      \cup {<<l, 0>> : l \in {k \in DOMAIN ls : \A c \in matched : c[1] # k}}
      \cup {<<0, p>> : p \in {k \in DOMAIN ps : \A c \in matched : c[2] # k}}

-----------------------------------------------------------------------------
(* Evaluate.  A build that is silent about a unit claims nothing positive. *)
Evaluate(ls, ps, pairs) ==
  LET judged == {c \in pairs : c[1] # 0}
      decided == {c \in judged : ls[c[1]].label # "unlabelable"}
      positive(c) == ls[c[1]].label \in Positives
      claimed(c) == c[2] # 0 /\ ps[c[2]].value \in Positives
      count(Test(_)) == Cardinality({c \in decided : Test(c)})
      truePositives == count(LAMBDA c : positive(c) /\ claimed(c))
      falsePositives == count(LAMBDA c : ~positive(c) /\ claimed(c))
      falseNegatives == count(LAMBDA c : positive(c) /\ ~claimed(c))
  IN  [truePositives |-> truePositives,
       falsePositives |-> falsePositives,
       falseNegatives |-> falseNegatives,
       trueNegatives |-> count(LAMBDA c : ~positive(c) /\ ~claimed(c)),
       labeled |-> Cardinality(decided),
       unlabelable |-> Cardinality(judged \ decided),
       predictedPos |-> truePositives + falsePositives,
       labeledPos |-> truePositives + falseNegatives]

(* Run: in scope are the labels of the selected sessions and those that    *)
(* name none; a label of a session on the other side of the split is not.  *)
Scoped == Restrict(labels, {i \in DOMAIN labels : labels[i].session # "other split"})

NoScoreYet == [labeled |-> -1]

ScoringInit == labels = <<>> /\ predictions = <<>> /\ refused = FALSE /\ score = NoScoreYet

ReadLabel ==
  /\ ~refused /\ score = NoScoreYet /\ predictions = <<>> /\ Len(labels) < MaxLabels
  /\ \E l \in LabelLines :
       IF Valid(l) THEN labels' = Append(labels, l) /\ UNCHANGED refused
       ELSE refused' = TRUE /\ UNCHANGED labels
  /\ UNCHANGED <<predictions, score>>

Claim ==
  /\ ~refused /\ score = NoScoreYet /\ Len(predictions) < MaxPredictions
  /\ \E r \in Records, span \in Spans, v \in Classes :
       predictions' = Append(predictions, [record |-> r, start |-> span[1], end |-> span[2], value |-> v])
  /\ UNCHANGED <<labels, refused, score>>

Score ==
  /\ ~refused /\ score = NoScoreYet
  /\ score' = Evaluate(Scoped, predictions, Align(Scoped, predictions))
  /\ UNCHANGED <<labels, predictions, refused>>

ScoringNext == ReadLabel \/ Claim \/ Score

ScoringSpec == ScoringInit /\ [][ScoringNext]_scoringVars

-----------------------------------------------------------------------------
(* A label and a prediction that share bytes and are not matched with each *)
(* other: one of them is matched where it shares at least as many          *)
(* (align.go:38: by maximal byte overlap, greedy).                         *)
PairingIsStable ==
  score # NoScoreYet =>
    LET matched == Matched(Scoped, predictions)
        better(c) == \E d \in matched :
                       /\ d[1] = c[1] \/ d[2] = c[2]
                       /\ Shared(Scoped[d[1]], predictions[d[2]]) >= Shared(Scoped[c[1]], predictions[c[2]])
    IN  \A c \in Candidates(Scoped, predictions) : better(c)

(* Every decidable judgement is counted in one cell, every other beside    *)
(* them, no claim counts more than once, and no claim about a unit nobody  *)
(* judged counts at all (score.go:121).                                    *)
JudgementsAreCountedOnce ==
  score # NoScoreYet =>
    LET positives == {l \in DOMAIN Scoped : Scoped[l].label \in Positives}
        claims == {p \in DOMAIN predictions : predictions[p].value \in Positives}
    IN  /\ score.labeled + score.unlabelable = Cardinality(DOMAIN Scoped)
        /\ score.truePositives + score.falsePositives + score.falseNegatives + score.trueNegatives = score.labeled
        /\ score.labeledPos = Cardinality(positives)
        /\ score.predictedPos <= Cardinality(claims)

(* The score is of the judgements it names, each against the claim it fits *)
(* best.                                                                   *)
ScoreIsOfTheJudgements == PairingIsStable /\ JudgementsAreCountedOnce
=============================================================================
