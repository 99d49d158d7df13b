------------------------------ MODULE Pointers ------------------------------
(***************************************************************************)
(* Compact references and the control baseline they feed                   *)
(* (projector.go: pendingPointer, resolvePointers, addBaseline,            *)
(* clearRolling, and the pointer parts of applyReset and Finish).          *)
(*                                                                         *)
(* A reference is the sequence number of the operator turn that carried    *)
(* it.  It is settled by a later operator turn, never before the agent has *)
(* acted, and by the end of the epoch or of the source at the latest.      *)
(***************************************************************************)
EXTENDS Exchange, SequencesExt

CONSTANTS
  PointerKeys,    \* normalized reference texts, also what corrections can name
  NoTarget,       \* an empty key: nothing is named
  OutcomeTurns,   \* window.dereference_outcome_turns
  RollingTurns    \* window.rolling_turns

ASSUME PointerConstants ==
  /\ NoTarget \notin PointerKeys
  /\ OutcomeTurns \in Nat \ {0}
  /\ RollingTurns \in Nat \ {0}

VARIABLES
  pointers,      \* the life of the reference each turn carried
  lastAgentSeq,  \* p.lastAgentSeq: the latest agent record, 0 before the first
  success,       \* p.pointerSuccess
  failure,       \* p.pointerFailure
  noAnswer,      \* p.pointerNoAnswer
  failures,      \* p.failures: the turn of every miss since the last clearing
  baseline,      \* p.baseline: the turns that joined it, oldest first
  resetPending   \* p.resetPending

pointerVars == <<pointers, lastAgentSeq, success, failure, noAnswer, failures,
                 baseline, resetPending>>

Turns == 1..MaxRecords
Settlements == {"success", "failure", "unknown"}

Pointer == [state : {"none", "pending"} \cup Settlements,
            key : PointerKeys \cup {NoTarget},
            remaining : 0..OutcomeTurns, evaluated : BOOLEAN, eligible : BOOLEAN]

NoPointer == [state |-> "none", key |-> NoTarget, remaining |-> 0,
              evaluated |-> FALSE, eligible |-> FALSE]

Pending == {s \in Turns : pointers[s].state = "pending"}

PointerInit ==
  /\ pointers = [s \in Turns |-> NoPointer]
  /\ lastAgentSeq = 0
  /\ success = 0
  /\ failure = 0
  /\ noAnswer = 0
  /\ failures = <<>>
  /\ baseline = <<>>
  /\ resetPending = FALSE

-----------------------------------------------------------------------------
(* What a turn says about references: it corrects (perhaps naming a        *)
(* target), accepts or moves the work forward, or does neither; and it may *)
(* carry a reference of its own.                                           *)
Evidence ==
  [kind : {"correction"}, target : PointerKeys \cup {NoTarget}]
    \cup [kind : {"positive", "neither"}, target : {NoTarget}]

-----------------------------------------------------------------------------
(* resolvePointers: the verdict of one turn on one pending reference.      *)

(* Mutant: every later turn counts as an evaluation. *)
Answered_Always(s) == TRUE

(* The agent has acted since the reference was sent. *)
Answered(s) == lastAgentSeq > s

Names(s, e) == e.target # NoTarget /\ pointers[s].key = e.target

Verdict(s, e) ==
  CASE e.kind = "correction" /\ (~pointers[s].evaluated \/ Names(s, e)) -> "failure"
    [] e.kind = "positive" /\ ~pointers[s].evaluated                    -> "success"
    [] OTHER -> IF pointers[s].remaining > 1 THEN "pending" ELSE "unknown"

Evaluated(e) == {s \in Pending : Answered(s)}

SettledAs(e, outcome) == {s \in Evaluated(e) : Verdict(s, e) = outcome}

AfterTurn(e) ==
  [s \in Turns |->
     IF s \notin Evaluated(e) THEN pointers[s]
     ELSE IF Verdict(s, e) \in {"pending", "unknown"}
          THEN [pointers[s] EXCEPT !.state = Verdict(s, e), !.evaluated = TRUE,
                                   !.remaining = @ - 1]
          ELSE [pointers[s] EXCEPT !.state = Verdict(s, e)]]

(* A settled reference whose turn was eligible joins the baseline, unless  *)
(* it missed.                                                              *)

Joining(e) ==
  {s \in SettledAs(e, "success") \cup SettledAs(e, "unknown") : pointers[s].eligible}

(* The order in which they were sent: the place of a turn is the number of *)
(* those that are not later than it.                                       *)
Place(S, s) == Cardinality({t \in S : t <= s})

InOrder(S) == [i \in 1..Cardinality(S) |-> CHOOSE s \in S : Place(S, s) = i]

(* addBaseline: only the latest RollingTurns are kept. *)
Latest(q) == IF Len(q) > RollingTurns
             THEN SubSeq(q, Len(q) - RollingTurns + 1, Len(q)) ELSE q

AllUnknown(ps) ==
  [s \in Turns |->
     IF ps[s].state = "pending" THEN [ps[s] EXCEPT !.state = "unknown"] ELSE ps[s]]

-----------------------------------------------------------------------------
(* One operator turn.  key is the reference it carries, or Nothing; the    *)
(* baseline takes no turn that corrects or that falls inside an open       *)
(* episode.  For a reference that is asked before a reset closes the       *)
(* episode (outside), for any other turn after it (outsideAfter).          *)
Nothing == "nothing"

(* Mutant: a reset clears nothing. *)
Cleared_Never(q) == q

(* clearRolling lands on the first operator turn of the new epoch. *)
Cleared(q) == IF resetPending THEN <<>> ELSE q

(* One mark per miss. *)
Misses(e) == [i \in 1..Cardinality(SettledAs(e, "failure")) |-> turnIndex + 1]

(* The baseline the turn is measured against: a reset's clearing has       *)
(* landed, the references it settled have joined, the turn itself has not. *)
MeasuredBaseline(e) ==
  Latest(Cleared(baseline) \o InOrder(Joining(e)))

PointerTurn(e, key, outside, outsideAfter, reset) ==
  LET fresh    == [state |-> "pending", key |-> IF key = Nothing THEN NoTarget ELSE key,
                   remaining |-> OutcomeTurns, evaluated |-> FALSE,
                   eligible |-> e.kind # "correction" /\ outside]
      carried  == IF key = Nothing THEN AfterTurn(e)
                  ELSE [AfterTurn(e) EXCEPT ![seq + 1] = fresh]
      own      == IF key = Nothing /\ e.kind # "correction" /\ outsideAfter
                  THEN <<seq + 1>> ELSE <<>>
      dropped  == {s \in Turns : carried[s].state = "pending"}
  IN  /\ pointers' = IF reset THEN AllUnknown(carried) ELSE carried
      /\ success' = success + Cardinality(SettledAs(e, "success"))
      /\ failure' = failure + Cardinality(SettledAs(e, "failure"))
      /\ noAnswer' = noAnswer + Cardinality(SettledAs(e, "unknown"))
                       + IF reset THEN Cardinality(dropped) ELSE 0
      /\ failures' = Cleared(failures) \o Misses(e)
      /\ baseline' = Latest(MeasuredBaseline(e) \o own)
      /\ resetPending' = reset
      /\ UNCHANGED lastAgentSeq

PointerAgent ==
  /\ lastAgentSeq' = seq + 1
  /\ UNCHANGED <<pointers, success, failure, noAnswer, failures, baseline, resetPending>>

PointerOther == UNCHANGED pointerVars

(* Finish: what is pending stays unknown, and its turn joins the baseline. *)
PointerFinish ==
  /\ pointers' = AllUnknown(pointers)
  /\ noAnswer' = noAnswer + Cardinality(Pending)
  /\ baseline' = Latest(baseline \o InOrder({s \in Pending : pointers[s].eligible}))
  /\ UNCHANGED <<lastAgentSeq, success, failure, failures, resetPending>>

-----------------------------------------------------------------------------
OperatorTurn ==
  \E e \in Evidence, key \in PointerKeys \cup {NoTarget, Nothing},
     outside, outsideAfter, reset \in BOOLEAN :
       /\ OperatorRecord(reset)
       /\ outside \/ reset => outsideAfter
       /\ ~reset /\ outsideAfter => outside
       /\ PointerTurn(e, key, outside, outsideAfter, reset)

AgentTurn == OtherRecord /\ PointerAgent

OtherTurn == OtherRecord /\ PointerOther

Finish == StopAs("finished") /\ PointerFinish

(* A write before the first operator turn panics in observeWrites (see      *)
(* Episodes), before the record becomes the latest agent record.           *)
Panic == turnIndex = 0 /\ StopAs("panicked") /\ UNCHANGED pointerVars

pointerSpecVars == <<exchangeVars, pointerVars>>

PointerSpecInit == ExchangeInit /\ PointerInit
PointerNext == OperatorTurn \/ AgentTurn \/ OtherTurn \/ Finish \/ Panic
PointerSpec == PointerSpecInit /\ [][PointerNext]_pointerSpecVars

-----------------------------------------------------------------------------
PointerTypeOK ==
  /\ ExchangeTypeOK
  /\ pointers \in [Turns -> Pointer]
  /\ lastAgentSeq \in 0..seq
  /\ success \in Nat /\ failure \in Nat /\ noAnswer \in Nat
  /\ failures \in Seq(Turns)
  /\ baseline \in Seq(Turns) /\ Len(baseline) <= RollingTurns
  /\ resetPending \in BOOLEAN

WithState(state) == {s \in Turns : pointers[s].state = state}

(* Every reference is counted exactly once, whichever way it was settled:  *)
(* by evidence, by its window, by a reset or by the end of the source; the *)
(* drift rule's marks of the misses are all there until a reset clears     *)
(* them.                                                                   *)
OutcomesAreCountedOnce ==
  /\ success = Cardinality(WithState("success"))
  /\ failure = Cardinality(WithState("failure"))
  /\ noAnswer = Cardinality(WithState("unknown"))
  /\ Len(failures) <= failure
  /\ epoch = 0 => Len(failures) = failure

(* A turn the agent has not answered does not spend the window, and a      *)
(* pending reference always has window left.                               *)
WindowIsSpentByEvaluations ==
  \A s \in Pending :
    /\ lastAgentSeq < s => pointers[s].remaining = OutcomeTurns /\ ~pointers[s].evaluated
    /\ pointers[s].evaluated <=> pointers[s].remaining < OutcomeTurns
    /\ pointers[s].remaining > 0

(* The control baseline holds each turn at most once, and never a turn     *)
(* whose reference is still pending or missed.                             *)
BaselineHoldsSettledTurns ==
  /\ \A i, j \in DOMAIN baseline : baseline[i] = baseline[j] => i = j
  /\ \A i \in DOMAIN baseline :
       pointers[baseline[i]].state \in {"none", "success", "unknown"}

(* After a reset the next operator turn starts from fresh baselines: what  *)
(* it leaves in them is nothing the turns before it had put there.         *)
ResetClearsBaseline ==
  [][resetPending /\ turnIndex' > turnIndex =>
       /\ \A i \in DOMAIN baseline' : baseline'[i] = seq'
       /\ failures' = <<>>]_pointerSpecVars

(* Every reference is settled once, in its own window, and only a settled  *)
(* one is part of the baseline later turns are measured against.           *)
ReferencesAreSettledOnce ==
  /\ PointerTypeOK
  /\ OutcomesAreCountedOnce
  /\ WindowIsSpentByEvaluations
  /\ BaselineHoldsSettledTurns
=============================================================================
