------------------------------- MODULE Trends -------------------------------
(***************************************************************************)
(* The quality bands read off each turn's snapshot and the crossings that  *)
(* are reported once they last (internal/state/trend.go, metrics/band.go), *)
(* over the references and the control baseline that decide whether a      *)
(* measurement exists: the dereference reliability of the references       *)
(* settled so far, and the serialization inflation, which is unknown while *)
(* the baseline is short and so again after every reset.                   *)
(*                                                                         *)
(* What an inflation comes to depends on character counts and may be any   *)
(* band; the other banded metrics are always measured.                     *)
(***************************************************************************)
EXTENDS Pointers

CONSTANTS
  TrendTurns,        \* window.trend_durability_turns
  MinimumBaseline,   \* thresholds.minimum_control_baseline
  Inflations         \* the bands a known inflation may be in

ASSUME TrendConstants ==
  /\ TrendTurns \in Nat \ {0} /\ MinimumBaseline \in Nat
  /\ Inflations \subseteq {"good", "mid", "bad"}

VARIABLES
  trends,    \* the tracker: what is confirmed, what may follow, how long it held
  reported,  \* the crossings the latest operator turn reported
  bands      \* the bands measured at operator turns, oldest first

trendVars == <<trends, reported, bands>>
trendSpecVars == <<pointerSpecVars, trendVars>>

Metrics == {"dereference", "serialization_inflation"}
Unknown == "unknown"

TrendInit ==
  /\ trends = [m \in Metrics |-> [confirmed |-> Unknown, candidate |-> Unknown, held |-> 0]]
  /\ reported = {}
  /\ bands = [m \in Metrics |-> <<>>]

(* BandDereference: good from four in five on, bad below one in two. *)
BandDereference(hits, misses) ==
  CASE hits + misses = 0 -> Unknown
    [] hits + misses > 0 /\ 5 * hits >= 4 * (hits + misses) -> "good"
    [] 5 * hits < 4 * (hits + misses) /\ 2 * hits >= hits + misses -> "mid"
    [] 2 * hits < hits + misses -> "bad"

(* BandSerialization, of a snapshot measured against this baseline. *)
BandsSerialization(measured) ==
  IF measured # <<>> /\ Len(measured) >= MinimumBaseline THEN Inflations ELSE {Unknown}

-----------------------------------------------------------------------------
(* observe, of one metric: the tracker it leaves and the crossing it        *)
(* reports, if any.                                                         *)

(* Mutant: a run begins at nothing. *)
Held_FromNothing(st, band) == IF band = st.candidate THEN st.held + 1 ELSE 0

Held(st, band) == IF band = st.candidate THEN st.held + 1 ELSE 1

Confirmed(band) == [confirmed |-> band, candidate |-> Unknown, held |-> 0]

(* Mutant: a gap in the evidence ends the run. *)
AfterGap_Ended(st) == Confirmed(st.confirmed)

(* An unmeasured turn holds what there was. *)
AfterGap(st) == st

(* The first band is no crossing, nor is a return to the confirmed one. *)
Crosses(st, band) ==
  /\ Unknown \notin {band, st.confirmed}
  /\ band # st.confirmed
  /\ Held(st, band) >= TrendTurns

Observed(st, band) ==
  IF band = Unknown THEN AfterGap(st)
  ELSE IF st.confirmed \in {Unknown, band} \/ Crosses(st, band) THEN Confirmed(band)
  ELSE [st EXCEPT !.candidate = band, !.held = Held(st, band)]

ObserveTurn(e) ==
  \E inflation \in BandsSerialization(MeasuredBaseline(e)) :
    LET band == [m \in Metrics |-> IF m = "dereference" THEN BandDereference(success', failure')
                                   ELSE inflation]
    IN  /\ trends' = [m \in Metrics |-> Observed(trends[m], band[m])]
        /\ reported' = {[metric |-> m, from |-> trends[m].confirmed, to |-> band[m]] :
                          m \in {n \in Metrics : Crosses(trends[n], band[n])}}
        /\ bands' = [m \in Metrics |-> IF band[m] = Unknown THEN bands[m]
                                       ELSE Append(bands[m], band[m])]

-----------------------------------------------------------------------------
MeasuredTurn ==
  \E e \in Evidence, key \in PointerKeys \cup {NoTarget, Nothing},
     outside, outsideAfter, reset \in BOOLEAN :
       /\ OperatorRecord(reset)
       /\ outside \/ reset => outsideAfter
       /\ ~reset /\ outsideAfter => outside
       /\ PointerTurn(e, key, outside, outsideAfter, reset)
       /\ ObserveTurn(e)

TrendNext ==
  \/ MeasuredTurn
  \/ (AgentTurn \/ OtherTurn \/ Finish \/ Panic) /\ UNCHANGED trendVars

TrendSpecInit == PointerSpecInit /\ TrendInit
TrendSpec == TrendSpecInit /\ [][TrendNext]_trendSpecVars

-----------------------------------------------------------------------------
(* The direction of a session, told from its whole history: leaving the    *)
(* unmeasured turns out, the first band stands, and after it a band that   *)
(* came TrendTurns times in a row.                                         *)
Stands(q, i) ==
  \/ i = 1
  \/ i >= TrendTurns + 1 /\ \A j \in (i - TrendTurns + 1)..i : q[j] = q[i]

LastStanding(q) ==
  LET I == {i \in DOMAIN q : Stands(q, i)}
  IN  IF I = {} THEN Unknown ELSE q[CHOOSE i \in I : \A j \in I : j <= i]

TrendsFollowTheHistory ==
  \A m \in Metrics : trends[m].confirmed = LastStanding(bands[m])

(* A crossing is reported when the standing band changes, once, and never  *)
(* by a turn that measured nothing.                                        *)
CrossingsAreReportedOnce ==
  [][\A m \in Metrics :
       LET before == LastStanding(bands[m])
           after  == LastStanding(bands'[m])
           now    == {r \in reported' : r.metric = m}
       IN  turnIndex' > turnIndex =>
             now = IF before = after \/ before = Unknown THEN {}
                   ELSE {[metric |-> m, from |-> before, to |-> after]}]_trendSpecVars
=============================================================================
