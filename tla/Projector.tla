------------------------------ MODULE Projector ------------------------------
(***************************************************************************)
(* state.Projector as a whole: Push and Finish give one record its effect  *)
(* on the obligation surface, the repair episodes and the references at    *)
(* once, keep the marks of the drift window, and decide the regime of the  *)
(* turn (projector.go, regime.go).                                         *)
(*                                                                         *)
(* The components are used as they are: what the classifier reports about  *)
(* one record is split into what each of them reads.  The target key of a  *)
(* correction is what ties them together: it may name an obligation, a     *)
(* reference or a file.  Character counts are abstracted to the answers of *)
(* the comparisons the regime rules make on them.                          *)
(***************************************************************************)
EXTENDS Exchange, Sequences

CONSTANTS
  Sentences, ScopeSentences, ContentKeys, NoContent, ContentOf, Caps,
  MaxCandidates, Paths, FileKeys, NoKey, Nil, Durability, OutcomeTurns,
  RollingTurns,
  MinimumBaseline,        \* thresholds.minimum_control_baseline
  ThrashDepth,            \* thresholds.thrash_repair_depth
  RepeatedWarn,           \* thresholds.repeated_obligations_warn
  DriftWindow             \* driftWindowTurns

DriftEventCount == 2

ASSUME ProjectorConstants ==
  /\ ScopeSentences \subseteq Sentences
  /\ Sentences \cap (FileKeys \cup Paths) = {}
  /\ MinimumBaseline \in Nat /\ ThrashDepth \in Nat /\ RepeatedWarn \in Nat
  /\ DriftWindow \in Nat \ {0}

VARIABLES
  status, repeats, byKey, byRepeat, emitted,
  repairs, active, closing, cycle, cycleWrites, priorWrites, mapMade,
  pointers, lastAgentSeq, success, failure, noAnswer, failures, baseline,
  resetPending,
  corrections,        \* p.corrections: the turn of every correction
  interrupts,         \* p.interrupts: the turn of every interruption
  obligationRepeats,  \* p.obligationRepeats: the turns that repeated one
  rule                \* the rule that decided the regime of the latest turn

O == INSTANCE Obligations WITH Keys <- Sentences, Nowhere <- Nil
E == INSTANCE Episodes WITH TurnKeys <- FileKeys \cup Sentences
P == INSTANCE Pointers WITH PointerKeys <- FileKeys, NoTarget <- NoKey

(* What the components assume of their constants, and that the values that *)
(* stand for nothing are no values: a nil cycle is no cycle, no position   *)
(* in an index is none, and a correction that names no sentence has none.  *)
ASSUME ComponentConstants ==
  /\ NoContent \notin ContentKeys
  /\ ContentOf \in [Sentences -> ContentKeys \cup {NoContent}]
  /\ Caps \subseteq O!ResolutionKinds
  /\ MaxCandidates \in Nat
  /\ NoKey \notin Paths \cup FileKeys \cup Sentences
  /\ Durability \in Nat \ {0}
  /\ OutcomeTurns \in Nat \ {0}
  /\ RollingTurns \in Nat \ {0}
  /\ Nil \notin Sentences
  /\ Nil \notin O!Identities
  /\ Nil \notin E!Cycles

markVars == <<corrections, interrupts, obligationRepeats>>
projectorVars ==
  <<exchangeVars, status, repeats, byKey, byRepeat, emitted,
    repairs, active, closing, cycle, cycleWrites, priorWrites, mapMade,
    pointers, lastAgentSeq, success, failure, noAnswer, failures, baseline,
    resetPending, markVars, rule>>

ProjectorInit ==
  /\ ExchangeInit
  /\ O!ObligationInit
  /\ E!EpisodeInit
  /\ P!PointerInit
  /\ corrections = <<>>
  /\ interrupts = <<>>
  /\ obligationRepeats = <<>>
  /\ rule = "flow"

-----------------------------------------------------------------------------
(* What the classifier reports about one operator turn: its candidates and *)
(* resolutions, the reference it carries, whether it corrects, and if not, *)
(* how it relates to the episode in play.                                  *)
Moods == {"correction", "positive", "engaged", "elsewhere"}

(* correctionKey: the first stop or scope candidate, else the reference,   *)
(* else nothing.                                                           *)
CorrectionKey(cs, pointer) ==
  LET scope == {i \in DOMAIN cs : cs[i] \in ScopeSentences}
  IN  IF scope # {} THEN cs[CHOOSE i \in scope : \A j \in scope : i <= j]
      ELSE IF pointer \in FileKeys THEN pointer ELSE NoKey

(* The same turn as each component reads it. *)
EpisodeReading(mood, key, named) ==
  [kind |-> mood, key |-> IF mood = "correction" THEN key ELSE NoKey,
   paths |-> IF mood = "correction" THEN named ELSE {}]

PointerEvidence(mood, key) ==
  [kind |-> IF mood \in {"correction", "positive"} THEN mood ELSE "neither",
   target |-> IF mood = "correction" /\ key \in FileKeys THEN key ELSE NoKey]

(* Mutant: a turn that names a sentence violates it without correcting. *)
ViolationTarget_AnyTurn(mood, key) == IF key \in Sentences THEN key ELSE Nil

ViolationTarget(mood, key) ==
  IF mood = "correction" /\ key \in Sentences THEN key ELSE Nil

-----------------------------------------------------------------------------
(* regime.go: Decide.  The weight of a turn is what its character counts   *)
(* come to: inflated says SI is over its threshold, stalled that the       *)
(* forward share is low as well, big that RCC is at five times the         *)
(* baseline.  Without a baseline all three are unknown, and so false.      *)
Weights == {"plain", "inflated", "stalled", "big"}

Within(marks, now) == Cardinality({i \in DOMAIN marks : now - marks[i] < DriftWindow})

ThrashRule(depth, repeatedOpen, weight) ==
  CASE depth >= ThrashDepth -> "thrash_depth"
    [] depth < ThrashDepth /\ weight = "big" -> "thrash_chars"
    [] depth < ThrashDepth /\ weight = "stalled" /\ repeatedOpen >= RepeatedWarn
         -> "thrash_obligations"
    [] OTHER -> "recovery"

DriftRule(misses, controls, recentRepeats, weight) ==
  CASE misses >= DriftEventCount -> "drift_dereference"
    [] misses < DriftEventCount /\ controls >= DriftEventCount -> "drift_control"
    [] misses < DriftEventCount /\ controls < DriftEventCount
         /\ weight \in {"inflated", "stalled"} /\ recentRepeats > 0 -> "drift_inflation"
    [] OTHER -> "flow"

RegimeOf(r) ==
  CASE r = "reset" -> "RESET"
    [] r \in {"thrash_depth", "thrash_chars", "thrash_obligations"} -> "THRASH"
    [] r = "recovery" -> "RECOVERY"
    [] r \in {"drift_dereference", "drift_control", "drift_inflation"} -> "DRIFT"
    [] r = "flow" -> "FLOW"

(* obligation.go: RepeatedUnresolved. *)
RepeatedUnresolved(st, counts) ==
  Cardinality({id \in DOMAIN st : O!Outstanding(st[id]) /\ counts[id] > 0})

(* Mutant: the episode is read as it was before the turn. *)
Decide_Stale(reset, weight) ==
  IF reset THEN "reset"
  ELSE IF active # 0
  THEN ThrashRule(repairs[active].depth, RepeatedUnresolved(status', repeats'), weight)
  ELSE DriftRule(Within(failures', turnIndex'),
                 Within(corrections', turnIndex') + Within(interrupts', turnIndex'),
                 Within(obligationRepeats', turnIndex'), weight)

Decide(reset, weight) ==
  IF reset THEN "reset"
  ELSE IF active' # 0
  THEN ThrashRule(repairs'[active'].depth, RepeatedUnresolved(status', repeats'), weight)
  ELSE DriftRule(Within(failures', turnIndex'),
                 Within(corrections', turnIndex') + Within(interrupts', turnIndex'),
                 Within(obligationRepeats', turnIndex'), weight)

(* clearRolling, and the marks of the turn itself. *)
Mark(marks, happened) ==
  (IF resetPending THEN <<>> ELSE marks) \o (IF happened THEN <<turnIndex + 1>> ELSE <<>>)

-----------------------------------------------------------------------------
(* Push of an operator turn. *)
PushOperator(R, cs, pointer, mood, named, reset, weight) ==
  LET key      == CorrectionKey(cs, pointer)
      evidence == PointerEvidence(mood, key)
      reading  == EpisodeReading(mood, key, named)
      known    == Len(P!MeasuredBaseline(evidence)) >= MinimumBaseline
  IN  /\ OperatorRecord(reset)
      /\ ~known => weight = "plain"
      /\ O!ObligationTurn(R, cs, ViolationTarget(mood, key), reset)
      /\ E!EpisodeTurn(reading, reset)
      /\ P!PointerTurn(evidence, pointer, E!TurnOutcome(reading, FALSE).active = 0,
                       active' = 0, reset)
      /\ corrections' = Mark(corrections, mood = "correction")
      /\ interrupts' = Mark(interrupts, FALSE)
      /\ obligationRepeats' = Mark(obligationRepeats, emitted'.repeated # {})
      /\ rule' = Decide(reset, weight)

(* A correction names the files it mentions; a file reference is one. *)
NamedPaths(pointer) == IF pointer \in Paths THEN {pointer} ELSE {}

OperatorTurn ==
  \E R \in O!Resolutions, cs \in O!CandidateSeqs,
     pointer \in FileKeys \cup {P!Nothing}, mood \in Moods,
     reset \in BOOLEAN, weight \in Weights :
       PushOperator(R, cs, pointer, mood, NamedPaths(pointer), reset, weight)

(* openStructuralRepair: the opening is one more correction. *)

(* Mutant: every re-edit counts, inside an open episode too. *)
MarkStructural_EveryOverlap(W) ==
  IF E!Overlap(W) # {} THEN Append(corrections, turnIndex) ELSE corrections

MarkStructural(W) ==
  IF E!OpensStructurally(W) THEN Append(corrections, turnIndex) ELSE corrections

(* Push of an agent record. *)
PushAgent(W, key, expansion) ==
  /\ OtherRecord
  /\ O!ObligationOther
  /\ E!EpisodeAgent(W, key, expansion)
  /\ P!PointerAgent
  /\ corrections' = MarkStructural(W)
  /\ UNCHANGED <<interrupts, obligationRepeats, rule>>

AgentTurn ==
  \E W \in SUBSET Paths, key \in Paths \cup {NoKey}, expansion \in BOOLEAN :
    PushAgent(W, key, expansion)

AgentPanic ==
  /\ \E W \in SUBSET Paths : E!EpisodePanic(W)
  /\ StopAs("panicked")
  /\ UNCHANGED <<status, repeats, byKey, byRepeat, emitted>>
  /\ UNCHANGED <<pointers, lastAgentSeq, success, failure, noAnswer, failures,
                 baseline, resetPending>>
  /\ UNCHANGED <<corrections, interrupts, obligationRepeats, rule>>

(* Push of anything else; an interruption is marked. *)
OtherTurn ==
  \E interrupted \in BOOLEAN :
    /\ OtherRecord
    /\ O!ObligationOther
    /\ E!EpisodeOther
    /\ P!PointerOther
    /\ interrupts' = IF interrupted THEN Append(interrupts, turnIndex) ELSE interrupts
    /\ UNCHANGED <<corrections, obligationRepeats, rule>>

Finish ==
  /\ StopAs("finished")
  /\ O!ObligationOther
  /\ E!EpisodeFinish
  /\ P!PointerFinish
  /\ UNCHANGED <<corrections, interrupts, obligationRepeats, rule>>

ProjectorNext == OperatorTurn \/ AgentTurn \/ AgentPanic \/ OtherTurn \/ Finish
ProjectorSpec == ProjectorInit /\ [][ProjectorNext]_projectorVars

-----------------------------------------------------------------------------
(* The composition is an implementation of each of its components: what is *)
(* shown of a component alone holds of the whole.                          *)
ImplementsComponents == O!ObligationSpec /\ E!EpisodeSpec /\ P!PointerSpec

(* The regime and the episodes agree: while the source is read, a recovery *)
(* or thrash reading has an open episode behind it, and an open episode is *)
(* read as one unless the agent's re-edit opened it after the turn.        *)
RecoveryMeansOpenEpisode ==
  phase = "live" =>
    /\ RegimeOf(rule) \in {"RECOVERY", "THRASH"} => active # 0
    /\ active # 0 /\ ~(repairs[active].structural /\ repairs[active].activeIndex = turnIndex
                       /\ repairs[active].depth = 1)
         => RegimeOf(rule) \in {"RECOVERY", "THRASH"}

(* Outside the turn of a reset, no operator turn is counted twice as a     *)
(* correction, so a single correction the agent re-edits into is not drift.*)
OneCorrectionMarkPerTurn ==
  ~resetPending =>
    \A i, j \in DOMAIN corrections : corrections[i] = corrections[j] => i = j

(* An obligation is reported violated only by a correction about it: the   *)
(* episode that correction opened or deepened is open under its key.       *)
ViolationHasItsEpisode ==
  \A id \in emitted.violated :
    \/ rule = "reset"
    \/ /\ active # 0
       /\ repairs[active].activeIndex = turnIndex
       /\ repairs[active].target = id[2]

(* Whatever is open belongs to the current epoch: the record that ends an  *)
(* epoch leaves no episode, reference or requirement of it unsettled, and  *)
(* its own reading is RESET.                                               *)
NothingOutlivesItsEpoch ==
  [][epoch' # epoch =>
       /\ active' = 0 /\ closing' = {} /\ cycle' = Nil
       /\ \A i \in DOMAIN repairs' : repairs'[i].status \in E!Terminal
       /\ {s \in P!Turns : pointers'[s].state = "pending"} = {}
       /\ \A id \in O!Identities : ~O!Outstanding(status'[id])
       /\ RegimeOf(rule') = "RESET"]_projectorVars
=============================================================================
