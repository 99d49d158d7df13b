------------------------------ MODULE Episodes ------------------------------
(***************************************************************************)
(* Repair episodes and the response cycle (internal/state/repair.go and    *)
(* the repair half of internal/state/projector.go): a correction opens an  *)
(* episode, a later one deepens it, retires it or brings a provisionally   *)
(* closed one back; the agent's records up to the next operator turn are   *)
(* the response cycle, from whose writes the repair is verified; an agent  *)
(* that re-edits what the previous cycle wrote opens an episode by itself; *)
(* a provisional close becomes durable when the recurrence window passes.  *)
(*                                                                         *)
(* An episode is its index in repairs; 0 stands for a nil pointer.  The    *)
(* characters, records and timestamps of an episode are left out.          *)
(***************************************************************************)
EXTENDS Exchange, Sequences

CONSTANTS
  Paths,       \* the files an agent writes; also the keys of structural episodes
  TurnKeys,    \* the target keys a correction can carry (normalized text)
  NoKey,       \* no established target
  Nil,         \* the nil cycle
  Durability   \* window.correction_durability_turns

TargetKeys == Paths \cup TurnKeys

ASSUME EpisodeConstants ==
  /\ Durability \in Nat \ {0}
  /\ NoKey \notin TargetKeys

VARIABLES
  repairs,      \* p.repairs: every episode seen, in order
  active,       \* p.active: the open episode
  closing,      \* p.closing: the episodes awaiting durability
  cycle,        \* p.cycle: the response cycle of the latest correction
  cycleWrites,  \* p.cycleWrites: paths written since the last operator turn
  priorWrites,  \* p.priorWrites: the same for the cycle before it; reads of a
                \* nil map find nothing, so nil is the empty set here
  mapMade       \* whether p.cycleWrites is a map at all: New leaves it nil

episodeVars == <<repairs, active, closing, cycle, cycleWrites, priorWrites, mapMade>>

RepairStatuses == {"open", "provisionally_closed", "durably_closed", "reset", "unknown"}
Terminal == {"durably_closed", "reset", "unknown"}

(* The assessment of a response cycle.  Its status is unknown on four      *)
(* different premises, which are kept apart; the status failed needs a     *)
(* verdict the marker tier never gives.                                    *)
UnknownPremises == {"no_target", "no_write", "unverified", "corrected"}
Pollutions == {"none", "clean", "polluted"} \cup UnknownPremises

Repairs == [target : TargetKeys \cup {NoKey}, paths : SUBSET Paths,
            structural : BOOLEAN, depth : Nat, status : RepairStatuses,
            closed : BOOLEAN, closeIndex : Nat, activeIndex : Nat,
            epoch : Nat, recurred : BOOLEAN, pollution : Pollutions]

(* repaired and expanded are what the writes established; the counters of  *)
(* the code matter only as zero or not.                                    *)
Cycles == [repair : Nat, records : BOOLEAN, agentTurns : BOOLEAN,
           repaired : BOOLEAN, expanded : BOOLEAN, writes : BOOLEAN]

ASSUME NilIsNoCycle == Nil \notin Cycles

EpisodeInit ==
  /\ repairs = <<>>
  /\ active = 0
  /\ closing = {}
  /\ cycle = Nil
  /\ cycleWrites = {}
  /\ priorWrites = {}
  /\ mapMade = FALSE

-----------------------------------------------------------------------------
(* What the classifier reports about an operator turn, as far as episodes  *)
(* read it.  A turn that corrects carries a key, the paths it named, or    *)
(* neither; one that does not is acceptance or forward work, or it is      *)
(* visibly still on the episode, or it is about something else.            *)

Readings ==
  [kind : {"correction"}, key : TurnKeys \cup {NoKey}, paths : SUBSET Paths]
    \cup
  [kind : {"positive", "engaged", "elsewhere"}, key : {NoKey}, paths : {{}}]

IsCorrection(r) == r.kind = "correction"

-----------------------------------------------------------------------------
(* The stages of an operator turn.  Each maps the part of the state it     *)
(* works on, a record e = [repairs, active, closing, cycle], to the state  *)
(* it leaves; now is the ordinal of the turn.                              *)

NewCycle(i) == [repair |-> i, records |-> FALSE, agentTurns |-> FALSE,
                repaired |-> FALSE, expanded |-> FALSE, writes |-> FALSE]

NewRepair(key, paths, structural, now) ==
  [target |-> key, paths |-> paths, structural |-> structural, depth |-> 1,
   status |-> "open", closed |-> FALSE, closeIndex |-> 0, activeIndex |-> now,
   epoch |-> epoch, recurred |-> FALSE, pollution |-> "none"]

Closed(r, status) == [r EXCEPT !.status = status, !.closed = TRUE]

Reopened(r, now, paths) ==
  [r EXCEPT !.status = "open", !.closed = FALSE, !.depth = @ + 1,
            !.activeIndex = now, !.paths = @ \cup paths]

(* settlePollution and metrics.PollutionAssessment: the cycle that saw any *)
(* record is assessed once, when the next operator turn arrives.           *)
Pollution(c, named, corrected) ==
  CASE ~c.repaired /\ ~named              -> "no_target"
    [] ~c.repaired /\ named /\ ~c.writes  -> "no_write"
    [] ~c.repaired /\ named /\ c.writes   -> "unverified"
    [] c.repaired /\ c.expanded            -> "polluted"
    [] c.repaired /\ ~c.expanded           -> IF corrected THEN "corrected" ELSE "clean"

SettlePollution(e, corrected) ==
  IF e.cycle = Nil THEN e
  ELSE IF ~e.cycle.records THEN e
  ELSE LET i == e.cycle.repair
       IN  [e EXCEPT !.cycle = Nil,
                     !.repairs[i].pollution =
                        Pollution(e.cycle, e.repairs[i].paths # {}, corrected)]

(* Mutant: the window is one turn shorter. *)
Lapsed_Early(e, now) == {i \in e.closing : now - e.repairs[i].closeIndex >= Durability - 1}

(* settleDurability: the window of a provisional close has passed. *)
Lapsed(e, now) == {i \in e.closing : now - e.repairs[i].closeIndex >= Durability}

SettleDurability(e, now) ==
  LET lapsed == Lapsed(e, now)
  IN  [e EXCEPT
        !.repairs = [i \in DOMAIN e.repairs |->
                       IF i \in lapsed
                       THEN [e.repairs[i] EXCEPT !.status =
                               IF e.repairs[i].target = NoKey THEN "unknown"
                                                              ELSE "durably_closed"]
                       ELSE e.repairs[i]],
        !.closing = e.closing \ lapsed]

(* targetEquivalent: an unknown target equals nothing. *)
TargetEquivalent(k, l) == k # NoKey /\ k = l

(* Mutants: the episode is let go without being closed; its response cycle *)
(* goes on.                                                                *)
RetireActive_Open(e) == [e EXCEPT !.active = 0, !.cycle = Nil]
RetireActive_InCycle(e) ==
  IF e.active = 0 THEN e
  ELSE [e EXCEPT !.repairs[e.active] = Closed(@, "unknown"), !.active = 0]

(* retireActive: the correction belongs to something else. *)
RetireActive(e) ==
  IF e.active = 0 THEN e
  ELSE [e EXCEPT !.repairs[e.active] = Closed(@, "unknown"),
                 !.active = 0, !.cycle = Nil]

(* reopenClosing: the first episode awaiting durability with this target;  *)
(* the list is in the order of the closes.                                 *)
SameTarget(e, key) == {i \in e.closing : key # NoKey /\ e.repairs[i].target = key}

FirstClosed(e, S) ==
  CHOOSE i \in S : \A j \in S : e.repairs[i].closeIndex <= e.repairs[j].closeIndex

(* projectRepair for a correction. *)
Deepen(e, r, now) ==
  [e EXCEPT !.repairs[e.active] = Reopened(@, now, r.paths),
            !.cycle = NewCycle(e.active)]

Recur(e, r, now) ==
  LET i == FirstClosed(e, SameTarget(e, r.key))
  IN  [e EXCEPT !.repairs[i] = [Reopened(@, now, r.paths) EXCEPT !.recurred = TRUE],
                !.closing = @ \ {i}, !.active = i, !.cycle = NewCycle(i)]

Open(e, key, paths, structural, now) ==
  LET i == Len(e.repairs) + 1
  IN  [e EXCEPT !.repairs = Append(@, NewRepair(key, paths, structural, now)),
                !.active = i, !.cycle = NewCycle(i)]

ProjectCorrection(e, r, now) ==
  IF e.active # 0 /\ TargetEquivalent(e.repairs[e.active].target, r.key)
  THEN Deepen(e, r, now)
  ELSE LET retired == RetireActive(e)
       IN  IF SameTarget(retired, r.key) # {} THEN Recur(retired, r, now)
           ELSE Open(retired, r.key, r.paths, FALSE, now)

(* projectRepair for any other turn: nothing to close, no answer yet, no   *)
(* closing evidence (bounded), or a provisional close.                     *)
CycleUnanswered(e) == e.cycle # Nil /\ ~e.cycle.agentTurns

Overdue(e, now) == now - e.repairs[e.active].activeIndex >= Durability

ProjectOther(e, r, now) ==
  IF e.active = 0 \/ CycleUnanswered(e) THEN e
  ELSE IF r.kind = "engaged"
  THEN IF Overdue(e, now)
       THEN [e EXCEPT !.repairs[e.active] = Closed(@, "unknown"),
                      !.active = 0, !.cycle = Nil]
       ELSE e
  ELSE [e EXCEPT !.repairs[e.active] =
                   [Closed(@, "provisionally_closed") EXCEPT !.closeIndex = now],
                 !.closing = @ \cup {e.active},
                 !.active = 0]

ProjectRepair(e, r, now) ==
  IF IsCorrection(r) THEN ProjectCorrection(e, r, now) ELSE ProjectOther(e, r, now)

(* Mutant: only the open episode is ended. *)
EndOfEpoch_OpenOnly(e, i) ==
  IF i = e.active THEN Closed(e.repairs[i], "reset") ELSE e.repairs[i]

(* applyReset: the open episode ends reset, those awaiting durability end  *)
(* unknown.                                                                *)
EndOfEpoch(e, i) ==
  IF i = e.active THEN Closed(e.repairs[i], "reset")
  ELSE IF i \in e.closing THEN [e.repairs[i] EXCEPT !.status = "unknown"]
  ELSE e.repairs[i]

ApplyReset(e, reset) ==
  IF ~reset THEN e
  ELSE [repairs |-> [i \in DOMAIN e.repairs |-> EndOfEpoch(e, i)],
        active  |-> 0,
        closing |-> {},
        cycle   |-> IF e.active # 0 THEN Nil ELSE e.cycle]

Current == [repairs |-> repairs, active |-> active, closing |-> closing, cycle |-> cycle]

Becomes(e) ==
  /\ repairs' = e.repairs
  /\ active' = e.active
  /\ closing' = e.closing
  /\ cycle' = e.cycle

TurnOutcome(r, reset) ==
  LET now == turnIndex + 1
      settled == SettleDurability(SettlePollution(Current, IsCorrection(r)), now)
  IN  ApplyReset(ProjectRepair(settled, r, now), reset)

-----------------------------------------------------------------------------
(* One operator turn: the cycle boundary moves, then the stages in order.  *)

EpisodeTurn(r, reset) ==
  /\ priorWrites' = cycleWrites
  /\ cycleWrites' = {}
  /\ mapMade' = TRUE
  /\ Becomes(TurnOutcome(r, reset))

(* observeWrites: what this record re-edits of the cycle before it.        *)
(* p.operatorSeq is 0 exactly while no operator turn was pushed.           *)
Overlap(W) == W \cap priorWrites

OpensStructurally(W) == Overlap(W) # {} /\ active = 0 /\ turnIndex # 0

Named == IF active = 0 THEN {} ELSE repairs[active].paths

(* Mutant: a record that writes nothing outside the named paths repairs. *)
Folded_NoneOutside(c, W, expansion) ==
  [c EXCEPT !.records = TRUE, !.agentTurns = TRUE, !.repaired = @ \/ W \subseteq Named,
            !.expanded = @ \/ expansion]

(* projectAgent: what the record adds to the cycle.  What its writes       *)
(* establish about repair was read by the classifier against the episode   *)
(* that was open before the record.                                        *)
Folded(c, W, expansion) ==
  [c EXCEPT !.records = TRUE, !.agentTurns = TRUE,
            !.repaired = @ \/ W \cap Named # {},
            !.expanded = @ \/ expansion \/ (Named # {} /\ W \ Named # {})]

(* An agent record that wrote the paths in W: observeWrites, the           *)
(* structural opening, then projectAgent.                                  *)
EpisodeAgent(W, key, expansion) ==
  /\ W # {} => mapMade
  /\ key \in IF OpensStructurally(W) THEN Overlap(W) ELSE {NoKey}
  /\ cycleWrites' = cycleWrites \cup W
  /\ priorWrites' = IF OpensStructurally(W) THEN {} ELSE priorWrites
  /\ LET wrote  == IF cycle = Nil \/ W = {} THEN cycle ELSE [cycle EXCEPT !.writes = TRUE]
         before == [Current EXCEPT !.cycle = wrote]
         after  == IF OpensStructurally(W)
                   THEN Open(before, key, Overlap(W), TRUE, turnIndex) ELSE before
     IN  Becomes([after EXCEPT !.cycle = IF @ = Nil THEN @ ELSE Folded(@, W, expansion)])
  /\ UNCHANGED mapMade

(* The first write of a stream that begins with the agent: New makes no    *)
(* cycleWrites map, so the assignment into it panics.                      *)
EpisodePanic(W) ==
  /\ W # {} /\ ~mapMade
  /\ UNCHANGED <<repairs, active, closing, cycle, cycleWrites, priorWrites, mapMade>>

(* Any other record joins the open cycle. *)
EpisodeOther ==
  /\ cycle' = IF cycle = Nil THEN cycle ELSE [cycle EXCEPT !.records = TRUE]
  /\ UNCHANGED <<repairs, active, closing, cycleWrites, priorWrites, mapMade>>

(* Finish: the source ended. *)
EpisodeFinish ==
  /\ Becomes(RetireActive(SettlePollution(Current, FALSE)))
  /\ UNCHANGED <<cycleWrites, priorWrites, mapMade>>

-----------------------------------------------------------------------------
OperatorTurn ==
  \E r \in Readings, reset \in BOOLEAN : OperatorRecord(reset) /\ EpisodeTurn(r, reset)

AgentTurn ==
  \E W \in SUBSET Paths, key \in Paths \cup {NoKey}, expansion \in BOOLEAN :
    OtherRecord /\ EpisodeAgent(W, key, expansion)

AgentPanic == \E W \in SUBSET Paths : StopAs("panicked") /\ EpisodePanic(W)

OtherTurn == OtherRecord /\ EpisodeOther

Finish == StopAs("finished") /\ EpisodeFinish

episodeSpecVars == <<exchangeVars, episodeVars>>

EpisodeSpecInit == ExchangeInit /\ EpisodeInit
EpisodeNext == OperatorTurn \/ AgentTurn \/ AgentPanic \/ OtherTurn \/ Finish
EpisodeSpec == EpisodeSpecInit /\ [][EpisodeNext]_episodeSpecVars

-----------------------------------------------------------------------------
EpisodeTypeOK ==
  /\ ExchangeTypeOK
  /\ repairs \in Seq(Repairs)
  /\ active \in 0..Len(repairs)
  /\ closing \subseteq 1..Len(repairs)
  /\ cycle \in Cycles \cup {Nil}
  /\ cycleWrites \in SUBSET Paths
  /\ priorWrites \in SUBSET Paths
  /\ mapMade \in BOOLEAN

(* At most one episode is open, and it is the one p.active points to: an   *)
(* open episode nothing points to would stay open for ever and its regime  *)
(* reading would never end.  It carries no closing time, and every other   *)
(* one does (METRICS.md).                                                  *)
OneOpenEpisode ==
  /\ {i \in DOMAIN repairs : repairs[i].status = "open"}
       = IF active = 0 THEN {} ELSE {active}
  /\ \A i \in DOMAIN repairs : repairs[i].closed <=> repairs[i].status # "open"

(* The episodes awaiting durability are exactly those provisionally closed,*)
(* they closed on different turns (so "first in the list" names one), and  *)
(* none outlives the recurrence window: at most Durability of them wait.   *)
ClosingAwaitsDurability ==
  /\ closing = {i \in DOMAIN repairs : repairs[i].status = "provisionally_closed"}
  /\ \A i, j \in closing : repairs[i].closeIndex = repairs[j].closeIndex => i = j
  /\ \A i \in closing : turnIndex - repairs[i].closeIndex \in 0..(Durability - 1)
  /\ Cardinality(closing) <= Durability

(* A response cycle answers the open episode: records are never charged to *)
(* the cycle of an episode that was closed, retired or reset.              *)
CycleAnswersOpenEpisode == cycle # Nil => active # 0 /\ cycle.repair = active

(* Repair is verified only by a write the cycle saw to a path the          *)
(* correction named; nothing the agent says about its own work reaches it. *)
RepairIsVerifiedByWrites ==
  cycle # Nil =>
    (cycle.repaired => cycle.writes /\ cycleWrites \cap repairs[cycle.repair].paths # {})

(* Accrual is bounded: an episode the agent has answered is closed before  *)
(* Durability operator turns pass without a correction (the comment on the *)
(* bound in projectRepair).                                                *)
AccrualBounded ==
  active # 0 /\ cycle = Nil => turnIndex - repairs[active].activeIndex < Durability

(* A durable close means no correction by the operator about the same      *)
(* target opened another episode inside the recurrence window.  Episodes   *)
(* the agent opened by editing again are left out on both sides: a         *)
(* correction that deepens one, or that brings another one back, looks at  *)
(* one episode only (licenseDurable says otherwise; see the README).       *)
RecursWithin(i, j) ==
  /\ i # j
  /\ repairs[i].target # NoKey /\ repairs[i].target = repairs[j].target
  /\ repairs[j].activeIndex \in repairs[i].closeIndex..(repairs[i].closeIndex + Durability - 1)

DurableMeansNotCorrected ==
  \A i, j \in DOMAIN repairs :
    /\ repairs[i].status = "durably_closed"
    /\ ~repairs[i].structural /\ ~repairs[j].structural
    => ~RecursWithin(i, j)

(* The outcome of an episode is written once: a durable, reset or unknown  *)
(* episode never changes again, and the assessment of its last cycle does  *)
(* not arrive later either.                                                *)
OutcomesAreFinal ==
  \A i \in DOMAIN repairs : repairs[i].status \in Terminal => repairs'[i] = repairs[i]

(* The parts of the episode state agree: whose cycle runs, which episode is *)
(* open, which of them wait, and for how long.                             *)
EpisodesAgree ==
  /\ EpisodeTypeOK
  /\ OneOpenEpisode
  /\ ClosingAwaitsDurability
  /\ CycleAnswersOpenEpisode
  /\ AccrualBounded

(* The life of an episode is the one METRICS.md promises. *)
Lifecycle == INSTANCE RepairLifecycle WITH
  life <- [i \in DOMAIN repairs |-> repairs[i].status]

FollowsLifecycle == Lifecycle!Spec

(* A durable close is one nothing took back: no correction about the same  *)
(* target inside the window, and no change after it.                       *)
OutcomesStand == [][DurableMeansNotCorrected' /\ OutcomesAreFinal]_episodeSpecVars

-----------------------------------------------------------------------------
(* What the repository says of the program and the code does not do.       *)

(* payloads.go, licenseProvisional: a provisional close follows the        *)
(* agent's answer to the correction.                                       *)
ProvisionalCloseWasAnswered ==
  [][\A i \in closing' \ closing :
       cycle # Nil => cycle.agentTurns]_episodeSpecVars

(* projector.go, observeWrites: before the first operator turn the rule    *)
(* establishes nothing.                                                    *)
WritesBeforeFirstTurnAreHarmless == phase # "panicked"
=============================================================================
