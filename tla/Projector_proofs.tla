--------------------------- MODULE Projector_proofs ---------------------------
(***************************************************************************)
(* The projector and its components.  Every record the projector takes is  *)
(* one step of the obligation surface, one of the repair episodes and one  *)
(* of the compact references, or leaves them as they were                  *)
(* (ComponentsAreImplemented): what one record reports, split among the    *)
(* components, is a report each of them knows.  The one fact about         *)
(* reachable states that is needed is WritesHaveTheirMap.                  *)
(*                                                                         *)
(* So what is proved of a component is taken from there.  OF and EF are    *)
(* its proof modules on the variables of the projector; that their         *)
(* operators are those of the components is shown one by one (SameSurface, *)
(* SameEpisodes), and SurfaceInside and EpisodesInside bring the           *)
(* invariants over.                                                        *)
(*                                                                         *)
(* With these, what relates the components needs little more.  The reading *)
(* of a turn follows the open episode because the rules ask last for it    *)
(* (ReadingKeeps).  MarksInv says that a marked turn has left an episode   *)
(* open, so that a re-edit, which opens one only when there is none,       *)
(* cannot mark it again.  A violation is looked for under the target of    *)
(* the correction, and what the exact index holds under a sentence carries *)
(* that sentence (ViolationIsNamed).  An episode without a pointer to it   *)
(* and not waiting has its outcome (ClosedIsOver), so a reset that empties *)
(* both leaves none without one.                                           *)
(***************************************************************************)
EXTENDS Projector, NaturalsInduction, WellFoundedInduction, TLAPS

(* The map of a cycle's writes is made with the first operator turn.       *)
WritesHaveTheirMap == turnIndex # 0 => mapMade

-----------------------------------------------------------------------------
(* What the parts of a report are.                                         *)

(* A nonempty set of positions has a first one.                            *)
LEMMA FirstPosition ==
  ASSUME NEW S \in SUBSET Nat, S # {}
  PROVE  \E i \in S : \A j \in S : i <= j
<1>1. IsWellFoundedOn(OpToRel(<, Nat), Nat)
  BY NatLessThanWellFounded
<1>2. PICK i \in S : \A j \in S : ~(<<j, i>> \in OpToRel(<, Nat))
  BY <1>1, WFMin
<1>3. \A j \in S : ~(j < i)
  BY <1>2 DEF OpToRel
<1> QED
  BY <1>3

(* The target of a correction is a sentence, a file or nothing.            *)
LEMMA KeyIsKnown ==
  ASSUME NEW cs \in O!CandidateSeqs, NEW pointer
  PROVE  CorrectionKey(cs, pointer) \in Sentences \cup FileKeys \cup {NoKey}
<1> DEFINE scope == {i \in DOMAIN cs : cs[i] \in ScopeSentences}
<1>1. PICK n \in 0..MaxCandidates : cs \in [1..n -> Sentences]
  BY DEF O!CandidateSeqs
<1>2. CASE scope # {}
  <2>1. scope \in SUBSET Nat /\ scope \subseteq DOMAIN cs
    BY <1>1
  <2>2. \E i \in scope : \A j \in scope : i <= j
    BY <1>2, <2>1, FirstPosition
  <2>3. (CHOOSE i \in scope : \A j \in scope : i <= j) \in DOMAIN cs
    BY <2>1, <2>2
  <2>4. cs[CHOOSE i \in scope : \A j \in scope : i <= j] \in Sentences
    BY <1>1, <2>3
  <2> QED
    BY <1>2, <2>4 DEF CorrectionKey
<1>3. CASE scope = {}
  BY <1>3 DEF CorrectionKey
<1> QED
  BY <1>2, <1>3

(* What a turn reports is a report every component knows.                  *)
LEMMA ReportsAreKnown ==
  ASSUME NEW mood \in Moods, NEW key \in Sentences \cup FileKeys \cup {NoKey},
         NEW named \in SUBSET Paths
  PROVE  /\ EpisodeReading(mood, key, named) \in E!Readings
         /\ PointerEvidence(mood, key) \in P!Evidence
         /\ ViolationTarget(mood, key) \in Sentences \cup {Nil}
<1>1. EpisodeReading(mood, key, named) \in E!Readings
  BY DEF EpisodeReading, E!Readings, Moods
<1>2. PointerEvidence(mood, key) \in P!Evidence
  BY DEF PointerEvidence, P!Evidence, Moods
<1>3. ViolationTarget(mood, key) \in Sentences \cup {Nil}
  BY DEF ViolationTarget
<1> QED
  BY <1>1, <1>2, <1>3

-----------------------------------------------------------------------------
(* Without a reset, the episode the turn leaves open is the one the        *)
(* reference is asked about; a reset closes it.                            *)
LEMMA OutsideAfterReset ==
  ASSUME NEW r, NEW reset \in BOOLEAN, E!EpisodeTurn(r, reset)
  PROVE  /\ E!TurnOutcome(r, FALSE).active = 0 \/ reset => active' = 0
         /\ ~reset /\ active' = 0 => E!TurnOutcome(r, FALSE).active = 0
<1> DEFINE stage == E!ProjectRepair(E!SettleDurability(
                      E!SettlePollution(E!Current, E!IsCorrection(r)), turnIndex + 1),
                      r, turnIndex + 1)
<1>1. active' = E!ApplyReset(stage, reset).active
  BY DEF E!EpisodeTurn, E!Becomes, E!TurnOutcome
<1>2. E!TurnOutcome(r, FALSE).active = E!ApplyReset(stage, FALSE).active
  BY DEF E!TurnOutcome
<1>3. CASE ~reset
  BY <1>1, <1>2, <1>3
<1>4. CASE reset
  BY <1>1, <1>4 DEF E!ApplyReset, E!EndOfEpoch
<1> QED
  BY <1>3, <1>4

-----------------------------------------------------------------------------
LEMMA WritesMapIsMade == ProjectorSpec => []WritesHaveTheirMap
<1>1. ProjectorInit => WritesHaveTheirMap
  BY DEF ProjectorInit, ExchangeInit, WritesHaveTheirMap
<1>2. WritesHaveTheirMap /\ [ProjectorNext]_projectorVars => WritesHaveTheirMap'
  <2> SUFFICES ASSUME WritesHaveTheirMap, [ProjectorNext]_projectorVars
               PROVE  WritesHaveTheirMap'
    OBVIOUS
  <2>1. CASE OperatorTurn
    BY <2>1 DEF OperatorTurn, PushOperator, E!EpisodeTurn, WritesHaveTheirMap
  <2>2. CASE AgentTurn
    BY <2>2 DEF AgentTurn, PushAgent, OtherRecord, E!EpisodeAgent, WritesHaveTheirMap
  <2>3. CASE AgentPanic
    BY <2>3 DEF AgentPanic, StopAs, E!EpisodePanic, WritesHaveTheirMap
  <2>4. CASE OtherTurn
    BY <2>4 DEF OtherTurn, OtherRecord, E!EpisodeOther, WritesHaveTheirMap
  <2>5. CASE Finish
    BY <2>5 DEF Finish, StopAs, E!EpisodeFinish, WritesHaveTheirMap
  <2>6. CASE UNCHANGED projectorVars
    BY <2>6 DEF projectorVars, exchangeVars, WritesHaveTheirMap
  <2> QED
    BY <2>1, <2>2, <2>3, <2>4, <2>5, <2>6 DEF ProjectorNext
<1> QED
  BY <1>1, <1>2, PTL DEF ProjectorSpec

-----------------------------------------------------------------------------
(* A record of the projector is the same record to each component.         *)
LEMMA SameRecord ==
  /\ \A reset \in BOOLEAN : OperatorRecord(reset) =>
       O!OperatorRecord(reset) /\ E!OperatorRecord(reset) /\ P!OperatorRecord(reset)
  /\ OtherRecord => O!OtherRecord /\ E!OtherRecord /\ P!OtherRecord
  /\ \A outcome \in {"finished", "panicked"} : StopAs(outcome) =>
       O!StopAs(outcome) /\ E!StopAs(outcome) /\ P!StopAs(outcome)
BY DEF OperatorRecord, O!OperatorRecord, E!OperatorRecord, P!OperatorRecord,
       OtherRecord, O!OtherRecord, E!OtherRecord, P!OtherRecord,
       StopAs, O!StopAs, E!StopAs, P!StopAs,
       TakeRecord, O!TakeRecord, E!TakeRecord, P!TakeRecord

(* The three components on an operator turn.                               *)
LEMMA TurnsMap ==
  ASSUME OperatorTurn
  PROVE  O!OperatorTurn /\ E!OperatorTurn /\ P!OperatorTurn
<1>1. PICK R \in O!Resolutions, cs \in O!CandidateSeqs,
           pointer \in FileKeys \cup {P!Nothing}, mood \in Moods,
           reset \in BOOLEAN, weight \in Weights :
             PushOperator(R, cs, pointer, mood, NamedPaths(pointer), reset, weight)
  BY DEF OperatorTurn
<1> DEFINE key == CorrectionKey(cs, pointer)
           reading == EpisodeReading(mood, key, NamedPaths(pointer))
           evidence == PointerEvidence(mood, key)
           outside == E!TurnOutcome(reading, FALSE).active = 0
<1>2. /\ OperatorRecord(reset)
      /\ O!ObligationTurn(R, cs, ViolationTarget(mood, key), reset)
      /\ E!EpisodeTurn(reading, reset)
      /\ P!PointerTurn(evidence, pointer, outside, active' = 0, reset)
  BY <1>1 DEF PushOperator
<1>3. key \in Sentences \cup FileKeys \cup {NoKey}
  BY KeyIsKnown
<1>4. NamedPaths(pointer) \in SUBSET Paths
  BY DEF NamedPaths
<1>5. /\ reading \in E!Readings
      /\ evidence \in P!Evidence
      /\ ViolationTarget(mood, key) \in Sentences \cup {Nil}
  BY <1>3, <1>4, ReportsAreKnown
<1>6. O!OperatorTurn
  BY <1>2, <1>5, SameRecord DEF O!OperatorTurn
<1>7. E!OperatorTurn
  BY <1>2, <1>5, SameRecord DEF E!OperatorTurn
<1>8. P!OperatorTurn
  <2>1. /\ outside \/ reset => active' = 0
        /\ ~reset /\ active' = 0 => outside
    BY <1>2, OutsideAfterReset
  <2>2. outside \in BOOLEAN /\ (active' = 0) \in BOOLEAN
    OBVIOUS
  <2>3. pointer \in FileKeys \cup {NoKey, P!Nothing}
    OBVIOUS
  <2>4. P!OperatorRecord(reset)
    BY <1>2, SameRecord
  <2> HIDE DEF outside, evidence
  <2> QED
    BY <1>2, <1>5, <2>1, <2>2, <2>3, <2>4 DEF P!OperatorTurn
<1> QED
  BY <1>6, <1>7, <1>8

(* The three components on an agent record.                                *)
LEMMA AgentsMap ==
  ASSUME AgentTurn
  PROVE  O!QuietRecord /\ E!AgentTurn /\ P!AgentTurn
<1>1. PICK W \in SUBSET Paths, key \in Paths \cup {NoKey}, expansion \in BOOLEAN :
        PushAgent(W, key, expansion)
  BY DEF AgentTurn
<1>2. /\ OtherRecord
      /\ O!ObligationOther
      /\ E!EpisodeAgent(W, key, expansion)
      /\ P!PointerAgent
  BY <1>1 DEF PushAgent
<1> QED
  BY <1>2, SameRecord DEF O!QuietRecord, E!AgentTurn, P!AgentTurn

(* The three components where the projector panics: the writes have no map *)
(* only before the first operator turn.                                    *)
LEMMA PanicsMap ==
  ASSUME AgentPanic, WritesHaveTheirMap
  PROVE  O!Panic /\ E!AgentPanic /\ P!Panic
<1>1. PICK W \in SUBSET Paths : E!EpisodePanic(W)
  BY DEF AgentPanic
<1>2. turnIndex = 0
  BY <1>1 DEF WritesHaveTheirMap, E!EpisodePanic
<1>3. O!StopAs("panicked") /\ E!StopAs("panicked") /\ P!StopAs("panicked")
  BY SameRecord DEF AgentPanic
<1>4. O!Panic
  BY <1>2, <1>3 DEF AgentPanic, O!Panic, O!obligationVars
<1>5. E!AgentPanic
  BY <1>1, <1>3 DEF E!AgentPanic
<1>6. P!Panic
  BY <1>2, <1>3 DEF AgentPanic, P!Panic, P!pointerVars
<1> QED
  BY <1>4, <1>5, <1>6

(* Every step of the projector is a step of each component.                *)
LEMMA StepsMap ==
  ASSUME WritesHaveTheirMap, [ProjectorNext]_projectorVars
  PROVE  /\ [O!ObligationNext]_(O!obligationSpecVars)
         /\ [E!EpisodeNext]_(E!episodeSpecVars)
         /\ [P!PointerNext]_(P!pointerSpecVars)
<1>1. CASE OperatorTurn
  BY <1>1, TurnsMap DEF O!ObligationNext, E!EpisodeNext, P!PointerNext
<1>2. CASE AgentTurn
  BY <1>2, AgentsMap DEF O!ObligationNext, E!EpisodeNext, P!PointerNext
<1>3. CASE AgentPanic
  BY <1>3, PanicsMap DEF O!ObligationNext, E!EpisodeNext, P!PointerNext
<1>4. CASE OtherTurn
  <2>1. OtherRecord /\ O!ObligationOther /\ E!EpisodeOther /\ P!PointerOther
    BY <1>4 DEF OtherTurn
  <2>2. O!QuietRecord /\ E!OtherTurn /\ P!OtherTurn
    BY <2>1, SameRecord DEF O!QuietRecord, E!OtherTurn, P!OtherTurn
  <2> QED
    BY <2>2 DEF O!ObligationNext, E!EpisodeNext, P!PointerNext
<1>5. CASE Finish
  <2>1. StopAs("finished") /\ O!ObligationOther /\ E!EpisodeFinish /\ P!PointerFinish
    BY <1>5 DEF Finish
  <2>2. O!Finish /\ E!Finish /\ P!Finish
    BY <2>1, SameRecord DEF O!Finish, E!Finish, P!Finish
  <2> QED
    BY <2>2 DEF O!ObligationNext, E!EpisodeNext, P!PointerNext
<1>6. CASE UNCHANGED projectorVars
  BY <1>6 DEF projectorVars, exchangeVars, O!obligationSpecVars, O!obligationVars,
              O!exchangeVars, E!episodeSpecVars, E!episodeVars, E!exchangeVars,
              P!pointerSpecVars, P!pointerVars, P!exchangeVars
<1> QED
  BY <1>1, <1>2, <1>3, <1>4, <1>5, <1>6 DEF ProjectorNext

-----------------------------------------------------------------------------
(* What is shown of a component alone holds inside the projector, for      *)
(* every value of the constants: Push and Finish never give a component a  *)
(* step its own specification does not allow.                              *)
THEOREM ComponentsAreImplemented == ProjectorSpec => ImplementsComponents
<1>1. ProjectorInit =>
        O!ObligationSpecInit /\ E!EpisodeSpecInit /\ P!PointerSpecInit
  BY DEF ProjectorInit, ExchangeInit, O!ObligationSpecInit, O!ExchangeInit,
         E!EpisodeSpecInit, E!ExchangeInit, P!PointerSpecInit, P!ExchangeInit
<1>2. WritesHaveTheirMap /\ [ProjectorNext]_projectorVars =>
        /\ [O!ObligationNext]_(O!obligationSpecVars)
        /\ [E!EpisodeNext]_(E!episodeSpecVars)
        /\ [P!PointerNext]_(P!pointerSpecVars)
  BY StepsMap
<1> QED
  BY <1>1, <1>2, WritesMapIsMade, PTL
     DEF ProjectorSpec, ImplementsComponents, O!ObligationSpec, E!EpisodeSpec, P!PointerSpec

-----------------------------------------------------------------------------
(* The theorems about a component are proved of its own module.  To use    *)
(* them here, their modules are instantiated as the projector instantiates *)
(* the components; each operator of a component is the same in both        *)
(* instances.                                                              *)
OF == INSTANCE Obligations_proofs WITH Keys <- Sentences, Nowhere <- Nil
EF == INSTANCE Episodes_proofs WITH TurnKeys <- FileKeys \cup Sentences

(* The operators of a turn of the surface. *)
LEMMA SameIdentities ==
  /\ O!Identities = OF!Identities
  /\ O!Resolutions = OF!Resolutions
  /\ O!CandidateSeqs = OF!CandidateSeqs
  /\ O!NoEvents = OF!NoEvents
BY DEF O!Identities, OF!Identities, O!Epochs, OF!Epochs, O!Resolutions, OF!Resolutions,
       O!KindsAndEvidence, OF!KindsAndEvidence,
       O!CandidateSeqs, OF!CandidateSeqs, O!OutstandingKeys, OF!OutstandingKeys,
       O!OutstandingSet, OF!OutstandingSet, O!Outstanding, OF!Outstanding,
       O!ResolutionKinds, OF!ResolutionKinds, O!NoEvents, OF!NoEvents

LEMMA SameResolving ==
  \A R : /\ O!AfterResolve(R) = OF!AfterResolve(R)
         /\ O!ResolvedBy(R) = OF!ResolvedBy(R)
         /\ \A id : O!KindOf(R, id) = OF!KindOf(R, id)
BY SameIdentities
   DEF O!AfterResolve, OF!AfterResolve, O!ResolvedBy, OF!ResolvedBy, O!KindOf, OF!KindOf,
       O!Licensed, OF!Licensed, O!Resolved, OF!Resolved, O!ResolutionKinds, OF!ResolutionKinds

LEMMA SameMentions ==
  \A cs : /\ O!Introduced(cs) = OF!Introduced(cs)
          /\ \A new : O!Hits(cs, new) = OF!Hits(cs, new)
<1>1. \A cs : O!FirstMentions(cs) = OF!FirstMentions(cs)
  BY DEF O!FirstMentions, OF!FirstMentions
<1>2. \A k : /\ O!Unindexed(k) = OF!Unindexed(k)
             /\ \A l : O!SharesContent(k, l) = OF!SharesContent(k, l)
  BY DEF O!Unindexed, OF!Unindexed, O!SharesContent, OF!SharesContent
<1>3. \A cs : O!Introducing(cs) = OF!Introducing(cs)
  BY <1>1, <1>2 DEF O!Introducing, OF!Introducing
<1>4. \A cs : O!Introduced(cs) = OF!Introduced(cs)
  BY <1>3 DEF O!Introduced, OF!Introduced
<1>5. \A cs, new, i, id : O!Matches(cs, new, i, id) = OF!Matches(cs, new, i, id)
  BY <1>2 DEF O!Matches, OF!Matches
<1>6. \A cs, new : O!Hits(cs, new) = OF!Hits(cs, new)
  <2> SUFFICES ASSUME NEW cs, NEW new PROVE O!Hits(cs, new) = OF!Hits(cs, new)
    OBVIOUS
  <2> DEFINE S == (O!FirstMentions(cs) \ O!Introducing(cs)) \X O!Identities
  <2>1. S = (OF!FirstMentions(cs) \ OF!Introducing(cs)) \X OF!Identities
    BY SameIdentities, <1>1, <1>3
  <2>2. O!Hits(cs, new) = {hit \in S : O!Matches(cs, new, hit[1], hit[2])}
    BY DEF O!Hits
  <2>3. OF!Hits(cs, new) = {hit \in S : OF!Matches(cs, new, hit[1], hit[2])}
    BY <2>1, Zenon DEF OF!Hits
  <2> HIDE DEF S
  <2>4. {hit \in S : O!Matches(cs, new, hit[1], hit[2])}
          = {hit \in S : OF!Matches(cs, new, hit[1], hit[2])}
    BY <1>5
  <2> QED
    BY <2>2, <2>3, <2>4
<1> QED
  BY <1>4, <1>6

LEMMA SameApplying ==
  \A s, hits : /\ O!Revived(s, hits) = OF!Revived(s, hits)
               /\ O!Repeated(s, hits) = OF!Repeated(s, hits)
               /\ O!RepeatsAfter(hits) = OF!RepeatsAfter(hits)
               /\ \A new : O!AfterApply(s, new, hits) = OF!AfterApply(s, new, hits)
<1>1. \A hits, id : O!Times(hits, id) = OF!Times(hits, id)
  BY DEF O!Times, OF!Times, O!Cardinality, OF!Cardinality
<1>2. \A st : O!Resolved(st) = OF!Resolved(st) /\ O!StatusAfter(st) = OF!StatusAfter(st)
  BY DEF O!StatusAfter, OF!StatusAfter, O!Resolved, OF!Resolved,
         O!ResolutionKinds, OF!ResolutionKinds
<1>3. \A s, hits : /\ O!Revived(s, hits) = OF!Revived(s, hits)
                   /\ O!Repeated(s, hits) = OF!Repeated(s, hits)
  <2> SUFFICES ASSUME NEW s, NEW hits
               PROVE  /\ O!Revived(s, hits) = OF!Revived(s, hits)
                      /\ O!Repeated(s, hits) = OF!Repeated(s, hits)
    OBVIOUS
  <2>1. O!Revived(s, hits) = OF!Revived(s, hits)
    BY SameIdentities, <1>1, <1>2 DEF O!Revived, OF!Revived
  <2>2. O!Repeated(s, hits) = OF!Repeated(s, hits)
    BY SameIdentities, <1>1, <1>2 DEF O!Repeated, OF!Repeated
  <2> QED
    BY <2>1, <2>2
<1>4. \A hits : O!RepeatsAfter(hits) = OF!RepeatsAfter(hits)
  BY SameIdentities, <1>1 DEF O!RepeatsAfter, OF!RepeatsAfter
<1>5. \A s, hits, new : O!AfterApply(s, new, hits) = OF!AfterApply(s, new, hits)
  BY SameIdentities, <1>1, <1>2 DEF O!AfterApply, OF!AfterApply
<1> QED
  BY <1>3, <1>4, <1>5

LEMMA SameViolating ==
  /\ \A new : /\ O!ByKeyAfter(new) = OF!ByKeyAfter(new)
              /\ O!ByRepeatAfter(new) = OF!ByRepeatAfter(new)
  /\ \A s, new, hits, t : /\ O!Violated(s, new, hits, t) = OF!Violated(s, new, hits, t)
                          /\ O!AfterViolate(s, new, hits, t) = OF!AfterViolate(s, new, hits, t)
<1>1. \A new : /\ O!ByKeyAfter(new) = OF!ByKeyAfter(new)
               /\ O!ByRepeatAfter(new) = OF!ByRepeatAfter(new)
  BY DEF O!ByKeyAfter, OF!ByKeyAfter, O!ByRepeatAfter, OF!ByRepeatAfter
<1> QED
  BY <1>1, SameIdentities, SameApplying
     DEF O!Violated, OF!Violated, O!AfterViolate, OF!AfterViolate

LEMMA SameReset ==
  \A s : /\ O!AfterReset(s) = OF!AfterReset(s)
         /\ \A reset : O!Blanked(s, reset) = OF!Blanked(s, reset)
BY SameIdentities DEF O!AfterReset, OF!AfterReset, O!Blanked, OF!Blanked,
                      O!Outstanding, OF!Outstanding

LEMMA SameSurfaceTurn ==
  ASSUME NEW R, NEW cs, NEW t, NEW reset, O!ObligationTurn(R, cs, t, reset)
  PROVE  OF!ObligationTurn(R, cs, t, reset)
<1> DEFINE released == O!AfterResolve(R)
           new == O!Introduced(cs)
           hits == O!Hits(cs, new)
           standing == O!AfterViolate(released, new, hits, t)
<1>1. released = OF!AfterResolve(R) /\ new = OF!Introduced(cs)
  BY SameResolving, SameMentions
<1>2. hits = OF!Hits(cs, OF!Introduced(cs))
  BY <1>1, SameMentions
<1>3. standing = OF!AfterViolate(OF!AfterResolve(R), OF!Introduced(cs),
                                 OF!Hits(cs, OF!Introduced(cs)), t)
  BY <1>1, <1>2, SameViolating
<1>4. /\ status' = IF reset THEN O!AfterReset(standing) ELSE standing
      /\ repeats' = O!RepeatsAfter(hits)
      /\ byKey' = O!Blanked(O!ByKeyAfter(new), reset)
      /\ byRepeat' = O!Blanked(O!ByRepeatAfter(new), reset)
      /\ emitted' =
           [introduced |-> new,
            repeated   |-> O!Repeated(released, hits),
            revived    |-> O!Revived(released, hits),
            violated   |-> O!Violated(released, new, hits, t),
            resolved   |-> {<<id, O!KindOf(R, id)>> : id \in O!ResolvedBy(R)},
            ended      |-> IF reset
                           THEN {id \in O!Identities : O!Outstanding(standing[id])}
                           ELSE {}]
  BY DEF O!ObligationTurn
<1> HIDE DEF released, new, hits, standing
<1>5. /\ status' = IF reset THEN OF!AfterReset(standing) ELSE standing
      /\ repeats' = OF!RepeatsAfter(hits)
      /\ byKey' = OF!Blanked(OF!ByKeyAfter(new), reset)
      /\ byRepeat' = OF!Blanked(OF!ByRepeatAfter(new), reset)
  BY <1>4, SameApplying, SameViolating, SameReset
<1>6. {<<id, O!KindOf(R, id)>> : id \in O!ResolvedBy(R)}
        = {<<id, OF!KindOf(R, id)>> : id \in OF!ResolvedBy(R)}
  BY SameResolving
<1>7. {id \in O!Identities : O!Outstanding(standing[id])}
        = {id \in OF!Identities : OF!Outstanding(standing[id])}
  BY SameIdentities DEF O!Outstanding, OF!Outstanding
<1>8. emitted' =
        [introduced |-> new,
         repeated   |-> OF!Repeated(released, hits),
         revived    |-> OF!Revived(released, hits),
         violated   |-> OF!Violated(released, new, hits, t),
         resolved   |-> {<<id, OF!KindOf(R, id)>> : id \in OF!ResolvedBy(R)},
         ended      |-> IF reset
                        THEN {id \in OF!Identities : OF!Outstanding(standing[id])}
                        ELSE {}]
  BY <1>4, <1>6, <1>7, SameApplying, SameViolating
<1> QED
  BY <1>1, <1>2, <1>3, <1>5, <1>8 DEF OF!ObligationTurn

LEMMA SameSurface == O!ObligationSpec => OF!ObligationSpec
<1>1. O!ObligationSpecInit => OF!ObligationSpecInit
  BY SameIdentities
     DEF O!ObligationSpecInit, OF!ObligationSpecInit, O!ExchangeInit, OF!ExchangeInit,
         O!ObligationInit, OF!ObligationInit
<1>2. O!ObligationNext => OF!ObligationNext
  <2> USE DEF O!OperatorRecord, OF!OperatorRecord, O!OtherRecord, OF!OtherRecord,
              O!TakeRecord, OF!TakeRecord, O!StopAs, OF!StopAs
  <2>1. O!OperatorTurn => OF!OperatorTurn
    BY SameIdentities, SameSurfaceTurn DEF O!OperatorTurn, OF!OperatorTurn
  <2>2. O!ObligationOther => OF!ObligationOther
    BY SameIdentities DEF O!ObligationOther, OF!ObligationOther
  <2>3. /\ O!QuietRecord => OF!QuietRecord
        /\ O!Finish => OF!Finish
        /\ O!Panic => OF!Panic
    BY <2>2 DEF O!QuietRecord, OF!QuietRecord, O!Finish, OF!Finish, O!Panic, OF!Panic,
                O!obligationVars, OF!obligationVars
  <2> QED
    BY <2>1, <2>3 DEF O!ObligationNext, OF!ObligationNext
<1>3. UNCHANGED O!obligationSpecVars => UNCHANGED OF!obligationSpecVars
  BY DEF O!obligationSpecVars, OF!obligationSpecVars, O!obligationVars, OF!obligationVars,
         O!exchangeVars, OF!exchangeVars
<1> QED
  BY <1>1, <1>2, <1>3, PTL DEF O!ObligationSpec, OF!ObligationSpec

(* The stages of a turn of the episodes. *)
LEMMA SameStages ==
  /\ \A e, c : E!SettlePollution(e, c) = EF!SettlePollution(e, c)
  /\ \A e, c : E!SettleDurability(e, c) = EF!SettleDurability(e, c)
  /\ \A e : E!RetireActive(e) = EF!RetireActive(e)
  /\ \A e, r, now : E!Deepen(e, r, now) = EF!Deepen(e, r, now)
  /\ \A e, r, now : E!Recur(e, r, now) = EF!Recur(e, r, now)
  /\ \A e, key, paths, structural, now :
       E!Open(e, key, paths, structural, now) = EF!Open(e, key, paths, structural, now)
  /\ \A e, r, now : E!ProjectOther(e, r, now) = EF!ProjectOther(e, r, now)
  /\ \A e, reset : E!ApplyReset(e, reset) = EF!ApplyReset(e, reset)
<1>1. \A e, c : E!SettlePollution(e, c) = EF!SettlePollution(e, c)
  BY DEF E!SettlePollution, EF!SettlePollution, E!Pollution, EF!Pollution
<1>2. \A e, c : E!SettleDurability(e, c) = EF!SettleDurability(e, c)
  BY DEF E!SettleDurability, EF!SettleDurability, E!Lapsed, EF!Lapsed
<1>3. \A e : E!RetireActive(e) = EF!RetireActive(e)
  BY DEF E!RetireActive, EF!RetireActive, E!Closed, EF!Closed
<1>4. \A e, r, now : E!Deepen(e, r, now) = EF!Deepen(e, r, now)
  BY DEF E!Deepen, EF!Deepen, E!Reopened, EF!Reopened, E!NewCycle, EF!NewCycle
<1>5. \A e, r, now : E!Recur(e, r, now) = EF!Recur(e, r, now)
  BY DEF E!Recur, EF!Recur, E!Reopened, EF!Reopened, E!NewCycle, EF!NewCycle,
         E!FirstClosed, EF!FirstClosed, E!SameTarget, EF!SameTarget
<1>6. \A e, key, paths, structural, now :
        E!Open(e, key, paths, structural, now) = EF!Open(e, key, paths, structural, now)
  BY DEF E!Open, EF!Open, E!NewRepair, EF!NewRepair, E!NewCycle, EF!NewCycle
<1>7. \A e, r, now : E!ProjectOther(e, r, now) = EF!ProjectOther(e, r, now)
  BY DEF E!ProjectOther, EF!ProjectOther, E!Closed, EF!Closed,
         E!CycleUnanswered, EF!CycleUnanswered, E!Overdue, EF!Overdue
<1>8. \A e, reset : E!ApplyReset(e, reset) = EF!ApplyReset(e, reset)
  BY DEF E!ApplyReset, EF!ApplyReset, E!EndOfEpoch, EF!EndOfEpoch, E!Closed, EF!Closed
<1> QED
  BY <1>1, <1>2, <1>3, <1>4, <1>5, <1>6, <1>7, <1>8

LEMMA SameCurrent ==
  /\ E!Current = EF!Current
  /\ \A e : E!Becomes(e) = EF!Becomes(e)
  /\ \A c, W, x : E!Folded(c, W, x) = EF!Folded(c, W, x)
  /\ \A W : /\ E!Overlap(W) = EF!Overlap(W)
            /\ E!OpensStructurally(W) = EF!OpensStructurally(W)
<1>1. E!Current = EF!Current /\ \A e : E!Becomes(e) = EF!Becomes(e)
  BY DEF E!Current, EF!Current, E!Becomes, EF!Becomes
<1>2. \A c, W, x : E!Folded(c, W, x) = EF!Folded(c, W, x)
  BY DEF E!Folded, EF!Folded, E!Named, EF!Named
<1>3. \A W : /\ E!Overlap(W) = EF!Overlap(W)
             /\ E!OpensStructurally(W) = EF!OpensStructurally(W)
  BY DEF E!OpensStructurally, EF!OpensStructurally, E!Overlap, EF!Overlap
<1> QED
  BY <1>1, <1>2, <1>3

LEMMA SameEpisodeTurn ==
  \A r, reset : E!EpisodeTurn(r, reset) => EF!EpisodeTurn(r, reset)
<1>1. \A e, r, now : E!ProjectCorrection(e, r, now) = EF!ProjectCorrection(e, r, now)
  BY SameStages, ZenonT(60)
     DEF E!ProjectCorrection, EF!ProjectCorrection, E!TargetEquivalent, EF!TargetEquivalent,
         E!SameTarget, EF!SameTarget
<1>2. \A r, reset : E!TurnOutcome(r, reset) = EF!TurnOutcome(r, reset)
  BY <1>1, SameStages, SameCurrent
     DEF E!TurnOutcome, EF!TurnOutcome, E!ProjectRepair, EF!ProjectRepair,
         E!IsCorrection, EF!IsCorrection
<1> QED
  BY <1>2, SameCurrent DEF E!EpisodeTurn, EF!EpisodeTurn

LEMMA SameEpisodeAgent ==
  ASSUME NEW W, NEW key, NEW x, E!EpisodeAgent(W, key, x)
  PROVE  EF!EpisodeAgent(W, key, x)
<1> DEFINE wrote == IF cycle = Nil \/ W = {} THEN cycle ELSE [cycle EXCEPT !.writes = TRUE]
           before == [E!Current EXCEPT !.cycle = wrote]
           after == IF E!OpensStructurally(W)
                    THEN E!Open(before, key, E!Overlap(W), TRUE, turnIndex) ELSE before
           left == [after EXCEPT !.cycle = IF @ = Nil THEN @ ELSE E!Folded(@, W, x)]
           beforeF == [EF!Current EXCEPT !.cycle = wrote]
           afterF == IF EF!OpensStructurally(W)
                     THEN EF!Open(beforeF, key, EF!Overlap(W), TRUE, turnIndex) ELSE beforeF
           leftF == [afterF EXCEPT !.cycle = IF @ = Nil THEN @ ELSE EF!Folded(@, W, x)]
<1>1. after = afterF
  BY SameStages, SameCurrent, Zenon
<1>2. left = leftF
  <2> HIDE DEF after, afterF
  <2> QED
    BY <1>1, SameCurrent
<1>3. E!Becomes(left)
  BY DEF E!EpisodeAgent
<1>4. EF!Becomes(leftF)
  <2> HIDE DEF left, leftF
  <2> QED
    BY <1>2, <1>3, SameCurrent
<1>5. /\ W # {} => mapMade
      /\ key \in IF E!OpensStructurally(W) THEN E!Overlap(W) ELSE {NoKey}
      /\ cycleWrites' = cycleWrites \cup W
      /\ priorWrites' = IF E!OpensStructurally(W) THEN {} ELSE priorWrites
      /\ UNCHANGED mapMade
  BY DEF E!EpisodeAgent
<1> HIDE DEF after, afterF, left
<1>6. key \in IF EF!OpensStructurally(W) THEN EF!Overlap(W) ELSE {NoKey}
  BY <1>5, SameCurrent
<1>7. priorWrites' = IF EF!OpensStructurally(W) THEN {} ELSE priorWrites
  BY <1>5, SameCurrent
<1> QED
  BY <1>4, <1>5, <1>6, <1>7, Zenon DEF EF!EpisodeAgent, afterF

LEMMA SameEpisodes == E!EpisodeSpec => EF!EpisodeSpec
<1>1. E!EpisodeSpecInit => EF!EpisodeSpecInit
  BY DEF E!EpisodeSpecInit, EF!EpisodeSpecInit, E!ExchangeInit, EF!ExchangeInit,
         E!EpisodeInit, EF!EpisodeInit
<1>2. E!EpisodeNext => EF!EpisodeNext
  <2> USE DEF E!OperatorRecord, EF!OperatorRecord, E!OtherRecord, EF!OtherRecord,
              E!TakeRecord, EF!TakeRecord, E!StopAs, EF!StopAs
  <2>1. E!Readings = EF!Readings
    BY DEF E!Readings, EF!Readings
  <2>2. E!OperatorTurn => EF!OperatorTurn
    BY <2>1, SameEpisodeTurn DEF E!OperatorTurn, EF!OperatorTurn
  <2>3. E!AgentTurn => EF!AgentTurn
    BY SameEpisodeAgent DEF E!AgentTurn, EF!AgentTurn
  <2>4. E!AgentPanic => EF!AgentPanic
    BY DEF E!AgentPanic, EF!AgentPanic, E!EpisodePanic, EF!EpisodePanic
  <2>5. E!OtherTurn => EF!OtherTurn
    BY DEF E!OtherTurn, EF!OtherTurn, E!EpisodeOther, EF!EpisodeOther
  <2>6. E!Finish => EF!Finish
    <3>1. E!EpisodeFinish => EF!EpisodeFinish
      BY SameStages, SameCurrent DEF E!EpisodeFinish, EF!EpisodeFinish
    <3> QED
      BY <3>1 DEF E!Finish, EF!Finish
  <2> QED
    BY <2>2, <2>3, <2>4, <2>5, <2>6 DEF E!EpisodeNext, EF!EpisodeNext
<1>3. UNCHANGED E!episodeSpecVars => UNCHANGED EF!episodeSpecVars
  BY DEF E!episodeSpecVars, EF!episodeSpecVars, E!episodeVars, EF!episodeVars,
         E!exchangeVars, EF!exchangeVars
<1> QED
  BY <1>1, <1>2, <1>3, PTL DEF E!EpisodeSpec, EF!EpisodeSpec

-----------------------------------------------------------------------------
(* What is known of the components in every state of the projector.        *)
LEMMA ComponentAssumptions ==
  /\ OF!ExchangeBounds /\ OF!ObligationConstants /\ OF!NowhereIsNoIdentity
  /\ EF!ExchangeBounds /\ EF!EpisodeConstants /\ EF!NilIsNoCycle
<1>1. OF!ExchangeBounds /\ EF!ExchangeBounds
  BY ExchangeBounds DEF OF!ExchangeBounds, EF!ExchangeBounds
<1>2. OF!ObligationConstants
  BY ComponentConstants DEF OF!ObligationConstants, O!ResolutionKinds, OF!ResolutionKinds
<1>3. OF!NowhereIsNoIdentity
  BY ComponentConstants, SameIdentities DEF OF!NowhereIsNoIdentity
<1>4. EF!EpisodeConstants
  BY ComponentConstants DEF EF!EpisodeConstants, EF!TargetKeys
<1>5. EF!NilIsNoCycle
  BY ComponentConstants DEF EF!NilIsNoCycle, E!Cycles, EF!Cycles
<1> QED
  BY <1>1, <1>2, <1>3, <1>4, <1>5

LEMMA SurfaceInside == ProjectorSpec => []O!IndexesSound
<1>1. OF!ObligationSpec => []OF!IndexesSound
  BY ComponentAssumptions, OF!IndexesAreSound
<1>2. OF!IndexesSound => O!IndexesSound
  BY DEF OF!IndexesSound, O!IndexesSound
<1> QED
  BY <1>1, <1>2, ComponentsAreImplemented, SameSurface, PTL DEF ImplementsComponents

LEMMA EpisodesInside == ProjectorSpec => []EF!EpisodeInv
<1>1. EF!EpisodeSpec => []EF!EpisodeInv
  BY ComponentAssumptions, EF!EpisodeInvariant
<1> QED
  BY <1>1, ComponentsAreImplemented, SameEpisodes, PTL DEF ImplementsComponents

(* What the turn of a correction and an agent record leave open.           *)
LEMMA CorrectionOpens ==
  ASSUME EF!EpisodeInv,
         NEW key \in Sentences \cup FileKeys \cup {NoKey}, NEW named \in SUBSET Paths,
         E!EpisodeTurn(EpisodeReading("correction", key, named), FALSE)
  PROVE  /\ active' # 0
         /\ repairs'[active'].activeIndex = turnIndex + 1
         /\ key # NoKey => repairs'[active'].target = key
<1> DEFINE r == EpisodeReading("correction", key, named)
<1>1. r \in EF!Readings /\ EF!IsCorrection(r) /\ r.key = key
  BY DEF EpisodeReading, EF!Readings, EF!IsCorrection
<1>2. EF!EpisodeTurn(r, FALSE)
  BY SameEpisodeTurn
<1> HIDE DEF r
<1> QED
  BY <1>1, <1>2, ComponentAssumptions, EF!CorrectionLeavesOpen

LEMMA AgentOpens ==
  ASSUME EF!EpisodeInv, NEW W \in SUBSET Paths, NEW key, NEW expansion,
         E!EpisodeAgent(W, key, expansion)
  PROVE  IF E!OpensStructurally(W)
         THEN /\ active' # 0
              /\ repairs'[active'].structural
              /\ repairs'[active'].activeIndex = turnIndex
              /\ repairs'[active'].depth = 1
         ELSE active' = active /\ repairs' = repairs
<1>1. EF!EpisodeAgent(W, key, expansion)
  BY SameEpisodeAgent
<1>2. E!OpensStructurally(W) = EF!OpensStructurally(W)
  BY SameCurrent
<1> QED
  BY <1>1, <1>2, ComponentAssumptions, EF!AgentLeavesOpen

(* Nothing is open after a reset.                                          *)
LEMMA ResetCloses ==
  ASSUME NEW r, E!EpisodeTurn(r, TRUE)
  PROVE  active' = 0 /\ closing' = {}
BY DEF E!EpisodeTurn, E!Becomes, E!TurnOutcome, E!ApplyReset

-----------------------------------------------------------------------------
(* The regime of the turn is decided from the state the turn leaves.       *)
LEMMA ReadingOfRules ==
  /\ \A depth, repeatedOpen, weight :
       RegimeOf(ThrashRule(depth, repeatedOpen, weight)) \in {"RECOVERY", "THRASH"}
  /\ \A misses, controls, recentRepeats, weight :
       RegimeOf(DriftRule(misses, controls, recentRepeats, weight)) \in {"DRIFT", "FLOW"}
  /\ RegimeOf("reset") = "RESET"
<1>1. \A depth, repeatedOpen, weight :
        ThrashRule(depth, repeatedOpen, weight)
          \in {"thrash_depth", "thrash_chars", "thrash_obligations", "recovery"}
  BY DEF ThrashRule
<1>2. \A misses, controls, recentRepeats, weight :
        DriftRule(misses, controls, recentRepeats, weight)
          \in {"drift_dereference", "drift_control", "drift_inflation", "flow"}
  BY DEF DriftRule
<1>3. /\ \A r \in {"thrash_depth", "thrash_chars", "thrash_obligations"} : RegimeOf(r) = "THRASH"
      /\ RegimeOf("recovery") = "RECOVERY"
      /\ \A r \in {"drift_dereference", "drift_control", "drift_inflation"} : RegimeOf(r) = "DRIFT"
      /\ RegimeOf("flow") = "FLOW" /\ RegimeOf("reset") = "RESET"
  BY DEF RegimeOf
<1> QED
  BY <1>1, <1>2, <1>3

LEMMA ReadingKeeps ==
  ASSUME EF!EpisodeInv, RecoveryMeansOpenEpisode, [ProjectorNext]_projectorVars
  PROVE  RecoveryMeansOpenEpisode'
<1> USE DEF RecoveryMeansOpenEpisode
<1>1. CASE OperatorTurn
  <2>1. PICK R \in O!Resolutions, cs \in O!CandidateSeqs,
             pointer \in FileKeys \cup {P!Nothing}, mood \in Moods,
             reset \in BOOLEAN, weight \in Weights :
               PushOperator(R, cs, pointer, mood, NamedPaths(pointer), reset, weight)
    BY <1>1 DEF OperatorTurn
  <2>2. /\ rule' = Decide(reset, weight)
        /\ E!EpisodeTurn(EpisodeReading(mood, CorrectionKey(cs, pointer), NamedPaths(pointer)),
                         reset)
    BY <2>1 DEF PushOperator
  <2>3. CASE reset
    <3>1. active' = 0
      BY <2>2, <2>3, ResetCloses
    <3>2. RegimeOf(rule') = "RESET"
      BY <2>2, <2>3, ReadingOfRules DEF Decide
    <3> QED
      BY <3>1, <3>2
  <2>4. CASE ~reset /\ active' # 0
    <3>1. RegimeOf(rule') \in {"RECOVERY", "THRASH"}
      BY <2>2, <2>4, ReadingOfRules DEF Decide
    <3> QED
      BY <2>4, <3>1
  <2>5. CASE ~reset /\ active' = 0
    <3>1. RegimeOf(rule') \in {"DRIFT", "FLOW"}
      BY <2>2, <2>5, ReadingOfRules DEF Decide
    <3> QED
      BY <2>5, <3>1
  <2> QED
    BY <2>3, <2>4, <2>5
<1>2. CASE AgentTurn
  <2>1. PICK W \in SUBSET Paths, key \in Paths \cup {NoKey}, expansion \in BOOLEAN :
          PushAgent(W, key, expansion)
    BY <1>2 DEF AgentTurn
  <2>2. /\ E!EpisodeAgent(W, key, expansion)
        /\ phase = "live" /\ turnIndex' = turnIndex /\ rule' = rule
    BY <2>1 DEF PushAgent, OtherRecord, TakeRecord
  <2>3. CASE E!OpensStructurally(W)
    <3>1. /\ active' # 0 /\ repairs'[active'].structural
          /\ repairs'[active'].activeIndex = turnIndex /\ repairs'[active'].depth = 1
      BY <2>2, <2>3, AgentOpens
    <3> QED
      BY <2>2, <3>1
  <2>4. CASE ~E!OpensStructurally(W)
    <3>1. active' = active /\ repairs' = repairs
      BY <2>2, <2>4, AgentOpens
    <3> QED
      BY <2>2, <3>1
  <2> QED
    BY <2>3, <2>4
<1>3. CASE AgentPanic \/ Finish
  <2>1. phase' # "live"
    BY <1>3 DEF AgentPanic, Finish, StopAs
  <2> QED
    BY <2>1
<1>4. CASE OtherTurn
  BY <1>4 DEF OtherTurn, OtherRecord, TakeRecord, E!EpisodeOther
<1>5. CASE UNCHANGED projectorVars
  BY <1>5 DEF projectorVars, exchangeVars
<1> QED
  BY <1>1, <1>2, <1>3, <1>4, <1>5 DEF ProjectorNext

(* While the source is read, what the reading says and what the episodes   *)
(* hold agree, for every window and every threshold.                       *)
THEOREM ReadingsFitTheEpisodes == ProjectorSpec => []RecoveryMeansOpenEpisode
<1>1. ProjectorInit => RecoveryMeansOpenEpisode
  BY DEF ProjectorInit, E!EpisodeInit, RecoveryMeansOpenEpisode, RegimeOf
<1>2. EF!EpisodeInv /\ RecoveryMeansOpenEpisode /\ [ProjectorNext]_projectorVars
        => RecoveryMeansOpenEpisode'
  BY ReadingKeeps
<1> QED
  BY <1>1, <1>2, EpisodesInside, PTL DEF ProjectorSpec

-----------------------------------------------------------------------------
(* A correction is marked once.  A re-edit of the agent marks the turn the *)
(* operator may have marked already, but it opens an episode only when     *)
(* none is open, and a turn that corrected has left one.                   *)
MarkedTurnsAreOpen ==
  phase = "live" /\ ~resetPending /\ (\E i \in DOMAIN corrections : corrections[i] = turnIndex)
    => active # 0

MarksInv ==
  /\ turnIndex \in Nat
  /\ corrections \in Seq(Nat)
  /\ \A i \in DOMAIN corrections : corrections[i] <= turnIndex
  /\ OneCorrectionMarkPerTurn
  /\ MarkedTurnsAreOpen

LEMMA TurnMarks ==
  ASSUME EF!EpisodeInv, MarksInv, OperatorTurn
  PROVE  MarksInv'
<1>1. PICK R \in O!Resolutions, cs \in O!CandidateSeqs,
           pointer \in FileKeys \cup {P!Nothing}, mood \in Moods,
           reset \in BOOLEAN, weight \in Weights :
             PushOperator(R, cs, pointer, mood, NamedPaths(pointer), reset, weight)
  BY DEF OperatorTurn
<1> DEFINE key == CorrectionKey(cs, pointer)
           kept == IF resetPending THEN <<>> ELSE corrections
           own == IF mood = "correction" THEN <<turnIndex + 1>> ELSE <<>>
<1>2. /\ turnIndex' = turnIndex + 1
      /\ E!EpisodeTurn(EpisodeReading(mood, key, NamedPaths(pointer)), reset)
      /\ corrections' = kept \o own
  BY <1>1 DEF PushOperator, OperatorRecord, Mark
<1>3. resetPending' = reset
  BY <1>1 DEF PushOperator, P!PointerTurn
<1>4. key \in Sentences \cup FileKeys \cup {NoKey} /\ NamedPaths(pointer) \in SUBSET Paths
  BY KeyIsKnown DEF NamedPaths
<1>5. ~reset /\ mood = "correction" => active' # 0
  BY <1>2, <1>4, CorrectionOpens
<1> HIDE DEF key
<1>6. /\ turnIndex \in Nat /\ kept \in Seq(Nat)
      /\ \A i \in DOMAIN kept : kept[i] <= turnIndex
      /\ \A i, j \in DOMAIN kept : kept[i] = kept[j] => i = j
  BY DEF MarksInv, OneCorrectionMarkPerTurn
<1> HIDE DEF kept
<1>7. CASE mood = "correction"
  <2>1. corrections' = Append(kept, turnIndex + 1)
    BY <1>2, <1>6, <1>7
  <2>2. /\ corrections' \in Seq(Nat)
        /\ DOMAIN corrections' = DOMAIN kept \cup {Len(kept) + 1}
        /\ corrections'[Len(kept) + 1] = turnIndex + 1
        /\ \A i \in DOMAIN kept : corrections'[i] = kept[i]
    BY <1>6, <2>1
  <2>3. /\ \A i \in DOMAIN corrections' : corrections'[i] <= turnIndex'
        /\ \A i, j \in DOMAIN corrections' : corrections'[i] = corrections'[j] => i = j
    BY <1>2, <1>6, <2>2, SMTT(30)
  <2> QED
    BY <1>2, <1>3, <1>5, <1>6, <1>7, <2>2, <2>3, SMTT(30)
       DEF MarksInv, OneCorrectionMarkPerTurn, MarkedTurnsAreOpen
<1>8. CASE mood # "correction"
  <2>1. corrections' = kept
    BY <1>2, <1>6, <1>8
  <2>2. \A i \in DOMAIN kept : kept[i] \in Nat /\ kept[i] # turnIndex'
    BY <1>2, <1>6
  <2> QED
    BY <1>2, <1>6, <2>1, <2>2 DEF MarksInv, OneCorrectionMarkPerTurn, MarkedTurnsAreOpen
<1> QED
  BY <1>7, <1>8

LEMMA AgentMarks ==
  ASSUME EF!EpisodeInv, MarksInv, AgentTurn
  PROVE  MarksInv'
<1>1. PICK W \in SUBSET Paths, key \in Paths \cup {NoKey}, expansion \in BOOLEAN :
        PushAgent(W, key, expansion)
  BY DEF AgentTurn
<1>2. /\ E!EpisodeAgent(W, key, expansion)
      /\ phase = "live" /\ phase' = phase /\ turnIndex' = turnIndex
      /\ corrections' = MarkStructural(W) /\ resetPending' = resetPending
  BY <1>1 DEF PushAgent, OtherRecord, TakeRecord, P!PointerAgent
<1>3. CASE E!OpensStructurally(W)
  <2>1. active' # 0 /\ active = 0
    BY <1>2, <1>3, AgentOpens DEF E!OpensStructurally
  <2>2. corrections' = Append(corrections, turnIndex) /\ corrections \in Seq(Nat) /\ turnIndex \in Nat
    BY <1>2, <1>3 DEF MarkStructural, MarksInv
  <2>3. /\ corrections' \in Seq(Nat)
        /\ DOMAIN corrections' = DOMAIN corrections \cup {Len(corrections) + 1}
        /\ corrections'[Len(corrections) + 1] = turnIndex
        /\ \A i \in DOMAIN corrections : corrections'[i] = corrections[i]
    BY <2>2
  <2>4. ~resetPending => \A i \in DOMAIN corrections : corrections[i] # turnIndex
    BY <1>2, <2>1 DEF MarksInv, MarkedTurnsAreOpen
  <2> QED
    BY <1>2, <2>1, <2>3, <2>4 DEF MarksInv, OneCorrectionMarkPerTurn, MarkedTurnsAreOpen
<1>4. CASE ~E!OpensStructurally(W)
  <2>1. active' = active /\ corrections' = corrections
    BY <1>2, <1>4, AgentOpens DEF MarkStructural
  <2> QED
    BY <1>2, <2>1 DEF MarksInv, OneCorrectionMarkPerTurn, MarkedTurnsAreOpen
<1> QED
  BY <1>3, <1>4

LEMMA MarksKeep ==
  ASSUME EF!EpisodeInv, MarksInv, [ProjectorNext]_projectorVars
  PROVE  MarksInv'
<1>1. CASE OperatorTurn
  BY <1>1, TurnMarks
<1>2. CASE AgentTurn
  BY <1>2, AgentMarks
<1>3. CASE AgentPanic \/ Finish
  <2>1. /\ phase' # "live" /\ turnIndex' = turnIndex
        /\ corrections' = corrections /\ resetPending' = resetPending
    BY <1>3 DEF AgentPanic, Finish, StopAs, P!PointerFinish
  <2> QED
    BY <2>1 DEF MarksInv, OneCorrectionMarkPerTurn, MarkedTurnsAreOpen
<1>4. CASE OtherTurn
  <2>1. /\ phase' = phase /\ turnIndex' = turnIndex /\ active' = active
        /\ corrections' = corrections /\ resetPending' = resetPending
    BY <1>4 DEF OtherTurn, OtherRecord, TakeRecord, E!EpisodeOther, P!PointerOther, P!pointerVars
  <2> QED
    BY <2>1 DEF MarksInv, OneCorrectionMarkPerTurn, MarkedTurnsAreOpen
<1>5. CASE UNCHANGED projectorVars
  BY <1>5 DEF projectorVars, exchangeVars, markVars,
              MarksInv, OneCorrectionMarkPerTurn, MarkedTurnsAreOpen
<1> QED
  BY <1>1, <1>2, <1>3, <1>4, <1>5 DEF ProjectorNext

(* Outside the turn of a reset no turn is marked twice as a correction, by *)
(* the operator and by the agent's re-edit, whatever the order of records. *)
THEOREM CorrectionsAreMarkedOnce == ProjectorSpec => []OneCorrectionMarkPerTurn
<1>1. ProjectorInit => MarksInv
  BY DEF ProjectorInit, ExchangeInit, MarksInv, OneCorrectionMarkPerTurn, MarkedTurnsAreOpen
<1>2. EF!EpisodeInv /\ MarksInv /\ [ProjectorNext]_projectorVars => MarksInv'
  BY MarksKeep
<1>3. MarksInv => OneCorrectionMarkPerTurn
  BY DEF MarksInv
<1> QED
  BY <1>1, <1>2, <1>3, EpisodesInside, PTL DEF ProjectorSpec

-----------------------------------------------------------------------------
(* What a turn reports violated is the requirement its correction is       *)
(* about: the turn corrects, and names the sentence of every identity it   *)
(* reports.                                                                *)
LEMMA ViolationIsNamed ==
  ASSUME O!IndexesSound, NEW R, NEW cs, NEW mood, NEW key, NEW reset,
         O!ObligationTurn(R, cs, ViolationTarget(mood, key), reset),
         NEW id \in emitted'.violated
  PROVE  mood = "correction" /\ key \in Sentences /\ id[2] = key
<1> DEFINE target == ViolationTarget(mood, key)
           released == O!AfterResolve(R)
           new == O!Introduced(cs)
           hits == O!Hits(cs, new)
<1>1. emitted'.violated = O!Violated(released, new, hits, target)
  BY DEF O!ObligationTurn
<1> HIDE DEF target, released, new, hits
<1>2. /\ \E hit \in O!Repeated(released, hits) : hit[2] = target
      /\ id \in O!Identities /\ O!ByKeyAfter(new)[target] = id
  BY <1>1 DEF O!Violated
<1>3. target \in Sentences
  BY <1>2 DEF O!Repeated, O!Identities
<1>4. mood = "correction" /\ key = target
  BY <1>3, ComponentConstants DEF target, ViolationTarget
<1>5. id = <<epoch, target>>
  <2>1. CASE <<epoch, target>> \in new
    BY <1>2, <1>3, <2>1 DEF O!ByKeyAfter
  <2>2. CASE <<epoch, target>> \notin new
    <3>1. byKey[target] = id /\ id # Nil
      BY <1>2, <1>3, <2>2, ComponentConstants DEF O!ByKeyAfter
    <3> QED
      BY <1>3, <3>1 DEF O!IndexesSound
  <2> QED
    BY <2>1, <2>2
<1> QED
  BY <1>3, <1>4, <1>5

LEMMA ViolationKeeps ==
  ASSUME EF!EpisodeInv, O!IndexesSound, ViolationHasItsEpisode,
         [ProjectorNext]_projectorVars
  PROVE  ViolationHasItsEpisode'
<1>1. CASE OperatorTurn
  <2>1. PICK R \in O!Resolutions, cs \in O!CandidateSeqs,
             pointer \in FileKeys \cup {P!Nothing}, mood \in Moods,
             reset \in BOOLEAN, weight \in Weights :
               PushOperator(R, cs, pointer, mood, NamedPaths(pointer), reset, weight)
    BY <1>1 DEF OperatorTurn
  <2> DEFINE key == CorrectionKey(cs, pointer)
  <2>2. /\ turnIndex' = turnIndex + 1
        /\ rule' = Decide(reset, weight)
        /\ O!ObligationTurn(R, cs, ViolationTarget(mood, key), reset)
        /\ E!EpisodeTurn(EpisodeReading(mood, key, NamedPaths(pointer)), reset)
    BY <2>1 DEF PushOperator, OperatorRecord
  <2>3. key \in Sentences \cup FileKeys \cup {NoKey} /\ NamedPaths(pointer) \in SUBSET Paths
    BY KeyIsKnown DEF NamedPaths
  <2> HIDE DEF key
  <2>4. CASE reset
    BY <2>2, <2>4 DEF Decide, ViolationHasItsEpisode
  <2>5. CASE ~reset
    <3> SUFFICES ASSUME NEW id \in emitted'.violated
                 PROVE  /\ active' # 0
                        /\ repairs'[active'].activeIndex = turnIndex'
                        /\ repairs'[active'].target = id[2]
      BY DEF ViolationHasItsEpisode
    <3>1. mood = "correction" /\ key \in Sentences /\ id[2] = key
      BY <2>2, ViolationIsNamed
    <3>2. key # NoKey
      BY <3>1, ComponentConstants
    <3>3. E!EpisodeTurn(EpisodeReading("correction", key, NamedPaths(pointer)), FALSE)
      BY <2>2, <2>5, <3>1
    <3> QED
      BY <2>2, <2>3, <3>1, <3>2, <3>3, CorrectionOpens
  <2> QED
    BY <2>4, <2>5
<1>2. CASE AgentTurn \/ OtherTurn \/ Finish
  <2>1. emitted' = O!NoEvents
    BY <1>2 DEF AgentTurn, PushAgent, OtherTurn, Finish, O!ObligationOther
  <2> QED
    BY <2>1 DEF ViolationHasItsEpisode, O!NoEvents
<1>3. CASE AgentPanic
  BY <1>3 DEF AgentPanic, StopAs, E!EpisodePanic, E!episodeVars, ViolationHasItsEpisode
<1>4. CASE UNCHANGED projectorVars
  BY <1>4 DEF projectorVars, exchangeVars, ViolationHasItsEpisode
<1> QED
  BY <1>1, <1>2, <1>3, <1>4 DEF ProjectorNext

(* A requirement is reported violated only in a turn whose correction      *)
(* opened or deepened an episode about that requirement.                   *)
THEOREM ViolationsOpenTheirEpisode == ProjectorSpec => []ViolationHasItsEpisode
<1>1. ProjectorInit => ViolationHasItsEpisode
  BY DEF ProjectorInit, O!ObligationInit, O!NoEvents, ViolationHasItsEpisode
<1>2. (EF!EpisodeInv /\ O!IndexesSound) /\ ViolationHasItsEpisode /\ [ProjectorNext]_projectorVars
        => ViolationHasItsEpisode'
  BY ViolationKeeps
<1> QED
  BY <1>1, <1>2, EpisodesInside, SurfaceInside, PTL DEF ProjectorSpec

-----------------------------------------------------------------------------
(* Only the turn of a reset ends an epoch, so what is to be shown is what  *)
(* that turn leaves: the episodes from what is known of them, the surface  *)
(* and the references from the last thing the turn does to them.           *)
PointersHaveState == \A s \in P!Turns : "state" \in DOMAIN pointers[s]

LEMMA AllUnknownSettles ==
  ASSUME NEW ps, \A s \in P!Turns : "state" \in DOMAIN ps[s]
  PROVE  \A s \in P!Turns : /\ "state" \in DOMAIN P!AllUnknown(ps)[s]
                            /\ P!AllUnknown(ps)[s].state # "pending"
<1> SUFFICES ASSUME NEW s \in P!Turns
             PROVE  /\ "state" \in DOMAIN P!AllUnknown(ps)[s]
                    /\ P!AllUnknown(ps)[s].state # "pending"
  OBVIOUS
<1>1. P!AllUnknown(ps)[s]
        = IF ps[s].state = "pending" THEN [ps[s] EXCEPT !.state = "unknown"] ELSE ps[s]
  BY DEF P!AllUnknown
<1>2. [ps[s] EXCEPT !.state = "unknown"].state = "unknown"
  OBVIOUS
<1>3. "state" \in DOMAIN [ps[s] EXCEPT !.state = "unknown"]
  OBVIOUS
<1> QED
  BY <1>1, <1>2, <1>3

LEMMA TurnKeepsState ==
  ASSUME PointersHaveState, NEW e, NEW key, NEW outside, NEW outsideAfter, NEW reset \in BOOLEAN,
         P!PointerTurn(e, key, outside, outsideAfter, reset)
  PROVE  /\ PointersHaveState'
         /\ reset => {s \in P!Turns : pointers'[s].state = "pending"} = {}
<1> DEFINE turned == P!AfterTurn(e)
           fresh == [state |-> "pending", key |-> IF key = P!Nothing THEN NoKey ELSE key,
                     remaining |-> OutcomeTurns, evaluated |-> FALSE,
                     eligible |-> e.kind # "correction" /\ outside]
           carried == IF key = P!Nothing THEN turned ELSE [turned EXCEPT ![seq + 1] = fresh]
<1>1. \A s \in P!Turns : "state" \in DOMAIN turned[s]
  <2> SUFFICES ASSUME NEW s \in P!Turns PROVE "state" \in DOMAIN turned[s]
    OBVIOUS
  <2>1. "state" \in DOMAIN pointers[s]
    BY DEF PointersHaveState
  <2>2. turned[s] =
          IF s \notin P!Evaluated(e) THEN pointers[s]
          ELSE IF P!Verdict(s, e) \in {"pending", "unknown"}
               THEN [pointers[s] EXCEPT !.state = P!Verdict(s, e), !.evaluated = TRUE,
                                        !.remaining = @ - 1]
               ELSE [pointers[s] EXCEPT !.state = P!Verdict(s, e)]
    BY DEF P!AfterTurn
  <2> HIDE DEF turned
  <2> QED
    BY <2>1, <2>2
<1>2. turned = [s \in P!Turns |-> turned[s]]
  BY DEF P!AfterTurn
<1>3. "state" \in DOMAIN fresh
  OBVIOUS
<1>4. pointers' = IF reset THEN P!AllUnknown(carried) ELSE carried
  BY DEF P!PointerTurn
<1> HIDE DEF turned, fresh
<1>5. \A s \in P!Turns : "state" \in DOMAIN carried[s]
  BY <1>1, <1>2, <1>3
<1> HIDE DEF carried
<1> QED
  BY <1>4, <1>5, AllUnknownSettles DEF PointersHaveState, P!Turns

LEMMA StateInside == ProjectorSpec => []PointersHaveState
<1>1. ProjectorInit => PointersHaveState
  BY DEF ProjectorInit, P!PointerInit, P!NoPointer, PointersHaveState
<1>2. PointersHaveState /\ [ProjectorNext]_projectorVars => PointersHaveState'
  <2> SUFFICES ASSUME PointersHaveState, [ProjectorNext]_projectorVars
               PROVE  PointersHaveState'
    OBVIOUS
  <2>1. CASE OperatorTurn
    <3>1. PICK R \in O!Resolutions, cs \in O!CandidateSeqs,
               pointer \in FileKeys \cup {P!Nothing}, mood \in Moods,
               reset \in BOOLEAN, weight \in Weights :
                 PushOperator(R, cs, pointer, mood, NamedPaths(pointer), reset, weight)
      BY <2>1 DEF OperatorTurn
    <3> DEFINE key == CorrectionKey(cs, pointer)
               evidence == PointerEvidence(mood, key)
               outside ==
                 E!TurnOutcome(EpisodeReading(mood, key, NamedPaths(pointer)), FALSE).active = 0
    <3>2. P!PointerTurn(evidence, pointer, outside, active' = 0, reset)
      BY <3>1 DEF PushOperator
    <3> HIDE DEF evidence, outside
    <3> QED
      BY <3>2, TurnKeepsState
  <2>2. CASE Finish
    BY <2>2, AllUnknownSettles DEF Finish, P!PointerFinish, PointersHaveState, P!Turns
  <2>3. CASE AgentTurn \/ AgentPanic \/ OtherTurn
    BY <2>3 DEF AgentTurn, PushAgent, AgentPanic, OtherTurn, P!PointerAgent, P!PointerOther,
                P!pointerVars, PointersHaveState, P!Turns
  <2>4. CASE UNCHANGED projectorVars
    BY <2>4 DEF projectorVars, PointersHaveState, P!Turns
  <2> QED
    BY <2>1, <2>2, <2>3, <2>4 DEF ProjectorNext
<1> QED
  BY <1>1, <1>2, PTL DEF ProjectorSpec

(* An episode that is neither the open one nor waiting is over.            *)
ClosedIsOver ==
  active = 0 /\ closing = {} =>
    cycle = Nil /\ \A i \in DOMAIN repairs : repairs[i].status \in E!Terminal

LEMMA NothingOpenIsOver == EF!EpisodeInv => ClosedIsOver
<1> SUFFICES ASSUME EF!EpisodeInv, active = 0, closing = {}
             PROVE  cycle = Nil /\ \A i \in DOMAIN repairs : repairs[i].status \in E!Terminal
  BY DEF ClosedIsOver
<1> DEFINE e == EF!Current
<1>1. /\ e \in EF!States /\ EF!CycleIsOfActive(e) /\ EF!OpenIsActive(e)
      /\ EF!WaitingInWindow(e, turnIndex)
  BY DEF EF!EpisodeInv, EF!Sound
<1>2. e.repairs = repairs /\ e.active = 0 /\ e.closing = {} /\ e.cycle = cycle
  BY DEF EF!Current
<1> HIDE DEF e
<1>3. repairs \in Seq(EF!Repairs)
  BY <1>1, <1>2 DEF EF!States
<1>4. cycle = Nil
  BY <1>1, <1>2 DEF EF!CycleIsOfActive
<1>5. ASSUME NEW i \in DOMAIN repairs PROVE repairs[i].status \in E!Terminal
  <2>1. i \in EF!Indices(e) /\ i # 0
    BY <1>2, <1>3, <1>5 DEF EF!Indices
  <2>2. repairs[i].status \in EF!RepairStatuses
    <3>1. repairs[i] \in EF!Repairs
      BY <1>3, <1>5
    <3> QED
      BY <3>1 DEF EF!Repairs
  <2>3. repairs[i].status # "open"
    BY <1>1, <1>2, <2>1 DEF EF!OpenIsActive
  <2>4. repairs[i].status # "provisionally_closed"
    BY <1>1, <1>2, <2>1 DEF EF!WaitingInWindow
  <2> QED
    BY <2>2, <2>3, <2>4 DEF EF!RepairStatuses, E!Terminal
<1> QED
  BY <1>4, <1>5

OutlivesNothing ==
  epoch' # epoch =>
    /\ active' = 0 /\ closing' = {} /\ cycle' = Nil
    /\ \A i \in DOMAIN repairs' : repairs'[i].status \in E!Terminal
    /\ {s \in P!Turns : pointers'[s].state = "pending"} = {}
    /\ \A id \in O!Identities : ~O!Outstanding(status'[id])
    /\ RegimeOf(rule') = "RESET"

LEMMA ResetSettles ==
  ASSUME ClosedIsOver', PointersHaveState, [ProjectorNext]_projectorVars
  PROVE  OutlivesNothing
<1> SUFFICES ASSUME epoch' # epoch
             PROVE  /\ active' = 0 /\ closing' = {} /\ cycle' = Nil
                    /\ \A i \in DOMAIN repairs' : repairs'[i].status \in E!Terminal
                    /\ {s \in P!Turns : pointers'[s].state = "pending"} = {}
                    /\ \A id \in O!Identities : ~O!Outstanding(status'[id])
                    /\ RegimeOf(rule') = "RESET"
  BY DEF OutlivesNothing
<1>1. OperatorTurn
  BY DEF ProjectorNext, AgentTurn, PushAgent, AgentPanic, OtherTurn, Finish, OtherRecord,
         TakeRecord, StopAs, projectorVars, exchangeVars
<1>2. PICK R \in O!Resolutions, cs \in O!CandidateSeqs,
           pointer \in FileKeys \cup {P!Nothing}, mood \in Moods,
           reset \in BOOLEAN, weight \in Weights :
             PushOperator(R, cs, pointer, mood, NamedPaths(pointer), reset, weight)
  BY <1>1 DEF OperatorTurn
<1> DEFINE key == CorrectionKey(cs, pointer)
           reading == EpisodeReading(mood, key, NamedPaths(pointer))
           evidence == PointerEvidence(mood, key)
           outside == E!TurnOutcome(reading, FALSE).active = 0
           target == ViolationTarget(mood, key)
<1>3. reset
  BY <1>2 DEF PushOperator, OperatorRecord
<1>4. /\ rule' = Decide(TRUE, weight)
      /\ O!ObligationTurn(R, cs, target, TRUE)
      /\ E!EpisodeTurn(reading, TRUE)
      /\ P!PointerTurn(evidence, pointer, outside, active' = 0, TRUE)
  <2>1. reset = TRUE
    BY <1>3
  <2> QED
    BY <1>2, <2>1 DEF PushOperator
<1>5. active' = 0 /\ closing' = {}
  <2> HIDE DEF reading
  <2> QED
    BY <1>4, ResetCloses
<1>6. cycle' = Nil /\ \A i \in DOMAIN repairs' : repairs'[i].status \in E!Terminal
  BY <1>5 DEF ClosedIsOver
<1>7. {s \in P!Turns : pointers'[s].state = "pending"} = {}
  <2> HIDE DEF evidence, outside
  <2> QED
    BY <1>4, TurnKeepsState
<1>8. \A id \in O!Identities : ~O!Outstanding(status'[id])
  <2>1. PICK standing : status' = O!AfterReset(standing)
    BY <1>4 DEF O!ObligationTurn
  <2> QED
    BY <2>1 DEF O!AfterReset, O!Outstanding
<1>9. RegimeOf(rule') = "RESET"
  BY <1>4, ReadingOfRules DEF Decide
<1> QED
  BY <1>5, <1>6, <1>7, <1>8, <1>9

(* The record that ends an epoch leaves nothing of it open: no episode, no *)
(* reference, no requirement, and reads as RESET itself.                   *)
THEOREM EpochsAreClosed == ProjectorSpec => NothingOutlivesItsEpoch
<1>1. ClosedIsOver' /\ PointersHaveState /\ [ProjectorNext]_projectorVars
        => [OutlivesNothing]_projectorVars
  BY ResetSettles
<1> QED
  BY <1>1, EpisodesInside, NothingOpenIsOver, StateInside, PTL
     DEF ProjectorSpec, NothingOutlivesItsEpoch, OutlivesNothing
=============================================================================
