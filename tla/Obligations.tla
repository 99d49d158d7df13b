----------------------------- MODULE Obligations -----------------------------
(***************************************************************************)
(* The obligation surface of one stream (internal/state/obligation.go) and *)
(* the part of an operator turn that drives it                             *)
(* (Projector.projectOperator: resolutions, then the turn's candidates,    *)
(* then violations, then a reset).                                         *)
(*                                                                         *)
(* An obligation is identified by <<epoch, key>>: a reset empties both     *)
(* indexes and advances the epoch, so inside one epoch a key names one     *)
(* obligation.  A candidate's sentence and its content tokens are abstract *)
(* values; that two sentences may share their content tokens is what the   *)
(* content keys are for.                                                   *)
(***************************************************************************)
EXTENDS Exchange, Sequences

CONSTANTS
  Keys,          \* normalized sentences: Obligation.Key
  ContentKeys,   \* content-token keys: Obligation.RepeatKey
  NoContent,     \* the empty content-token key
  Nowhere,       \* "not in the index"
  ContentOf,     \* the content-token key of each sentence
  Caps,          \* the resolution kinds the classifier can establish
  MaxCandidates  \* bound on the candidates of one turn

ResolutionKinds == {"released", "superseded", "satisfied"}

ASSUME ObligationConstants ==
  /\ NoContent \notin ContentKeys
  /\ ContentOf \in [Keys -> ContentKeys \cup {NoContent}]
  /\ Caps \subseteq ResolutionKinds
  /\ MaxCandidates \in Nat

Epochs == 0..MaxEpoch
Identities == Epochs \X Keys

ASSUME NowhereIsNoIdentity == Nowhere \notin Identities

VARIABLES
  status,       \* Obligation.Status of each identity; "absent" before it exists
  repeats,      \* Obligation.RepeatCount of each identity
  byKey,        \* exact identity: key -> identity, or Nowhere
  byRepeat,     \* content-token index: content key -> identity, or Nowhere
  emitted       \* the obligation events of the latest record

obligationVars == <<status, repeats, byKey, byRepeat, emitted>>

Statuses == {"absent", "unresolved", "violated", "unknown"} \cup ResolutionKinds

(* obligation.go: resolved and the filter of Unresolved.  A violated       *)
(* requirement is still a requirement.                                     *)
Resolved(st) == st \in ResolutionKinds
Outstanding(st) == st \in {"unresolved", "violated"}

OutstandingSet == {id \in Identities : Outstanding(status[id])}

NoEvents ==
  [introduced |-> {}, repeated |-> {}, revived |-> {}, violated |-> {},
   resolved |-> {}, ended |-> {}]

ObligationInit ==
  /\ status = [id \in Identities |-> "absent"]
  /\ repeats = [id \in Identities |-> 0]
  /\ byKey = [k \in Keys |-> Nowhere]
  /\ byRepeat = [r \in ContentKeys |-> Nowhere]
  /\ emitted = NoEvents

-----------------------------------------------------------------------------
(* What a classifier can report about one operator turn.                   *)

(* Resolutions name candidates of the unresolved inventory the classifier  *)
(* was shown, each at most once and with a kind of its own.  The evidence  *)
(* may be blank; such a one is refused whatever its kind, so one kind      *)
(* stands for all.                                                         *)
OutstandingKeys == {id[2] : id \in OutstandingSet}

KindsAndEvidence == ResolutionKinds \X {TRUE} \cup {<<"released", FALSE>>}

Resolutions ==
  {{<<k, said[k][1], said[k][2]>> : k \in DOMAIN said} :
     said \in UNION {[chosen -> KindsAndEvidence] : chosen \in SUBSET OutstandingKeys}}

(* The candidates of a turn in source order, a repeated sentence included. *)
CandidateSeqs == UNION {[1..n -> Keys] : n \in 0..MaxCandidates}

SharesContent(k, l) == ContentOf[k] # NoContent /\ ContentOf[k] = ContentOf[l]

-----------------------------------------------------------------------------
(* Projector.resolveObligations and Obligations.Resolve.  The capability   *)
(* and the evidence are checked first; Resolve then finds the obligation   *)
(* through byKey and refuses one already resolved.                         *)

Licensed(R) == {r \in R : r[2] \in Caps /\ r[3]}

ResolvedBy(R) ==
  {id \in Identities : \E r \in Licensed(R) :
     byKey[r[1]] = id /\ ~Resolved(status[id])}

KindOf(R, id) == CHOOSE kind \in Caps : <<id[2], kind, TRUE>> \in R

AfterResolve(R) ==
  LET gone == ResolvedBy(R)
  IN  [id \in Identities |-> IF id \in gone THEN KindOf(R, id) ELSE status[id]]

-----------------------------------------------------------------------------
(* Obligations.Apply.  The loop over the candidates is stated in closed    *)
(* form: a candidate is looked at once per distinct sentence, exact        *)
(* identity is tried before the content-token index, and a candidate that  *)
(* introduces an obligation is visible to the candidates after it.         *)

(* Mutant: only the exact index is asked. *)
Unindexed_ExactOnly(k) == byKey[k] = Nowhere

Unindexed(k) ==
  /\ byKey[k] = Nowhere
  /\ ContentOf[k] # NoContent => byRepeat[ContentOf[k]] = Nowhere

FirstMentions(cs) == {i \in DOMAIN cs : \A j \in 1..(i - 1) : cs[j] # cs[i]}

(* The candidates that become new obligations. *)
Introducing(cs) ==
  {i \in FirstMentions(cs) :
     /\ Unindexed(cs[i])
     /\ \A j \in FirstMentions(cs) :
          j < i => ~(Unindexed(cs[j]) /\ SharesContent(cs[j], cs[i]))}

Introduced(cs) == {<<epoch, cs[i]>> : i \in Introducing(cs)}

(* The obligation a candidate that introduces none repeats; new is what   *)
(* the turn introduces.                                                    *)
Matches(cs, new, i, id) ==
  \/ byKey[cs[i]] = id
  \/ /\ byKey[cs[i]] = Nowhere
     /\ ContentOf[cs[i]] # NoContent
     /\ \/ byRepeat[ContentOf[cs[i]]] = id
        \/ /\ byRepeat[ContentOf[cs[i]]] = Nowhere
           /\ id \in new
           /\ SharesContent(cs[i], id[2])

(* What the turn states again, one hit per candidate. *)
Hits(cs, new) ==
  {hit \in (FirstMentions(cs) \ Introducing(cs)) \X Identities :
     Matches(cs, new, hit[1], hit[2])}

Times(hits, id) == Cardinality({i \in 1..MaxCandidates : <<i, id>> \in hits})

(* From here on, s holds the statuses the resolutions of the turn left, new *)
(* the obligations the turn introduces and hits what it states again.       *)
Revived(s, hits) == {id \in Identities : Times(hits, id) > 0 /\ Resolved(s[id])}

(* Mutant: the first restatement goes unreported. *)
Repeated_LaterOnly(s, hits) == {id \in Identities : Times(hits, id) > 1}

(* A revival consumes the first statement; a second one is a repeat. *)
Repeated(s, hits) ==
  {id \in Identities : Times(hits, id) > (IF Resolved(s[id]) THEN 1 ELSE 0)}

StatusAfter(st) == IF Resolved(st) \/ st = "unknown" THEN "unresolved" ELSE st

AfterApply(s, new, hits) ==
  [id \in Identities |->
     IF id \in new THEN "unresolved"
     ELSE IF Times(hits, id) > 0 THEN StatusAfter(s[id]) ELSE s[id]]

RepeatsAfter(hits) == [id \in Identities |-> repeats[id] + Times(hits, id)]

ByKeyAfter(new) ==
  [k \in Keys |-> IF <<epoch, k>> \in new THEN <<epoch, k>> ELSE byKey[k]]

ByRepeatAfter(new) ==
  [r \in ContentKeys |->
     IF \E id \in new : ContentOf[id[2]] = r
     THEN CHOOSE id \in new : ContentOf[id[2]] = r
     ELSE byRepeat[r]]

-----------------------------------------------------------------------------
(* Obligations.Violate: only an obligation this turn repeated, and only    *)
(* when the correction is identified as being about it.  target is the     *)
(* correction's key; Nowhere when the turn corrects nothing or names no    *)
(* sentence.  Violate looks its key up in the index once more.             *)

Violated(s, new, hits, target) ==
  IF \E hit \in Repeated(s, hits) : hit[2] = target
  THEN {id \in Identities : ByKeyAfter(new)[target] = id}
  ELSE {}

AfterViolate(s, new, hits, target) ==
  LET applied  == AfterApply(s, new, hits)
      violated == Violated(s, new, hits, target)
  IN  [id \in Identities |->
         IF id \in violated THEN "violated" ELSE applied[id]]

(* Obligations.MarkUnknown: a reset destroys the evidence that would have  *)
(* resolved the inventory, and starts both indexes afresh.                 *)

(* Mutant: a violated requirement is taken for a settled one. *)
AfterReset_UnresolvedOnly(s) ==
  [id \in Identities |-> IF s[id] = "unresolved" THEN "unknown" ELSE s[id]]

AfterReset(s) ==
  [id \in Identities |-> IF Outstanding(s[id]) THEN "unknown" ELSE s[id]]

(* Mutant: the indexes survive the reset. *)
Blanked_Never(index, reset) == index

Blanked(index, reset) == IF reset THEN [x \in DOMAIN index |-> Nowhere] ELSE index

-----------------------------------------------------------------------------
(* One operator turn, in the order projectOperator applies it: the         *)
(* resolutions R, the candidates cs, the violations, the reset.            *)
ObligationTurn(R, cs, target, reset) ==
  LET released == AfterResolve(R)
      new      == Introduced(cs)
      hits     == Hits(cs, new)
      standing == AfterViolate(released, new, hits, target)
  IN  /\ status' = IF reset THEN AfterReset(standing) ELSE standing
      /\ repeats' = RepeatsAfter(hits)
      /\ byKey' = Blanked(ByKeyAfter(new), reset)
      /\ byRepeat' = Blanked(ByRepeatAfter(new), reset)
      /\ emitted' =
           [introduced |-> new,
            repeated   |-> Repeated(released, hits),
            revived    |-> Revived(released, hits),
            violated   |-> Violated(released, new, hits, target),
            resolved   |-> {<<id, KindOf(R, id)>> : id \in ResolvedBy(R)},
            ended      |-> IF reset
                           THEN {id \in Identities : Outstanding(standing[id])}
                           ELSE {}]

(* No other record touches the surface: an agent never resolves one. *)
ObligationOther ==
  /\ emitted' = NoEvents
  /\ UNCHANGED <<status, repeats, byKey, byRepeat>>

-----------------------------------------------------------------------------
OperatorTurn ==
  \E R \in Resolutions, cs \in CandidateSeqs, target \in Keys \cup {Nowhere},
     reset \in BOOLEAN :
       OperatorRecord(reset) /\ ObligationTurn(R, cs, target, reset)

QuietRecord == OtherRecord /\ ObligationOther

Finish == StopAs("finished") /\ ObligationOther

(* A write before the first operator turn panics in observeWrites (see      *)
(* Episodes): the surface is left as it was.                               *)
Panic == turnIndex = 0 /\ StopAs("panicked") /\ UNCHANGED obligationVars

obligationSpecVars == <<exchangeVars, obligationVars>>

ObligationSpecInit == ExchangeInit /\ ObligationInit
ObligationNext == OperatorTurn \/ QuietRecord \/ Finish \/ Panic
ObligationSpec == ObligationSpecInit /\ [][ObligationNext]_obligationSpecVars

-----------------------------------------------------------------------------
ObligationTypeOK ==
  /\ ExchangeTypeOK
  /\ status \in [Identities -> Statuses]
  /\ repeats \in [Identities -> Nat]
  /\ byKey \in [Keys -> Identities \cup {Nowhere}]
  /\ byRepeat \in [ContentKeys -> Identities \cup {Nowhere}]

(* Every outstanding requirement belongs to the current epoch and is what  *)
(* the exact index finds for its sentence: Resolve and Violate work by key *)
(* alone, so a requirement the index lost could never leave the inventory. *)
InventoryReachable ==
  \A id \in OutstandingSet : id[1] = epoch /\ byKey[id[2]] = id

(* The indexes never reach past the epoch or into what a reset blanked,    *)
(* and the content-token index only answers with an obligation the exact   *)
(* index also holds and whose content tokens are the ones asked for.       *)
IndexesSound ==
  /\ \A k \in Keys : byKey[k] # Nowhere =>
       /\ byKey[k] = <<epoch, k>>
       /\ status[byKey[k]] \notin {"absent", "unknown"}
  /\ \A r \in ContentKeys : byRepeat[r] # Nowhere =>
       /\ ContentOf[byRepeat[r][2]] = r
       /\ byKey[byRepeat[r][2]] = byRepeat[r]

(* A requirement and its rewordings are one obligation: no two obligations *)
(* of an epoch share their content tokens.  Otherwise the inventory counts *)
(* one requirement twice and RepeatCount is split between them.            *)
OneCandidatePerContent ==
  \A id, jd \in Identities :
    /\ status[id] # "absent" /\ status[jd] # "absent"
    /\ id[1] = jd[1] /\ SharesContent(id[2], jd[2])
    => id = jd

(* A violation is a restatement plus a linkage: an obligation the operator *)
(* stated only once is never reported violated.                            *)
ViolatedWasRepeated ==
  \A id \in Identities : status[id] = "violated" => repeats[id] > 0

(* What the operator states in a turn stands when the turn ends, even if   *)
(* the same turn withdraws it (the comment above resolveObligations in     *)
(* projectOperator); only a reset takes it away.                           *)
StatedStands ==
  [][\A id \in emitted'.introduced \cup emitted'.repeated \cup emitted'.revived :
       IF id \in emitted'.ended THEN status'[id] = "unknown"
       ELSE Outstanding(status'[id])]_obligationSpecVars

(* A reader of obligations.jsonl and epoch_advanced who replays the events *)
(* of a record in the order they were emitted arrives at the surface the   *)
(* projector holds: no status changes without an event that says so.       *)
Replayed(st, ev, id) ==
  CASE id \in ev.ended      -> "unknown"
    [] id \notin ev.ended /\ id \in ev.violated -> "violated"
    [] id \notin ev.ended \cup ev.violated /\ id \in ev.introduced \cup ev.revived -> "unresolved"
    [] id \notin ev.ended \cup ev.violated \cup ev.introduced \cup ev.revived
         /\ \E kind \in ResolutionKinds : <<id, kind>> \in ev.resolved ->
         CHOOSE kind \in ResolutionKinds : <<id, kind>> \in ev.resolved
    [] OTHER -> st

(* RepeatCount agrees too: the count of an obligation that already stood   *)
(* rises exactly when the turn reports it repeated or revived.             *)
EventsExplainSurface ==
  [][\A id \in Identities :
       /\ status'[id] = Replayed(status[id], emitted', id)
       /\ id \notin emitted'.introduced =>
            (repeats'[id] > repeats[id]
               <=> id \in emitted'.repeated \cup emitted'.revived)]_obligationSpecVars

(* The surface moves as its events tell it, and as what a turn states      *)
(* demands: a requirement stated in a turn stands after it.                *)
SurfaceMovesAsTold == EventsExplainSurface /\ StatedStands

(* The life of a requirement is the one the abstract specification tells.  *)
Lifecycle == INSTANCE ObligationLifecycle WITH
  Requirements <- Identities,
  EpochOf <- [id \in Identities |-> id[1]],
  life <- status,
  current <- epoch

FollowsLifecycle == Lifecycle!Spec
=============================================================================
