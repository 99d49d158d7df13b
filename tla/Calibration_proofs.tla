--------------------------- MODULE Calibration_proofs ---------------------------
(***************************************************************************)
(* What holds of a calibration for every set of sessions, projects, paths  *)
(* and families, every deal and every history of transcripts and commands. *)
(*                                                                         *)
(* The corpus.  ScoresKeepTheirSubject is not inductive: between the check *)
(* of the seal and the reading the only witness is what was verified.      *)
(* CorpusInv says of it what the scores say later (VerifiedStands): the    *)
(* manifest still has its split, and its copy is still what was sealed.    *)
(* And between a build's scan and its manifest the new entries are in the  *)
(* build alone: they have the splits of the old ones (BuildStands).        *)
(*                                                                         *)
(* The units.  UnitsShowTheirCycle speaks of units that are out, and a     *)
(* unit gets its context from accumulators that ran before it.  UnitsInv   *)
(* says of those what the unit will say of itself (WindowIsRolled: they    *)
(* hold what happened since the latest operator turn), and of the response *)
(* that is still awaited that nothing of it was lost (OpenIsLatest).  What *)
(* happened between two places of a session does not change when the       *)
(* session grows (HappenedStays), and grows by the record that was read    *)
(* (HappenedGrows): these two carry every step.                            *)
(*                                                                         *)
(* The scores.  Which candidates are matched is given by a choice (the set *)
(* in which a candidate is taken exactly if no earlier one that was taken  *)
(* has one of its sides).  That there is such a set, and what it decides,  *)
(* is an induction on the place of a candidate in the order                *)
(* (MatchingExists); that a side is matched once and what the three counts *)
(* add up to follow from it (MatchedOnce, ScoreCounts).                    *)
(*                                                                         *)
(* The labels.  ShortfallIsKnown says nothing of the calls of labelBatch   *)
(* that have not returned.  LabellingInv says that they are a chain, each  *)
(* on a half of the batch of the one before, that a call which has halved  *)
(* its batch holds for the left half what fits it, and that the outermost  *)
(* batch has no unit in common with those labelled and those still to be   *)
(* sent.  That the two halves of a batch have no unit in common            *)
(* (SplitApart) then makes what they return fit the whole.                 *)
(*                                                                         *)
(* A calibration runs one command at a time, so its steps are steps of one *)
(* of the four, or leave it alone (CommandsAreTheirModules).               *)
(***************************************************************************)
EXTENDS Calibration, FiniteSetTheorems, SequenceTheorems, WellFoundedInduction, TLAPS

Entries == [path : {"none", "source", "copy"}, sha : Int, split : Splits \cup {"none"}]

Builds == [mode : {"idle", "reference", "copy"}, found : SUBSET Ids, todo : SUBSET Ids,
           entries : [Ids -> Entries]]

CorpusTypeOK ==
  /\ upstream \in [Ids -> Int]
  /\ copies \in [Ids -> Int]
  /\ manifest \in [Ids -> Entries]
  /\ readable \in BOOLEAN
  /\ build \in Builds
  /\ latest \in Nat
  /\ verified \in [Ids -> Entries]
  /\ scores \in [Ids -> [entry : Entries, bytes : Int]]

VerifiedStands ==
  \A i \in Ids : verified[i] # NoEntry =>
    /\ verified[i].split \in Splits
    /\ readable => manifest[i].split = verified[i].split
    /\ verified[i].path = "copy" =>
         copies[i] # Nothing /\ copies[i] = verified[i].sha

ScoredWasDealt == \A i \in Ids : scores[i] # NoScore => scores[i].entry.split \in Splits

BuildStands ==
  build # NoBuild =>
    readable /\ \A i \in Ids : manifest[i] # NoEntry => build.entries[i].split = manifest[i].split

CorpusInv ==
  CorpusTypeOK /\ BuildStands /\ VerifiedStands /\ ScoredWasDealt /\ ScoresKeepTheirSubject

-----------------------------------------------------------------------------
LEMMA BlankEntries ==
  NoEntry \in Entries /\ NoEntries \in [Ids -> Entries] /\ NoBuild \in Builds
  BY DEF NoEntry, NoEntries, NoBuild, Entries, Builds, Nothing

LEMMA CorpusInitially == CorpusInit => CorpusInv
  BY BlankEntries DEF CorpusInit, CorpusInv, CorpusTypeOK, BuildStands, VerifiedStands,
     ScoredWasDealt, ScoresKeepTheirSubject, Entries, NoEntry, NoEntries, NoScore, Nothing

(* What a command may do to the corpus: as long as the manifest can be     *)
(* read its entries keep their split, and a copy that is there is not      *)
(* written again.                                                          *)
Extends ==
  /\ readable' => /\ readable
                  /\ \A i \in Ids : manifest[i] # NoEntry => manifest'[i].split = manifest[i].split
  /\ \A i \in Ids : copies[i] # Nothing => copies'[i] = copies[i]

LEMMA ExtendingKeeps ==
  ASSUME CorpusInv, CorpusTypeOK', BuildStands', Extends, UNCHANGED <<verified, scores>>
  PROVE  CorpusInv'
<1> USE DEF CorpusInv
<1>1. ASSUME NEW i \in Ids, manifest[i].split \in Splits, readable'
      PROVE  readable /\ manifest'[i].split = manifest[i].split
  BY <1>1 DEF Extends, NoEntry, Splits
<1>2. VerifiedStands'
  BY <1>1 DEF VerifiedStands, Extends
<1>3. ScoredWasDealt'
  BY DEF ScoredWasDealt
<1>4. ScoresKeepTheirSubject'
  BY <1>1 DEF ScoresKeepTheirSubject, ScoredWasDealt, Extends
<1> QED BY <1>2, <1>3, <1>4

-----------------------------------------------------------------------------
(* The harnesses. *)
LEMMA TranscriptsKeep ==
  ASSUME CorpusInv, NEW i \in Ids,
         WriteTranscript(i) \/ CopyTranscript(i) \/ RemoveTranscript(i)
  PROVE  CorpusInv'
<1> USE DEF CorpusInv
<1>1. /\ UNCHANGED <<copies, manifest, readable, build, verified, scores>>
      /\ upstream' \in [Ids -> Int] /\ latest' \in Nat
  BY DEF WriteTranscript, CopyTranscript, RemoveTranscript, Transcripts, CorpusTypeOK, Nothing
<1>2. CorpusTypeOK' /\ BuildStands' /\ Extends
  BY <1>1 DEF CorpusTypeOK, BuildStands, Extends
<1> QED BY <1>1, <1>2, ExtendingKeeps

-----------------------------------------------------------------------------
(* corpus --build.  The deal keeps the entries there are, *)
LEMMA AssignedKeepsSplits ==
  ASSUME CorpusTypeOK, NEW candidates \in SUBSET Ids
  PROVE  /\ Assign(candidates) \in [Ids -> Entries]
         /\ \A i \in Ids : manifest[i] # NoEntry => Assign(candidates)[i] = manifest[i]
<1>1. \A i \in Ids : Dealt(i, candidates) \in Entries
  BY DEF Dealt, Entries, Splits, Nothing
<1> QED BY <1>1 DEF Assign, CorpusTypeOK

LEMMA ScanKeeps ==
  ASSUME CorpusInv, NEW candidates \in SUBSET Ids, NEW mode \in {"reference", "copy"},
         Scan(candidates, mode)
  PROVE  CorpusInv'
<1> DEFINE assigned == Assign(Fresh(candidates))
           found == Fresh(candidates) \cap Listed(assigned)
<1> USE DEF CorpusInv
<1>1. Fresh(candidates) \in SUBSET Ids
  BY DEF Fresh
<1>2. /\ assigned \in [Ids -> Entries]
      /\ \A i \in Ids : manifest[i] # NoEntry => assigned[i] = manifest[i]
  BY <1>1, AssignedKeepsSplits
<1>3. /\ UNCHANGED <<upstream, copies, manifest, readable, latest, verified, scores>>
      /\ readable
      /\ build' = [mode |-> mode, found |-> found, todo |-> Listed(assigned), entries |-> assigned]
  BY DEF Scan
<1>4. found \in SUBSET Ids /\ Listed(assigned) \in SUBSET Ids
  BY DEF Listed
<1> HIDE DEF assigned, found
<1>5. build' \in Builds
  BY <1>2, <1>3, <1>4 DEF Builds
<1>6. CorpusTypeOK' /\ BuildStands' /\ Extends
  BY <1>2, <1>3, <1>5 DEF CorpusTypeOK, BuildStands, Extends
<1> QED BY <1>3, <1>6, ExtendingKeeps

(* and sealing one of them gives it a path and a hash, and nothing else. *)
LEMMA SealingKeeps ==
  ASSUME CorpusInv, build # NoBuild, NEW i \in Ids,
         NEW path \in {"none", "source", "copy"}, NEW sha \in Int, Sealing(i, path, sha),
         UNCHANGED <<manifest, readable>>
  PROVE  build' \in Builds /\ BuildStands'
<1> DEFINE entry == Sealed(build.entries[i], path, sha)
<1> USE DEF CorpusInv
<1>1. build \in Builds
  BY DEF CorpusTypeOK
<1>2. entry \in Entries /\ entry.split = build.entries[i].split
  BY <1>1 DEF Builds, Entries, Sealed
<1>3. build' = [build EXCEPT !.found = @ \ {i}, !.todo = @ \ {i}, !.entries[i] = entry]
  BY DEF Sealing
<1> HIDE DEF entry
<1>4. build' \in Builds
  BY <1>1, <1>2, <1>3 DEF Builds
<1>5. \A j \in Ids : build'.entries[j].split = build.entries[j].split
  BY <1>1, <1>2, <1>3 DEF Builds
<1> QED BY <1>4, <1>5 DEF BuildStands

LEMMA ResolvedIsBytes == ASSUME CorpusTypeOK, NEW i \in Ids PROVE Resolved(i) \in Int
  BY DEF CorpusTypeOK, Resolved

LEMMA SealsKeep ==
  ASSUME CorpusInv, NEW i \in Ids, SealInPlace(i) \/ KeepCopy(i) \/ SealCopy(i)
  PROVE  CorpusInv'
<1> USE DEF CorpusInv
<1>1. /\ UNCHANGED <<upstream, manifest, readable, latest, verified, scores>>
      /\ build # NoBuild
  BY DEF SealInPlace, KeepCopy, SealCopy, Copying, NoBuild
<1>2. copies' \in [Ids -> Int] /\ Extends
  BY DEF SealInPlace, KeepCopy, SealCopy, Copying, CorpusTypeOK, Extends
<1>3. PICK path \in {"none", "source", "copy"}, sha \in Int : Sealing(i, path, sha)
  <2>1. build.entries[i].path \in {"none", "source", "copy"} /\ build.entries[i].sha \in Int
    BY DEF CorpusTypeOK, Builds, Entries
  <2>2. upstream[i] \in Int /\ copies[i] \in Int /\ Resolved(i) \in Int
    BY ResolvedIsBytes DEF CorpusTypeOK
  <2>3. CASE SealInPlace(i)
    BY <2>1, <2>2, <2>3 DEF SealInPlace
  <2>4. CASE KeepCopy(i)
    BY <2>1, <2>2, <2>4 DEF KeepCopy
  <2>5. CASE SealCopy(i)
    BY <2>2, <2>5 DEF SealCopy
  <2> QED BY <2>3, <2>4, <2>5
<1>4. build' \in Builds /\ BuildStands'
  BY <1>1, <1>3, SealingKeeps
<1>5. CorpusTypeOK'
  BY <1>1, <1>2, <1>4 DEF CorpusTypeOK
<1> QED BY <1>1, <1>2, <1>4, <1>5, ExtendingKeeps

(* A build that stops leaves copies where there were none, at most. *)
LEMMA StopsKeep ==
  ASSUME CorpusInv, StopBuild \/ \E i \in Ids : CutCopy(i)
  PROVE  CorpusInv'
<1> USE DEF CorpusInv
<1>1. /\ UNCHANGED <<upstream, manifest, readable, latest, verified, scores>>
      /\ build' = NoBuild
  BY DEF StopBuild, CutCopy, Copying
<1>2. copies' \in [Ids -> Int] /\ Extends
  BY DEF StopBuild, CutCopy, Copying, CorpusTypeOK, Extends
<1>3. CorpusTypeOK' /\ BuildStands'
  BY <1>1, <1>2, BlankEntries DEF CorpusTypeOK, BuildStands
<1> QED BY <1>1, <1>2, <1>3, ExtendingKeeps

LEMMA WriteManifestKeeps == ASSUME CorpusInv, WriteManifest PROVE CorpusInv'
<1> USE DEF CorpusInv
<1>1. /\ UNCHANGED <<upstream, copies, latest, verified, scores>>
      /\ build # NoBuild /\ build' = NoBuild
      /\ \/ manifest' = build.entries /\ readable' = TRUE
         \/ manifest' = NoEntries /\ readable' = FALSE
  BY DEF WriteManifest
<1>2. Extends
  BY <1>1 DEF BuildStands, Extends
<1>3. CorpusTypeOK' /\ BuildStands'
  BY <1>1, BlankEntries DEF CorpusTypeOK, BuildStands, Builds
<1> QED BY <1>1, <1>2, <1>3, ExtendingKeeps

-----------------------------------------------------------------------------
(* calibrate.Run. *)
LEMMA VerifyKeeps ==
  ASSUME CorpusInv, NEW split \in Splits, NEW reason, Verify(split, reason)
  PROVE  CorpusInv'
<1> USE DEF CorpusInv
<1>1. /\ UNCHANGED <<upstream, copies, manifest, readable, build, latest, scores>>
      /\ verified' = [i \in Ids |-> IF i \in Selected(split) THEN manifest[i] ELSE NoEntry]
      /\ Seals(split)
  BY DEF Verify
<1>2. CorpusTypeOK'
  <2>1. verified' \in [Ids -> Entries]
    BY <1>1 DEF CorpusTypeOK, NoEntry, Entries, Nothing
  <2> QED BY <2>1, <1>1 DEF CorpusTypeOK
<1>3. VerifiedStands'
  <2> SUFFICES ASSUME NEW i \in Ids, verified'[i] # NoEntry
               PROVE  /\ verified'[i].split \in Splits
                      /\ readable' => manifest'[i].split = verified'[i].split
                      /\ verified'[i].path = "copy" =>
                           copies'[i] # Nothing /\ copies'[i] = verified'[i].sha
    BY DEF VerifiedStands
  <2>1. i \in Selected(split) /\ verified'[i] = manifest[i]
    BY <1>1
  <2>2. manifest[i].split = split /\ manifest[i].sha # Nothing /\ Resolved(i) = manifest[i].sha
    BY <2>1, <1>1 DEF Seals, Selected
  <2> QED BY <2>1, <2>2, <1>1 DEF Resolved
<1>4. BuildStands' /\ ScoredWasDealt' /\ ScoresKeepTheirSubject'
  BY <1>1 DEF BuildStands, ScoredWasDealt, ScoresKeepTheirSubject
<1> QED BY <1>2, <1>3, <1>4

LEMMA PredictKeeps == ASSUME CorpusInv, Predict PROVE CorpusInv'
<1> USE DEF CorpusInv
<1>1. /\ UNCHANGED <<upstream, copies, manifest, readable, build, latest>>
      /\ verified' = NoEntries
      /\ \/ scores' = scores
         \/ scores' = [i \in Ids |-> IF i \in Listed(verified)
                                     THEN [entry |-> verified[i], bytes |-> BytesOf(i)]
                                     ELSE scores[i]]
  BY DEF Predict
<1>2. \A i \in Ids : BytesOf(i) \in Int
  BY DEF BytesOf, CorpusTypeOK
<1>3. CorpusTypeOK'
  <2>1. verified' \in [Ids -> Entries]
    BY <1>1, BlankEntries
  <2>2. scores' \in [Ids -> [entry : Entries, bytes : Int]]
    BY <1>1, <1>2 DEF CorpusTypeOK
  <2> QED BY <2>1, <2>2, <1>1 DEF CorpusTypeOK
<1>4. VerifiedStands' /\ BuildStands'
  BY <1>1 DEF VerifiedStands, BuildStands, NoEntries
<1>5. ASSUME NEW i \in Ids, scores'[i] # NoScore
      PROVE  /\ scores'[i].entry.split \in Splits
             /\ readable' => manifest'[i].split = scores'[i].entry.split
             /\ scores'[i].entry.path = "copy" => scores'[i].bytes = scores'[i].entry.sha
  <2>1. CASE scores'[i] = scores[i]
    BY <2>1, <1>5, <1>1 DEF ScoredWasDealt, ScoresKeepTheirSubject
  <2>2. CASE scores'[i] = [entry |-> verified[i], bytes |-> BytesOf(i)] /\ verified[i] # NoEntry
    BY <2>2, <1>1 DEF VerifiedStands, BytesOf
  <2> QED BY <2>1, <2>2, <1>1 DEF Listed
<1> QED BY <1>3, <1>4, <1>5 DEF ScoredWasDealt, ScoresKeepTheirSubject

LEMMA CorpusInductive == ASSUME CorpusInv, [CorpusNext]_corpusVars PROVE CorpusInv'
<1>1. CASE UNCHANGED corpusVars
  BY <1>1 DEF corpusVars, CorpusInv, CorpusTypeOK, BuildStands, VerifiedStands, ScoredWasDealt,
     ScoresKeepTheirSubject
<1>2. CASE \E i \in Ids : WriteTranscript(i) \/ CopyTranscript(i) \/ RemoveTranscript(i)
  BY <1>2, TranscriptsKeep
<1>3. CASE Build
  <2>1. ASSUME \E candidates \in SUBSET Ids, mode \in {"reference", "copy"} : Scan(candidates, mode)
        PROVE  CorpusInv'
    BY <2>1, ScanKeeps
  <2> QED BY <1>3, <2>1, SealsKeep, StopsKeep, WriteManifestKeeps DEF Build
<1>4. CASE \E split \in Splits, reason \in {"", "gate"} : Verify(split, reason)
  BY <1>4, VerifyKeeps
<1> QED BY <1>1, <1>2, <1>3, <1>4, PredictKeeps DEF CorpusNext

-----------------------------------------------------------------------------
(* What was scored stays on its side of the split and, when it was scored  *)
(* from a copy, was read as it was sealed.                                 *)
THEOREM ScoresAreOfTheirSubject == CorpusSpec => []ScoresKeepTheirSubject
<1>1. CorpusInv => ScoresKeepTheirSubject
  BY DEF CorpusInv
<1> QED BY <1>1, CorpusInitially, CorpusInductive, PTL DEF CorpusSpec

-----------------------------------------------------------------------------
(* The units of a session: what an accumulator, a context and a unit are.  *)
Accumulators == [writes : SUBSET WritePaths, failed : Nat, interrupted : BOOLEAN, said : SUBSET Nat]

Contexts == [prior : Nat, cycle : Accumulators, earlier : SUBSET WritePaths,
             response : Accumulators, next : Nat]

EmittedUnits == [at : Nat, turn : Nat, context : Contexts]

UnitsTypeOK ==
  /\ session \in Seq(UnitRecords)
  /\ cycle \in Accumulators /\ response \in Accumulators
  /\ earlier \in SUBSET WritePaths
  /\ prior \in Nat /\ open \in Nat
  /\ units \in Seq(EmittedUnits)
  /\ ended \in BOOLEAN

(* The turns next to a place in a set of turns: the latest before it and   *)
(* the first after it, 0 when there is none.                               *)
IsBefore(T, i, j) ==
  \/ j \in T /\ j < i /\ \A k \in T : k < i => k <= j
  \/ j = 0 /\ \A k \in T : ~(k < i)

IsAfter(T, i, j) ==
  \/ j \in T /\ j > i /\ \A k \in T : k > i => k >= j
  \/ j = 0 /\ \A k \in T : ~(k > i)

LatestBefore(T, i) ==
  IF \E j \in T : j < i THEN CHOOSE j \in T : j < i /\ \A k \in T : k < i => k <= j ELSE 0

FirstAfter(T, i) ==
  IF \E j \in T : j > i THEN CHOOSE j \in T : j > i /\ \A k \in T : k > i => k >= j ELSE 0

(* What happens between two places of a session.                           *)
HappenedIn(s, from, to) ==
  LET between == (from + 1)..(to - 1)
  IN  [writes |-> UNION {s[i].writes : i \in between},
       failed |-> Cardinality({i \in between : s[i].failed = 1}),
       interrupted |-> \E i \in between : s[i].kind = "interrupt",
       said |-> {i \in between : s[i].kind = "agent"}]

WritesBefore(s, T, turn) ==
  IF turn = 0 THEN {} ELSE HappenedIn(s, LatestBefore(T, turn), turn).writes

(* What an accumulator holds of what happened: all of it. *)
Covers(shown, after) ==
  /\ after.writes \subseteq shown.writes
  /\ after.failed <= shown.failed
  /\ after.interrupted => shown.interrupted

(* A unit carries the cycle before its turn, and shows the one after it.   *)
Carried(s, T, unit) ==
  LET before == LatestBefore(T, unit.at)
  IN  /\ unit.context.prior = before
      /\ unit.context.cycle = HappenedIn(s, before, unit.at)
      /\ unit.context.earlier = WritesBefore(s, T, before)

Until(s, next) == IF next = 0 THEN Len(s) + 1 ELSE next

Shown(s, T, unit) ==
  /\ unit.context.next = FirstAfter(T, unit.at)
  /\ Covers(unit.context.response, HappenedIn(s, unit.at, Until(s, FirstAfter(T, unit.at))))

NeighboursIn(T) == \A i \in T : IsBefore(T, i, LatestBefore(T, i)) /\ IsAfter(T, i, FirstAfter(T, i))

WindowIsRolled ==
  /\ IsBefore(OperatorTurns, Len(session) + 1, prior)
  /\ cycle = HappenedIn(session, prior, Len(session) + 1)
  /\ earlier = WritesBefore(session, OperatorTurns, prior)

(* The open unit is that of the latest turn, and its response so far is    *)
(* kept; no other unit awaits one.                                         *)
OpenIsLatest ==
  /\ open # 0 => /\ open = Len(units) /\ units[open].at = prior
                 /\ ~ended /\ family = "pollution"
                 /\ Covers(response, HappenedIn(session, prior, Len(session) + 1))
  /\ family = "pollution" /\ ~ended =>
       \A u \in DOMAIN units : units[u].at = prior => u = open

UnitsAreOfTurns ==
  /\ \A u \in DOMAIN units : units[u].at \in OperatorTurns
  /\ {units[u].at : u \in DOMAIN units} = {i \in OperatorTurns : session[i].sampled}
  /\ \A u, v \in DOMAIN units : u < v => units[u].at < units[v].at

UnitsCarry ==
  family # "obligation" => \A u \in DOMAIN units : Carried(session, OperatorTurns, units[u])

UnitsShow ==
  family = "pollution" =>
    \A u \in DOMAIN units :
      ended \/ FirstAfter(OperatorTurns, units[u].at) # 0 => Shown(session, OperatorTurns, units[u])

UnitsInv ==
  /\ UnitsTypeOK
  /\ NeighboursIn(OperatorTurns) /\ WindowIsRolled /\ OpenIsLatest
  /\ UnitsAreOfTurns /\ UnitsCarry /\ UnitsShow

-----------------------------------------------------------------------------
LEMMA PartsOfRecords ==
  ASSUME NEW r \in UnitRecords
  PROVE  /\ r.writes \in SUBSET WritePaths /\ r.failed \in {0, 1}
         /\ r.kind \in {"operator", "agent", "interrupt"} /\ r.sampled \in BOOLEAN
         /\ r.kind = "operator" => r.writes = {} /\ r.failed = 0
BY DEF UnitRecords

LEMMA SessionPart ==
  ASSUME NEW s \in Seq(UnitRecords), NEW i \in 1..Len(s)
  PROVE  /\ s[i] \in UnitRecords /\ s[i].writes \in SUBSET WritePaths
         /\ s[i].failed \in {0, 1} /\ s[i].sampled \in BOOLEAN
<1>1. s[i] \in UnitRecords
  OBVIOUS
<1> QED
  BY <1>1, PartsOfRecords

(* What happens between two places of a session is an accumulator.         *)
LEMMA HappenedIsSome ==
  ASSUME NEW s \in Seq(UnitRecords), NEW from \in Nat, NEW to \in Nat, to <= Len(s) + 1
  PROVE  HappenedIn(s, from, to) \in Accumulators
<1> DEFINE between == (from + 1)..(to - 1)
<1>1. between \subseteq 1..Len(s) /\ between \subseteq Nat
  OBVIOUS
<1>2. UNION {s[i].writes : i \in between} \in SUBSET WritePaths
  BY <1>1, SessionPart
<1>3. Cardinality({i \in between : s[i].failed = 1}) \in Nat
  <2>1. IsFiniteSet(between)
    BY FS_Interval
  <2>2. IsFiniteSet({i \in between : s[i].failed = 1})
    BY <2>1, FS_Subset
  <2> QED
    BY <2>2, FS_CardinalityType
<1>4. {i \in between : s[i].kind = "agent"} \in SUBSET Nat
  BY <1>1
<1> HIDE DEF between
<1> QED
  BY <1>2, <1>3, <1>4 DEF HappenedIn, Accumulators, between

LEMMA NothingHappened ==
  ASSUME NEW s, NEW n \in Nat
  PROVE  HappenedIn(s, n, n + 1) = Quiet
<1>1. (n + 1)..((n + 1) - 1) = {}
  OBVIOUS
<1>2. UNION {s[i].writes : i \in {}} = {}
  OBVIOUS
<1>3. {i \in {} : s[i].failed = 1} = {} /\ {i \in {} : s[i].kind = "agent"} = {}
  OBVIOUS
<1> QED
  BY <1>1, <1>2, <1>3, FS_EmptySet DEF HappenedIn, Quiet

-----------------------------------------------------------------------------
(* A session grows by one record, and what has happened stays.             *)
LEMMA GrownSession ==
  ASSUME NEW s \in Seq(UnitRecords), NEW r \in UnitRecords
  PROVE  /\ Append(s, r) \in Seq(UnitRecords)
         /\ Len(s) \in Nat /\ Len(Append(s, r)) = Len(s) + 1
         /\ DOMAIN s = 1..Len(s)
         /\ DOMAIN Append(s, r) = 1..(Len(s) + 1)
         /\ \A i \in 1..Len(s) : Append(s, r)[i] = s[i]
         /\ Append(s, r)[Len(s) + 1] = r
OBVIOUS

LEMMA HappenedSoFarStays ==
  ASSUME NEW s \in Seq(UnitRecords), NEW r \in UnitRecords
  PROVE  \A from, to \in Nat :
           to <= Len(s) + 1 => HappenedIn(Append(s, r), from, to) = HappenedIn(s, from, to)
<1> TAKE from, to \in Nat
<1> HAVE to <= Len(s) + 1
<1> DEFINE t == Append(s, r)
<1>1. t = Append(s, r)
  OBVIOUS
<1> HIDE DEF t
<1> DEFINE between == (from + 1)..(to - 1)
<1>2. \A i \in between : t[i] = s[i]
  BY <1>1, GrownSession
<1> HIDE DEF between
<1>3. {t[i].writes : i \in between} = {s[i].writes : i \in between}
  BY <1>2
<1>4. {i \in between : t[i].failed = 1} = {i \in between : s[i].failed = 1}
  BY <1>2
<1>5. (\E i \in between : t[i].kind = "interrupt") <=> \E i \in between : s[i].kind = "interrupt"
  BY <1>2
<1>6. {i \in between : t[i].kind = "agent"} = {i \in between : s[i].kind = "agent"}
  BY <1>2
<1>7. (\E i \in between : t[i].kind = "interrupt") = \E i \in between : s[i].kind = "interrupt"
  BY <1>5
<1>8. HappenedIn(t, from, to) = HappenedIn(s, from, to)
  BY <1>3, <1>4, <1>6, <1>7, Zenon DEF HappenedIn, between
<1> QED
  BY <1>1, <1>8

LEMMA HappenedStays ==
  ASSUME NEW s \in Seq(UnitRecords), NEW r \in UnitRecords, NEW t, t = Append(s, r),
         NEW from \in Nat, NEW to \in Nat, to <= Len(s) + 1
  PROVE  HappenedIn(t, from, to) = HappenedIn(s, from, to)
BY HappenedSoFarStays

LEMMA HappenedGrows ==
  ASSUME NEW s \in Seq(UnitRecords), NEW r \in UnitRecords, NEW t, t = Append(s, r),
         NEW from \in Nat, from <= Len(s)
  PROVE  HappenedIn(t, from, Len(s) + 2)
           = Noted(HappenedIn(s, from, Len(s) + 1), r, Len(s) + 1)
<1> DEFINE n == Len(s)
           between == (from + 1)..((n + 1) - 1)
           more == (from + 1)..((n + 2) - 1)
<1>1. /\ n \in Nat
      /\ \A i \in between : t[i] = s[i]
      /\ t[n + 1] = r
  BY GrownSession
<1>2. more = between \cup {n + 1} /\ n + 1 \notin between
  BY <1>1
<1>3. IsFiniteSet(between)
  BY <1>1, FS_Interval
<1> HIDE DEF n, between, more
<1>6. UNION {t[i].writes : i \in more} = (UNION {s[i].writes : i \in between}) \cup r.writes
  <2>1. {t[i].writes : i \in more} = {s[i].writes : i \in between} \cup {r.writes}
    BY <1>1, <1>2
  <2> QED
    BY <2>1
<1>7. Cardinality({i \in more : t[i].failed = 1})
        = Cardinality({i \in between : s[i].failed = 1}) + r.failed
  <2> DEFINE F == {i \in between : s[i].failed = 1}
  <2>1. IsFiniteSet(F) /\ n + 1 \notin F
    BY <1>2, <1>3, FS_Subset
  <2>2. Cardinality(F) \in Nat
    BY <2>1, FS_CardinalityType
  <2>3. r.failed \in {0, 1}
    BY PartsOfRecords
  <2>4. CASE r.failed = 1
    <3>1. {i \in more : t[i].failed = 1} = F \cup {n + 1}
      BY <1>1, <1>2, <2>4
    <3> HIDE DEF F
    <3>2. Cardinality(F \cup {n + 1}) = Cardinality(F) + 1
      BY <2>1, FS_AddElement
    <3> QED
      BY <2>4, <3>1, <3>2 DEF F
  <2>5. CASE r.failed = 0
    <3>1. {i \in more : t[i].failed = 1} = F
      <4>1. t[n + 1].failed # 1
        BY <1>1, <2>5
      <4> QED
        BY <1>1, <1>2, <4>1
    <3> HIDE DEF F
    <3>2. Cardinality(F) + r.failed = Cardinality(F)
      BY <2>2, <2>5
    <3> QED
      BY <3>1, <3>2 DEF F
  <2> QED
    BY <2>3, <2>4, <2>5
<1>8. (\E i \in more : t[i].kind = "interrupt")
        = ((\E i \in between : s[i].kind = "interrupt") \/ r.kind = "interrupt")
  BY <1>1, <1>2
<1>9. {i \in more : t[i].kind = "agent"}
        = IF r.kind = "agent" THEN {i \in between : s[i].kind = "agent"} \cup {n + 1}
          ELSE {i \in between : s[i].kind = "agent"}
  BY <1>1, <1>2
<1> DEFINE so_far == HappenedIn(s, from, n + 1)
<1>10. /\ so_far.writes = UNION {s[i].writes : i \in between}
       /\ so_far.failed = Cardinality({i \in between : s[i].failed = 1})
       /\ so_far.interrupted = \E i \in between : s[i].kind = "interrupt"
       /\ so_far.said = {i \in between : s[i].kind = "agent"}
  BY DEF HappenedIn, between
<1>11. HappenedIn(t, from, n + 2) =
         [writes |-> UNION {t[i].writes : i \in more},
          failed |-> Cardinality({i \in more : t[i].failed = 1}),
          interrupted |-> \E i \in more : t[i].kind = "interrupt",
          said |-> {i \in more : t[i].kind = "agent"}]
  BY DEF HappenedIn, more
<1> HIDE DEF so_far
<1>12. (\E i \in more : t[i].kind = "interrupt") = (so_far.interrupted \/ r.kind = "interrupt")
  BY <1>8, <1>10, Zenon
<1>13. HappenedIn(t, from, n + 2) = Noted(so_far, r, n + 1)
  BY <1>6, <1>7, <1>9, <1>10, <1>11, <1>12, Zenon DEF Noted
<1> QED
  BY <1>13 DEF so_far, n

-----------------------------------------------------------------------------
(* The turns of a session.                                                 *)
LEMMA NeighboursAre ==
  ASSUME NEW T \in SUBSET (Nat \ {0}), NEW i \in Nat, NEW j
  PROVE  /\ IsBefore(T, i, j) => LatestBefore(T, i) = j
         /\ IsAfter(T, i, j) => FirstAfter(T, i) = j
<1>1. ASSUME IsBefore(T, i, j) PROVE LatestBefore(T, i) = j
  <2>1. CASE j \in T /\ j < i /\ \A k \in T : k < i => k <= j
    <3> DEFINE c == CHOOSE m \in T : m < i /\ \A k \in T : k < i => k <= m
    <3>1. c \in T /\ c < i /\ \A k \in T : k < i => k <= c
      BY <2>1
    <3>2. LatestBefore(T, i) = c
      BY <2>1 DEF LatestBefore
    <3> HIDE DEF c
    <3> QED
      BY <2>1, <3>1, <3>2
  <2>2. CASE j = 0 /\ \A k \in T : ~(k < i)
    BY <2>2 DEF LatestBefore
  <2> QED
    BY <1>1, <2>1, <2>2 DEF IsBefore
<1>2. ASSUME IsAfter(T, i, j) PROVE FirstAfter(T, i) = j
  <2>1. CASE j \in T /\ j > i /\ \A k \in T : k > i => k >= j
    <3> DEFINE c == CHOOSE m \in T : m > i /\ \A k \in T : k > i => k >= m
    <3>1. c \in T /\ c > i /\ \A k \in T : k > i => k >= c
      BY <2>1
    <3>2. FirstAfter(T, i) = c
      BY <2>1 DEF FirstAfter
    <3> HIDE DEF c
    <3> QED
      BY <2>1, <3>1, <3>2
  <2>2. CASE j = 0 /\ \A k \in T : ~(k > i)
    BY <2>2 DEF FirstAfter
  <2> QED
    BY <1>2, <2>1, <2>2 DEF IsAfter
<1> QED
  BY <1>1, <1>2

(* A turn at the end of a session is after every other, and next to the    *)
(* latest of them.                                                         *)
LEMMA TurnAtTheEnd ==
  ASSUME NEW n \in Nat, NEW T \in SUBSET (1..n), NeighboursIn(T),
         NEW last \in Nat, IsBefore(T, n + 1, last), NEW U, U = T \cup {n + 1}
  PROVE  /\ NeighboursIn(U)
         /\ \A i \in T : /\ LatestBefore(U, i) = LatestBefore(T, i)
                         /\ FirstAfter(U, i) = IF FirstAfter(T, i) = 0 THEN n + 1
                                               ELSE FirstAfter(T, i)
                         /\ FirstAfter(T, i) = 0 => i = last
         /\ LatestBefore(U, n + 1) = last
         /\ FirstAfter(U, n + 1) = 0
         /\ IsBefore(U, n + 2, n + 1)
<1>1. T \in SUBSET (Nat \ {0}) /\ U \in SUBSET (Nat \ {0})
  OBVIOUS
<1>2. \A i \in T : IsBefore(T, i, LatestBefore(T, i)) /\ IsAfter(T, i, FirstAfter(T, i))
  BY DEF NeighboursIn
<1>3. ASSUME NEW i \in T PROVE IsBefore(U, i, LatestBefore(T, i))
  <2>1. IsBefore(T, i, LatestBefore(T, i)) /\ i \in 1..n
    BY <1>2
  <2> QED
    BY <2>1 DEF IsBefore
<1>4. ASSUME NEW i \in T
      PROVE  IsAfter(U, i, IF FirstAfter(T, i) = 0 THEN n + 1 ELSE FirstAfter(T, i))
  <2>1. IsAfter(T, i, FirstAfter(T, i)) /\ i \in 1..n
    BY <1>2
  <2>2. CASE FirstAfter(T, i) = 0
    BY <2>1, <2>2 DEF IsAfter
  <2>3. CASE FirstAfter(T, i) # 0
    <3>1. FirstAfter(T, i) \in T
      BY <2>1, <2>3 DEF IsAfter
    <3>2. FirstAfter(T, i) \in 1..n /\ \A k \in U : k \in T \/ k = n + 1
      BY <3>1
    <3>3. FirstAfter(T, i) > i /\ \A k \in T : k > i => k >= FirstAfter(T, i)
      BY <2>1, <2>3 DEF IsAfter
    <3>4. \A k \in U : k > i => k >= FirstAfter(T, i)
      BY <3>2, <3>3
    <3>5. IsAfter(U, i, FirstAfter(T, i))
      BY <3>1, <3>3, <3>4 DEF IsAfter
    <3> QED
      BY <2>3, <3>5
  <2> QED
    BY <2>2, <2>3
<1>5. ASSUME NEW i \in T, FirstAfter(T, i) = 0 PROVE i = last
  <2>1. \A k \in T : ~(k > i)
    BY <1>1, <1>2, <1>5 DEF IsAfter
  <2>2. i < n + 1 /\ last \in T /\ i <= last
    BY DEF IsBefore
  <2> QED
    BY <2>1, <2>2
<1>6. IsBefore(U, n + 1, last) /\ IsAfter(U, n + 1, 0) /\ IsBefore(U, n + 2, n + 1)
  <2>1. \A k \in U : k \in 1..(n + 1) /\ k <= n + 1 /\ (k < n + 1 => k \in T)
    OBVIOUS
  <2>2. IsBefore(U, n + 1, last)
    BY <2>1 DEF IsBefore
  <2>3. IsAfter(U, n + 1, 0)
    BY <2>1 DEF IsAfter
  <2>4. IsBefore(U, n + 2, n + 1)
    BY <2>1 DEF IsBefore
  <2> QED
    BY <2>2, <2>3, <2>4
<1>7. \A i \in T : /\ LatestBefore(U, i) = LatestBefore(T, i)
                  /\ FirstAfter(U, i) = IF FirstAfter(T, i) = 0 THEN n + 1 ELSE FirstAfter(T, i)
  BY <1>1, <1>3, <1>4, NeighboursAre
<1>8. LatestBefore(U, n + 1) = last /\ FirstAfter(U, n + 1) = 0
  BY <1>1, <1>6, NeighboursAre
<1>9. NeighboursIn(U)
  <2> SUFFICES ASSUME NEW i \in U
               PROVE  IsBefore(U, i, LatestBefore(U, i)) /\ IsAfter(U, i, FirstAfter(U, i))
    BY DEF NeighboursIn
  <2>1. CASE i \in T
    BY <1>3, <1>4, <1>7, <2>1
  <2>2. CASE i = n + 1
    BY <1>6, <1>8, <2>2
  <2> QED
    BY <2>1, <2>2
<1> QED
  BY <1>5, <1>6, <1>7, <1>8, <1>9

LEMMA TurnsAfterRecord ==
  ASSUME UnitsTypeOK, NEW r \in UnitRecords, session' = Append(session, r)
  PROVE  /\ OperatorTurns \in SUBSET (1..Len(session)) /\ Len(session) \in Nat
         /\ Len(session') = Len(session) + 1
         /\ OperatorTurns' = IF r.kind = "operator" THEN OperatorTurns \cup {Len(session) + 1}
                             ELSE OperatorTurns
         /\ \A i \in OperatorTurns : session'[i] = session[i]
         /\ session'[Len(session) + 1] = r
BY GrownSession DEF UnitsTypeOK, OperatorTurns

LEMMA AccumulatorCovers ==
  /\ \A shown \in Accumulators : Covers(shown, Quiet)
  /\ \A shown, after \in Accumulators, r \in UnitRecords, at \in Nat :
       Covers(shown, after) => Covers(Noted(shown, r, at), Noted(after, r, at))
<1>1. \A shown \in Accumulators : Covers(shown, Quiet)
  BY DEF Accumulators, Covers, Quiet
<1>2. ASSUME NEW shown \in Accumulators, NEW after \in Accumulators, NEW r \in UnitRecords,
             NEW at \in Nat,
             Covers(shown, after)
      PROVE  Covers(Noted(shown, r, at), Noted(after, r, at))
  BY <1>2, PartsOfRecords DEF Accumulators, Covers, Noted
<1> QED
  BY <1>1, <1>2

LEMMA NotedIsSome ==
  ASSUME NEW shown \in Accumulators, NEW r \in UnitRecords, NEW at \in Nat
  PROVE  Noted(shown, r, at) \in Accumulators
BY PartsOfRecords DEF Accumulators, Noted

(* Closing a response changes nothing but the response of the open unit.   *)
ClosesOne(closed, next) ==
  /\ closed \in Seq(EmittedUnits)
  /\ Len(closed) = Len(units) /\ DOMAIN closed = DOMAIN units
  /\ \A u \in DOMAIN units :
       /\ closed[u].at = units[u].at
       /\ closed[u].context.prior = units[u].context.prior
       /\ closed[u].context.cycle = units[u].context.cycle
       /\ closed[u].context.earlier = units[u].context.earlier
       /\ u # open => closed[u] = units[u]
       /\ u = open => closed[u].context.response = response /\ closed[u].context.next = next

LEMMA ClosedUnits ==
  ASSUME UnitsTypeOK, OpenIsLatest, NEW next \in Nat
  PROVE  ClosesOne(Closed(next), next)
<1> DEFINE Unit == EmittedUnits
<1>1. units \in Seq(Unit) /\ response \in Accumulators /\ open \in Nat
  BY DEF UnitsTypeOK
<1>2. CASE open = 0
  BY <1>1, <1>2 DEF Closed, ClosesOne
<1>3. CASE open # 0
  <2>1. open \in DOMAIN units
    BY <1>1, <1>3 DEF OpenIsLatest
  <2> DEFINE shown == [units[open].context EXCEPT !.response = response]
             context == [shown EXCEPT !.next = next]
             unit == [units[open] EXCEPT !.context = context]
  <2>2. units[open] \in Unit
    <3> HIDE DEF Unit
    <3> QED
      BY <1>1, <2>1
  <2>3. units[open].context \in Contexts
    BY <2>2 DEF EmittedUnits
  <2>4. /\ shown \in Contexts /\ shown.response = response
        /\ shown.prior = units[open].context.prior
        /\ shown.cycle = units[open].context.cycle
        /\ shown.earlier = units[open].context.earlier
    BY <1>1, <2>3 DEF Contexts
  <2> HIDE DEF shown
  <2>5. /\ context \in Contexts /\ context.response = response /\ context.next = next
        /\ context.prior = units[open].context.prior
        /\ context.cycle = units[open].context.cycle
        /\ context.earlier = units[open].context.earlier
    BY <2>4 DEF Contexts
  <2> HIDE DEF context
  <2>6. unit \in Unit /\ unit.context = context /\ unit.at = units[open].at
    BY <2>2, <2>5 DEF EmittedUnits
  <2>7. Closed(next) = [units EXCEPT ![open] = unit]
    <3> DEFINE first == [units[open] EXCEPT !.context = shown]
               units1 == [units EXCEPT ![open] = first]
    <3>1. Closed(next) = [units1 EXCEPT ![open].context.next = next]
      BY <1>3 DEF Closed, shown
    <3>2. units1[open] = first
      BY <1>1, <2>1
    <3>3. first.context = shown
      BY <2>2
    <3> HIDE DEF units1, first
    <3>4. Closed(next) = [units1 EXCEPT ![open] = [first EXCEPT !.context = context]]
      BY <3>1, <3>2, <3>3 DEF context
    <3>5. [first EXCEPT !.context = context] = unit
      BY <2>2 DEF first
    <3> HIDE DEF unit
    <3>6. \A v : [units1 EXCEPT ![open] = v] = [units EXCEPT ![open] = v]
      BY DEF units1
    <3> QED
      BY <3>4, <3>5, <3>6
  <2> HIDE DEF unit, Unit
  <2> DEFINE closed == [units EXCEPT ![open] = unit]
  <2>8. /\ closed \in Seq(Unit) /\ Len(closed) = Len(units) /\ DOMAIN closed = DOMAIN units
        /\ \A u \in DOMAIN units : closed[u] = IF u = open THEN unit ELSE units[u]
    <3>1. units \in [1..Len(units) -> Unit] /\ Len(units) \in Nat /\ DOMAIN units = 1..Len(units)
      BY <1>1
    <3>2. closed \in [1..Len(units) -> Unit]
      BY <2>6, <3>1
    <3>3. closed \in Seq(Unit) /\ Len(closed) = Len(units) /\ DOMAIN closed = DOMAIN units
      BY <3>1, <3>2
    <3>4. \A u \in DOMAIN units : closed[u] = IF u = open THEN unit ELSE units[u]
      BY <3>1
    <3> QED
      BY <3>3, <3>4
  <2>9. Closed(next) = closed
    BY <2>7
  <2> HIDE DEF closed
  <2>10. \A u \in DOMAIN units :
           /\ closed[u].at = units[u].at
           /\ closed[u].context.prior = units[u].context.prior
           /\ closed[u].context.cycle = units[u].context.cycle
           /\ closed[u].context.earlier = units[u].context.earlier
           /\ u # open => closed[u] = units[u]
           /\ u = open => closed[u].context.response = response /\ closed[u].context.next = next
    BY <2>5, <2>6, <2>8
  <2> QED
    BY <2>8, <2>9, <2>10 DEF Unit, ClosesOne
<1> QED
  BY <1>2, <1>3

-----------------------------------------------------------------------------
(* What is known of the turns of a session, and of a unit, after one more  *)
(* record.                                                                 *)
LEMMA PlacesOfTurns ==
  ASSUME UnitsInv
  PROVE  /\ OperatorTurns \in SUBSET (1..Len(session)) /\ Len(session) \in Nat
         /\ prior \in Nat /\ prior <= Len(session)
         /\ prior = 0 \/ prior \in OperatorTurns
         /\ \A i \in OperatorTurns \cup {0, prior} :
              /\ i # 0 => i \in OperatorTurns
              /\ i # 0 => LatestBefore(OperatorTurns, i) \in OperatorTurns \cup {0}
              /\ i # 0 => LatestBefore(OperatorTurns, i) < i
              /\ i # 0 => FirstAfter(OperatorTurns, i) \in OperatorTurns \cup {0}
<1>1. session \in Seq(UnitRecords)
  BY DEF UnitsInv, UnitsTypeOK
<1>2. OperatorTurns \in SUBSET (1..Len(session)) /\ Len(session) \in Nat
  BY <1>1 DEF OperatorTurns
<1>3. IsBefore(OperatorTurns, Len(session) + 1, prior)
  BY DEF UnitsInv, WindowIsRolled
<1>4. prior = 0 \/ prior \in OperatorTurns
  BY <1>3 DEF IsBefore
<1>5. prior \in Nat /\ prior <= Len(session)
  <2>1. \A i \in OperatorTurns : i \in Nat /\ i <= Len(session)
    BY <1>2
  <2>2. 0 \in Nat /\ 0 <= Len(session)
    BY <1>2
  <2> QED
    BY <1>4, <2>1, <2>2
<1>6. ASSUME NEW i \in OperatorTurns
      PROVE  /\ LatestBefore(OperatorTurns, i) \in OperatorTurns \cup {0}
             /\ LatestBefore(OperatorTurns, i) < i
             /\ FirstAfter(OperatorTurns, i) \in OperatorTurns \cup {0}
  <2>1. IsBefore(OperatorTurns, i, LatestBefore(OperatorTurns, i))
        /\ IsAfter(OperatorTurns, i, FirstAfter(OperatorTurns, i))
    BY DEF UnitsInv, NeighboursIn
  <2> QED
    BY <1>2, <2>1 DEF IsBefore, IsAfter
<1> QED
  BY <1>2, <1>4, <1>5, <1>6

LEMMA WritesStay ==
  ASSUME UnitsInv, NEW r \in UnitRecords, NEW s, s = Append(session, r),
         NEW turn \in OperatorTurns \cup {0}, NEW U,
         LatestBefore(U, turn) = LatestBefore(OperatorTurns, turn) \/ turn = 0
  PROVE  WritesBefore(s, U, turn) = WritesBefore(session, OperatorTurns, turn)
<1>1. CASE turn = 0
  BY <1>1 DEF WritesBefore
<1>2. CASE turn # 0
  <2>1. /\ turn \in Nat /\ turn <= Len(session) + 1
        /\ LatestBefore(OperatorTurns, turn) \in Nat
    BY <1>2, PlacesOfTurns
  <2>2. session \in Seq(UnitRecords)
    BY DEF UnitsInv, UnitsTypeOK
  <2>3. HappenedIn(s, LatestBefore(OperatorTurns, turn), turn)
          = HappenedIn(session, LatestBefore(OperatorTurns, turn), turn)
    BY <2>1, <2>2, HappenedStays, ZenonT(60)
  <2> QED
    BY <1>2, <2>3 DEF WritesBefore
<1> QED
  BY <1>1, <1>2

(* A unit of a turn that is over goes on carrying its cycle.               *)
LEMMA CarriedStays ==
  ASSUME UnitsInv, NEW r \in UnitRecords, NEW s, s = Append(session, r), NEW U,
         \A i \in OperatorTurns : LatestBefore(U, i) = LatestBefore(OperatorTurns, i),
         NEW u, u.at \in OperatorTurns, Carried(session, OperatorTurns, u),
         NEW v, v.at = u.at, v.context.prior = u.context.prior,
         v.context.cycle = u.context.cycle, v.context.earlier = u.context.earlier
  PROVE  Carried(s, U, v)
<1> DEFINE before == LatestBefore(OperatorTurns, u.at)
<1>1. /\ before \in OperatorTurns \cup {0} /\ before \in Nat
      /\ u.at \in Nat /\ u.at <= Len(session) + 1
  BY PlacesOfTurns
<1>2. session \in Seq(UnitRecords)
  BY DEF UnitsInv, UnitsTypeOK
<1>3. LatestBefore(U, u.at) = before
  OBVIOUS
<1>4. /\ u.context.prior = before
      /\ u.context.cycle = HappenedIn(session, before, u.at)
      /\ u.context.earlier = WritesBefore(session, OperatorTurns, before)
  BY DEF Carried
<1> HIDE DEF before
<1>5. HappenedIn(s, before, u.at) = HappenedIn(session, before, u.at)
  BY <1>1, <1>2, HappenedStays, ZenonT(60)
<1>6. WritesBefore(s, U, before) = WritesBefore(session, OperatorTurns, before)
  BY <1>1, WritesStay
<1> QED
  BY <1>3, <1>4, <1>5, <1>6 DEF Carried

(* What a unit shows of a response that is over, it goes on showing.       *)
LEMMA ShownStays ==
  ASSUME UnitsInv, NEW r \in UnitRecords, NEW s, s = Append(session, r), NEW U,
         NEW u, u.at \in OperatorTurns, Shown(session, OperatorTurns, u),
         FirstAfter(OperatorTurns, u.at) # 0,
         FirstAfter(U, u.at) = FirstAfter(OperatorTurns, u.at)
  PROVE  Shown(s, U, u)
<1> DEFINE till == FirstAfter(OperatorTurns, u.at)
<1>1. till \in Nat /\ till <= Len(session) + 1 /\ u.at \in Nat
  BY PlacesOfTurns
<1>2. session \in Seq(UnitRecords)
  BY DEF UnitsInv, UnitsTypeOK
<1> HIDE DEF till
<1>3. HappenedIn(s, u.at, till) = HappenedIn(session, u.at, till)
  BY <1>1, <1>2, HappenedSoFarStays
<1> QED
  BY <1>3 DEF Shown, Until, till

-----------------------------------------------------------------------------
LEMMA UnitsInitially == UnitsInit => UnitsInv
<1> SUFFICES ASSUME UnitsInit PROVE UnitsInv
  OBVIOUS
<1>1. /\ session = << >> /\ cycle = Quiet /\ earlier = {} /\ prior = 0
      /\ response = Quiet /\ open = 0 /\ units = << >> /\ ended = FALSE
  BY DEF UnitsInit
<1>2. Quiet \in Accumulators
  BY DEF Quiet, Accumulators
<1>3. UnitsTypeOK
  <2>1. \A S : << >> \in Seq(S)
    OBVIOUS
  <2> QED
    BY <1>1, <1>2, <2>1 DEF UnitsTypeOK
<1>4. OperatorTurns = {} /\ Len(session) = 0
  BY <1>1 DEF OperatorTurns
<1>5. HappenedIn(session, 0, 0 + 1) = Quiet
  BY NothingHappened
<1>6. WindowIsRolled
  BY <1>1, <1>4, <1>5 DEF WindowIsRolled, IsBefore, WritesBefore
<1>7. DOMAIN units = {}
  BY <1>1
<1> QED
  BY <1>1, <1>3, <1>4, <1>6, <1>7
     DEF UnitsInv, NeighboursIn, OpenIsLatest, UnitsAreOfTurns, UnitsCarry, UnitsShow

(* A record that is no operator turn joins both accumulators.              *)
LEMMA OtherKeeps ==
  ASSUME UnitsInv, NEW r \in UnitRecords, ReadOther(r)
  PROVE  UnitsInv'
<1> DEFINE n == Len(session)
           T == OperatorTurns
<1>1. /\ r.kind # "operator" /\ ~ended /\ session' = Append(session, r)
      /\ cycle' = Noted(cycle, r, Len(session')) /\ response' = Noted(response, r, Len(session'))
      /\ family' = family /\ earlier' = earlier /\ prior' = prior /\ open' = open
      /\ units' = units /\ ended' = ended
  BY DEF ReadOther, Read
<1>2. UnitsTypeOK
  BY DEF UnitsInv
<1>3. /\ Len(session') = n + 1 /\ n \in Nat
      /\ T' = T /\ T \in SUBSET (1..n)
      /\ \A i \in T : session'[i] = session[i]
  BY <1>1, <1>2, TurnsAfterRecord
<1>4. /\ prior \in Nat /\ prior <= n /\ prior \in T \cup {0}
  BY PlacesOfTurns
<1>5. session \in Seq(UnitRecords) /\ cycle \in Accumulators /\ response \in Accumulators
  BY <1>2 DEF UnitsTypeOK
<1>6. UnitsTypeOK'
  <2>1. session' \in Seq(UnitRecords)
    BY <1>1, <1>5, GrownSession
  <2>2. cycle' \in Accumulators /\ response' \in Accumulators
    BY <1>1, <1>3, <1>5, NotedIsSome
  <2> QED
    BY <1>1, <1>2, <2>1, <2>2 DEF UnitsTypeOK
<1>7. HappenedIn(session', prior, n + 2) = Noted(HappenedIn(session, prior, n + 1), r, n + 1)
  BY <1>1, <1>4, <1>5, HappenedGrows
<1>8. WindowIsRolled'
  <2>1. cycle = HappenedIn(session, prior, n + 1) /\ earlier = WritesBefore(session, T, prior)
        /\ IsBefore(T, n + 1, prior)
    BY DEF UnitsInv, WindowIsRolled
  <2>2. cycle' = HappenedIn(session', prior, n + 2)
    BY <1>1, <1>3, <1>7, <2>1
  <2>3. WritesBefore(session', T, prior) = WritesBefore(session, T, prior)
    BY <1>1, <1>4, WritesStay
  <2>4. IsBefore(T, n + 2, prior)
    <3>1. \A k \in T : k \in Nat /\ k < n + 1 /\ k < n + 2
      BY <1>3
    <3> HIDE DEF T, n
    <3> QED
      BY <2>1, <3>1 DEF IsBefore
  <2>5. Len(session') + 1 = n + 2
    BY <1>3
  <2> HIDE DEF n, T
  <2> QED
    BY <1>1, <1>3, <2>1, <2>2, <2>3, <2>4, <2>5 DEF WindowIsRolled, T
<1>9. OpenIsLatest'
  <2>1. open # 0 => Covers(response, HappenedIn(session, prior, n + 1))
    BY DEF UnitsInv, OpenIsLatest
  <2>2. HappenedIn(session, prior, n + 1) \in Accumulators
    <3>1. n + 1 \in Nat /\ n + 1 <= Len(session) + 1
      BY <1>3
    <3> QED
      BY <1>4, <1>5, <3>1, HappenedIsSome
  <2>3. open # 0 => Covers(response', HappenedIn(session', prior, n + 2))
    BY <1>1, <1>3, <1>5, <1>7, <2>1, <2>2, AccumulatorCovers
  <2>4. Len(session') + 1 = n + 2
    BY <1>3
  <2>5. /\ open # 0 => open = Len(units) /\ units[open].at = prior /\ family = "pollution"
        /\ family = "pollution" => \A u \in DOMAIN units : units[u].at = prior => u = open
    BY <1>1 DEF UnitsInv, OpenIsLatest
  <2> HIDE DEF n
  <2> QED
    BY <1>1, <2>3, <2>4, <2>5 DEF OpenIsLatest
<1>10. NeighboursIn(T)'
  BY <1>3 DEF UnitsInv, NeighboursIn
<1>11. \A u \in DOMAIN units : units[u].at \in T
  BY DEF UnitsInv, UnitsAreOfTurns
<1>12. UnitsAreOfTurns'
  <2>1. {i \in T : session'[i].sampled} = {i \in T : session[i].sampled}
    BY <1>3
  <2> HIDE DEF T
  <2> QED
    BY <1>1, <1>3, <2>1 DEF UnitsInv, UnitsAreOfTurns, T
<1>13. UnitsCarry'
  <2> SUFFICES ASSUME family # "obligation", NEW u \in DOMAIN units
               PROVE  Carried(session', T, units[u])
    BY <1>1, <1>3 DEF UnitsCarry
  <2>1. Carried(session, T, units[u])
    BY DEF UnitsInv, UnitsCarry
  <2> QED
    BY <1>1, <1>11, <2>1, CarriedStays
<1>14. UnitsShow'
  <2> SUFFICES ASSUME family = "pollution", NEW u \in DOMAIN units, FirstAfter(T, units[u].at) # 0
               PROVE  Shown(session', T, units[u])
    BY <1>1, <1>3 DEF UnitsShow
  <2>1. Shown(session, T, units[u])
    BY DEF UnitsInv, UnitsShow
  <2> QED
    BY <1>1, <1>11, <2>1, ShownStays
<1> QED
  BY <1>6, <1>8, <1>9, <1>10, <1>12, <1>13, <1>14 DEF UnitsInv

(* Closing the open response, with the response so far and the place of    *)
(* the next turn, is what the unit was waiting for.                        *)
LEMMA ClosingShows ==
  ASSUME UnitsInv, family = "pollution", NEW u \in DOMAIN units, ~ended,
         FirstAfter(OperatorTurns, units[u].at) = 0
  PROVE  u = open /\ units[u].at = prior
<1>1. units[u].at \in OperatorTurns
  BY DEF UnitsInv, UnitsAreOfTurns
<1>2. units[u].at = prior
  <2>1. /\ OperatorTurns \in SUBSET (1..Len(session)) /\ Len(session) \in Nat /\ prior \in Nat
    BY PlacesOfTurns
  <2>2. NeighboursIn(OperatorTurns) /\ IsBefore(OperatorTurns, Len(session) + 1, prior)
    BY DEF UnitsInv, WindowIsRolled
  <2> QED
    BY <1>1, <2>1, <2>2, TurnAtTheEnd, ZenonT(60)
<1> QED
  BY <1>2 DEF UnitsInv, OpenIsLatest

(* A unit whose turn was followed by another is not the open one.          *)
LEMMA AnsweredIsNotOpen ==
  ASSUME UnitsInv, NEW u \in DOMAIN units, FirstAfter(OperatorTurns, units[u].at) # 0
  PROVE  u # open
<1> SUFFICES ASSUME u = open PROVE FALSE
  OBVIOUS
<1>1. open # 0 /\ units[open].at = prior
  <2>1. open \in 1..Len(units) /\ Len(units) \in Nat
    BY DEF UnitsInv, UnitsTypeOK
  <2> QED
    BY <2>1 DEF UnitsInv, OpenIsLatest
<1>2. IsBefore(OperatorTurns, Len(session) + 1, prior) /\ NeighboursIn(OperatorTurns)
      /\ OperatorTurns \in SUBSET (1..Len(session)) /\ Len(session) \in Nat
  BY PlacesOfTurns DEF UnitsInv, WindowIsRolled
<1>3. prior \in OperatorTurns
  BY <1>1 DEF UnitsInv, UnitsAreOfTurns
<1>4. IsAfter(OperatorTurns, prior, FirstAfter(OperatorTurns, prior))
  BY <1>2, <1>3 DEF NeighboursIn
<1>5. FirstAfter(OperatorTurns, prior) # 0
  BY <1>1
<1>6. /\ FirstAfter(OperatorTurns, prior) \in OperatorTurns
      /\ FirstAfter(OperatorTurns, prior) > prior
  BY <1>4, <1>5 DEF IsAfter
<1>7. \A k \in OperatorTurns : k <= prior
  BY <1>2, <1>3 DEF IsBefore
<1>8. prior \in Nat /\ FirstAfter(OperatorTurns, prior) \in Nat
  BY <1>2, <1>3, <1>6
<1> QED
  BY <1>6, <1>7, <1>8

(* The session ends: the response of the open unit is what it has seen.    *)
LEMMA EndKeeps ==
  ASSUME UnitsInv, EndSession
  PROVE  UnitsInv'
<1>1. /\ ~ended /\ ended' = TRUE /\ units' = Closed(0) /\ open' = 0
      /\ response' = IF open = 0 THEN response ELSE Quiet
      /\ family' = family /\ session' = session /\ cycle' = cycle
      /\ earlier' = earlier /\ prior' = prior
  BY DEF EndSession
<1>2. UnitsTypeOK /\ OpenIsLatest
  BY DEF UnitsInv
<1>3. /\ units' \in Seq(EmittedUnits)
      /\ DOMAIN units' = DOMAIN units
      /\ \A u \in DOMAIN units :
           /\ units'[u].at = units[u].at
           /\ units'[u].context.prior = units[u].context.prior
           /\ units'[u].context.cycle = units[u].context.cycle
           /\ units'[u].context.earlier = units[u].context.earlier
           /\ u # open => units'[u] = units[u]
           /\ u = open => units'[u].context.response = response /\ units'[u].context.next = 0
  BY <1>1, <1>2, ClosedUnits DEF ClosesOne
<1>4. UnitsTypeOK'
  <2>1. Quiet \in Accumulators
    BY DEF Quiet, Accumulators
  <2> QED
    BY <1>1, <1>2, <1>3, <2>1 DEF UnitsTypeOK
<1>5. OperatorTurns' = OperatorTurns
  BY <1>1 DEF OperatorTurns
<1>6. WindowIsRolled' /\ NeighboursIn(OperatorTurns)'
  BY <1>1, <1>5 DEF UnitsInv, WindowIsRolled, NeighboursIn
<1>7. OpenIsLatest'
  BY <1>1 DEF OpenIsLatest
<1>8. UnitsAreOfTurns'
  <2>1. {units'[u].at : u \in DOMAIN units'} = {units[u].at : u \in DOMAIN units}
    BY <1>3
  <2>2. /\ \A u \in DOMAIN units : units[u].at \in OperatorTurns
        /\ {units[u].at : u \in DOMAIN units} = {i \in OperatorTurns : session[i].sampled}
        /\ \A u, v \in DOMAIN units : u < v => units[u].at < units[v].at
    BY DEF UnitsInv, UnitsAreOfTurns
  <2>3. \A u \in DOMAIN units' : units'[u].at \in OperatorTurns'
    BY <1>3, <1>5, <2>2
  <2>4. {i \in OperatorTurns' : session'[i].sampled} = {i \in OperatorTurns : session[i].sampled}
    BY <1>1, <1>5
  <2>5. \A u, v \in DOMAIN units' : u < v => units'[u].at < units'[v].at
    BY <1>3, <2>2
  <2> QED
    BY <2>1, <2>2, <2>3, <2>4, <2>5 DEF UnitsAreOfTurns
<1>9. UnitsCarry'
  BY <1>1, <1>3, <1>5 DEF UnitsInv, UnitsCarry, Carried
<1>10. UnitsShow'
  <2> SUFFICES ASSUME family = "pollution", NEW u \in DOMAIN units
               PROVE  Shown(session, OperatorTurns, units'[u])
    BY <1>1, <1>3, <1>5 DEF UnitsShow
  <2>1. CASE FirstAfter(OperatorTurns, units[u].at) # 0
    <3>1. Shown(session, OperatorTurns, units[u])
      BY <2>1 DEF UnitsInv, UnitsShow
    <3>2. u # open
      BY <2>1, AnsweredIsNotOpen
    <3> QED
      BY <1>3, <3>1, <3>2 DEF Shown
  <2>2. CASE FirstAfter(OperatorTurns, units[u].at) = 0
    <3>1. u = open /\ units[u].at = prior
      BY <1>1, <2>2, ClosingShows
    <3>2. Covers(response, HappenedIn(session, prior, Len(session) + 1))
      BY <1>2, <3>1 DEF UnitsTypeOK, OpenIsLatest
    <3>3. /\ units'[u].at = prior /\ units'[u].context.response = response
          /\ units'[u].context.next = 0
      BY <1>3, <3>1
    <3> QED
      BY <2>2, <3>1, <3>2, <3>3 DEF Shown, Until
  <2> QED
    BY <2>1, <2>2
<1> QED
  BY <1>4, <1>6, <1>7, <1>8, <1>9, <1>10 DEF UnitsInv

-----------------------------------------------------------------------------
(* A turn rolls the window, closes the open response and, sampled, opens   *)
(* its own.                                                                *)
LEMMA TurnContext ==
  ASSUME UnitsInv, NEW context, context = IF family = "obligation" THEN NoContext ELSE Context
  PROVE  /\ context \in Contexts
         /\ family # "obligation" =>
              context.prior = prior /\ context.cycle = cycle /\ context.earlier = earlier
<1>1. Quiet \in Accumulators
  BY DEF Quiet, Accumulators
<1>2. prior \in Nat /\ cycle \in Accumulators /\ earlier \in SUBSET WritePaths
  BY DEF UnitsInv, UnitsTypeOK
<1>3. NoContext \in Contexts
  BY <1>1 DEF NoContext, Contexts
<1>4. Context = [prior |-> prior, cycle |-> cycle, earlier |-> earlier, response |-> Quiet, next |-> 0]
  <2> DEFINE first == [NoContext EXCEPT !.prior = prior]
             second == [first EXCEPT !.cycle = cycle]
  <2>1. Context = [second EXCEPT !.earlier = earlier]
    BY DEF Context
  <2>2. first = [prior |-> prior, cycle |-> Quiet, earlier |-> {}, response |-> Quiet, next |-> 0]
    BY DEF NoContext
  <2> HIDE DEF first
  <2>3. second = [prior |-> prior, cycle |-> cycle, earlier |-> {}, response |-> Quiet, next |-> 0]
    BY <2>2
  <2> HIDE DEF second
  <2> QED
    BY <2>1, <2>3
<1>5. /\ Context \in Contexts
      /\ Context.prior = prior /\ Context.cycle = cycle /\ Context.earlier = earlier
  BY <1>1, <1>2, <1>4 DEF Contexts
<1> QED
  BY <1>3, <1>5

LEMMA TurnKeeps ==
  ASSUME UnitsInv, NEW r \in UnitRecords, ReadTurn(r)
  PROVE  UnitsInv'
<1> DEFINE n == Len(session)
           m == Len(units)
           T == OperatorTurns
           U == T \cup {n + 1}
           Unit == EmittedUnits
           context == IF family = "obligation" THEN NoContext ELSE Context
           unit == [at |-> Len(session'),
                    turn |-> Cardinality({i \in DOMAIN session' : session'[i].kind = "operator"}),
                    context |-> context]
           closed == Closed(n + 1)
<1>1. UnitsTypeOK /\ OpenIsLatest /\ session \in Seq(UnitRecords) /\ units \in Seq(Unit)
      /\ cycle \in Accumulators /\ response \in Accumulators
  BY DEF UnitsInv, UnitsTypeOK
<1>2. r.kind = "operator" /\ ~ended /\ session' = Append(session, r)
      /\ family' = family /\ ended' = ended
      /\ earlier' = cycle.writes /\ cycle' = Quiet /\ prior' = Len(session')
      /\ response' = IF open = 0 THEN response ELSE Quiet
  BY DEF ReadTurn, Read, Roll
<1>3. /\ Len(session') = n + 1 /\ n \in Nat
      /\ T' = U /\ T \in SUBSET (1..n)
      /\ \A i \in T : session'[i] = session[i]
      /\ session'[n + 1] = r
  BY <1>1, <1>2, TurnsAfterRecord
<1>4. units' = (IF r.sampled THEN Append(closed, unit) ELSE closed)
      /\ open' = IF r.sampled /\ family = "pollution" THEN Len(units') ELSE 0
  BY <1>2, <1>3 DEF ReadTurn
<1>5. NeighboursIn(T) /\ IsBefore(T, n + 1, prior) /\ prior \in Nat /\ prior <= n
      /\ prior \in T \cup {0}
  BY PlacesOfTurns DEF UnitsInv, WindowIsRolled
<1>6. /\ NeighboursIn(U)
      /\ \A i \in T : /\ LatestBefore(U, i) = LatestBefore(T, i)
                      /\ FirstAfter(U, i) = IF FirstAfter(T, i) = 0 THEN n + 1
                                            ELSE FirstAfter(T, i)
                      /\ FirstAfter(T, i) = 0 => i = prior
      /\ LatestBefore(U, n + 1) = prior
      /\ FirstAfter(U, n + 1) = 0
      /\ IsBefore(U, n + 2, n + 1)
  BY <1>3, <1>5, TurnAtTheEnd
<1>7. /\ closed \in Seq(Unit)
      /\ Len(closed) = m /\ DOMAIN closed = DOMAIN units
      /\ \A u \in DOMAIN units :
           /\ closed[u].at = units[u].at
           /\ closed[u].context.prior = units[u].context.prior
           /\ closed[u].context.cycle = units[u].context.cycle
           /\ closed[u].context.earlier = units[u].context.earlier
           /\ u # open => closed[u] = units[u]
           /\ u = open => closed[u].context.response = response /\ closed[u].context.next = n + 1
  <2>1. n + 1 \in Nat
    BY <1>3
  <2> QED
    BY <1>1, <2>1, ClosedUnits DEF ClosesOne
<1>8. /\ context \in Contexts
      /\ family # "obligation" =>
           context.prior = prior /\ context.cycle = cycle /\ context.earlier = earlier
  BY TurnContext
<1>9. unit \in Unit /\ unit.at = n + 1 /\ unit.context = context
  <2>1. DOMAIN session' = 1..(n + 1)
    BY <1>1, <1>2, GrownSession
  <2>2. IsFiniteSet({i \in DOMAIN session' : session'[i].kind = "operator"})
    <3>1. IsFiniteSet(1..(n + 1))
      BY <1>3, FS_Interval
    <3> QED
      BY <2>1, <3>1, FS_Subset
  <2>3. Cardinality({i \in DOMAIN session' : session'[i].kind = "operator"}) \in Nat
    BY <2>2, FS_CardinalityType
  <2> HIDE DEF context
  <2> QED
    BY <1>3, <1>8, <2>3 DEF EmittedUnits
<1>10. r.sampled \in BOOLEAN /\ r.writes = {} /\ r.failed = 0
  BY <1>2, PartsOfRecords
<1> HIDE DEF closed, unit, context, Unit
<1>11. /\ units' \in Seq(Unit) /\ m \in Nat /\ DOMAIN units = 1..m
       /\ Len(units') = IF r.sampled THEN m + 1 ELSE m
       /\ DOMAIN units' = IF r.sampled THEN DOMAIN units \cup {m + 1} ELSE DOMAIN units
       /\ \A u \in DOMAIN units : units'[u] = closed[u]
       /\ r.sampled => units'[m + 1] = unit
  <2>1. units \in Seq(Unit) /\ closed \in Seq(Unit) /\ Len(closed) = m /\ unit \in Unit
    BY <1>1, <1>7, <1>9
  <2>2. m \in Nat /\ DOMAIN units = 1..m
    BY <2>1
  <2>3. CASE r.sampled
    <3>1. units' = Append(closed, unit)
      BY <1>4, <2>3
    <3> QED
      BY <2>1, <2>2, <2>3, <3>1
  <2>4. CASE ~r.sampled
    <3>1. units' = closed
      BY <1>4, <2>4
    <3> QED
      BY <2>1, <2>2, <2>4, <3>1
  <2> QED
    BY <2>3, <2>4
<1>12. UnitsTypeOK'
  <2>1. session' \in Seq(UnitRecords)
    BY <1>1, <1>2, GrownSession
  <2>2. Quiet \in Accumulators /\ cycle.writes \in SUBSET WritePaths
    BY <1>1 DEF Quiet, Accumulators
  <2>3. open' \in Nat
    BY <1>4, <1>11
  <2>4. cycle' \in Accumulators /\ response' \in Accumulators
    BY <1>1, <1>2, <2>2
  <2>5. earlier' \in SUBSET WritePaths /\ prior' \in Nat
    BY <1>2, <1>3, <2>2
  <2>6. ended' \in BOOLEAN
    BY <1>1, <1>2 DEF UnitsTypeOK
  <2>7. units' \in Seq(EmittedUnits)
    BY <1>11 DEF Unit
  <2> QED
    BY <2>1, <2>3, <2>4, <2>5, <2>6, <2>7, Zenon DEF UnitsTypeOK
<1>13. HappenedIn(session', prior, n + 1) = HappenedIn(session, prior, n + 1)
  <2>1. prior \in Nat /\ n + 1 \in Nat /\ n + 1 <= Len(session) + 1
    BY <1>3, <1>5
  <2> QED
    BY <1>1, <1>2, <2>1, HappenedSoFarStays
<1>14. cycle = HappenedIn(session, prior, n + 1) /\ earlier = WritesBefore(session, T, prior)
  BY DEF UnitsInv, WindowIsRolled
<1>15. HappenedIn(session', n + 1, n + 2) = Quiet
  <2>1. n + 2 = (n + 1) + 1 /\ n + 1 \in Nat
    BY <1>3
  <2> QED
    BY <2>1, NothingHappened
<1>16. WindowIsRolled'
  <2>1. WritesBefore(session', U, n + 1) = cycle.writes
    BY <1>3, <1>6, <1>13, <1>14 DEF WritesBefore
  <2>2. Len(session') + 1 = n + 2
    BY <1>3
  <2>3. /\ IsBefore(T', Len(session') + 1, prior')
        /\ cycle' = HappenedIn(session', prior', Len(session') + 1)
        /\ earlier' = WritesBefore(session', T', prior')
    BY <1>2, <1>3, <1>6, <1>15, <2>1, <2>2
  <2> QED
    BY <2>3 DEF WindowIsRolled
<1>17. OpenIsLatest'
  <2>1. \A u \in DOMAIN units : units'[u].at <= n
    <3>1. \A u \in DOMAIN units : units'[u].at = units[u].at
      BY <1>7, <1>11
    <3>2. \A u \in DOMAIN units : units[u].at \in T
      BY DEF UnitsInv, UnitsAreOfTurns
    <3>3. \A i \in T : i <= n
      BY <1>3
    <3> QED
      BY <3>1, <3>2, <3>3
  <2>2. ASSUME open' # 0
        PROVE  /\ open' = Len(units') /\ units'[open'].at = prior' /\ family = "pollution"
               /\ Covers(response', HappenedIn(session', prior', Len(session') + 1))
    <3>1. r.sampled /\ family = "pollution" /\ open' = m + 1
      BY <1>4, <1>11, <2>2
    <3>2. response' = IF open = 0 THEN response ELSE Quiet
      BY <1>2
    <3>3. Quiet \in Accumulators
      BY DEF Quiet, Accumulators
    <3>4. Covers(response', Quiet)
      BY <1>1, <3>2, <3>3, AccumulatorCovers
    <3>5. Len(session') + 1 = n + 2
      BY <1>3
    <3> QED
      BY <1>2, <1>3, <1>9, <1>11, <1>15, <3>1, <3>4, <3>5
  <2>3. ASSUME family = "pollution", NEW u \in DOMAIN units', units'[u].at = prior'
        PROVE  u = open'
    <3>1. u \notin DOMAIN units
      BY <1>2, <1>3, <2>1, <2>3
    <3> QED
      BY <1>4, <1>11, <2>3, <3>1
  <2> QED
    BY <1>2, <2>2, <2>3 DEF OpenIsLatest
<1>18. UnitsAreOfTurns'
  <2>1. /\ \A u \in DOMAIN units : units[u].at \in T
        /\ {units[u].at : u \in DOMAIN units} = {i \in T : session[i].sampled}
        /\ \A u, v \in DOMAIN units : u < v => units[u].at < units[v].at
    BY DEF UnitsInv, UnitsAreOfTurns
  <2>2. \A u \in DOMAIN units : units'[u].at = units[u].at
    BY <1>7, <1>11
  <2>3. r.sampled => units'[m + 1].at = n + 1
    BY <1>9, <1>11
  <2>4. \A u \in DOMAIN units' : units'[u].at \in U
    BY <1>11, <2>1, <2>2, <2>3
  <2>5. {units'[u].at : u \in DOMAIN units'} = {i \in U : session'[i].sampled}
    <3>1. {i \in U : session'[i].sampled}
            = {i \in T : session[i].sampled} \cup (IF r.sampled THEN {n + 1} ELSE {})
      BY <1>3
    <3>2. {units'[u].at : u \in DOMAIN units'}
            = {units[u].at : u \in DOMAIN units} \cup (IF r.sampled THEN {n + 1} ELSE {})
      BY <1>11, <2>2, <2>3
    <3> QED
      BY <2>1, <3>1, <3>2
  <2>6. \A u, v \in DOMAIN units' : u < v => units'[u].at < units'[v].at
    <3>1. \A u \in DOMAIN units : units'[u].at < n + 1
      <4>1. \A i \in T : i < n + 1
        BY <1>3
      <4> QED
        BY <2>1, <2>2, <4>1
    <3>2. \A u, v \in DOMAIN units : u < v => units'[u].at < units'[v].at
      BY <2>1, <2>2
    <3>3. \A u \in DOMAIN units' : u \in DOMAIN units \/ (r.sampled /\ u = m + 1)
      BY <1>10, <1>11
    <3>4. ASSUME NEW u \in DOMAIN units', NEW v \in DOMAIN units', u < v
          PROVE  u \in DOMAIN units
      <4>1. \A w \in DOMAIN units : w \in Nat /\ w < m + 1
        BY <1>11
      <4> HIDE DEF m
      <4> QED
        BY <1>11, <3>3, <3>4, <4>1
    <3> QED
      BY <2>3, <3>1, <3>2, <3>3, <3>4
  <2> QED
    BY <1>3, <2>4, <2>5, <2>6 DEF UnitsAreOfTurns
<1>19. UnitsCarry'
  <2> SUFFICES ASSUME family # "obligation", NEW u \in DOMAIN units'
               PROVE  Carried(session', U, units'[u])
    BY <1>2, <1>3 DEF UnitsCarry
  <2>1. CASE u \in DOMAIN units
    <3>1. Carried(session, T, units[u]) /\ units[u].at \in T
      BY <2>1 DEF UnitsInv, UnitsCarry, UnitsAreOfTurns
    <3>2. /\ units'[u].at = units[u].at
          /\ units'[u].context.prior = units[u].context.prior
          /\ units'[u].context.cycle = units[u].context.cycle
          /\ units'[u].context.earlier = units[u].context.earlier
      BY <1>7, <1>11, <2>1
    <3> QED
      BY <1>2, <1>6, <3>1, <3>2, CarriedStays
  <2>2. CASE u \notin DOMAIN units
    <3>1. units'[u].at = n + 1 /\ units'[u].context = context
      BY <1>9, <1>11, <2>2
    <3>2. WritesBefore(session', U, prior) = WritesBefore(session, T, prior)
      BY <1>2, <1>5, <1>6, WritesStay
    <3> QED
      BY <1>6, <1>8, <1>13, <1>14, <3>1, <3>2 DEF Carried
  <2> QED
    BY <2>1, <2>2
<1>20. UnitsShow'
  <2> SUFFICES ASSUME family = "pollution", NEW u \in DOMAIN units',
                      FirstAfter(U, units'[u].at) # 0
               PROVE  Shown(session', U, units'[u])
    BY <1>2, <1>3 DEF UnitsShow
  <2>1. u \in DOMAIN units
    BY <1>6, <1>9, <1>11
  <2>2. units'[u] = closed[u] /\ units'[u].at = units[u].at /\ units[u].at \in T
    BY <1>7, <1>11, <2>1 DEF UnitsInv, UnitsAreOfTurns
  <2>3. CASE FirstAfter(T, units[u].at) # 0
    <3>1. Shown(session, T, units[u])
      BY <2>1, <2>3 DEF UnitsInv, UnitsShow
    <3>2. units'[u] = units[u]
      BY <1>7, <2>1, <2>2, <2>3, AnsweredIsNotOpen
    <3>3. FirstAfter(U, units[u].at) = FirstAfter(T, units[u].at)
      BY <1>6, <2>2, <2>3
    <3>4. Shown(session', U, units[u])
      BY <1>2, <2>2, <2>3, <3>1, <3>3, ShownStays
    <3> QED
      BY <3>2, <3>4
  <2>4. CASE FirstAfter(T, units[u].at) = 0
    <3>1. u = open /\ units[u].at = prior
      BY <1>2, <2>1, <2>4, ClosingShows
    <3>2. Covers(response, HappenedIn(session, prior, n + 1))
      <4>1. open # 0
        BY <1>11, <2>1, <3>1
      <4> QED
        BY <1>1, <4>1 DEF OpenIsLatest
    <3>3. FirstAfter(U, prior) = n + 1 /\ Until(session', n + 1) = n + 1
      BY <1>3, <1>6, <2>2, <2>4, <3>1 DEF Until
    <3>4. /\ units'[u].at = prior /\ units'[u].context.response = response
          /\ units'[u].context.next = n + 1
      BY <1>7, <2>1, <2>2, <3>1
    <3> QED
      BY <1>13, <3>2, <3>3, <3>4 DEF Shown
  <2> QED
    BY <2>3, <2>4
<1> QED
  BY <1>3, <1>6, <1>12, <1>16, <1>17, <1>18, <1>19, <1>20 DEF UnitsInv

LEMMA UnitsInductive == UnitsInv /\ [UnitsNext]_unitVars => UnitsInv'
<1> SUFFICES ASSUME UnitsInv, [UnitsNext]_unitVars PROVE UnitsInv'
  OBVIOUS
<1>1. CASE UnitsNext
  BY <1>1, OtherKeeps, TurnKeeps, EndKeeps DEF UnitsNext
<1>2. CASE UNCHANGED unitVars
  <2>1. /\ family' = family /\ session' = session /\ cycle' = cycle /\ earlier' = earlier
        /\ prior' = prior /\ response' = response /\ open' = open /\ units' = units
        /\ ended' = ended
    BY <1>2 DEF unitVars
  <2>2. OperatorTurns' = OperatorTurns
    BY <2>1 DEF OperatorTurns
  <2>3. UnitsTypeOK' /\ NeighboursIn(OperatorTurns)' /\ WindowIsRolled' /\ OpenIsLatest'
    BY <2>1, <2>2 DEF UnitsInv, UnitsTypeOK, NeighboursIn, WindowIsRolled, OpenIsLatest
  <2>4. UnitsAreOfTurns' /\ UnitsCarry' /\ UnitsShow'
    BY <2>1, <2>2 DEF UnitsInv, UnitsAreOfTurns, UnitsCarry, UnitsShow
  <2> QED
    BY <2>3, <2>4 DEF UnitsInv
<1> QED
  BY <1>1, <1>2

LEMMA UnitsInvShows == UnitsInv => UnitsShowTheirCycle
<1> SUFFICES ASSUME UnitsInv PROVE UnitsShowTheirCycle
  OBVIOUS
<1>1. /\ \A i : TurnBefore(i) = LatestBefore(OperatorTurns, i)
      /\ \A i : TurnAfter(i) = FirstAfter(OperatorTurns, i)
  BY DEF TurnBefore, TurnAfter, LatestBefore, FirstAfter
<1>2. \A from, to : Happened(from, to) = HappenedIn(session, from, to)
  BY DEF Happened, HappenedIn
<1>3. \A i : End(i) = Until(session, FirstAfter(OperatorTurns, i))
  BY <1>1 DEF End, Until
<1>4. UnitsCarryTheirCycle
  <2>1. [u \in DOMAIN units |-> units[u].at] \in [DOMAIN units -> OperatorTurns]
    BY DEF UnitsInv, UnitsAreOfTurns
  <2>2. ASSUME family # "obligation", NEW u \in DOMAIN units
        PROVE  LET at == units[u].at
                   before == TurnBefore(at)
                   context == units[u].context
               IN  /\ context.prior = before
                   /\ context.cycle = Happened(before, at)
                   /\ context.earlier =
                        IF before = 0 THEN {} ELSE Happened(TurnBefore(before), before).writes
    <3>1. Carried(session, OperatorTurns, units[u])
      BY <2>2 DEF UnitsInv, UnitsCarry
    <3> QED
      BY <1>1, <1>2, <3>1 DEF Carried, WritesBefore
  <2> QED
    BY <2>1, <2>2 DEF UnitsInv, UnitsAreOfTurns, UnitsCarryTheirCycle
<1>5. ResponsesAreNotCut
  <2>1. ASSUME NEW u \in DOMAIN units, family = "pollution",
               ended \/ TurnAfter(units[u].at) # 0
        PROVE  /\ units[u].context.next = TurnAfter(units[u].at)
               /\ Covers(units[u].context.response, Happened(units[u].at, End(units[u].at)))
    <3>1. Shown(session, OperatorTurns, units[u])
      BY <1>1, <2>1 DEF UnitsInv, UnitsShow
    <3> QED
      BY <1>1, <1>2, <1>3, <3>1 DEF Shown
  <2> QED
    BY <2>1 DEF ResponsesAreNotCut, Covers
<1> QED
  BY <1>4, <1>5 DEF UnitsShowTheirCycle

(* A unit carries exactly the cycle before its turn and shows all of the   *)
(* response that came after it, however the sample was drawn: EmitUnits    *)
(* runs its accumulators over every record (units.go:143).                 *)
THEOREM UnitsCarryWhatHappened == UnitsSpec => []UnitsShowTheirCycle
<1> QED
  BY UnitsInitially, UnitsInductive, UnitsInvShows, PTL DEF UnitsSpec

-----------------------------------------------------------------------------
(* Scoring. *)

LEMMA NumbersAreReached ==
  ASSUME NEW S, 0 \in S, \A n \in Nat : n \in S => n + 1 \in S
  PROVE  \A n \in Nat : n \in S
<1> DEFINE T == {n \in Nat : n \notin S}
           R == OpToRel(<, Nat)
<1>1. IsWellFoundedOn(R, Nat)
  BY NatLessThanWellFounded
<1>2. SUFFICES ASSUME T # {} PROVE FALSE
  OBVIOUS
<1>3. T \subseteq Nat
  OBVIOUS
<1> HIDE DEF R, T
<1>4. PICK x \in T : \A y \in T : ~ (<<y, x>> \in R)
  BY <1>1, <1>2, <1>3, WFMin
<1>5. x \in Nat /\ x \notin S /\ x # 0
  BY <1>4 DEF T
<1>6. x - 1 \in Nat /\ x - 1 < x /\ (x - 1) + 1 = x
  BY <1>5
<1>7. x - 1 \in T
  BY <1>5, <1>6 DEF T
<1>8. <<x - 1, x>> \in R
  BY <1>5, <1>6 DEF R, OpToRel
<1> QED
  BY <1>4, <1>7, <1>8

(* Labels and predictions, each under its place. *)
Placed(xs) ==
  /\ IsFiniteSet(DOMAIN xs) /\ DOMAIN xs \subseteq Nat \ {0}
  /\ \A i \in DOMAIN xs : xs[i].start \in Nat /\ xs[i].end \in Nat

SharedBy(ls, ps, c) == Shared(ls[c[1]], ps[c[2]])

LEMMA SharedIsNumber ==
  ASSUME NEW l, NEW p, l.start \in Nat, l.end \in Nat, p.start \in Nat, p.end \in Nat
  PROVE  Shared(l, p) \in Nat
  BY DEF Shared, WholeRecord, Greatest, Least

LEMMA CandidateIsPlaced ==
  ASSUME NEW ls, NEW ps, Placed(ls), Placed(ps), NEW c \in Candidates(ls, ps)
  PROVE  /\ c[1] \in DOMAIN ls /\ c[2] \in DOMAIN ps /\ c = <<c[1], c[2]>>
         /\ c[1] \in Nat \ {0} /\ c[2] \in Nat \ {0}
         /\ SharedBy(ls, ps, c) \in Nat /\ ps[c[2]].start \in Nat
<1>1. c[1] \in DOMAIN ls /\ c[2] \in DOMAIN ps /\ c = <<c[1], c[2]>>
  BY DEF Candidates
<1>2. SharedBy(ls, ps, c) \in Nat
  BY <1>1, SharedIsNumber DEF SharedBy, Placed
<1> QED BY <1>1, <1>2 DEF Placed

LEMMA CandidatesFinite ==
  ASSUME NEW ls, NEW ps, Placed(ls), Placed(ps)
  PROVE  IsFiniteSet(Candidates(ls, ps))
<1>1. IsFiniteSet((DOMAIN ls) \X (DOMAIN ps))
  BY FS_Product DEF Placed
<1> QED BY <1>1, FS_Subset DEF Candidates

(* The order of the candidates is strict and total. *)
LEMMA BeforeIsOrder ==
  ASSUME NEW ls, NEW ps, Placed(ls), Placed(ps)
  PROVE  LET C == Candidates(ls, ps)
         IN  /\ \A c \in C : ~Before(ls, ps, c, c)
             /\ \A c, d \in C : c = d \/ Before(ls, ps, c, d) \/ Before(ls, ps, d, c)
             /\ \A c, d, e \in C : Before(ls, ps, c, d) /\ Before(ls, ps, d, e)
                                     => Before(ls, ps, c, e)
             /\ \A c, d \in C : Before(ls, ps, c, d)
                                  => SharedBy(ls, ps, c) >= SharedBy(ls, ps, d)
<1> DEFINE C == Candidates(ls, ps)
           sh(c) == SharedBy(ls, ps, c)
           st(c) == ps[c[2]].start
<1>1. \A c, d \in C : Before(ls, ps, c, d) <=>
        \/ sh(c) > sh(d)
        \/ /\ sh(c) = sh(d)
           /\ \/ st(c) < st(d)
              \/ st(c) = st(d) /\ (c[1] < d[1] \/ (c[1] = d[1] /\ c[2] < d[2]))
  BY DEF Before, SharedBy
<1>2. \A c \in C : sh(c) \in Nat /\ st(c) \in Nat /\ c[1] \in Nat /\ c[2] \in Nat
                     /\ c = <<c[1], c[2]>>
  BY CandidateIsPlaced
<1> HIDE DEF C, sh, st
<1>3. \A c \in C : ~Before(ls, ps, c, c)
  BY <1>1, <1>2
<1>4. ASSUME NEW c \in C, NEW d \in C PROVE c = d \/ Before(ls, ps, c, d) \/ Before(ls, ps, d, c)
  <2>1. (c[1] = d[1] /\ c[2] = d[2]) => c = d
    BY <1>2
  <2> QED BY <1>1, <1>2, <2>1
<1>5. \A c, d, e \in C : Before(ls, ps, c, d) /\ Before(ls, ps, d, e) => Before(ls, ps, c, e)
  BY <1>1, <1>2
<1>6. \A c, d \in C : Before(ls, ps, c, d) => sh(c) >= sh(d)
  BY <1>1, <1>2
<1> QED BY <1>3, <1>4, <1>5, <1>6 DEF C, sh

(* How many candidates come before one. *)
PlaceOf(ls, ps, c) == Cardinality({d \in Candidates(ls, ps) : Before(ls, ps, d, c)})

LEMMA PlacesFollowTheOrder ==
  ASSUME NEW ls, NEW ps, Placed(ls), Placed(ps)
  PROVE  LET C == Candidates(ls, ps)
         IN  /\ \A c \in C : PlaceOf(ls, ps, c) \in Nat
             /\ \A c, d \in C : Before(ls, ps, d, c) => PlaceOf(ls, ps, d) < PlaceOf(ls, ps, c)
<1> DEFINE C == Candidates(ls, ps)
           B(c) == {d \in C : Before(ls, ps, d, c)}
<1>1. IsFiniteSet(C)
  BY CandidatesFinite
<1>2. /\ \A c \in C : ~Before(ls, ps, c, c)
      /\ \A c, d, e \in C : Before(ls, ps, c, d) /\ Before(ls, ps, d, e) => Before(ls, ps, c, e)
  BY BeforeIsOrder
<1>3. \A c : PlaceOf(ls, ps, c) = Cardinality(B(c))
  BY DEF PlaceOf
<1> HIDE DEF C
<1>4. ASSUME NEW c PROVE IsFiniteSet(B(c)) /\ Cardinality(B(c)) \in Nat
  BY <1>1, FS_Subset, FS_CardinalityType
<1>5. ASSUME NEW c \in C, NEW d \in C, Before(ls, ps, d, c)
      PROVE  Cardinality(B(d)) < Cardinality(B(c))
  <2>1. d \notin B(d)
    BY <1>2
  <2>2. B(d) \cup {d} \subseteq B(c)
    BY <1>2, <1>5
  <2> HIDE DEF B
  <2>3. Cardinality(B(d) \cup {d}) = Cardinality(B(d)) + 1
    BY <1>4, <2>1, FS_AddElement
  <2>4. Cardinality(B(d) \cup {d}) <= Cardinality(B(c))
    BY <1>4, <2>2, FS_Subset
  <2> QED BY <1>4, <2>3, <2>4
<1> HIDE DEF B
<1> QED BY <1>3, <1>4, <1>5 DEF C

(* A set of candidates that is taken in order out of D. *)
InOrder(ls, ps, D, taken) ==
  /\ taken \subseteq D
  /\ \A c \in D : c \in taken <=> Free({d \in taken : Before(ls, ps, d, c)}, c)

LEMMA MatchingExists ==
  ASSUME NEW ls, NEW ps, Placed(ls), Placed(ps)
  PROVE  \E taken : InOrder(ls, ps, Candidates(ls, ps), taken)
<1> DEFINE C == Candidates(ls, ps)
           P(c) == PlaceOf(ls, ps, c)
           B(d, c) == Before(ls, ps, d, c)
           D(n) == {c \in C : P(c) < n}
           S == {n \in Nat : \E M : InOrder(ls, ps, D(n), M)}
<1>1. /\ \A c \in C : P(c) \in Nat
      /\ \A c, d \in C : B(d, c) => P(d) < P(c)
  BY PlacesFollowTheOrder
<1>2. IsFiniteSet(C)
  BY CandidatesFinite
<1>3. \A X, M : InOrder(ls, ps, X, M) <=>
        /\ M \subseteq X
        /\ \A c \in X : c \in M <=> Free({d \in M : B(d, c)}, c)
  BY DEF InOrder
<1> HIDE DEF C, P, B
<1>4. 0 \in S
  <2>1. D(0) = {}
    BY <1>1
  <2>2. InOrder(ls, ps, D(0), {})
    BY <1>3, <2>1
  <2> QED BY <2>2
<1>5. ASSUME NEW n \in Nat, n \in S PROVE n + 1 \in S
  <2>1. PICK M : InOrder(ls, ps, D(n), M)
    BY <1>5
  <2> DEFINE new == {c \in C : P(c) = n /\ Free({d \in M : B(d, c)}, c)}
             N == M \cup new
  <2>2. M \subseteq D(n) /\ \A c \in D(n) : c \in M <=> Free({d \in M : B(d, c)}, c)
    BY <2>1, <1>3
  <2>3. N \subseteq D(n + 1)
    BY <1>1, <2>2
  <2>4. ASSUME NEW c \in D(n + 1) PROVE {d \in N : B(d, c)} = {d \in M : B(d, c)}
    BY <1>1, <2>2
  <2>5. ASSUME NEW c \in D(n + 1) PROVE c \in N <=> Free({d \in M : B(d, c)}, c)
    <3>1. CASE P(c) < n
      <4>1. c \in D(n) /\ c \notin new
        BY <1>1, <3>1
      <4> HIDE DEF new, D
      <4> QED BY <4>1, <2>2
    <3>2. CASE P(c) = n
      <4>1. c \notin D(n) /\ c \notin M
        BY <1>1, <3>2, <2>2
      <4> HIDE DEF D
      <4> QED BY <4>1, <3>2, <2>5 DEF D
    <3> QED BY <1>1, <3>1, <3>2
  <2> HIDE DEF new, N, D
  <2>6. InOrder(ls, ps, D(n + 1), N)
    BY <1>3, <2>3, <2>4, <2>5
  <2> QED BY <2>6
<1> HIDE DEF S
<1>6. ASSUME NEW n \in Nat PROVE n \in S
  BY <1>4, <1>5, NumbersAreReached
<1>7. Cardinality(C) \in Nat
  BY <1>2, FS_CardinalityType
<1>8. D(Cardinality(C)) = C
  <2> SUFFICES ASSUME NEW c \in C PROVE P(c) < Cardinality(C)
    OBVIOUS
  <2> DEFINE X == {d \in C : B(d, c)}
  <2>1. c \notin X
    BY <1>1
  <2>2. X \subseteq C /\ IsFiniteSet(X) /\ Cardinality(X) <= Cardinality(C)
    BY <1>2, FS_Subset
  <2>3. Cardinality(X) # Cardinality(C)
    BY <1>2, <2>1, <2>2, FS_Subset
  <2>4. P(c) = Cardinality(X)
    BY DEF P, PlaceOf, C, B
  <2> QED BY <1>1, <1>7, <2>2, <2>3, <2>4
<1> HIDE DEF D
<1>9. Cardinality(C) \in S
  BY <1>6, <1>7
<1> QED BY <1>8, <1>9 DEF S, C

LEMMA MatchedInOrder ==
  ASSUME NEW ls, NEW ps, Placed(ls), Placed(ps)
  PROVE  InOrder(ls, ps, Candidates(ls, ps), Matched(ls, ps))
<1> DEFINE C == Candidates(ls, ps)
           Ok(M) == \A c \in C : c \in M <=> Free({d \in M : Before(ls, ps, d, c)}, c)
<1>1. \E M \in SUBSET C : Ok(M)
  BY MatchingExists DEF InOrder
<1>2. Matched(ls, ps) = CHOOSE M \in SUBSET C : Ok(M)
  BY DEF Matched
<1>3. Matched(ls, ps) \in SUBSET C /\ Ok(Matched(ls, ps))
  <2> HIDE DEF C, Ok
  <2> QED BY <1>1, <1>2
<1> QED BY <1>3 DEF InOrder

(* What is matched is matched once, on both sides; and what is not, lost a *)
(* side to a pair that shares as much.                                     *)
LEMMA MatchedOnce ==
  ASSUME NEW ls, NEW ps, Placed(ls), Placed(ps)
  PROVE  LET M == Matched(ls, ps)
         IN  /\ M \subseteq Candidates(ls, ps)
             /\ \A c, d \in M : c = d \/ (c[1] # d[1] /\ c[2] # d[2])
             /\ \A c \in Candidates(ls, ps) :
                  \E d \in M : /\ d[1] = c[1] \/ d[2] = c[2]
                               /\ SharedBy(ls, ps, d) >= SharedBy(ls, ps, c)
<1> DEFINE C == Candidates(ls, ps)
           M == Matched(ls, ps)
           B(d, c) == Before(ls, ps, d, c)
           sh(c) == SharedBy(ls, ps, c)
<1>1. M \subseteq C /\ \A c \in C : c \in M <=> Free({d \in M : B(d, c)}, c)
  BY MatchedInOrder DEF InOrder
<1>2. /\ \A c, d \in C : c = d \/ B(c, d) \/ B(d, c)
      /\ \A c, d \in C : B(c, d) => sh(c) >= sh(d)
  BY BeforeIsOrder
<1>3. \A c \in C : sh(c) \in Nat
  BY CandidateIsPlaced
<1> HIDE DEF C, M, B, sh
<1>4. \A c, d \in M : B(d, c) => d[1] # c[1] /\ d[2] # c[2]
  BY <1>1 DEF Free
<1>5. \A c, d \in M : c = d \/ (c[1] # d[1] /\ c[2] # d[2])
  BY <1>1, <1>2, <1>4
<1>6. ASSUME NEW c \in C
      PROVE  \E d \in M : (d[1] = c[1] \/ d[2] = c[2]) /\ sh(d) >= sh(c)
  <2>1. CASE c \in M
    BY <2>1, <1>3
  <2>2. CASE c \notin M
    <3>1. PICK d \in {x \in M : B(x, c)} : d[1] = c[1] \/ d[2] = c[2]
      BY <1>1, <2>2 DEF Free
    <3> QED BY <3>1, <1>1, <1>2
  <2> QED BY <2>1, <2>2
<1> QED BY <1>1, <1>5, <1>6 DEF C, M, sh

-----------------------------------------------------------------------------
(* Pairs are counted by one of their sides. *)
LEMMA CountedBySide ==
  ASSUME NEW S, NEW T, IsFiniteSet(T), NEW side,
         \A c \in S : c[side] \in T, \A c, d \in S : c[side] = d[side] => c = d
  PROVE  /\ IsFiniteSet(S) /\ Cardinality(S) <= Cardinality(T)
         /\ (\A t \in T : \E c \in S : c[side] = t) => Cardinality(S) = Cardinality(T)
<1> DEFINE f == [c \in S |-> c[side]]
<1>1. f \in Injection(S, T)
  BY DEF Injection, IsInjective
<1>2. IsFiniteSet(S) /\ Cardinality(S) <= Cardinality(T)
  BY <1>1, FS_Injection
<1>3. ASSUME \A t \in T : \E c \in S : c[side] = t PROVE Cardinality(S) = Cardinality(T)
  <2>1. f \in Surjection(S, T)
    BY <1>3 DEF Surjection
  <2> QED BY <1>1, <2>1, FS_Injection
<1> QED BY <1>2, <1>3

LEMMA CountedApart ==
  ASSUME NEW S, IsFiniteSet(S), NEW T, T \subseteq S
  PROVE  /\ IsFiniteSet(T) /\ IsFiniteSet(S \ T)
         /\ Cardinality(T) \in Nat /\ Cardinality(S \ T) \in Nat /\ Cardinality(S) \in Nat
         /\ Cardinality(S) = Cardinality(T) + Cardinality(S \ T)
<1>1. IsFiniteSet(T) /\ IsFiniteSet(S \ T)
  BY FS_Subset
<1>2. T \cup (S \ T) = S /\ T \cap (S \ T) = {}
  OBVIOUS
<1>3. Cardinality(T \cup (S \ T)) = Cardinality(T) + Cardinality(S \ T) - Cardinality(T \cap (S \ T))
  BY <1>1, FS_Union
<1>4. Cardinality({}) = 0
  BY FS_EmptySet
<1>5. Cardinality(T) \in Nat /\ Cardinality(S \ T) \in Nat /\ Cardinality(S) \in Nat
  BY <1>1, FS_CardinalityType
<1>6. Cardinality(S) = Cardinality(T) + Cardinality(S \ T) - 0
  BY <1>2, <1>3, <1>4
<1>7. Cardinality(S) = Cardinality(T) + Cardinality(S \ T)
  BY <1>5, <1>6
<1> QED BY <1>1, <1>5, <1>7

Judged(ls, ps) == {c \in Align(ls, ps) : c[1] # 0}

LEMMA JudgedOnce ==
  ASSUME NEW ls, NEW ps, Placed(ls), Placed(ps)
  PROVE  LET J == Judged(ls, ps)
         IN  /\ \A c \in J : c[1] \in DOMAIN ls
             /\ \A c, d \in J : c[1] = d[1] => c = d
             /\ \A l \in DOMAIN ls : \E c \in J : c[1] = l
             /\ \A c \in J : c[2] # 0 => c[2] \in DOMAIN ps
             /\ \A c, d \in J : c[2] # 0 /\ c[2] = d[2] => c = d
<1> DEFINE M == Matched(ls, ps)
           L == {<<l, 0>> : l \in {k \in DOMAIN ls : \A c \in M : c[1] # k}}
           J == Judged(ls, ps)
<1>1. /\ \A c \in M : c[1] \in DOMAIN ls /\ c[2] \in DOMAIN ps
      /\ \A c, d \in M : c = d \/ (c[1] # d[1] /\ c[2] # d[2])
  BY MatchedOnce, CandidateIsPlaced
<1>2. 0 \notin DOMAIN ls /\ 0 \notin DOMAIN ps
  BY DEF Placed
<1>3. J = M \cup L
  <2> HIDE DEF M
  <2> QED BY <1>1, <1>2 DEF Judged, Align, M
<1>4. \A c \in L : c[1] \in DOMAIN ls /\ c[2] = 0 /\ c = <<c[1], 0>> /\ \A d \in M : d[1] # c[1]
  OBVIOUS
<1>5. \A l \in DOMAIN ls : (\E c \in M : c[1] = l) \/ <<l, 0>> \in L
  OBVIOUS
<1> HIDE DEF M, L
<1>6. \A c, d \in J : c[1] = d[1] => c = d
  <2> SUFFICES ASSUME NEW c \in J, NEW d \in J, c[1] = d[1] PROVE c = d
    OBVIOUS
  <2>1. CASE c \in L /\ d \in L
    <3>1. c = <<c[1], 0>> /\ d = <<d[1], 0>>
      BY <2>1, <1>4
    <3> QED BY <3>1
  <2>2. CASE c \in M \/ d \in M
    BY <2>2, <1>1, <1>3, <1>4
  <2> QED BY <2>1, <2>2, <1>3
<1>7. ASSUME NEW l \in DOMAIN ls PROVE \E c \in J : c[1] = l
  <2>1. <<l, 0>>[1] = l
    OBVIOUS
  <2> QED BY <1>3, <1>5, <2>1
<1>8. \A c \in J : c[2] # 0 => c \in M
  BY <1>3, <1>4
<1> HIDE DEF J
<1> QED BY <1>1, <1>3, <1>4, <1>6, <1>7, <1>8 DEF J

LEMMA ScoreCounts ==
  ASSUME ScoringAssumption, NEW ls, NEW ps, Placed(ls), Placed(ps)
  PROVE  LET s == Evaluate(ls, ps, Align(ls, ps))
             positives == {l \in DOMAIN ls : ls[l].label \in Positives}
             claims == {p \in DOMAIN ps : ps[p].value \in Positives}
         IN  /\ s.labeled + s.unlabelable = Cardinality(DOMAIN ls)
             /\ s.truePositives + s.falsePositives + s.falseNegatives + s.trueNegatives = s.labeled
             /\ s.labeledPos = Cardinality(positives)
             /\ s.predictedPos <= Cardinality(claims)
<1> DEFINE J == Judged(ls, ps)
           D == {c \in J : ls[c[1]].label # "unlabelable"}
           positive(c) == ls[c[1]].label \in Positives
           claimed(c) == c[2] # 0 /\ ps[c[2]].value \in Positives
           P == {c \in D : positive(c)}
           C == {c \in D : claimed(c)}
           TP == {c \in D : positive(c) /\ claimed(c)}
           FP == {c \in D : ~positive(c) /\ claimed(c)}
           FN == {c \in D : positive(c) /\ ~claimed(c)}
           TN == {c \in D : ~positive(c) /\ ~claimed(c)}
           positives == {l \in DOMAIN ls : ls[l].label \in Positives}
           claims == {p \in DOMAIN ps : ps[p].value \in Positives}
           s == Evaluate(ls, ps, Align(ls, ps))
<1>1. s = [truePositives |-> Cardinality(TP), falsePositives |-> Cardinality(FP),
           falseNegatives |-> Cardinality(FN), trueNegatives |-> Cardinality(TN),
           labeled |-> Cardinality(D), unlabelable |-> Cardinality(J \ D),
           predictedPos |-> Cardinality(TP) + Cardinality(FP),
           labeledPos |-> Cardinality(TP) + Cardinality(FN)]
  BY DEF Evaluate, Judged
<1>2. /\ \A c \in J : c[1] \in DOMAIN ls
      /\ \A c, d \in J : c[1] = d[1] => c = d
      /\ \A l \in DOMAIN ls : \E c \in J : c[1] = l
      /\ \A c \in J : c[2] # 0 => c[2] \in DOMAIN ps
      /\ \A c, d \in J : c[2] # 0 /\ c[2] = d[2] => c = d
  BY JudgedOnce
<1>3. IsFiniteSet(DOMAIN ls) /\ IsFiniteSet(DOMAIN ps)
  BY DEF Placed
<1> HIDE DEF J
<1>4. IsFiniteSet(J) /\ Cardinality(J) = Cardinality(DOMAIN ls)
  BY <1>2, <1>3, CountedBySide
<1>5. D \subseteq J
  OBVIOUS
<1>6. IsFiniteSet(D) /\ Cardinality(D) \in Nat /\ Cardinality(J \ D) \in Nat
        /\ Cardinality(J) = Cardinality(D) + Cardinality(J \ D)
  <2> HIDE DEF D
  <2> QED BY <1>4, <1>5, CountedApart
<1>7. P \subseteq D /\ TP \subseteq P /\ P \ TP = FN /\ FP \subseteq D \ P /\ (D \ P) \ FP = TN
  OBVIOUS
<1>8. C \subseteq D /\ TP \subseteq C /\ C \ TP = FP
  OBVIOUS
<1>9. Cardinality(P) = Cardinality(positives)
  <2>1. "unlabelable" \notin Positives
    BY DEF ScoringAssumption
  <2>2. IsFiniteSet(positives)
    BY <1>3, FS_Subset
  <2>3. \A c \in P : c[1] \in positives
    BY <1>2
  <2>4. \A c, d \in P : c[1] = d[1] => c = d
    BY <1>2
  <2>5. \A l \in positives : \E c \in P : c[1] = l
    BY <1>2, <2>1
  <2> HIDE DEF P, positives
  <2> QED BY <2>2, <2>3, <2>4, <2>5, CountedBySide
<1>10. Cardinality(C) <= Cardinality(claims)
  <2>1. IsFiniteSet(claims)
    BY <1>3, FS_Subset
  <2>2. \A c \in C : c[2] \in claims
    BY <1>2
  <2>3. \A c, d \in C : c[2] = d[2] => c = d
    BY <1>2
  <2> HIDE DEF C, claims
  <2> QED BY <2>1, <2>2, <2>3, CountedBySide
<1> HIDE DEF D, P, C, TP, FP, FN, TN, positives, claims, s
<1>11. /\ IsFiniteSet(P) /\ IsFiniteSet(D \ P)
       /\ Cardinality(P) \in Nat /\ Cardinality(D \ P) \in Nat
       /\ Cardinality(D) = Cardinality(P) + Cardinality(D \ P)
  BY <1>6, <1>7, CountedApart
<1>12. /\ Cardinality(TP) \in Nat /\ Cardinality(FN) \in Nat
       /\ Cardinality(P) = Cardinality(TP) + Cardinality(FN)
  BY <1>7, <1>11, CountedApart
<1>13. /\ Cardinality(FP) \in Nat /\ Cardinality(TN) \in Nat
       /\ Cardinality(D \ P) = Cardinality(FP) + Cardinality(TN)
  BY <1>7, <1>11, CountedApart
<1>14. Cardinality(C) = Cardinality(TP) + Cardinality(FP)
  <2>1. IsFiniteSet(C)
    BY <1>6, <1>8, CountedApart
  <2> QED BY <1>8, <2>1, CountedApart
<1>15. /\ s.truePositives = Cardinality(TP) /\ s.falsePositives = Cardinality(FP)
       /\ s.falseNegatives = Cardinality(FN) /\ s.trueNegatives = Cardinality(TN)
       /\ s.labeled = Cardinality(D) /\ s.unlabelable = Cardinality(J \ D)
       /\ s.predictedPos = Cardinality(TP) + Cardinality(FP)
       /\ s.labeledPos = Cardinality(TP) + Cardinality(FN)
  BY <1>1
<1>16. /\ s.labeled + s.unlabelable = Cardinality(DOMAIN ls)
       /\ s.truePositives + s.falsePositives + s.falseNegatives + s.trueNegatives = s.labeled
       /\ s.labeledPos = Cardinality(positives)
       /\ s.predictedPos <= Cardinality(claims)
  <2>1. s.labeled + s.unlabelable = Cardinality(DOMAIN ls)
    BY <1>4, <1>6, <1>15
  <2>2. Cardinality(TP) + Cardinality(FP) + Cardinality(FN) + Cardinality(TN) = Cardinality(D)
    BY <1>11, <1>12, <1>13
  <2>3. s.truePositives + s.falsePositives + s.falseNegatives + s.trueNegatives = s.labeled
    BY <2>2, <1>15
  <2>4. s.labeledPos = Cardinality(positives)
    BY <1>9, <1>12, <1>15
  <2>5. s.predictedPos <= Cardinality(claims)
    BY <1>10, <1>14, <1>15
  <2> QED BY <2>1, <2>3, <2>4, <2>5
<1> QED BY <1>16 DEF s, positives, claims

-----------------------------------------------------------------------------
ClaimLines ==
  {[record |-> r, start |-> span[1], end |-> span[2], value |-> v] :
     r \in Records, span \in Spans, v \in Classes}

ScoringInv ==
  /\ labels \in Seq(LabelLines) /\ predictions \in Seq(ClaimLines)
  /\ score = NoScoreYet \/ score = Evaluate(Scoped, predictions, Align(Scoped, predictions))

LEMMA LinesHaveSpans ==
  ASSUME ScoringAssumption
  PROVE  /\ \A l \in LabelLines : l.start \in Nat /\ l.end \in Nat
         /\ \A p \in ClaimLines : p.start \in Nat /\ p.end \in Nat
<1> DEFINE lines == {Line(r, span, v) : r \in Records, span \in Spans, v \in Classes \cup {"unlabelable"}}
           fields == {"session", "record", "start", "end", "label", "note", "labeler"}
<1>1. ASSUME NEW l \in lines PROVE l.start \in Nat /\ l.end \in Nat /\ DOMAIN l = fields
  <2>1. PICK r \in Records, span \in Spans, v \in Classes \cup {"unlabelable"} : l = Line(r, span, v)
    OBVIOUS
  <2> HIDE DEF lines
  <2>2. l.start = span[1] /\ l.end = span[2] /\ DOMAIN l = fields
    BY <2>1 DEF Line
  <2> QED BY <2>2 DEF ScoringAssumption
<1>5. LabelLines = lines \cup {[l EXCEPT !.session = "other split"] : l \in lines}
      \cup {[l EXCEPT !.record = ""] : l \in lines} \cup {[l EXCEPT !.labeler = ""] : l \in lines}
      \cup {[l EXCEPT !.label = "unheard of"] : l \in lines} \cup {[l EXCEPT !.note = ""] : l \in lines}
  BY DEF LabelLines
<1> HIDE DEF lines
<1>2. \A l \in LabelLines : \E k \in lines : l.start = k.start /\ l.end = k.end
  <2> SUFFICES ASSUME NEW l \in LabelLines PROVE \E k \in lines : l.start = k.start /\ l.end = k.end
    OBVIOUS
  <2>1. PICK k \in lines : \/ l = k
                           \/ l = [k EXCEPT !.session = "other split"]
                           \/ l = [k EXCEPT !.record = ""]
                           \/ l = [k EXCEPT !.labeler = ""]
                           \/ l = [k EXCEPT !.label = "unheard of"]
                           \/ l = [k EXCEPT !.note = ""]
    BY <1>5
  <2>2. DOMAIN k = fields
    BY <1>1
  <2>3. l.start = k.start /\ l.end = k.end
    BY <2>1, <2>2
  <2> QED BY <2>3
<1>3. \A l \in LabelLines : l.start \in Nat /\ l.end \in Nat
  BY <1>1, <1>2
<1>4. \A p \in ClaimLines : p.start \in Nat /\ p.end \in Nat
  BY DEF ClaimLines, ScoringAssumption
<1> QED BY <1>3, <1>4

LEMMA SidesArePlaced ==
  ASSUME ScoringAssumption, ScoringInv
  PROVE  Placed(Scoped) /\ Placed(predictions)
<1>1. /\ DOMAIN labels = 1..Len(labels) /\ Len(labels) \in Nat
      /\ DOMAIN predictions = 1..Len(predictions) /\ Len(predictions) \in Nat
  BY DEF ScoringInv
<1>2. IsFiniteSet(DOMAIN labels) /\ IsFiniteSet(DOMAIN predictions)
  BY <1>1, FS_Interval
<1>3. /\ \A i \in DOMAIN labels : labels[i].start \in Nat /\ labels[i].end \in Nat
      /\ \A i \in DOMAIN predictions : predictions[i].start \in Nat /\ predictions[i].end \in Nat
  BY LinesHaveSpans DEF ScoringInv
<1>4. Placed(predictions)
  BY <1>1, <1>2, <1>3 DEF Placed
<1>5. DOMAIN Scoped \subseteq DOMAIN labels /\ \A i \in DOMAIN Scoped : Scoped[i] = labels[i]
  BY DEF Scoped, Restrict
<1>6. IsFiniteSet(DOMAIN Scoped)
  BY <1>2, <1>5, FS_Subset
<1>7. Placed(Scoped)
  BY <1>1, <1>3, <1>5, <1>6 DEF Placed
<1> QED BY <1>4, <1>7

LEMMA ScoringInitially == ScoringInit => ScoringInv
  BY DEF ScoringInit, ScoringInv

LEMMA ScoringKeeps ==
  ASSUME ScoringInv, [ScoringNext]_scoringVars
  PROVE  ScoringInv'
<1>1. CASE UNCHANGED scoringVars
  BY <1>1 DEF scoringVars, ScoringInv, Scoped
<1>2. CASE ReadLabel
  <2>1. score' = NoScoreYet /\ predictions' = predictions
    BY <1>2 DEF ReadLabel
  <2>2. labels' = labels \/ \E l \in LabelLines : labels' = Append(labels, l)
    BY <1>2 DEF ReadLabel
  <2>3. labels' \in Seq(LabelLines)
    <3> HIDE DEF LabelLines
    <3> QED BY <2>2 DEF ScoringInv
  <2> QED BY <2>1, <2>3 DEF ScoringInv
<1>3. CASE Claim
  <2>1. score' = NoScoreYet /\ labels' = labels
    BY <1>3 DEF Claim
  <2>2. \E p \in ClaimLines : predictions' = Append(predictions, p)
    BY <1>3 DEF Claim, ClaimLines
  <2>3. predictions' \in Seq(ClaimLines)
    <3> HIDE DEF ClaimLines
    <3> QED BY <2>2 DEF ScoringInv
  <2> QED BY <2>1, <2>3 DEF ScoringInv
<1>4. CASE Score
  <2>1. labels' = labels /\ predictions' = predictions
          /\ score' = Evaluate(Scoped, predictions, Align(Scoped, predictions))
    BY <1>4 DEF Score
  <2>2. Scoped' = Scoped
    BY <2>1 DEF Scoped
  <2>3. score' = Evaluate(Scoped', predictions', Align(Scoped', predictions'))
    BY <2>1, <2>2
  <2> QED BY <2>1, <2>3 DEF ScoringInv
<1> QED BY <1>1, <1>2, <1>3, <1>4 DEF ScoringNext

LEMMA ScoresAreFair ==
  ASSUME ScoringAssumption, ScoringInv
  PROVE  ScoreIsOfTheJudgements
<1> DEFINE ls == Scoped
           ps == predictions
<1>1. Placed(ls) /\ Placed(ps)
  BY SidesArePlaced
<1>2. PairingIsStable
  <2>1. \A c \in Candidates(ls, ps) :
          \E d \in Matched(ls, ps) : /\ d[1] = c[1] \/ d[2] = c[2]
                                     /\ SharedBy(ls, ps, d) >= SharedBy(ls, ps, c)
    BY <1>1, MatchedOnce
  <2> QED BY <2>1 DEF PairingIsStable, SharedBy
<1>3. ASSUME score # NoScoreYet PROVE JudgementsAreCountedOnce
  <2>1. score = Evaluate(ls, ps, Align(ls, ps))
    BY <1>3 DEF ScoringInv
  <2> HIDE DEF ls, ps
  <2>2. /\ score.labeled + score.unlabelable = Cardinality(DOMAIN ls)
        /\ score.truePositives + score.falsePositives + score.falseNegatives + score.trueNegatives = score.labeled
        /\ score.labeledPos = Cardinality({l \in DOMAIN ls : ls[l].label \in Positives})
        /\ score.predictedPos <= Cardinality({p \in DOMAIN ps : ps[p].value \in Positives})
    BY <1>1, <2>1, ScoreCounts
  <2> QED BY <2>2 DEF JudgementsAreCountedOnce, ls, ps
<1>4. score = NoScoreYet => JudgementsAreCountedOnce
  BY DEF JudgementsAreCountedOnce
<1> QED BY <1>2, <1>3, <1>4 DEF ScoreIsOfTheJudgements

(* However labels and predictions overlap, a score counts every label once *)
(* and every counted pair is of one label and one prediction that share    *)
(* text: the matching takes a side once (align.go:51). *)
THEOREM ScoresAreOfTheJudgements == ScoringSpec => []ScoreIsOfTheJudgements
<1> QED BY ScoringAssumption, ScoringInitially, ScoringKeeps, ScoresAreFair, PTL DEF ScoringSpec

-----------------------------------------------------------------------------
(* Labelling. *)

(* What is asked of a batch and of what is returned for it. *)
Judgements == [unit : 1..UnitCount, label : Vocabulary]

Results == [ended : BOOLEAN, failed : BOOLEAN, got : Seq(Judgements)]

Batches == Seq(1..UnitCount)

Frames == [batch : Batches, at : {"first", "retry", "left", "right"}, left : Results]

Distinct(batch) == \A i, j \in DOMAIN batch : batch[i] = batch[j] => i = j

UnitsOf(got) == {got[l].unit : l \in DOMAIN got}

Unrepeated(got) == \A l, k \in DOMAIN got : got[l].unit = got[k].unit => l = k

(* A call on this batch may return this. *)
Fits(result, batch, cut) ==
  /\ Unrepeated(result.got) /\ UnitsOf(result.got) \subseteq ToSet(batch)
  /\ Len(result.got) <= Len(batch)
  /\ result.failed => result.got = <<>>
  /\ ~cut => result.failed \/ Len(result.got) = Len(batch)

HalfOf(frame) == IF frame.at = "left" THEN LeftHalf(frame.batch) ELSE RightHalf(frame.batch)

Halving(frame) == frame.at \in {"left", "right"}

FrameFits(frame, cut) ==
  /\ frame \in Frames /\ Distinct(frame.batch)
  /\ Halving(frame) => cut
  /\ frame.at = "right" => Fits(frame.left, LeftHalf(frame.batch), cut)

(* The calls that have not returned, each on a half of the one before. *)
Chain(calls, cut) ==
  /\ calls \in Seq(Frames)
  /\ \A j \in 1..Len(calls) : FrameFits(calls[j], cut)
  /\ \A j \in 1..Len(calls) - 1 : Halving(calls[j]) /\ calls[j + 1].batch = HalfOf(calls[j])

Apart(batch) == ToSet(batch) \cap (ToSet(presented) \cup UnitsLabelled) = {}

LabellingTypeOK ==
  /\ presented \in Batches /\ Distinct(presented) /\ ToSet(presented) \cap UnitsLabelled = {}
  /\ returned \in Results
  /\ labelled \in Seq(Judgements) /\ Unrepeated(labelled)
  /\ done \in Nat /\ abandoned \in Nat /\ truncated \in BOOLEAN

StackInv ==
  /\ Chain(stack, truncated)
  /\ stack # <<>> =>
       /\ Len(stack[1].batch) = Sent /\ Apart(stack[1].batch)
       /\ ~returned.ended => ~Halving(Innermost)
       /\ returned.ended => Halving(Innermost) /\ Fits(returned, HalfOf(Innermost), truncated)
  /\ stack = <<>> =>
       IF returned.ended
       THEN \E batch \in Batches : Len(batch) = Sent /\ Apart(batch) /\ Fits(returned, batch, truncated)
       ELSE Sent = 0

CountInv ==
  /\ abandoned + Len(labelled) <= done
  /\ ~truncated => abandoned + Len(labelled) = done

FileInv ==
  file.written =>
    \A l, k \in DOMAIN file.labels : l < k => FilePlace[file.labels[l].unit] < FilePlace[file.labels[k].unit]

LabellingInv == LabellingTypeOK /\ StackInv /\ CountInv /\ FileInv

-----------------------------------------------------------------------------
LEMMA FileIsSorted ==
  ASSUME FilePlaceAssumption, NEW out \in Seq(Judgements), Unrepeated(out)
  PROVE  LET f == InFileOrder(out)
         IN  \A l, k \in DOMAIN f : l < k => FilePlace[f[l].unit] < FilePlace[f[k].unit]
<1> DEFINE n == Len(out)
           place(i) == FilePlace[out[i].unit]
           before(i, j) == place(i) < place(j) \/ (place(i) = place(j) /\ i < j)
           R(i) == {j \in 1..n : before(j, i)}
           r == [i \in 1..n |-> Cardinality(R(i))]
           at == [k \in 1..n |-> CHOOSE i \in 1..n : Cardinality(R(i)) = k - 1]
           f == InFileOrder(out)
<1>1. n \in Nat /\ DOMAIN out = 1..n /\ \A i \in 1..n : out[i] \in Judgements
  OBVIOUS
<1>2. \A i \in 1..n : place(i) \in Int
  <2>1. \A i \in 1..n : out[i].unit \in 1..UnitCount
    BY <1>1 DEF Judgements
  <2> QED BY <2>1 DEF FilePlaceAssumption
<1>3. \A i, j \in 1..n : place(i) = place(j) => i = j
  <2> SUFFICES ASSUME NEW i \in 1..n, NEW j \in 1..n, place(i) = place(j) PROVE i = j
    OBVIOUS
  <2>1. out[i].unit \in 1..UnitCount /\ out[j].unit \in 1..UnitCount
    BY <1>1 DEF Judgements
  <2>2. out[i].unit = out[j].unit
    BY <2>1 DEF FilePlaceAssumption
  <2> QED BY <1>1, <2>2 DEF Unrepeated
<1>4. f = [k \in 1..n |-> out[at[k]]]
  BY <1>1 DEF InFileOrder
<1>5. IsFiniteSet(1..n) /\ Cardinality(1..n) = n
  <2> HIDE DEF n
  <2> QED BY <1>1, FS_Interval
<1> HIDE DEF n, place, f
<1>6. \A i, j \in 1..n : before(i, j) <=> place(i) < place(j)
  BY <1>2, <1>3
<1> HIDE DEF before
<1>7. ASSUME NEW i \in 1..n
      PROVE  IsFiniteSet(R(i)) /\ Cardinality(R(i)) \in 0..n - 1
  <2>1. i \notin R(i) /\ R(i) \subseteq 1..n
    BY <1>2, <1>6
  <2>2. IsFiniteSet(R(i)) /\ Cardinality(R(i)) \in Nat
    BY <1>5, <2>1, FS_Subset, FS_CardinalityType
  <2>3. Cardinality(R(i)) <= n /\ Cardinality(R(i)) # n
    <3> DEFINE D == 1..n
    <3>1. IsFiniteSet(D) /\ Cardinality(D) = n /\ R(i) \subseteq D /\ R(i) # D
      BY <1>5, <2>1
    <3> HIDE DEF R, D
    <3>2. Cardinality(R(i)) <= n /\ (Cardinality(R(i)) = n => R(i) = D)
      BY <3>1, FS_Subset
    <3> QED BY <3>1, <3>2
  <2> QED BY <1>1, <2>2, <2>3
<1>8. ASSUME NEW i \in 1..n, NEW j \in 1..n, place(i) < place(j)
      PROVE  Cardinality(R(i)) < Cardinality(R(j))
  <2>1. i \notin R(i) /\ R(i) \cup {i} \subseteq R(j)
    BY <1>2, <1>6, <1>8
  <2>2. Cardinality(R(i) \cup {i}) = Cardinality(R(i)) + 1
    BY <1>7, <2>1, FS_AddElement
  <2>3. Cardinality(R(i) \cup {i}) <= Cardinality(R(j))
    BY <1>7, <2>1, FS_Subset
  <2>4. Cardinality(R(i)) \in Int /\ Cardinality(R(j)) \in Int
    <3> HIDE DEF R
    <3> QED BY <1>1, <1>7
  <2> HIDE DEF R
  <2> QED BY <2>2, <2>3, <2>4
<1>9. \A i \in 1..n : r[i] = Cardinality(R(i))
  OBVIOUS
<1>10. r \in [1..n -> 0..n - 1]
  BY <1>7
<1>11. \A k \in 1..n : at[k] = CHOOSE i \in 1..n : Cardinality(R(i)) = k - 1
  OBVIOUS
<1> HIDE DEF R, r, at
<1>12. r \in Injection(1..n, 0..n - 1)
  <2>1. ASSUME NEW i \in 1..n, NEW j \in 1..n, r[i] = r[j] PROVE i = j
    <3>1. ~(place(i) < place(j)) /\ ~(place(j) < place(i))
      BY <1>7, <1>8, <1>9, <2>1
    <3> QED BY <1>2, <1>3, <3>1
  <2> QED BY <1>10, <2>1 DEF Injection, IsInjective
<1>13. r \in Surjection(1..n, 0..n - 1)
  <2>1. IsFiniteSet(0..n - 1) /\ Cardinality(0..n - 1) = n
    BY <1>1, FS_Interval
  <2> QED BY <1>5, <1>12, <2>1, FS_Injection
<1>14. ASSUME NEW k \in 1..n PROVE at[k] \in 1..n /\ r[at[k]] = k - 1
  <2>1. \E i \in 1..n : Cardinality(R(i)) = k - 1
    <3>1. k - 1 \in 0..n - 1
      BY <1>1
    <3> QED BY <3>1, <1>9, <1>13 DEF Surjection
  <2>2. at[k] \in 1..n /\ Cardinality(R(at[k])) = k - 1
    BY <2>1, <1>11
  <2> QED BY <2>2, <1>9
<1>15. ASSUME NEW l \in 1..n, NEW k \in 1..n, l < k PROVE place(at[l]) < place(at[k])
  <2>1. r[at[l]] < r[at[k]] /\ at[l] \in 1..n /\ at[k] \in 1..n
    BY <1>14, <1>15
  <2>2. at[l] # at[k] /\ ~(place(at[k]) < place(at[l]))
    BY <2>1, <1>7, <1>8, <1>9
  <2> QED BY <2>1, <2>2, <1>2, <1>3
<1>16. DOMAIN f = 1..n /\ \A k \in 1..n : FilePlace[f[k].unit] = place(at[k])
  BY <1>4 DEF place
<1> QED BY <1>15, <1>16 DEF f

-----------------------------------------------------------------------------
LEMMA PartOfASequence ==
  ASSUME NEW S, NEW s \in Seq(S), NEW i \in Nat \ {0}, NEW j \in Nat, i <= j + 1, j <= Len(s),
         NEW x, x = SubSeq(s, i, j)
  PROVE  /\ x \in Seq(S) /\ Len(x) = j - i + 1 /\ DOMAIN x = 1..j - i + 1
         /\ \A k \in 1..j - i + 1 : x[k] = s[i + k - 1]
<1>1. \A k \in i..j : s[k] \in S
  <2>1. Len(s) \in Nat /\ \A k \in 1..Len(s) : s[k] \in S
    OBVIOUS
  <2> QED BY <2>1
<1>2. /\ x \in Seq(S) /\ Len(x) = (IF i <= j THEN j - i + 1 ELSE 0)
      /\ \A k \in 1..j - i + 1 : x[k] = s[i + k - 1]
  BY <1>1, SubSeqProperties
<1>3. Len(x) = j - i + 1
  BY <1>2
<1>4. DOMAIN x = 1..Len(x)
  BY <1>2
<1> QED BY <1>2, <1>3, <1>4

(* The two parts of a batch are batches of their own, and have no unit in common. *)
AreSplit(batch, x, y) ==
  /\ x \in Batches /\ Distinct(x) /\ y \in Batches /\ Distinct(y)
  /\ ToSet(x) \subseteq ToSet(batch) /\ ToSet(y) \subseteq ToSet(batch)
  /\ ToSet(x) \cap ToSet(y) = {}
  /\ Len(x) + Len(y) = Len(batch) /\ Len(x) \in Nat /\ Len(y) \in Nat

LEMMA SplitApart ==
  ASSUME NEW batch \in Batches, Distinct(batch), NEW h \in 0..Len(batch),
         NEW x, x = SubSeq(batch, 1, h), NEW y, y = SubSeq(batch, h + 1, Len(batch))
  PROVE  AreSplit(batch, x, y) /\ Len(x) = h
<1> DEFINE n == Len(batch)
<1>1. n \in Nat /\ DOMAIN batch = 1..n
  BY DEF Batches
<1>2. h \in 0..n
  OBVIOUS
<1>3. x = SubSeq(batch, 1, h) /\ y = SubSeq(batch, h + 1, n)
  OBVIOUS
<1> HIDE DEF n
<1>4. /\ x \in Batches /\ Len(x) = h /\ DOMAIN x = 1..h
      /\ \A i \in 1..h : x[i] = batch[i]
  <2> DEFINE S == 1..UnitCount
  <2>1. batch \in Seq(S) /\ 1 \in Nat \ {0} /\ h \in Nat /\ 1 <= h + 1 /\ h <= Len(batch)
    BY <1>1, <1>2 DEF Batches, n
  <2> HIDE DEF S
  <2>2. /\ x \in Seq(S) /\ Len(x) = h - 1 + 1 /\ DOMAIN x = 1..h - 1 + 1
        /\ \A k \in 1..h - 1 + 1 : x[k] = batch[1 + k - 1]
    BY <2>1, <1>3, PartOfASequence
  <2>3. h - 1 + 1 = h /\ \A k \in 1..h : 1 + k - 1 = k
    BY <2>1
  <2> QED BY <2>2, <2>3 DEF Batches, S
<1>5. /\ y \in Batches /\ Len(y) = n - h /\ DOMAIN y = 1..n - h
      /\ \A i \in 1..n - h : y[i] = batch[h + i]
  <2> DEFINE S == 1..UnitCount
  <2>1. batch \in Seq(S) /\ h + 1 \in Nat \ {0} /\ n \in Nat /\ h + 1 <= n + 1 /\ n <= Len(batch)
    BY <1>1, <1>2 DEF Batches, n
  <2> HIDE DEF S
  <2>2. /\ y \in Seq(S) /\ Len(y) = n - (h + 1) + 1 /\ DOMAIN y = 1..n - (h + 1) + 1
        /\ \A k \in 1..n - (h + 1) + 1 : y[k] = batch[(h + 1) + k - 1]
    BY <2>1, <1>3, PartOfASequence
  <2>3. n - (h + 1) + 1 = n - h /\ \A k \in 1..n - h : (h + 1) + k - 1 = h + k
    BY <1>1, <1>2
  <2> QED BY <2>2, <2>3 DEF Batches, S
<1>6. \A i \in 1..h : i \in 1..n
  BY <1>1, <1>2
<1>7. \A i \in 1..n - h : h + i \in 1..n /\ h + i > h
  BY <1>1, <1>2
<1>8. Distinct(x)
  BY <1>1, <1>4, <1>6 DEF Distinct
<1>9. Distinct(y)
  <2> SUFFICES ASSUME NEW i \in 1..n - h, NEW j \in 1..n - h, y[i] = y[j] PROVE i = j
    BY <1>5 DEF Distinct
  <2>1. h + i = h + j
    BY <1>1, <1>5, <1>7, ZenonT(60) DEF Distinct
  <2> QED BY <1>2, <2>1
<1>10. ToSet(x) \subseteq ToSet(batch) /\ ToSet(y) \subseteq ToSet(batch)
  BY <1>1, <1>4, <1>5, <1>6, <1>7 DEF ToSet
<1>11. ToSet(x) \cap ToSet(y) = {}
  <2>0. (\A v \in ToSet(x) : \E i \in 1..h : v = x[i]) /\ (\A v \in ToSet(y) : \E j \in 1..n - h : v = y[j])
    BY <1>4, <1>5 DEF ToSet
  <2>1. ASSUME NEW i \in 1..h, NEW j \in 1..n - h, x[i] = y[j] PROVE FALSE
    <3>1. i \in 1..n /\ h + j \in 1..n /\ batch[i] = batch[h + j]
      BY <2>1, <1>4, <1>5, <1>6, <1>7
    <3>2. i = h + j
      BY <3>1, <1>1 DEF Distinct
    <3> QED BY <1>2, <3>2
  <2>2. ASSUME NEW v, v \in ToSet(x), v \in ToSet(y) PROVE FALSE
    <3>1. PICK i \in 1..h : v = x[i]
      BY <2>0, <2>2
    <3>2. PICK j \in 1..n - h : v = y[j]
      BY <2>0, <2>2
    <3> QED BY <2>1, <3>1, <3>2
  <2> QED BY <2>2
<1>12. Len(x) + Len(y) = n /\ Len(x) \in Nat /\ Len(y) \in Nat
  <2>1. Len(x) = h /\ Len(y) = n - h /\ h \in Nat /\ n - h \in Nat
    BY <1>1, <1>2, <1>4, <1>5
  <2>2. \A p, q \in Nat : p + (q - p) = q
    OBVIOUS
  <2>3. h + (n - h) = n
    BY <2>1, <2>2, <1>1
  <2> HIDE DEF n
  <2> QED BY ONLY <2>1, <2>3
<1>13. x \in Batches /\ y \in Batches /\ Len(x) = h
  BY <1>4, <1>5
<1> QED BY <1>13, <1>8, <1>9, <1>10, <1>11, <1>12 DEF AreSplit, n

LEMMA HalvesAreApart ==
  ASSUME NEW batch \in Batches, Distinct(batch)
  PROVE  AreSplit(batch, LeftHalf(batch), RightHalf(batch))
<1> DEFINE n == Len(batch)
           h == Half(batch)
<1>1. n \in Nat
  BY DEF Batches
<1>2. h \in 0..n
  <2> HIDE DEF n
  <2> QED BY <1>1 DEF Half, n
<1> HIDE DEF h
<1> QED BY <1>2, SplitApart DEF LeftHalf, RightHalf, h

(* Two sequences of labels with no unit in common. *)
AreJoined(a, b, g) ==
  /\ g \in Seq(Judgements) /\ Unrepeated(g) /\ UnitsOf(g) = UnitsOf(a) \cup UnitsOf(b)
  /\ Len(g) = Len(a) + Len(b) /\ Len(a) \in Nat /\ Len(b) \in Nat

LEMMA JoinedOnce ==
  ASSUME NEW a \in Seq(Judgements), NEW b \in Seq(Judgements), Unrepeated(a), Unrepeated(b),
         UnitsOf(a) \cap UnitsOf(b) = {}, NEW g, g = a \o b
  PROVE  AreJoined(a, b, g)
<1> DEFINE m == Len(a)
           k == Len(b)
<1>4. m \in Nat /\ k \in Nat /\ DOMAIN a = 1..m /\ DOMAIN b = 1..k
  OBVIOUS
<1>5. g \in Seq(Judgements) /\ Len(g) = m + k /\ DOMAIN g = 1..m + k
        /\ (\A i \in 1..m : g[i] = a[i])
        /\ (\A i \in m + 1..m + k : g[i] = b[i - m])
  OBVIOUS
<1> HIDE DEF m, k
<1>6. \A i \in m + 1..m + k : i - m \in 1..k
  BY <1>4
<1>7. UnitsOf(g) = UnitsOf(a) \cup UnitsOf(b)
  <2>1. UnitsOf(g) \subseteq UnitsOf(a) \cup UnitsOf(b)
    <3> SUFFICES ASSUME NEW i \in 1..m + k PROVE g[i].unit \in UnitsOf(a) \cup UnitsOf(b)
      BY <1>5 DEF UnitsOf
    <3>1. CASE i \in 1..m
      BY <3>1, <1>4, <1>5 DEF UnitsOf
    <3>2. CASE i \in m + 1..m + k
      BY <3>2, <1>4, <1>5, <1>6 DEF UnitsOf
    <3> QED BY <3>1, <3>2, <1>4
  <2>2. ASSUME NEW i \in 1..m PROVE a[i].unit \in UnitsOf(g)
    <3>1. i \in 1..m + k /\ g[i] = a[i]
      BY <1>4, <1>5
    <3> QED BY <3>1, <1>5 DEF UnitsOf
  <2>3. ASSUME NEW i \in 1..k PROVE b[i].unit \in UnitsOf(g)
    <3>1. m + i \in m + 1..m + k /\ m + i \in 1..m + k /\ (m + i) - m = i
      BY <1>4
    <3>2. g[m + i] = b[i]
      BY <3>1, <1>5
    <3> QED BY <3>1, <3>2, <1>5 DEF UnitsOf
  <2>4. UnitsOf(a) \subseteq UnitsOf(g) /\ UnitsOf(b) \subseteq UnitsOf(g)
    BY <2>2, <2>3, <1>4 DEF UnitsOf
  <2> QED BY <2>1, <2>4
<1>8. Unrepeated(g)
  <2> SUFFICES ASSUME NEW i \in 1..m + k, NEW j \in 1..m + k, g[i].unit = g[j].unit PROVE i = j
    BY <1>5 DEF Unrepeated
  <2>1. CASE i \in 1..m /\ j \in 1..m
    BY <2>1, <1>4, <1>5 DEF Unrepeated
  <2>2. CASE i \in m + 1..m + k /\ j \in m + 1..m + k
    <3>0. i - m \in 1..k /\ j - m \in 1..k /\ b[i - m].unit = b[j - m].unit
      BY <2>2, <1>5, <1>6
    <3>1. i - m = j - m
      BY <3>0, <1>4 DEF Unrepeated
    <3> QED BY <3>1, <2>2, <1>4
  <2>3. CASE i \in 1..m /\ j \in m + 1..m + k
    <3>1. g[i].unit \in UnitsOf(a) /\ g[j].unit \in UnitsOf(b)
      BY <2>3, <1>4, <1>5, <1>6 DEF UnitsOf
    <3> QED BY <3>1
  <2>4. CASE j \in 1..m /\ i \in m + 1..m + k
    <3>1. g[j].unit \in UnitsOf(a) /\ g[i].unit \in UnitsOf(b)
      BY <2>4, <1>4, <1>5, <1>6 DEF UnitsOf
    <3> QED BY <3>1
  <2> QED BY <2>1, <2>2, <2>3, <2>4, <1>4
<1> QED BY <1>4, <1>5, <1>7, <1>8 DEF AreJoined, m, k

(* What both halves returned fits the whole. *)
LEMMA HalvesFitTogether ==
  ASSUME NEW batch \in Batches, Distinct(batch),
         NEW left \in Results, Fits(left, LeftHalf(batch), TRUE),
         NEW right \in Results, Fits(right, RightHalf(batch), TRUE)
  PROVE  LET result == [ended |-> TRUE, failed |-> FALSE, got |-> left.got \o right.got]
         IN  result \in Results /\ Fits(result, batch, TRUE)
<1> DEFINE a == left.got
           b == right.got
           g == a \o b
           x == LeftHalf(batch)
           y == RightHalf(batch)
           result == [ended |-> TRUE, failed |-> FALSE, got |-> g]
<1>1. a \in Seq(Judgements) /\ b \in Seq(Judgements)
  BY DEF Results
<1>2. /\ Unrepeated(a) /\ UnitsOf(a) \subseteq ToSet(x) /\ Len(a) <= Len(x)
      /\ Unrepeated(b) /\ UnitsOf(b) \subseteq ToSet(y) /\ Len(b) <= Len(y)
  BY DEF Fits
<1>3. AreSplit(batch, x, y)
  BY HalvesAreApart
<1> HIDE DEF a, b, x, y
<1>4. AreJoined(a, b, g)
  BY <1>1, <1>2, <1>3, JoinedOnce DEF AreSplit
<1> HIDE DEF g
<1>5. UnitsOf(g) \subseteq ToSet(batch) /\ Len(g) <= Len(batch)
  BY <1>2, <1>3, <1>4 DEF AreSplit, AreJoined
<1>6. result \in Results
  BY <1>4 DEF AreJoined, Results
<1>7. Fits(result, batch, TRUE)
  BY <1>4, <1>5 DEF AreJoined, Fits
<1> QED BY <1>6, <1>7 DEF g, a, b

(* A whole reply fits its batch, wherever it is read. *)
LEMMA WholeReplyFits ==
  ASSUME NEW batch \in Batches, Distinct(batch), NEW cut,
         NEW reply \in Replies(Len(batch)), Whole(reply, batch)
  PROVE  LET result == [ended |-> TRUE, failed |-> FALSE, got |-> LabelsOf(reply, batch)]
         IN  result \in Results /\ Fits(result, batch, cut)
<1> DEFINE n == Len(batch)
           g == LabelsOf(reply, batch)
           result == [ended |-> TRUE, failed |-> FALSE, got |-> g]
<1>1. n \in Nat /\ DOMAIN batch = 1..n /\ \A i \in 1..n : batch[i] \in 1..UnitCount
  <2> DEFINE S == 1..UnitCount
  <2>1. batch \in Seq(S)
    BY DEF Batches
  <2> HIDE DEF S
  <2>2. Len(batch) \in Nat /\ DOMAIN batch = 1..Len(batch) /\ \A i \in 1..Len(batch) : batch[i] \in S
    BY <2>1
  <2> QED BY <2>2 DEF S
<1>2. PICK m \in 0..n : reply \in [1..m -> Answers(n)]
  BY DEF Replies
<1>3. m \in Nat /\ DOMAIN reply = 1..m /\ Len(reply) = m
  <2> DEFINE A == Answers(n)
  <2>1. m \in Nat /\ reply \in [1..m -> A]
    BY <1>1, <1>2
  <2> HIDE DEF A
  <2>2. reply \in Seq(A)
    BY <2>1
  <2>3. Len(reply) = m
    BY <2>1, <2>2
  <2> QED BY <2>1, <2>3
<1>4. /\ \A l \in 1..m : reply[l].i \in 1..n /\ reply[l].label \in Vocabulary
      /\ \A l, k \in 1..m : reply[l].i = reply[k].i => l = k
      /\ m = n
  BY <1>1, <1>3 DEF Whole
<1>5. g = [l \in 1..m |-> [unit |-> batch[reply[l].i], label |-> reply[l].label]]
  BY <1>3 DEF LabelsOf
<1> HIDE DEF g, n
<1>6. \A l \in 1..m : g[l] \in Judgements /\ g[l].unit = batch[reply[l].i]
  BY <1>1, <1>4, <1>5 DEF Judgements
<1>7. g \in Seq(Judgements) /\ Len(g) = m /\ DOMAIN g = 1..m
  <2>1. g \in [1..m -> Judgements]
    BY <1>5, <1>6
  <2> QED BY <1>3, <2>1
<1>8. Unrepeated(g)
  BY <1>1, <1>4, <1>6, <1>7 DEF Unrepeated, Distinct
<1>9. UnitsOf(g) \subseteq ToSet(batch)
  BY <1>1, <1>4, <1>6, <1>7 DEF UnitsOf, ToSet
<1>10. result \in Results
  BY <1>7 DEF Results
<1>11. Fits(result, batch, cut)
  BY <1>4, <1>7, <1>8, <1>9, <1>3 DEF Fits, n
<1> QED BY <1>10, <1>11 DEF g

LEMMA FailedFits ==
  ASSUME NEW batch \in Batches, NEW cut
  PROVE  Failed \in Results /\ Fits(Failed, batch, cut)
<1>1. Len(batch) \in Nat
  BY DEF Batches
<1> QED BY <1>1 DEF Failed, Results, Fits, Unrepeated, UnitsOf

LEMMA FitsCut ==
  ASSUME NEW result, NEW batch, NEW cut, Fits(result, batch, cut)
  PROVE  Fits(result, batch, TRUE)
  BY DEF Fits

-----------------------------------------------------------------------------
LEMMA ChainShrinks ==
  ASSUME NEW calls, NEW cut, Chain(calls, cut), calls # <<>>
  PROVE  LET n == Len(calls)
             r == Front(calls)
         IN  /\ Chain(r, cut) /\ Len(r) = n - 1 /\ n \in Nat \ {0}
             /\ \A i \in 1..n - 1 : r[i] = calls[i]
             /\ r = <<>> <=> n = 1
             /\ FrameFits(Last(calls), cut) /\ Last(calls) = calls[n]
             /\ n > 1 => Halving(r[n - 1]) /\ HalfOf(r[n - 1]) = Last(calls).batch
<1> DEFINE n == Len(calls)
           r == Front(calls)
<1>1. n \in Nat /\ n # 0 /\ calls \in Seq(Frames)
  <2>1. calls \in Seq(Frames) /\ calls # <<>>
    BY DEF Chain
  <2> QED BY <2>1
<1>2. r \in Seq(Frames) /\ Len(r) = n - 1 /\ \A i \in 1..n - 1 : r[i] = calls[i]
  <2>1. r = SubSeq(calls, 1, n - 1)
    BY DEF Front
  <2> HIDE DEF n, r
  <2>2. n - 1 \in Nat /\ 1 <= (n - 1) + 1 /\ n - 1 <= Len(calls) /\ 1 \in Nat \ {0}
    BY <1>1 DEF n
  <2>3. /\ r \in Seq(Frames) /\ Len(r) = (n - 1) - 1 + 1
        /\ \A i \in 1..(n - 1) - 1 + 1 : r[i] = calls[1 + i - 1]
    BY <2>1, <2>2, <1>1, PartOfASequence
  <2>4. (n - 1) - 1 + 1 = n - 1 /\ \A i \in 1..n - 1 : 1 + i - 1 = i
    BY <1>1
  <2> QED BY <2>3, <2>4
<1>3. Last(calls) = calls[n]
  BY DEF Last
<1> HIDE DEF n, r
<1>4. Chain(r, cut)
  <2>1. \A j \in 1..n - 1 : FrameFits(r[j], cut)
    BY <1>1, <1>2 DEF Chain, n
  <2>2. \A j \in 1..(n - 1) - 1 : Halving(r[j]) /\ r[j + 1].batch = HalfOf(r[j])
    <3> SUFFICES ASSUME NEW j \in 1..(n - 1) - 1 PROVE Halving(r[j]) /\ r[j + 1].batch = HalfOf(r[j])
      OBVIOUS
    <3>1. j \in 1..n - 1 /\ j + 1 \in 1..n - 1
      BY <1>1
    <3>2. r[j] = calls[j] /\ r[j + 1] = calls[j + 1]
      BY <1>2, <3>1
    <3> QED BY <3>1, <3>2 DEF Chain, n
  <2> QED BY <1>2, <2>1, <2>2 DEF Chain
<1>5. FrameFits(calls[n], cut)
  BY <1>1 DEF Chain, n
<1>6. n > 1 => Halving(r[n - 1]) /\ HalfOf(r[n - 1]) = calls[n].batch
  <2> SUFFICES ASSUME n > 1 PROVE Halving(r[n - 1]) /\ HalfOf(r[n - 1]) = calls[n].batch
    OBVIOUS
  <2>1. n - 1 \in 1..n - 1 /\ (n - 1) + 1 = n
    BY <1>1
  <2>2. r[n - 1] = calls[n - 1]
    BY <1>2, <2>1
  <2> QED BY <2>1, <2>2 DEF Chain, n
<1>7. r = <<>> <=> n = 1
  BY <1>1, <1>2
<1> QED BY <1>1, <1>2, <1>3, <1>4, <1>5, <1>6, <1>7 DEF n, r

Grows(calls, frame, r) ==
  /\ Len(r) = Len(calls) + 1 /\ Len(calls) \in Nat /\ r # <<>>
  /\ Last(r) = frame /\ r[Len(calls) + 1] = frame
  /\ \A i \in 1..Len(calls) : r[i] = calls[i]

LEMMA ChainGrows ==
  ASSUME NEW calls, NEW cut, Chain(calls, cut), NEW frame, FrameFits(frame, cut),
         calls # <<>> => Halving(calls[Len(calls)]) /\ HalfOf(calls[Len(calls)]) = frame.batch,
         NEW r, r = calls \o <<frame>>
  PROVE  Chain(r, cut) /\ Grows(calls, frame, r)
<1> DEFINE n == Len(calls)
<1>1. n \in Nat /\ calls \in Seq(Frames) /\ frame \in Frames /\ (calls = <<>> <=> n = 0)
  BY DEF Chain, FrameFits
<1>2. r \in Seq(Frames) /\ Len(r) = n + 1 /\ r[n + 1] = frame /\ \A i \in 1..n : r[i] = calls[i]
  BY <1>1
<1>3. Last(r) = frame /\ r # <<>>
  BY <1>1, <1>2 DEF Last
<1>4. Grows(calls, frame, r)
  BY <1>1, <1>2, <1>3 DEF Grows
<1>5. \A j \in 1..n + 1 : FrameFits(r[j], cut)
  <2> SUFFICES ASSUME NEW j \in 1..n + 1 PROVE FrameFits(r[j], cut)
    OBVIOUS
  <2>1. CASE j \in 1..n
    BY <2>1, <1>2 DEF Chain
  <2>2. CASE j = n + 1
    BY <2>2, <1>2
  <2> QED BY <2>1, <2>2, <1>1
<1>6. ASSUME NEW j \in 1..n PROVE Halving(r[j]) /\ r[j + 1].batch = HalfOf(r[j])
  <2>1. CASE j \in 1..n - 1
    <3>1. r[j] = calls[j] /\ r[j + 1] = calls[j + 1]
      BY <2>1, <1>1, <1>2
    <3> QED BY <2>1, <3>1 DEF Chain
  <2>2. CASE j = n
    <3>1. r[j] = calls[n] /\ r[j + 1] = frame /\ calls # <<>>
      BY <2>2, <1>1, <1>2
    <3> QED BY <3>1
  <2> QED BY <2>1, <2>2, <1>1
<1>7. (n + 1) - 1 = n
  BY <1>1
<1>8. Chain(r, cut)
  BY <1>2, <1>5, <1>6, <1>7 DEF Chain
<1> QED BY <1>4, <1>8

-----------------------------------------------------------------------------
(* Calls in which the innermost is this frame, and the outermost is on     *)
(* this batch.                                                             *)
Calls(r, cut, frame, batch) ==
  Chain(r, cut) /\ r # <<>> /\ Last(r) = frame /\ r[1].batch = batch /\ r[Len(r)] = frame

LEMMA CutAllows ==
  ASSUME NEW calls, NEW cut, Chain(calls, cut)
  PROVE  Chain(calls, TRUE)
<1>1. \A j \in 1..Len(calls) : FrameFits(calls[j], TRUE)
  BY FitsCut DEF Chain, FrameFits
<1> QED BY <1>1 DEF Chain

LEMMA InnermostGoes ==
  ASSUME NEW calls, NEW cut, Chain(calls, cut), calls # <<>>,
         NEW frame, FrameFits(frame, cut), frame.batch = Last(calls).batch,
         NEW r, r = Front(calls) \o <<frame>>
  PROVE  Calls(r, cut, frame, calls[1].batch)
<1> DEFINE n == Len(calls)
           f == Front(calls)
<1>1. /\ Chain(f, cut) /\ Len(f) = n - 1 /\ n \in Nat \ {0}
      /\ \A i \in 1..n - 1 : f[i] = calls[i]
      /\ f = <<>> <=> n = 1
      /\ FrameFits(Last(calls), cut) /\ Last(calls) = calls[n]
      /\ n > 1 => Halving(f[n - 1]) /\ HalfOf(f[n - 1]) = Last(calls).batch
  BY ChainShrinks
<1> HIDE DEF f, n
<1>2. f # <<>> => Halving(f[Len(f)]) /\ HalfOf(f[Len(f)]) = frame.batch
  BY <1>1
<1>3. Chain(r, cut) /\ Grows(f, frame, r)
  BY <1>1, <1>2, ChainGrows DEF f
<1>4. r[1].batch = calls[1].batch
  <2>1. CASE n = 1
    <3>1. r[1] = frame /\ Last(calls) = calls[1]
      BY <2>1, <1>1, <1>3 DEF Grows
    <3> QED BY <3>1
  <2>2. CASE n # 1
    <3>1. 1 \in 1..n - 1
      BY <2>2, <1>1
    <3>2. r[1] = f[1] /\ f[1] = calls[1]
      BY <3>1, <1>1, <1>3 DEF Grows
    <3> QED BY <3>2
  <2> QED BY <2>1, <2>2
<1> QED BY <1>3, <1>4 DEF Calls, Grows

LEMMA CallIsMade ==
  ASSUME NEW calls, NEW cut, NEW frame, NEW batch, Calls(calls, cut, frame, batch), Halving(frame),
         NEW half, half = HalfOf(frame), NEW r, r = calls \o <<Call(half)>>
  PROVE  Calls(r, cut, Call(half), batch)
<1>1. Chain(calls, cut) /\ calls # <<>> /\ calls[Len(calls)] = frame
  BY DEF Calls
<1>2. FrameFits(frame, cut) /\ frame \in Frames
  <2>1. Len(calls) \in 1..Len(calls)
    BY <1>1 DEF Chain
  <2> QED BY <1>1, <2>1 DEF Chain, FrameFits
<1>3. half \in Batches /\ Distinct(half)
  <2>1. frame.batch \in Batches /\ Distinct(frame.batch)
    BY <1>2 DEF FrameFits, Frames
  <2> QED BY <2>1, HalvesAreApart DEF AreSplit, HalfOf
<1>4. Call(half).batch = half
  BY DEF Call
<1>5. FrameFits(Call(half), cut)
  <2>1. NotReturned \in Results
    BY DEF NotReturned, Results
  <2>2. Call(half) \in Frames /\ Call(half).at = "first"
    BY <1>3, <2>1 DEF Call, Frames
  <2> QED BY <1>3, <1>4, <2>2 DEF FrameFits, Halving
<1>6. Chain(r, cut) /\ Grows(calls, Call(half), r)
  BY <1>1, <1>4, <1>5, ChainGrows
<1>7. r[1] = calls[1]
  <2>1. 1 \in 1..Len(calls)
    BY <1>1 DEF Chain
  <2> QED BY <1>6, <2>1 DEF Grows
<1> QED BY <1>6, <1>7 DEF Calls, Grows

(* What a call returns is taken by the one it is part of. *)
LEMMA EndedKeeps ==
  ASSUME LabellingInv, stack # <<>>, NEW result \in Results, result.ended,
         Fits(result, Innermost.batch, truncated), Ended(result), UNCHANGED truncated
  PROVE  LabellingInv'
<1> DEFINE n == Len(stack)
           r == Front(stack)
           b == stack[1].batch
<1>1. /\ Chain(r, truncated) /\ Len(r) = n - 1 /\ n \in Nat \ {0}
      /\ \A i \in 1..n - 1 : r[i] = stack[i]
      /\ r = <<>> <=> n = 1
      /\ FrameFits(Innermost, truncated) /\ Innermost = stack[n]
      /\ n > 1 => Halving(r[n - 1]) /\ HalfOf(r[n - 1]) = Innermost.batch
  BY ChainShrinks DEF LabellingInv, StackInv, Innermost
<1>2. stack' = r /\ returned' = result /\ UNCHANGED <<presented, labelled, done, abandoned, file, truncated>>
  BY DEF Ended
<1>3. Sent' = Sent /\ UnitsLabelled' = UnitsLabelled /\ \A batch : Apart(batch)' <=> Apart(batch)
  BY <1>2 DEF Sent, UnitsLabelled, Apart
<1>4. Len(b) = Sent /\ Apart(b)
  BY DEF LabellingInv, StackInv
<1> HIDE DEF n, r, b
<1>5. CASE n = 1
  <2>1. stack' = <<>> /\ returned'.ended /\ b = Innermost.batch
    BY <1>1, <1>2, <1>5 DEF b
  <2>2. b \in Batches
    BY <1>1, <2>1 DEF FrameFits, Frames
  <2>3. \E batch \in Batches : Len(batch) = Sent' /\ Apart(batch)' /\ Fits(returned', batch, truncated')
    BY <1>2, <1>3, <1>4, <2>1, <2>2
  <2>4. StackInv'
    BY <1>1, <1>2, <2>1, <2>3 DEF StackInv
  <2> QED BY <2>4, <1>2, <1>3 DEF LabellingInv, LabellingTypeOK, CountInv, FileInv
<1>6. CASE n # 1
  <2>1. stack' # <<>> /\ returned'.ended /\ stack'[1].batch = b
    <3>1. 1 \in 1..n - 1
      BY <1>1, <1>6
    <3> QED BY <1>1, <1>2, <1>6, <3>1 DEF b
  <2>2. Innermost' = r[n - 1]
    BY <1>1, <1>2 DEF Innermost, Last
  <2>3. Halving(Innermost') /\ HalfOf(Innermost') = Innermost.batch
    BY <1>1, <1>6, <2>2
  <2>4. Halving(Innermost)' /\ Fits(returned, HalfOf(Innermost), truncated)'
    BY <1>2, <2>3 DEF Halving, HalfOf
  <2>5. StackInv'
    BY <1>1, <1>2, <1>3, <1>4, <2>1, <2>4 DEF StackInv
  <2> QED BY <2>5, <1>2, <1>3 DEF LabellingInv, LabellingTypeOK, CountInv, FileInv
<1> QED BY <1>5, <1>6

(* A call that goes on, and may call for a half of its batch. *)
LEMMA CallKeeps ==
  ASSUME LabellingInv, stack # <<>>, NEW frame, ~Halving(frame),
         Calls(stack', truncated', frame, stack[1].batch),
         UNCHANGED <<presented, labelled, done, abandoned, file>>,
         returned' = NotReturned \/ (UNCHANGED returned /\ ~returned.ended),
         truncated' \in BOOLEAN, truncated => truncated'
  PROVE  LabellingInv'
<1>1. Sent' = Sent /\ UnitsLabelled' = UnitsLabelled /\ \A batch : Apart(batch)' <=> Apart(batch)
  BY DEF Sent, UnitsLabelled, Apart
<1>2. ~returned'.ended /\ returned' \in Results
  <2>1. ~NotReturned.ended
    BY DEF NotReturned
  <2>2. NotReturned \in Results
    BY DEF NotReturned, Results
  <2>3. returned \in Results
    BY DEF LabellingInv, LabellingTypeOK
  <2>4. CASE returned' = NotReturned
    <3>1. ~returned'.ended
      BY <2>1, <2>4, Zenon
    <3> QED BY <2>2, <2>4, <3>1
  <2>5. CASE returned' = returned /\ ~returned.ended
    <3>1. ~returned'.ended
      BY <2>5, Zenon
    <3> QED BY <2>3, <2>5, <3>1
  <2> QED BY <2>4, <2>5
<1>3. stack' # <<>> /\ ~Halving(Innermost)' /\ Chain(stack', truncated') /\ stack'[1].batch = stack[1].batch
  BY DEF Calls, Innermost, Halving
<1>4. Len(stack[1].batch) = Sent /\ Apart(stack[1].batch)
  BY DEF LabellingInv, StackInv
<1>5. StackInv'
  BY <1>1, <1>2, <1>3, <1>4 DEF StackInv
<1> QED BY <1>1, <1>2, <1>5 DEF LabellingInv, LabellingTypeOK, CountInv, FileInv

-----------------------------------------------------------------------------
LEMMA InnermostFits ==
  ASSUME LabellingInv, stack # <<>>
  PROVE  /\ FrameFits(Innermost, truncated) /\ Chain(stack, truncated)
         /\ Innermost \in Frames /\ Innermost.batch \in Batches /\ Distinct(Innermost.batch)
<1>1. Chain(stack, truncated)
  BY DEF LabellingInv, StackInv
<1>2. FrameFits(Innermost, truncated)
  BY <1>1, ChainShrinks DEF Innermost
<1> QED BY <1>1, <1>2 DEF FrameFits, Frames

LEMMA WholeKeeps == LabellingInv /\ ReplyIsWhole => LabellingInv'
<1> SUFFICES ASSUME LabellingInv, ReplyIsWhole PROVE LabellingInv'
  OBVIOUS
<1> DEFINE batch == Innermost.batch
<1>1. stack # <<>> /\ UNCHANGED truncated
  BY DEF ReplyIsWhole, AtWork
<1>2. PICK reply \in Replies(Len(batch)) :
        Whole(reply, batch) /\ Ended([ended |-> TRUE, failed |-> FALSE, got |-> LabelsOf(reply, batch)])
  BY DEF ReplyIsWhole
<1> DEFINE result == [ended |-> TRUE, failed |-> FALSE, got |-> LabelsOf(reply, batch)]
<1>3. batch \in Batches /\ Distinct(batch)
  BY <1>1, InnermostFits
<1>4. result \in Results /\ Fits(result, batch, truncated)
  BY <1>2, <1>3, WholeReplyFits
<1>5. result.ended /\ Ended(result)
  BY <1>2
<1> HIDE DEF result
<1> QED BY <1>1, <1>4, <1>5, EndedKeeps

LEMMA TruncatedKeeps == LabellingInv /\ ReplyIsTruncated => LabellingInv'
<1> SUFFICES ASSUME LabellingInv, ReplyIsTruncated PROVE LabellingInv'
  OBVIOUS
<1> DEFINE frame == [Innermost EXCEPT !.at = "left"]
           half == LeftHalf(Innermost.batch)
           calls == Front(stack) \o <<frame>>
<1>1. /\ stack # <<>> /\ ~returned.ended /\ stack' = calls \o <<Call(half)>>
      /\ truncated' = TRUE /\ UNCHANGED <<presented, returned, labelled, done, abandoned, file>>
  BY DEF ReplyIsTruncated, AtWork, Goes
<1>2. FrameFits(Innermost, truncated) /\ Innermost \in Frames /\ Chain(stack, TRUE)
  BY <1>1, InnermostFits, CutAllows
<1>3. /\ frame \in Frames /\ frame.at = "left" /\ frame.batch = Innermost.batch
      /\ HalfOf(frame) = half /\ Halving(frame)
  BY <1>2 DEF Frames, HalfOf, Halving
<1> HIDE DEF frame, half
<1>4. FrameFits(frame, TRUE)
  BY <1>2, <1>3 DEF FrameFits
<1>5. Calls(calls, TRUE, frame, stack[1].batch)
  BY <1>1, <1>2, <1>3, <1>4, InnermostGoes DEF Innermost
<1> HIDE DEF calls
<1>6. Calls(stack', TRUE, Call(half), stack[1].batch)
  BY <1>1, <1>3, <1>5, CallIsMade
<1>7. ~Halving(Call(half)) /\ truncated' \in BOOLEAN /\ (truncated => truncated')
  BY <1>1 DEF Call, Halving
<1>8. Calls(stack', truncated', Call(half), stack[1].batch)
  BY <1>1, <1>6
<1> QED BY <1>1, <1>7, <1>8, CallKeeps

LEMMA RefusedKeeps == LabellingInv /\ ReplyIsRefused => LabellingInv'
<1> SUFFICES ASSUME LabellingInv, ReplyIsRefused PROVE LabellingInv'
  OBVIOUS
<1>1. CASE AtWork("first") /\ Goes("retry", <<>>) /\ UNCHANGED truncated
  <2> DEFINE frame == [Innermost EXCEPT !.at = "retry"]
             calls == Front(stack) \o <<frame>>
  <2>1. /\ stack # <<>> /\ ~returned.ended /\ stack' = calls \o <<>>
        /\ UNCHANGED <<presented, returned, labelled, done, abandoned, truncated, file>>
    BY <1>1 DEF AtWork, Goes
  <2>2. FrameFits(Innermost, truncated) /\ Innermost \in Frames /\ Chain(stack, truncated)
    BY <2>1, InnermostFits
  <2>3. frame \in Frames /\ frame.at = "retry" /\ frame.batch = Innermost.batch /\ ~Halving(frame)
    BY <2>2 DEF Frames, Halving
  <2> HIDE DEF frame
  <2>4. FrameFits(frame, truncated)
    BY <2>2, <2>3 DEF FrameFits, Halving
  <2>5. Calls(calls, truncated, frame, stack[1].batch)
    BY <2>1, <2>2, <2>3, <2>4, InnermostGoes DEF Innermost
  <2> HIDE DEF calls
  <2>6. stack' = calls
    <3>1. calls \in Seq(Frames)
      BY <2>5 DEF Calls, Chain
    <3> QED BY <2>1, <3>1
  <2>7. Calls(stack', truncated', frame, stack[1].batch)
    BY <2>1, <2>5, <2>6
  <2>8. truncated' \in BOOLEAN /\ (truncated => truncated')
    BY <2>1 DEF LabellingInv, LabellingTypeOK
  <2> QED BY <2>1, <2>3, <2>7, <2>8, CallKeeps
<1>2. CASE AtWork("retry") /\ Ended(Failed) /\ UNCHANGED truncated
  <2>1. stack # <<>>
    BY <1>2 DEF AtWork
  <2>2. Failed \in Results /\ Fits(Failed, Innermost.batch, truncated)
    BY <2>1, InnermostFits, FailedFits
  <2>3. Failed.ended
    BY DEF Failed
  <2> QED BY <1>2, <2>1, <2>2, <2>3, EndedKeeps
<1> QED BY <1>1, <1>2 DEF ReplyIsRefused

LEMMA LeftKeeps == LabellingInv /\ LeftEnds => LabellingInv'
<1> SUFFICES ASSUME LabellingInv, LeftEnds PROVE LabellingInv'
  OBVIOUS
<1> DEFINE frame == [Innermost EXCEPT !.at = "right", !.left = returned]
           half == RightHalf(Innermost.batch)
           calls == Front(stack) \o <<frame>>
<1>1. /\ stack # <<>> /\ returned.ended /\ Innermost.at = "left"
      /\ stack' = Front(stack) \o <<frame, Call(half)>>
      /\ returned' = NotReturned /\ UNCHANGED <<presented, labelled, done, abandoned, truncated, file>>
  BY DEF LeftEnds
<1>2. FrameFits(Innermost, truncated) /\ Innermost \in Frames /\ Chain(stack, truncated)
  BY <1>1, InnermostFits
<1>3. returned \in Results /\ Fits(returned, LeftHalf(Innermost.batch), truncated)
  BY <1>1 DEF LabellingInv, LabellingTypeOK, StackInv, HalfOf
<1>4. /\ frame \in Frames /\ frame.at = "right" /\ frame.batch = Innermost.batch /\ frame.left = returned
      /\ HalfOf(frame) = half /\ Halving(frame)
  BY <1>2, <1>3 DEF Frames, HalfOf, Halving
<1>5. truncated
  BY <1>1, <1>2 DEF FrameFits, Halving
<1> HIDE DEF frame, half
<1>6. FrameFits(frame, truncated)
  BY <1>2, <1>3, <1>4, <1>5 DEF FrameFits
<1>7. Calls(calls, truncated, frame, stack[1].batch)
  BY <1>1, <1>2, <1>4, <1>6, InnermostGoes DEF Innermost
<1>8. stack' = calls \o <<Call(half)>>
  <2> DEFINE c == Call(half)
             S == Frames \cup {c}
  <2>1. Front(stack) \in Seq(Frames)
    BY <1>1, <1>2, ChainShrinks DEF Chain
  <2>2. frame \in S /\ c \in S /\ Frames \subseteq S
    BY <1>4
  <2> HIDE DEF S, c
  <2>3. Front(stack) \in Seq(S) /\ <<frame>> \in Seq(S) /\ <<c>> \in Seq(S)
    <3>1. Front(stack) \in Seq(S)
      BY <2>1, <2>2, SeqMonotonic
    <3>2. \A e \in S : <<e>> \in Seq(S)
      OBVIOUS
    <3> QED BY <2>2, <3>1, <3>2
  <2>4. <<frame>> \o <<c>> = <<frame, c>>
    <3> DEFINE p == <<frame>> \o <<c>>
               q == <<frame, c>>
    <3>1. p \in Seq(S) /\ Len(p) = 1 + 1 /\ p[1] = frame /\ p[2] = c
      BY <2>3
    <3>2. q \in Seq(S) /\ Len(q) = 1 + 1 /\ q[1] = frame /\ q[2] = c
      BY <2>2
    <3> HIDE DEF p, q
    <3>3. \A i \in 1..Len(p) : p[i] = q[i]
      BY <3>1, <3>2
    <3>4. p = q
      BY <3>1, <3>2, <3>3, SeqEqual
    <3> QED BY <3>4 DEF p, q
  <2>5. (Front(stack) \o <<frame>>) \o <<c>> = Front(stack) \o <<frame, c>>
    BY <2>3, <2>4, ConcatAssociative
  <2> QED BY <1>1, <2>5 DEF c
<1> HIDE DEF calls
<1>9. Calls(stack', truncated, Call(half), stack[1].batch)
  BY <1>4, <1>7, <1>8, CallIsMade
<1>10. ~Halving(Call(half)) /\ truncated' \in BOOLEAN /\ (truncated => truncated')
  BY <1>1 DEF Call, Halving, LabellingInv, LabellingTypeOK
<1>11. Calls(stack', truncated', Call(half), stack[1].batch)
  BY <1>1, <1>9
<1> QED BY <1>1, <1>10, <1>11, CallKeeps

LEMMA RightKeeps == LabellingInv /\ RightEnds => LabellingInv'
<1> SUFFICES ASSUME LabellingInv, RightEnds PROVE LabellingInv'
  OBVIOUS
<1> DEFINE left == Innermost.left
           batch == Innermost.batch
           both == [ended |-> TRUE, failed |-> FALSE, got |-> left.got \o returned.got]
           result == IF left.failed /\ returned.failed THEN Failed ELSE both
<1>1. stack # <<>> /\ returned.ended /\ Innermost.at = "right" /\ Ended(result) /\ UNCHANGED truncated
  BY DEF RightEnds
<1>2. FrameFits(Innermost, truncated) /\ batch \in Batches /\ Distinct(batch) /\ left \in Results
  BY <1>1, InnermostFits DEF Frames
<1>3. truncated = TRUE /\ Fits(left, LeftHalf(batch), TRUE)
  <2>1. truncated /\ truncated \in BOOLEAN
    BY <1>1, <1>2 DEF FrameFits, Halving, LabellingInv, LabellingTypeOK
  <2> QED BY <1>1, <1>2, <2>1, FitsCut DEF FrameFits
<1>4. returned \in Results /\ Fits(returned, RightHalf(batch), TRUE)
  <2>1. returned \in Results /\ Fits(returned, RightHalf(batch), truncated)
    BY <1>1 DEF LabellingInv, LabellingTypeOK, StackInv, HalfOf
  <2> QED BY <2>1, FitsCut
<1>5. both \in Results /\ Fits(both, batch, TRUE)
  BY <1>2, <1>3, <1>4, HalvesFitTogether
<1>6. Failed \in Results /\ Fits(Failed, batch, TRUE)
  BY <1>2, FailedFits
<1>7. both.ended /\ Failed.ended
  BY DEF Failed
<1> HIDE DEF both, batch
<1>8. result \in Results /\ result.ended /\ Fits(result, batch, TRUE)
  BY <1>5, <1>6, <1>7, Zenon
<1>9. Fits(result, Innermost.batch, truncated)
  BY <1>3, <1>8 DEF batch
<1> HIDE DEF result
<1> QED BY <1>1, <1>8, <1>9, EndedKeeps

-----------------------------------------------------------------------------
LEMMA SmallerOfTwo ==
  ASSUME NEW a \in Nat \ {0}, NEW b \in Nat \ {0}
  PROVE  Min({a, b}) \in 1..b
<1>1. \E x \in {a, b} : \A y \in {a, b} : x <= y
  OBVIOUS
<1> QED BY <1>1 DEF Min

LEMMA NextBatchKeeps ==
  ASSUME LabellingAssumption, LabellingInv, NextBatch
  PROVE  LabellingInv'
<1> DEFINE n == Len(presented)
           size == Min({BatchSize, n})
           x == SubSeq(presented, 1, size)
           y == SubSeq(presented, size + 1, n)
<1>1. /\ stack = <<>> /\ ~returned.ended /\ presented # <<>> /\ stack' = <<Call(x)>> /\ presented' = y
      /\ UNCHANGED <<returned, labelled, done, abandoned, truncated, file>>
  BY DEF NextBatch
<1>2. presented \in Batches /\ Distinct(presented) /\ ToSet(presented) \cap UnitsLabelled = {}
  BY DEF LabellingInv, LabellingTypeOK
<1>3. n \in Nat \ {0}
  BY <1>1, <1>2, EmptySeq DEF Batches
<1>4. size \in 0..n
  <2> HIDE DEF n
  <2>1. size \in 1..n
    BY <1>3, SmallerOfTwo DEF LabellingAssumption
  <2> HIDE DEF size
  <2> QED BY <1>3, <2>1
<1>5. AreSplit(presented, x, y) /\ Len(x) = size
  <2> HIDE DEF size
  <2> QED BY <1>2, <1>4, SplitApart
<1> HIDE DEF x, y, size
<1>6. Sent = 0
  BY <1>1 DEF LabellingInv, StackInv
<1>7. Sent' = Len(x)
  <2>1. done \in Nat /\ UnitCount \in Nat
    BY DEF LabellingInv, LabellingTypeOK, LabellingAssumption
  <2>2. UnitCount - n - done = 0 /\ Sent' = UnitCount - Len(y) - done
    BY <1>1, <1>6 DEF Sent
  <2>3. Len(x) + Len(y) = n /\ Len(x) \in Nat /\ Len(y) \in Nat
    BY <1>5 DEF AreSplit
  <2> HIDE DEF n
  <2> QED BY <1>3, <2>1, <2>2, <2>3
<1>8. UnitsLabelled' = UnitsLabelled
  BY <1>1 DEF UnitsLabelled
<1>9. ToSet(x) \cap (ToSet(presented') \cup UnitsLabelled') = {} /\ ToSet(y) \cap UnitsLabelled = {}
  <2>1. /\ ToSet(x) \subseteq ToSet(presented) /\ ToSet(y) \subseteq ToSet(presented)
        /\ ToSet(x) \cap ToSet(y) = {}
    BY <1>5 DEF AreSplit
  <2> QED BY <1>1, <1>2, <1>8, <2>1
<1>10. FrameFits(Call(x), truncated) /\ ~Halving(Call(x)) /\ Call(x).batch = x
  <2>1. NotReturned \in Results
    BY DEF NotReturned, Results
  <2>2. Call(x) \in Frames /\ Call(x).at = "first" /\ Call(x).batch = x
    BY <1>5, <2>1 DEF Call, Frames, AreSplit
  <2> QED BY <1>5, <2>2 DEF FrameFits, Halving, AreSplit
<1>11. Chain(stack', truncated) /\ Grows(<<>>, Call(x), stack')
  <2> DEFINE r == <<>> \o <<Call(x)>>
  <2>1. Chain(<<>>, truncated)
    BY DEF Chain
  <2>2. Chain(r, truncated) /\ Grows(<<>>, Call(x), r)
    BY <1>10, <2>1, ChainGrows
  <2>3. r = stack'
    BY <1>1
  <2> QED BY <2>2, <2>3
<1>12. stack' # <<>> /\ Innermost' = Call(x) /\ stack'[1].batch = x
  <2>1. Len(<<>>) + 1 = 1
    OBVIOUS
  <2> QED BY <1>10, <1>11, <2>1 DEF Grows, Innermost
<1>13. ~Halving(Innermost)'
  BY <1>10, <1>12 DEF Halving
<1>14. Len(stack[1].batch)' = Sent' /\ Apart(stack[1].batch)'
  BY <1>7, <1>9, <1>12 DEF Apart
<1>15. StackInv'
  BY <1>1, <1>11, <1>12, <1>13, <1>14 DEF StackInv
<1>16. LabellingTypeOK'
  BY <1>1, <1>5, <1>8, <1>9 DEF LabellingInv, LabellingTypeOK, AreSplit
<1> QED BY <1>1, <1>15, <1>16 DEF LabellingInv, CountInv, FileInv

LEMMA BatchEndKeeps ==
  ASSUME LabellingAssumption, LabellingInv, BatchEnds
  PROVE  LabellingInv'
<1> DEFINE g == labelled \o returned.got
<1>1. /\ returned.ended /\ stack = <<>> /\ labelled' = g /\ done' = done + Sent /\ returned' = NotReturned
      /\ abandoned' = (IF returned.failed THEN abandoned + Sent ELSE abandoned)
      /\ UNCHANGED <<presented, stack, truncated, file>>
  BY DEF BatchEnds
<1>2. /\ presented \in Batches /\ Distinct(presented) /\ ToSet(presented) \cap UnitsLabelled = {}
      /\ returned \in Results /\ labelled \in Seq(Judgements) /\ Unrepeated(labelled)
      /\ done \in Nat /\ abandoned \in Nat /\ truncated \in BOOLEAN
  BY DEF LabellingInv, LabellingTypeOK
<1>3. PICK batch \in Batches : Len(batch) = Sent /\ Apart(batch) /\ Fits(returned, batch, truncated)
  BY <1>1 DEF LabellingInv, StackInv
<1>4. returned.got \in Seq(Judgements)
  BY <1>2 DEF Results
<1>5. UnitsLabelled = UnitsOf(labelled) /\ UnitsLabelled' = UnitsOf(labelled')
  BY DEF UnitsLabelled, UnitsOf
<1>6. AreJoined(labelled, returned.got, labelled')
  <2>1. UnitsOf(labelled) \cap UnitsOf(returned.got) = {}
    BY <1>3, <1>5 DEF Apart, Fits
  <2>2. Unrepeated(returned.got)
    BY <1>3 DEF Fits
  <2> QED BY <1>1, <1>2, <1>4, <2>1, <2>2, JoinedOnce
<1> HIDE DEF g
<1>7. Sent \in Nat
  BY <1>3 DEF Batches
<1>8. Sent' = 0
  <2>1. Sent' = UnitCount - Len(presented) - (done + Sent)
    BY <1>1 DEF Sent
  <2>2. Sent = UnitCount - Len(presented) - done
    BY DEF Sent
  <2>3. UnitCount \in Int /\ Len(presented) \in Int
    BY <1>2 DEF Batches, LabellingAssumption
  <2> QED BY <1>2, <1>7, <2>1, <2>2, <2>3
<1>9. ToSet(presented) \cap UnitsLabelled' = {}
  <2>1. UnitsLabelled' = UnitsLabelled \cup UnitsOf(returned.got)
    BY <1>5, <1>6 DEF AreJoined
  <2>2. ToSet(presented) \cap ToSet(batch) = {} /\ UnitsOf(returned.got) \subseteq ToSet(batch)
    BY <1>3 DEF Apart, Fits
  <2> QED BY <1>2, <2>1, <2>2
<1>10. done' \in Nat /\ abandoned' \in Nat
  BY <1>1, <1>2, <1>7
<1>11. NotReturned \in Results /\ ~NotReturned.ended
  BY DEF NotReturned, Results
<1>12. ~returned'.ended
  BY <1>1, <1>11, Zenon
<1>13. LabellingTypeOK'
  BY <1>1, <1>2, <1>6, <1>9, <1>10, <1>11 DEF LabellingTypeOK, AreJoined
<1>14. StackInv'
  BY <1>1, <1>8, <1>12 DEF LabellingInv, StackInv
<1>15. CountInv'
  <2> DEFINE k == Len(labelled)
             m == Len(returned.got)
  <2>1. Len(labelled') = k + m /\ k \in Nat /\ m \in Nat
    BY <1>6 DEF AreJoined
  <2>2. abandoned + k <= done /\ (~truncated => abandoned + k = done)
    BY DEF LabellingInv, CountInv
  <2>3. m <= Sent /\ (returned.failed => m = 0) /\ (~truncated => returned.failed \/ m = Sent)
    BY <1>3 DEF Fits
  <2>4. truncated' = truncated
    BY <1>1
  <2> HIDE DEF k, m
  <2>5. CASE returned.failed
    <3>1. abandoned' = abandoned + Sent /\ m = 0
      BY <1>1, <2>3, <2>5
    <3> QED BY <1>1, <1>2, <1>7, <2>1, <2>2, <2>4, <3>1 DEF CountInv
  <2>6. CASE ~returned.failed
    <3>1. abandoned' = abandoned /\ (~truncated => m = Sent)
      BY <1>1, <2>3, <2>6
    <3> QED BY <1>1, <1>2, <1>7, <2>1, <2>2, <2>3, <2>4, <3>1 DEF CountInv
  <2> QED BY <2>5, <2>6
<1>16. FileInv'
  BY <1>1 DEF LabellingInv, FileInv
<1> QED BY <1>13, <1>14, <1>15, <1>16 DEF LabellingInv

LEMMA WritingKeeps ==
  ASSUME FilePlaceAssumption, LabellingInv, WriteLabels
  PROVE  LabellingInv'
<1>1. /\ file' = [written |-> TRUE, labels |-> InFileOrder(labelled)]
      /\ UNCHANGED <<presented, stack, returned, labelled, done, abandoned, truncated>>
  BY DEF WriteLabels
<1>2. labelled \in Seq(Judgements) /\ Unrepeated(labelled)
  BY DEF LabellingInv, LabellingTypeOK
<1> DEFINE f == InFileOrder(labelled)
<1>3. \A l, k \in DOMAIN f : l < k => FilePlace[f[l].unit] < FilePlace[f[k].unit]
  BY <1>2, FileIsSorted
<1> HIDE DEF f
<1>4. file'.labels = f
  BY <1>1 DEF f
<1>5. FileInv'
  BY <1>3, <1>4 DEF FileInv
<1>6. Sent' = Sent /\ UnitsLabelled' = UnitsLabelled /\ \A batch : Apart(batch)' <=> Apart(batch)
  BY <1>1 DEF Sent, UnitsLabelled, Apart
<1>7. Innermost' = Innermost
  BY <1>1 DEF Innermost
<1>8. StackInv'
  BY <1>1, <1>6, <1>7 DEF LabellingInv, StackInv
<1> QED BY <1>1, <1>5, <1>6, <1>8 DEF LabellingInv, LabellingTypeOK, CountInv

LEMMA LabellingInitially ==
  ASSUME LabellingAssumption, LabellingInit
  PROVE  LabellingInv
<1> DEFINE n == UnitCount
           source == [i \in 1..n |-> i]
<1>1. PICK reverse \in BOOLEAN : presented = Presented(reverse)
  BY DEF LabellingInit
<1>2. n \in Nat
  BY DEF LabellingAssumption
<1> HIDE DEF n
<1>3. source \in Seq(1..n) /\ Len(source) = n
  BY <1>2
<1>4. Presented(reverse) = IF reverse THEN Reverse(source) ELSE source
  BY DEF Presented, n
<1>5. Distinct(presented) /\ presented \in [1..n -> 1..n]
  <2>1. CASE ~reverse
    BY <2>1, <1>1, <1>4 DEF Distinct
  <2>2. CASE reverse
    <3>1. presented = [i \in 1..n |-> source[(n - i) + 1]]
      BY <2>2, <1>1, <1>3, <1>4 DEF Reverse
    <3>2. \A i \in 1..n : (n - i) + 1 \in 1..n
      BY <1>2
    <3>3. \A i \in 1..n : presented[i] = (n - i) + 1
      BY <3>1, <3>2
    <3>4. \A i, j \in 1..n : (n - i) + 1 = (n - j) + 1 => i = j
      BY <1>2
    <3> QED BY <3>1, <3>2, <3>3, <3>4 DEF Distinct
  <2> QED BY <2>1, <2>2
<1> HIDE DEF source
<1>6. presented \in Batches /\ Len(presented) = n
  <2> DEFINE S == 1..n
  <2>1. presented \in [1..n -> S]
    BY <1>5
  <2> HIDE DEF S
  <2>2. presented \in Seq(S)
    BY <1>2, <2>1
  <2>3. Len(presented) = n
    BY <1>2, <2>1, <2>2
  <2> QED BY <2>2, <2>3 DEF S, Batches, n
<1>7. /\ stack = <<>> /\ returned = NotReturned /\ labelled = <<>>
      /\ done = 0 /\ abandoned = 0 /\ truncated = FALSE /\ file = NoFileYet
  BY DEF LabellingInit
<1>8. Sent = 0
  BY <1>2, <1>6, <1>7 DEF Sent, n
<1>9. UnitsLabelled = {} /\ labelled \in Seq(Judgements) /\ Unrepeated(labelled) /\ Len(labelled) = 0
  BY <1>7 DEF UnitsLabelled, Unrepeated
<1>10. NotReturned \in Results /\ ~NotReturned.ended
  BY DEF NotReturned, Results
<1>11. ~returned.ended
  BY <1>7, <1>10, Zenon
<1>12. LabellingTypeOK
  BY <1>5, <1>6, <1>7, <1>9, <1>10 DEF LabellingTypeOK
<1>13. StackInv
  <2>1. Chain(stack, truncated)
    BY <1>7 DEF Chain
  <2> QED BY <1>7, <1>8, <1>11, <2>1 DEF StackInv
<1>14. CountInv
  BY <1>7, <1>9 DEF CountInv
<1>15. ~NoFileYet.written
  BY DEF NoFileYet
<1>16. FileInv
  BY <1>7, <1>15, Zenon DEF FileInv
<1> QED BY <1>12, <1>13, <1>14, <1>16 DEF LabellingInv

LEMMA LabellingStutters == LabellingInv /\ UNCHANGED labellingVars => LabellingInv'
<1> SUFFICES ASSUME LabellingInv, UNCHANGED labellingVars PROVE LabellingInv'
  OBVIOUS
<1>1. UNCHANGED <<presented, stack, returned, labelled, done, abandoned, truncated, file>>
  BY DEF labellingVars
<1>2. Sent' = Sent /\ UnitsLabelled' = UnitsLabelled /\ Innermost' = Innermost
      /\ \A batch : Apart(batch)' <=> Apart(batch)
  BY <1>1 DEF Sent, UnitsLabelled, Apart, Innermost
<1>3. StackInv'
  BY <1>1, <1>2 DEF LabellingInv, StackInv
<1> QED BY <1>1, <1>2, <1>3 DEF LabellingInv, LabellingTypeOK, CountInv, FileInv

(* A unit is labelled once, so there are as many units as labels. *)
LEMMA LabelledOnce ==
  ASSUME LabellingInv
  PROVE  Cardinality(UnitsLabelled) = Len(labelled)
<1> DEFINE n == Len(labelled)
           u == [l \in 1..n |-> labelled[l].unit]
           U == UnitsLabelled
<1>1. labelled \in Seq(Judgements) /\ Unrepeated(labelled)
  BY DEF LabellingInv, LabellingTypeOK
<1>2. n \in Nat /\ DOMAIN labelled = 1..n
  BY <1>1
<1> HIDE DEF n
<1>3. u \in Surjection(1..n, U)
  BY <1>2 DEF Surjection, UnitsLabelled
<1>4. u \in Injection(1..n, U)
  BY <1>1, <1>2, <1>3 DEF Surjection, Injection, IsInjective, Unrepeated
<1>5. IsFiniteSet(1..n) /\ Cardinality(1..n) = n
  BY <1>2, FS_Interval
<1> HIDE DEF u, U
<1> QED BY <1>3, <1>4, <1>5, FS_Surjection DEF n, U

(* The types of a pass, and what its calls and its batches are to each    *)
(* other. *)
THEOREM LabellingIsInvariant == LabellingSpec => []LabellingInv
<1>1. LabellingInit => LabellingInv
  BY LabellingAssumption, LabellingInitially
<1>2. LabellingInv /\ [LabellingNext]_labellingVars => LabellingInv'
  <2> SUFFICES ASSUME LabellingInv, [LabellingNext]_labellingVars PROVE LabellingInv'
    OBVIOUS
  <2>1. CASE NextBatch
    BY <2>1, LabellingAssumption, NextBatchKeeps
  <2>2. CASE ReplyIsWhole
    BY <2>2, WholeKeeps
  <2>3. CASE ReplyIsTruncated
    BY <2>3, TruncatedKeeps
  <2>4. CASE ReplyIsRefused
    BY <2>4, RefusedKeeps
  <2>5. CASE LeftEnds
    BY <2>5, LeftKeeps
  <2>6. CASE RightEnds
    BY <2>6, RightKeeps
  <2>7. CASE BatchEnds
    BY <2>7, LabellingAssumption, BatchEndKeeps
  <2>8. CASE WriteLabels
    BY <2>8, FilePlaceAssumption, WritingKeeps
  <2>9. CASE UNCHANGED labellingVars
    BY <2>9, LabellingStutters
  <2> QED BY <2>1, <2>2, <2>3, <2>4, <2>5, <2>6, <2>7, <2>8, <2>9 DEF LabellingNext
<1> QED BY <1>1, <1>2, PTL DEF LabellingSpec

(* However the replies to a pass are halved, retried and given up, a unit  *)
(* gets one label or none, the file of labels is in the order of the       *)
(* units' places, and what a pass announces as abandoned was not labelled: *)
(* labelBatch works on parts of a batch that have no unit in common        *)
(* (labeler.go:152). *)
THEOREM UnitsAreLabelledOnce == LabellingSpec => []ShortfallIsKnown
<1>1. LabellingInv => ShortfallIsKnown
  BY LabelledOnce DEF LabellingInv, CountInv, FileInv, ShortfallIsKnown
<1> QED BY <1>1, LabellingIsInvariant, PTL

-----------------------------------------------------------------------------
(* Each command is the specification of its module: main.go runs one of    *)
(* them, and none writes what another keeps.                               *)
THEOREM CommandsAreTheirModules == CalibrationSpec => CorpusSpec /\ UnitsSpec /\ LabellingSpec /\ ScoringSpec
<1>1. CalibrationInit => CorpusInit /\ UnitsInit /\ LabellingInit /\ ScoringInit
  BY DEF CalibrationInit
<1>2. [CalibrationNext]_calibrationVars => [CorpusNext]_corpusVars
  BY DEF CalibrationNext, calibrationVars
<1>3. [CalibrationNext]_calibrationVars => [UnitsNext]_unitVars
  BY DEF CalibrationNext, calibrationVars
<1>4. [CalibrationNext]_calibrationVars => [LabellingNext]_labellingVars
  BY DEF CalibrationNext, calibrationVars
<1>5. [CalibrationNext]_calibrationVars => [ScoringNext]_scoringVars
  BY DEF CalibrationNext, calibrationVars
<1> QED
  BY <1>1, <1>2, <1>3, <1>4, <1>5, PTL
     DEF CalibrationSpec, CorpusSpec, UnitsSpec, LabellingSpec, ScoringSpec
=================================================================================
