-------------------------- MODULE Obligations_proofs --------------------------
(***************************************************************************)
(* The obligation surface, proved for every set of sentences, every        *)
(* assignment of content tokens and every bound: its types, the soundness  *)
(* of its two indexes, that no outstanding requirement is ever lost to     *)
(* them, that a requirement and its rewordings are one obligation, that    *)
(* only a repeated requirement is reported violated, that the events of a  *)
(* record explain what it changed, and that every requirement lives as     *)
(* ObligationLifecycle allows (a refinement).                              *)
(*                                                                         *)
(* None of these is inductive alone.  What carries them is that the        *)
(* indexes are complete as well as sound: every obligation of the current  *)
(* epoch is found under its sentence and under its content tokens, and     *)
(* none of an earlier epoch stands.                                        *)
(*                                                                         *)
(* The events and the life of a requirement are shown for one identity at  *)
(* a time: TurnStages says what resolving, the candidates and a violation  *)
(* make of its status in turn, and what the indexes say of it meanwhile.   *)
(***************************************************************************)
EXTENDS Obligations, FiniteSetTheorems, TLAPS

Filed(id) ==
  /\ id[1] = epoch
  /\ byKey[id[2]] = id
  /\ ContentOf[id[2]] # NoContent => byRepeat[ContentOf[id[2]]] = id

EveryObligationFiled ==
  \A id \in Identities :
    \/ status[id] = "absent"
    \/ Filed(id)
    \/ id[1] < epoch /\ ~Outstanding(status[id])

ObligationInv ==
  /\ ObligationTypeOK
  /\ IndexesSound
  /\ EveryObligationFiled
  /\ OneCandidatePerContent
  /\ ViolatedWasRepeated

-----------------------------------------------------------------------------
(* The operators of a turn. *)

LEMMA TimesIsNat ==
  ASSUME NEW hits, NEW id
  PROVE  /\ Times(hits, id) \in Nat
         /\ Times(hits, id) > 0 => \E i \in 1..MaxCandidates : <<i, id>> \in hits
<1> DEFINE S == {i \in 1..MaxCandidates : <<i, id>> \in hits}
<1>1. IsFiniteSet(1..MaxCandidates)
  BY FS_Interval, ObligationConstants
<1>2. IsFiniteSet(S)
  BY <1>1, FS_Subset
<1>3. Cardinality(S) \in Nat
  BY <1>2, FS_CardinalityType
<1>4. S = {} => Cardinality(S) = 0
  BY FS_EmptySet
<1> QED BY <1>3, <1>4 DEF Times

(* A resolution touches what the exact index holds, and settles it. *)
LEMMA ResolvedKinds ==
  ASSUME ObligationInv, NEW R \in Resolutions, NEW id \in ResolvedBy(R)
  PROVE  KindOf(R, id) \in ResolutionKinds /\ byKey[id[2]] = id
<1>1. PICK r \in Licensed(R) : byKey[r[1]] = id
  BY DEF ResolvedBy
<1>2. \A q \in R : q = <<q[1], q[2], q[3]>> /\ q[1] \in OutstandingKeys /\ q[3] \in BOOLEAN
  <2>1. PICK chosen \in SUBSET OutstandingKeys :
          \E said \in [chosen -> KindsAndEvidence] : R = {<<k, said[k][1], said[k][2]>> : k \in chosen}
    BY DEF Resolutions
  <2> PICK said \in [chosen -> KindsAndEvidence] : R = {<<k, said[k][1], said[k][2]>> : k \in chosen}
    BY <2>1
  <2>2. TAKE q \in R
  <2>3. PICK k \in chosen : q = <<k, said[k][1], said[k][2]>>
    OBVIOUS
  <2>4. said[k] \in KindsAndEvidence
    OBVIOUS
  <2>5. ASSUME NEW x \in KindsAndEvidence PROVE x[2] \in BOOLEAN
    <3>1. CASE x \in ResolutionKinds \X {TRUE}
      BY <3>1
    <3>2. CASE x = <<"released", FALSE>>
      <4>1. x[2] = FALSE
        BY <3>2
      <4> QED BY <4>1
    <3> QED BY <3>1, <3>2 DEF KindsAndEvidence
  <2>6. said[k][2] \in BOOLEAN
    BY <2>4, <2>5
  <2> QED BY <2>3, <2>6
<1>3. OutstandingKeys \subseteq Keys
  BY DEF OutstandingKeys, OutstandingSet, Identities
<1>4. r \in R /\ r[2] \in Caps /\ r[3]
  BY <1>1 DEF Licensed
<1>5. r[1] \in Keys /\ r = <<r[1], r[2], TRUE>>
  BY <1>2, <1>3, <1>4
<1>6. id = <<epoch, r[1]>> /\ byKey[id[2]] = id
  BY <1>1, <1>5, NowhereIsNoIdentity DEF ObligationInv, IndexesSound, ResolvedBy
<1>7. <<id[2], r[2], TRUE>> \in R
  BY <1>4, <1>5, <1>6
<1>8. KindOf(R, id) \in Caps
  BY <1>4, <1>7 DEF KindOf
<1> QED BY <1>6, <1>8, ObligationConstants

LEMMA ResolvingSettles ==
  ASSUME ObligationInv, NEW R \in Resolutions, NEW id \in Identities
  PROVE  /\ AfterResolve(R)[id] \in Statuses
         /\ \/ AfterResolve(R)[id] = status[id]
            \/ byKey[id[2]] = id /\ AfterResolve(R)[id] \in ResolutionKinds
<1>1. status[id] \in Statuses
  BY DEF ObligationInv, ObligationTypeOK
<1>2. CASE id \notin ResolvedBy(R)
  BY <1>1, <1>2 DEF AfterResolve
<1>3. CASE id \in ResolvedBy(R)
  BY <1>3, ResolvedKinds DEF AfterResolve, Statuses
<1> QED BY <1>2, <1>3

(* A candidate introduces an obligation of the current epoch that was not  *)
(* there, under a sentence and content tokens no other obligation has.     *)
LEMMA IntroducedIsNew ==
  ASSUME ObligationInv, NEW cs \in CandidateSeqs, NEW id \in Introduced(cs)
  PROVE  /\ id \in Identities /\ id = <<epoch, id[2]>> /\ id[2] \in Keys
         /\ Unindexed(id[2])
         /\ status[id] = "absent"
<1>1. PICK i \in Introducing(cs) : id = <<epoch, cs[i]>>
  BY DEF Introduced
<1>2. cs[i] \in Keys /\ Unindexed(cs[i])
  BY DEF Introducing, FirstMentions, CandidateSeqs
<1>3. epoch \in Epochs
  BY DEF ObligationInv, ObligationTypeOK, ExchangeTypeOK, Epochs
<1>4. id \in Identities /\ id = <<epoch, id[2]>> /\ id[2] = cs[i]
  BY <1>1, <1>2, <1>3 DEF Identities
<1>5. ~Filed(id)
  BY <1>2, <1>4, NowhereIsNoIdentity DEF Filed, Unindexed
<1>6. ~(id[1] < epoch)
  BY <1>3, <1>4 DEF Epochs
<1> QED BY <1>2, <1>4, <1>5, <1>6 DEF ObligationInv, EveryObligationFiled

LEMMA IntroducedApart ==
  ASSUME NEW cs \in CandidateSeqs, NEW id \in Introduced(cs), NEW jd \in Introduced(cs),
         SharesContent(id[2], jd[2])
  PROVE  id = jd
<1>1. PICK n \in 0..MaxCandidates : cs \in [1..n -> Keys]
  BY DEF CandidateSeqs
<1>2. PICK i \in Introducing(cs) : id = <<epoch, cs[i]>>
  BY DEF Introduced
<1>3. PICK j \in Introducing(cs) : jd = <<epoch, cs[j]>>
  BY DEF Introduced
<1>4. i \in 1..n /\ j \in 1..n
  BY <1>1, <1>2, <1>3 DEF Introducing, FirstMentions
<1>5. SharesContent(cs[i], cs[j]) /\ SharesContent(cs[j], cs[i])
  BY <1>2, <1>3 DEF SharesContent
<1>6. ~(j < i) /\ ~(i < j)
  BY <1>5 DEF Introducing
<1>7. i = j
  BY <1>4, <1>6
<1> QED BY <1>2, <1>3, <1>7

(* What a turn states again is what it introduces or what the indexes hold *)
(* for the current epoch.                                                  *)
LEMMA HitIsFiled ==
  ASSUME ObligationInv, NEW cs \in CandidateSeqs, NEW id \in Identities,
         Times(Hits(cs, Introduced(cs)), id) > 0
  PROVE  id \in Introduced(cs) \/ byKey[id[2]] = id
<1>1. PICK i : <<i, id>> \in Hits(cs, Introduced(cs))
  BY TimesIsNat
<1>2. i \in DOMAIN cs /\ Matches(cs, Introduced(cs), i, id)
  BY <1>1 DEF Hits, FirstMentions
<1>3. cs[i] \in Keys
  BY <1>2 DEF CandidateSeqs
<1>4. id # Nowhere
  BY NowhereIsNoIdentity
<1>5. CASE byKey[cs[i]] = id
  BY <1>3, <1>4, <1>5 DEF ObligationInv, IndexesSound
<1>6. CASE ContentOf[cs[i]] # NoContent /\ byRepeat[ContentOf[cs[i]]] = id
  <2>1. ContentOf[cs[i]] \in ContentKeys
    BY <1>3, <1>6, ObligationConstants
  <2> QED BY <1>4, <1>6, <2>1 DEF ObligationInv, IndexesSound
<1> QED BY <1>2, <1>5, <1>6 DEF Matches

(* A violation is of what the same turn repeats: the sentence the          *)
(* correction names is found again in the index.                           *)
LEMMA ViolatedIsRepeated ==
  ASSUME ObligationInv, NEW R \in Resolutions, NEW cs \in CandidateSeqs, NEW target,
         NEW new, new = Introduced(cs), NEW hits, hits = Hits(cs, new),
         NEW id \in Violated(AfterResolve(R), new, hits, target)
  PROVE  id \in Repeated(AfterResolve(R), hits) /\ Times(hits, id) > 0
<1> DEFINE resolved == AfterResolve(R)
<1>1. PICK hit \in Repeated(resolved, hits) : hit[2] = target
  BY DEF Violated
<1>2. ByKeyAfter(new)[target] = id /\ hit \in Identities /\ target \in Keys
  BY <1>1 DEF Violated, Repeated, Identities
<1>3. Times(hits, hit) > 0
  <2>1. Times(hits, hit) \in Nat
    BY TimesIsNat
  <2>2. Times(hits, hit) > IF Resolved(resolved[hit]) THEN 1 ELSE 0
    BY <1>1 DEF Repeated
  <2> HIDE DEF resolved
  <2> QED BY <2>1, <2>2
<1>4. hit \in new \/ byKey[target] = hit
  BY <1>1, <1>2, <1>3, HitIsFiled
<1>5. hit = <<epoch, target>>
  <2>1. CASE hit \in new
    BY <1>1, <2>1, IntroducedIsNew
  <2>2. CASE byKey[target] = hit
    BY <1>2, <2>2, NowhereIsNoIdentity DEF ObligationInv, IndexesSound
  <2> QED BY <1>4, <2>1, <2>2
<1>6. id \in Identities /\ id = <<epoch, target>>
  BY <1>2, NowhereIsNoIdentity DEF Violated, ByKeyAfter, ObligationInv, IndexesSound
<1> QED BY <1>1, <1>3, <1>5, <1>6

(* The surface a turn leaves, before a reset: what is new stands, what the *)
(* indexes do not hold is as it was, and what they hold still exists.      *)
LEMMA TurnLeaves ==
  ASSUME ObligationInv, NEW R \in Resolutions, NEW cs \in CandidateSeqs, NEW target,
         NEW id \in Identities,
         NEW new, new = Introduced(cs), NEW hits, hits = Hits(cs, new),
         NEW left, left = AfterViolate(AfterResolve(R), new, hits, target)[id]
  PROVE  /\ left \in Statuses
         /\ id \in new => left \in {"unresolved", "violated"}
         /\ id \notin new /\ byKey[id[2]] # id => left = status[id]
         /\ id \notin new /\ byKey[id[2]] = id => left \notin {"absent", "unknown"}
         /\ left = "violated" => status[id] = "violated" \/ Times(hits, id) > 0
<1> DEFINE resolved == AfterResolve(R)
           applied == AfterApply(resolved, new, hits)
           violated == Violated(resolved, new, hits, target)
<1>1. /\ resolved[id] \in Statuses /\ status[id] \in Statuses
      /\ \/ resolved[id] = status[id]
         \/ byKey[id[2]] = id /\ resolved[id] \in ResolutionKinds
  BY ResolvingSettles DEF ObligationInv, ObligationTypeOK
<1>2. /\ Times(hits, id) \in Nat
      /\ Times(hits, id) > 0 => id \in new \/ byKey[id[2]] = id
  BY TimesIsNat, HitIsFiled
<1>3. byKey[id[2]] = id => status[id] \notin {"absent", "unknown"}
  BY NowhereIsNoIdentity DEF ObligationInv, IndexesSound, Identities
<1>4. applied[id] = IF id \in new THEN "unresolved"
                    ELSE IF Times(hits, id) > 0 THEN StatusAfter(resolved[id])
                    ELSE resolved[id]
  BY DEF AfterApply
<1>5. left = IF id \in violated THEN "violated" ELSE applied[id]
  BY DEF AfterViolate
<1>6. id \in violated => /\ Times(hits, id) > 0
                         /\ id \in new \/ byKey[id[2]] = id
  BY <1>2, ViolatedIsRepeated
<1>7. /\ StatusAfter(resolved[id]) \in Statuses
      /\ resolved[id] \notin {"absent", "unknown"}
           => StatusAfter(resolved[id]) \notin {"absent", "unknown"}
      /\ StatusAfter(resolved[id]) = "violated" => resolved[id] = "violated"
  BY <1>1 DEF StatusAfter, Statuses
<1>8. "violated" \notin ResolutionKinds /\ "absent" \notin ResolutionKinds
      /\ "unknown" \notin ResolutionKinds
  BY DEF ResolutionKinds
<1> HIDE DEF resolved, applied, violated
<1> QED BY <1>1, <1>2, <1>3, <1>4, <1>5, <1>6, <1>7, <1>8 DEF Statuses

(* The indexes after a turn without a reset. *)
LEMMA IndexesAfter ==
  ASSUME ObligationInv, NEW cs \in CandidateSeqs, NEW new, new = Introduced(cs)
  PROVE  /\ \A k \in Keys : /\ <<epoch, k>> \in new => ByKeyAfter(new)[k] = <<epoch, k>>
                            /\ <<epoch, k>> \notin new => ByKeyAfter(new)[k] = byKey[k]
         /\ \A r \in ContentKeys :
              \/ /\ \A id \in new : ContentOf[id[2]] # r
                 /\ ByRepeatAfter(new)[r] = byRepeat[r]
              \/ /\ ByRepeatAfter(new)[r] \in new
                 /\ ContentOf[ByRepeatAfter(new)[r][2]] = r
<1>1. ASSUME NEW r \in ContentKeys, NEW id \in new, ContentOf[id[2]] = r
      PROVE  /\ ByRepeatAfter(new)[r] \in new
             /\ ContentOf[ByRepeatAfter(new)[r][2]] = r
  BY <1>1 DEF ByRepeatAfter
<1>2. ASSUME NEW r \in ContentKeys, \A id \in new : ContentOf[id[2]] # r
      PROVE  ByRepeatAfter(new)[r] = byRepeat[r]
  BY <1>2 DEF ByRepeatAfter
<1> QED BY <1>1, <1>2 DEF ByKeyAfter

-----------------------------------------------------------------------------
LEMMA SurfaceInitially == ObligationSpecInit => ObligationInv
  BY ExchangeBounds
  DEF ObligationSpecInit, ExchangeInit, ObligationInit, ObligationInv, ObligationTypeOK,
      ExchangeTypeOK, IndexesSound, EveryObligationFiled, OneCandidatePerContent,
      ViolatedWasRepeated, Statuses, Identities


LEMMA TurnKeepsTypes ==
  ASSUME ObligationInv, NEW R \in Resolutions, NEW cs \in CandidateSeqs, NEW target,
         NEW reset \in BOOLEAN, OperatorRecord(reset), ObligationTurn(R, cs, target, reset)
  PROVE  ObligationTypeOK'
<1> DEFINE new == Introduced(cs)
           hits == Hits(cs, new)
           standing == AfterViolate(AfterResolve(R), new, hits, target)
<1>1. ExchangeTypeOK'
  BY ExchangeBounds
  DEF ObligationInv, ObligationTypeOK, ExchangeTypeOK, OperatorRecord, TakeRecord
<1>2. \A id \in Identities : standing[id] \in Statuses
  BY TurnLeaves
<1>3. standing = [id \in Identities |-> standing[id]]
  BY DEF AfterViolate
<1>4. status' \in [Identities -> Statuses]
  <2>1. CASE reset
    <3>1. status' = AfterReset(standing)
      BY <2>1 DEF ObligationTurn
    <3> HIDE DEF standing
    <3> QED BY <1>2, <3>1 DEF AfterReset, Statuses
  <2>2. CASE ~reset
    <3>1. status' = standing
      BY <2>2 DEF ObligationTurn
    <3> HIDE DEF standing
    <3> QED BY <1>2, <1>3, <3>1
  <2> QED BY <2>1, <2>2
<1>5. repeats' \in [Identities -> Nat]
  <2>1. repeats' = RepeatsAfter(hits)
    BY DEF ObligationTurn
  <2>2. \A id \in Identities : repeats[id] + Times(hits, id) \in Nat
    BY TimesIsNat DEF ObligationInv, ObligationTypeOK
  <2> HIDE DEF hits
  <2> QED BY <2>1, <2>2 DEF RepeatsAfter
<1>6. byKey' \in [Keys -> Identities \cup {Nowhere}]
  <2>1. byKey' = IF reset THEN [k \in Keys |-> Nowhere] ELSE ByKeyAfter(new)
    BY DEF ObligationTurn, Blanked, ByKeyAfter
  <2>2. new \subseteq Identities
    BY IntroducedIsNew
  <2> HIDE DEF new
  <2> QED BY <2>1, <2>2 DEF ByKeyAfter, ObligationInv, ObligationTypeOK
<1>7. byRepeat' \in [ContentKeys -> Identities \cup {Nowhere}]
  <2>1. byRepeat' = IF reset THEN [r \in ContentKeys |-> Nowhere] ELSE ByRepeatAfter(new)
    BY DEF ObligationTurn, Blanked, ByRepeatAfter
  <2>2. new \subseteq Identities
    BY IntroducedIsNew
  <2>3. \A r \in ContentKeys : ByRepeatAfter(new)[r] \in Identities \cup {Nowhere}
    BY <2>2, IndexesAfter DEF ObligationInv, ObligationTypeOK
  <2>4. ByRepeatAfter(new) = [r \in ContentKeys |-> ByRepeatAfter(new)[r]]
    BY DEF ByRepeatAfter
  <2> HIDE DEF new
  <2> QED BY <2>1, <2>3, <2>4
<1> QED BY <1>1, <1>4, <1>5, <1>6, <1>7 DEF ObligationTypeOK

(* What a turn leaves of the surface and its indexes, with or without a    *)
(* reset, in the form the invariant needs it.                              *)
LEMMA TurnKeepsSurface ==
  ASSUME ObligationInv, NEW R \in Resolutions, NEW cs \in CandidateSeqs, NEW target,
         NEW reset \in BOOLEAN, OperatorRecord(reset), ObligationTurn(R, cs, target, reset)
  PROVE  IndexesSound' /\ EveryObligationFiled' /\ OneCandidatePerContent' /\ ViolatedWasRepeated'
<1> DEFINE new == Introduced(cs)
           hits == Hits(cs, new)
           standing == AfterViolate(AfterResolve(R), new, hits, target)
<1>1. \A id \in Identities :
        /\ standing[id] \in Statuses
        /\ id \in new => standing[id] \in {"unresolved", "violated"}
        /\ id \notin new /\ byKey[id[2]] # id => standing[id] = status[id]
        /\ id \notin new /\ byKey[id[2]] = id => standing[id] \notin {"absent", "unknown"}
        /\ standing[id] = "violated" => status[id] = "violated" \/ Times(hits, id) > 0
  BY TurnLeaves
<1>2. /\ epoch \in Nat
      /\ ~reset => epoch' = epoch
      /\ reset => epoch' = epoch + 1
  BY DEF ObligationInv, ObligationTypeOK, ExchangeTypeOK, OperatorRecord
<1>3. /\ reset => /\ \A id \in Identities :
                       status'[id] = IF Outstanding(standing[id]) THEN "unknown"
                                     ELSE standing[id]
                  /\ \A k \in Keys : byKey'[k] = Nowhere
                  /\ \A r \in ContentKeys : byRepeat'[r] = Nowhere
      /\ ~reset => /\ \A id \in Identities : status'[id] = standing[id]
                   /\ byKey' = ByKeyAfter(new)
                   /\ byRepeat' = ByRepeatAfter(new)
  BY DEF ObligationTurn, AfterReset, Blanked, ByKeyAfter, ByRepeatAfter
<1>4. \A id \in new : /\ id \in Identities /\ id = <<epoch, id[2]>> /\ id[2] \in Keys
                      /\ id[1] = epoch
                      /\ Unindexed(id[2])
                      /\ status[id] = "absent"
  BY IntroducedIsNew
<1>5. \A id, jd \in new : SharesContent(id[2], jd[2]) => id = jd
  BY IntroducedApart
<1>6. /\ \A k \in Keys : /\ <<epoch, k>> \in new => ByKeyAfter(new)[k] = <<epoch, k>>
                         /\ <<epoch, k>> \notin new => ByKeyAfter(new)[k] = byKey[k]
      /\ \A r \in ContentKeys :
           \/ /\ \A id \in new : ContentOf[id[2]] # r
              /\ ByRepeatAfter(new)[r] = byRepeat[r]
           \/ /\ ByRepeatAfter(new)[r] \in new
              /\ ContentOf[ByRepeatAfter(new)[r][2]] = r
  BY IndexesAfter
<1>7. \A id \in Identities :
        /\ repeats'[id] = repeats[id] + Times(hits, id)
        /\ repeats[id] \in Nat /\ Times(hits, id) \in Nat
  BY TimesIsNat DEF ObligationTurn, RepeatsAfter, ObligationInv, ObligationTypeOK
<1>8. /\ \A k \in Keys : byKey[k] # Nowhere =>
           byKey[k] = <<epoch, k>> /\ status[byKey[k]] \notin {"absent", "unknown"}
      /\ \A r \in ContentKeys : byRepeat[r] # Nowhere =>
           /\ ContentOf[byRepeat[r][2]] = r
           /\ byKey[byRepeat[r][2]] = byRepeat[r]
           /\ byRepeat[r] \in Identities
      /\ \A k \in Keys : byKey[k] # Nowhere => byKey[k] \in Identities
  BY DEF ObligationInv, ObligationTypeOK, IndexesSound
<1>9. \A id \in Identities : /\ id # Nowhere /\ id = <<id[1], id[2]>>
                             /\ id[1] \in Nat /\ id[2] \in Keys
  BY NowhereIsNoIdentity DEF Identities, Epochs
<1>10. \A id \in Identities : \/ status[id] = "absent"
                              \/ Filed(id)
                              \/ id[1] < epoch /\ ~Outstanding(status[id])
  BY DEF ObligationInv, EveryObligationFiled
<1>11. \A k \in Keys : ContentOf[k] \in ContentKeys \cup {NoContent}
  BY ObligationConstants
<1> HIDE DEF new, hits, standing
<1>12. IndexesSound'
  <2>1. CASE reset
    BY <1>3, <2>1 DEF IndexesSound
  <2>2. CASE ~reset
    <3>1. ASSUME NEW k \in Keys, byKey'[k] # Nowhere
          PROVE  byKey'[k] = <<epoch', k>> /\ status'[byKey'[k]] \notin {"absent", "unknown"}
      <4>1. CASE <<epoch, k>> \in new
        BY <1>1, <1>2, <1>3, <1>4, <1>6, <2>2, <4>1
      <4>2. CASE <<epoch, k>> \notin new
        <5>1. byKey'[k] = byKey[k] /\ byKey[k] = <<epoch, k>> /\ byKey[k] \in Identities
          BY <1>3, <1>6, <1>8, <2>2, <3>1, <4>2
        <5>2. standing[byKey[k]] \notin {"absent", "unknown"}
          BY <1>1, <4>2, <5>1
        <5> QED BY <1>2, <1>3, <2>2, <5>1, <5>2
      <4> QED BY <4>1, <4>2
    <3>2. ASSUME NEW r \in ContentKeys, byRepeat'[r] # Nowhere
          PROVE  ContentOf[byRepeat'[r][2]] = r /\ byKey'[byRepeat'[r][2]] = byRepeat'[r]
      <4> DEFINE id == byRepeat'[r]
      <4>1. id = ByRepeatAfter(new)[r]
        BY <1>3, <2>2
      <4>2. CASE id \in new /\ ContentOf[id[2]] = r
        BY <1>3, <1>4, <1>6, <2>2, <4>2
      <4>3. CASE id = byRepeat[r]
        <5>1. ContentOf[id[2]] = r /\ byKey[id[2]] = id /\ id \in Identities
          BY <1>8, <3>2, <4>3
        <5>2. id = <<epoch, id[2]>> /\ id[2] \in Keys
          BY <1>8, <1>9, <3>2, <5>1
        <5>3. byKey'[id[2]] = id
          <6> HIDE DEF id
          <6>1. ByKeyAfter(new)[id[2]] = id
            BY <1>6, <5>1, <5>2
          <6> QED BY <1>3, <2>2, <6>1
        <5> QED BY <5>1, <5>3
      <4> HIDE DEF id
      <4> QED BY <1>6, <4>1, <4>2, <4>3
    <3> QED BY <3>1, <3>2 DEF IndexesSound
  <2> QED BY <2>1, <2>2
<1>13. EveryObligationFiled'
  <2> SUFFICES ASSUME NEW id \in Identities
               PROVE  \/ status'[id] = "absent"
                      \/ Filed(id)'
                      \/ id[1] < epoch' /\ ~Outstanding(status'[id])
    BY DEF EveryObligationFiled
  <2>1. CASE reset
    <3>1. standing[id] = "absent" \/ id[1] <= epoch
      BY <1>1, <1>2, <1>4, <1>8, <1>9, <1>10 DEF Filed
    <3>2. standing[id] = "absent" => status'[id] = "absent"
      BY <1>3, <2>1 DEF Outstanding
    <3>3. ~Outstanding(status'[id])
      BY <1>3, <2>1 DEF Outstanding
    <3> QED BY <1>2, <1>9, <2>1, <3>1, <3>2, <3>3
  <2>2. CASE ~reset /\ id \in new
    <3>1. byKey'[id[2]] = id /\ id[1] = epoch'
      BY <1>2, <1>3, <1>4, <1>6, <2>2
    <3>2. ASSUME ContentOf[id[2]] # NoContent PROVE byRepeat'[ContentOf[id[2]]] = id
      <4>1. ContentOf[id[2]] \in ContentKeys
        BY <1>9, <1>11, <3>2
      <4>2. ByRepeatAfter(new)[ContentOf[id[2]]] \in new
            /\ ContentOf[ByRepeatAfter(new)[ContentOf[id[2]]][2]] = ContentOf[id[2]]
        BY <1>6, <2>2, <4>1
      <4>3. ByRepeatAfter(new)[ContentOf[id[2]]] = id
        <5> DEFINE jd == ByRepeatAfter(new)[ContentOf[id[2]]]
        <5>1. SharesContent(jd[2], id[2]) /\ jd \in new
          BY <3>2, <4>2 DEF SharesContent
        <5>2. jd = id
          <6> HIDE DEF jd
          <6> QED BY <1>5, <2>2, <5>1
        <5> QED BY <5>2
      <4> QED BY <1>3, <2>2, <4>3
    <3> QED BY <3>1, <3>2 DEF Filed
  <2>3. CASE ~reset /\ id \notin new /\ byKey[id[2]] = id
    <3>1. id = <<epoch, id[2]>> /\ id[1] = epoch /\ status[id] # "absent"
      BY <1>8, <1>9, <2>3
    <3>2. Filed(id)
      BY <1>2, <1>10, <3>1
    <3>3. byKey'[id[2]] = id
      BY <1>3, <1>6, <1>9, <2>3, <3>1
    <3>4. ASSUME ContentOf[id[2]] # NoContent PROVE byRepeat'[ContentOf[id[2]]] = id
      <4>1. byRepeat[ContentOf[id[2]]] = id /\ ContentOf[id[2]] \in ContentKeys
        BY <1>9, <1>11, <3>2, <3>4 DEF Filed
      <4>2. \A jd \in new : ContentOf[jd[2]] # ContentOf[id[2]]
        <5> SUFFICES ASSUME NEW jd \in new, ContentOf[jd[2]] = ContentOf[id[2]] PROVE FALSE
          OBVIOUS
        <5>1. byRepeat[ContentOf[jd[2]]] = Nowhere
          BY <1>4, <3>4 DEF Unindexed
        <5> QED BY <1>9, <4>1, <5>1
      <4> QED BY <1>3, <1>6, <2>3, <4>1, <4>2
    <3> QED BY <1>2, <2>3, <3>1, <3>3, <3>4 DEF Filed
  <2>4. CASE ~reset /\ id \notin new /\ byKey[id[2]] # id
    BY <1>1, <1>2, <1>3, <1>10, <2>4 DEF Filed
  <2> QED BY <2>1, <2>2, <2>3, <2>4
<1>14. OneCandidatePerContent'
  <2> SUFFICES ASSUME NEW id \in Identities, NEW jd \in Identities,
                      status'[id] # "absent", status'[jd] # "absent",
                      id[1] = jd[1], SharesContent(id[2], jd[2])
               PROVE  id = jd
    BY DEF OneCandidatePerContent
  <2>1. \A kd \in Identities : status'[kd] # "absent" => kd \in new \/ status[kd] # "absent"
    BY <1>1, <1>3, <1>8, <1>9 DEF Outstanding
  <2>2. ASSUME NEW kd \in new, NEW ld \in Identities, status[ld] # "absent",
               kd[1] = ld[1], SharesContent(kd[2], ld[2])
        PROVE  FALSE
    <3>1. Filed(ld)
      BY <1>2, <1>4, <1>10, <2>2
    <3>2. ContentOf[kd[2]] = ContentOf[ld[2]] /\ ContentOf[kd[2]] # NoContent
      BY <2>2 DEF SharesContent
    <3>3. byRepeat[ContentOf[kd[2]]] = ld
      BY <3>1, <3>2 DEF Filed
    <3>4. byRepeat[ContentOf[kd[2]]] = Nowhere
      BY <1>4, <2>2, <3>2 DEF Unindexed
    <3> QED BY <1>9, <3>3, <3>4
  <2>3. SharesContent(jd[2], id[2])
    BY DEF SharesContent
  <2>4. CASE id \in new /\ jd \in new
    BY <1>5, <2>4
  <2>5. CASE status[id] # "absent" /\ status[jd] # "absent"
    BY <2>5 DEF ObligationInv, OneCandidatePerContent
  <2> QED BY <2>1, <2>2, <2>3, <2>4, <2>5
<1>15. ViolatedWasRepeated'
  <2> SUFFICES ASSUME NEW id \in Identities, status'[id] = "violated"
               PROVE  repeats'[id] > 0
    BY DEF ViolatedWasRepeated
  <2>1. standing[id] = "violated"
    BY <1>3
  <2>2. status[id] = "violated" => repeats[id] > 0
    BY DEF ObligationInv, ViolatedWasRepeated
  <2> QED BY <1>1, <1>7, <2>1, <2>2
<1> QED BY <1>12, <1>13, <1>14, <1>15

LEMMA SurfaceInductive ==
  ASSUME ObligationInv, [ObligationNext]_obligationSpecVars
  PROVE  ObligationInv'
<1>1. CASE OperatorTurn
  <2>1. PICK R \in Resolutions, cs \in CandidateSeqs, target \in Keys \cup {Nowhere},
             reset \in BOOLEAN :
               OperatorRecord(reset) /\ ObligationTurn(R, cs, target, reset)
    BY <1>1 DEF OperatorTurn
  <2> QED BY <2>1, TurnKeepsTypes, TurnKeepsSurface DEF ObligationInv
<1>2. ASSUME UNCHANGED <<status, repeats, byKey, byRepeat, epoch>>, ExchangeTypeOK'
      PROVE  ObligationInv'
  BY <1>2 DEF ObligationInv, ObligationTypeOK, IndexesSound, EveryObligationFiled, Filed,
              OneCandidatePerContent, ViolatedWasRepeated
<1>3. CASE QuietRecord
  BY <1>2, <1>3, ExchangeBounds
  DEF QuietRecord, OtherRecord, TakeRecord, ObligationOther, ObligationInv, ObligationTypeOK,
      ExchangeTypeOK
<1>4. CASE Finish \/ Panic
  BY <1>2, <1>4 DEF Finish, Panic, StopAs, ObligationOther, obligationVars, ObligationInv,
                    ObligationTypeOK, ExchangeTypeOK
<1>5. CASE UNCHANGED obligationSpecVars
  BY <1>2, <1>5 DEF obligationSpecVars, exchangeVars, obligationVars, ObligationInv,
                    ObligationTypeOK, ExchangeTypeOK
<1> QED BY <1>1, <1>3, <1>4, <1>5 DEF ObligationNext

LEMMA SurfaceInvariant == ObligationSpec => []ObligationInv
  BY SurfaceInitially, SurfaceInductive, PTL DEF ObligationSpec

-----------------------------------------------------------------------------
(* The surface never leaves the states its types describe. *)
THEOREM ObligationTypeCorrect == ObligationSpec => []ObligationTypeOK
<1>1. ObligationInv => ObligationTypeOK
  BY DEF ObligationInv
<1> QED BY <1>1, SurfaceInvariant, PTL

(* The indexes answer only with obligations of the current epoch that a    *)
(* reset has not blanked, under the key they were asked for.               *)
THEOREM IndexesAreSound == ObligationSpec => []IndexesSound
<1>1. ObligationInv => IndexesSound
  BY DEF ObligationInv
<1> QED BY <1>1, SurfaceInvariant, PTL

(* A requirement that stands is what the exact index finds for its         *)
(* sentence, so evidence that would take it out of the inventory can.      *)
THEOREM NoRequirementIsLost == ObligationSpec => []InventoryReachable
<1>1. ObligationInv => InventoryReachable
  BY DEF ObligationInv, EveryObligationFiled, Filed, InventoryReachable, OutstandingSet,
         Outstanding
<1> QED BY <1>1, SurfaceInvariant, PTL

(* Two obligations of one epoch never share their content tokens: a        *)
(* rewording is a repeat of what it rewords, in whatever order they come.  *)
THEOREM RewordingsAreOne == ObligationSpec => []OneCandidatePerContent
<1>1. ObligationInv => OneCandidatePerContent
  BY DEF ObligationInv
<1> QED BY <1>1, SurfaceInvariant, PTL

(* Only a requirement the operator stated more than once is violated. *)
THEOREM ViolationNeedsRestatement == ObligationSpec => []ViolatedWasRepeated
<1>1. ObligationInv => ViolatedWasRepeated
  BY DEF ObligationInv
<1> QED BY <1>1, SurfaceInvariant, PTL

-----------------------------------------------------------------------------
(* The steps of the surface.  One identity at a time: what a resolution    *)
(* makes of it, what the candidates make of that, and what the violation   *)
(* makes of both, each with what the indexes say of it.                    *)
LEMMA TurnStages ==
  ASSUME ObligationInv, NEW R \in Resolutions, NEW cs \in CandidateSeqs, NEW target,
         NEW id \in Identities,
         NEW new, new = Introduced(cs), NEW hits, hits = Hits(cs, new),
         NEW released, released = AfterResolve(R),
         NEW violated, violated = Violated(released, new, hits, target),
         NEW left, left = AfterViolate(released, new, hits, target)[id]
  PROVE  /\ left = IF id \in violated THEN "violated"
                   ELSE IF id \in new THEN "unresolved"
                   ELSE IF Times(hits, id) > 0 THEN StatusAfter(released[id])
                   ELSE released[id]
         /\ IF id \in ResolvedBy(R)
            THEN /\ released[id] = KindOf(R, id) /\ KindOf(R, id) \in ResolutionKinds
                 /\ ~Resolved(status[id])
            ELSE released[id] = status[id]
         /\ released[id] # status[id] => byKey[id[2]] = id
         /\ Times(hits, id) \in Nat
         /\ Times(hits, id) > 0 => id \in new \/ byKey[id[2]] = id
         /\ id \in violated => id \in Repeated(released, hits) /\ Times(hits, id) > 0
         /\ id \in new => status[id] = "absent" /\ id[1] = epoch /\ released[id] = "absent"
         /\ byKey[id[2]] = id => status[id] \notin {"absent", "unknown"} /\ id[1] = epoch
         /\ status[id] \in Statuses
<1>1. /\ released[id] \in Statuses /\ status[id] \in Statuses
      /\ \/ released[id] = status[id]
         \/ byKey[id[2]] = id /\ released[id] \in ResolutionKinds
  BY ResolvingSettles DEF ObligationInv, ObligationTypeOK
<1>2. byKey[id[2]] = id => status[id] \notin {"absent", "unknown"} /\ id[1] = epoch
  BY NowhereIsNoIdentity DEF ObligationInv, IndexesSound, Identities
<1>3. /\ Times(hits, id) \in Nat
      /\ Times(hits, id) > 0 => id \in new \/ byKey[id[2]] = id
  BY TimesIsNat, HitIsFiled
<1>4. id \in violated => id \in Repeated(released, hits) /\ Times(hits, id) > 0
  BY ViolatedIsRepeated
<1>5. id \in new => status[id] = "absent" /\ id[1] = epoch
  BY IntroducedIsNew
<1>6. IF id \in ResolvedBy(R)
      THEN /\ released[id] = KindOf(R, id) /\ KindOf(R, id) \in ResolutionKinds
           /\ ~Resolved(status[id])
      ELSE released[id] = status[id]
  <2>1. released[id] = IF id \in ResolvedBy(R) THEN KindOf(R, id) ELSE status[id]
    BY DEF AfterResolve
  <2>2. id \in ResolvedBy(R) => ~Resolved(status[id])
    BY DEF ResolvedBy
  <2>3. id \in ResolvedBy(R) => KindOf(R, id) \in ResolutionKinds
    BY ResolvedKinds
  <2> QED BY <2>1, <2>2, <2>3
<1>7. left = IF id \in violated THEN "violated"
             ELSE IF id \in new THEN "unresolved"
             ELSE IF Times(hits, id) > 0 THEN StatusAfter(released[id])
             ELSE released[id]
  BY DEF AfterViolate, AfterApply
<1>8. id \in new => released[id] = "absent"
  BY <1>1, <1>2, <1>5
<1> QED BY <1>1, <1>2, <1>3, <1>4, <1>5, <1>6, <1>7, <1>8

(* What a turn states stands when it ends, whatever it withdraws.          *)
LEMMA StatedIsLeftStanding ==
  ASSUME ObligationInv, NEW R \in Resolutions, NEW cs \in CandidateSeqs, NEW target,
         NEW id \in Identities,
         NEW new, new = Introduced(cs), NEW hits, hits = Hits(cs, new),
         id \in new \/ Times(hits, id) > 0
  PROVE  Outstanding(AfterViolate(AfterResolve(R), new, hits, target)[id])
<1> DEFINE released == AfterResolve(R)
           violated == Violated(released, new, hits, target)
           left == AfterViolate(released, new, hits, target)[id]
<1>1. /\ left = IF id \in violated THEN "violated"
                ELSE IF id \in new THEN "unresolved"
                ELSE IF Times(hits, id) > 0 THEN StatusAfter(released[id])
                ELSE released[id]
      /\ IF id \in ResolvedBy(R)
         THEN /\ released[id] = KindOf(R, id) /\ KindOf(R, id) \in ResolutionKinds
              /\ ~Resolved(status[id])
         ELSE released[id] = status[id]
      /\ Times(hits, id) > 0 => id \in new \/ byKey[id[2]] = id
      /\ byKey[id[2]] = id => status[id] \notin {"absent", "unknown"} /\ id[1] = epoch
      /\ status[id] \in Statuses
  BY TurnStages
<1> HIDE DEF released, violated, left
<1>2. left \in {"unresolved", "violated"}
  BY <1>1 DEF StatusAfter, Resolved, ResolutionKinds, Statuses
<1> QED BY <1>2 DEF Outstanding, left, released

-----------------------------------------------------------------------------
(* The events of a record tell what it did to the surface.                 *)
Told(id) ==
  /\ status'[id] = Replayed(status[id], emitted', id)
  /\ id \notin emitted'.introduced =>
       (repeats'[id] > repeats[id] <=> id \in emitted'.repeated \cup emitted'.revived)

Stands(id) ==
  IF id \in emitted'.ended THEN status'[id] = "unknown" ELSE Outstanding(status'[id])

LEMMA TurnIsTold ==
  ASSUME ObligationInv, NEW R \in Resolutions, NEW cs \in CandidateSeqs, NEW target,
         NEW reset \in BOOLEAN, ObligationTurn(R, cs, target, reset),
         NEW id \in Identities
  PROVE  /\ Told(id)
         /\ id \in emitted'.introduced \cup emitted'.repeated \cup emitted'.revived
              => Stands(id)
<1> DEFINE new == Introduced(cs)
           hits == Hits(cs, new)
           released == AfterResolve(R)
           violated == Violated(released, new, hits, target)
           standing == AfterViolate(released, new, hits, target)
           left == standing[id]
           times == Times(hits, id)
<1>1. /\ left = IF id \in violated THEN "violated"
                ELSE IF id \in new THEN "unresolved"
                ELSE IF times > 0 THEN StatusAfter(released[id])
                ELSE released[id]
      /\ IF id \in ResolvedBy(R)
         THEN /\ released[id] = KindOf(R, id) /\ KindOf(R, id) \in ResolutionKinds
              /\ ~Resolved(status[id])
         ELSE released[id] = status[id]
      /\ times \in Nat
      /\ times > 0 => id \in new \/ byKey[id[2]] = id
      /\ id \in new => released[id] = "absent"
      /\ byKey[id[2]] = id => status[id] \notin {"absent", "unknown"} /\ id[1] = epoch
  BY TurnStages
<1>2. id \in new \/ times > 0 => Outstanding(left)
  BY StatedIsLeftStanding
<1>3. /\ emitted'.introduced = new
      /\ emitted'.repeated = Repeated(released, hits)
      /\ emitted'.revived = Revived(released, hits)
      /\ emitted'.violated = violated
      /\ emitted'.resolved = {<<jd, KindOf(R, jd)>> : jd \in ResolvedBy(R)}
      /\ emitted'.ended = IF reset THEN {jd \in Identities : Outstanding(standing[jd])} ELSE {}
  BY DEF ObligationTurn
<1>4. status' = IF reset THEN AfterReset(standing) ELSE standing
  BY DEF ObligationTurn
<1>5. repeats'[id] = repeats[id] + times /\ repeats[id] \in Nat
  BY DEF ObligationTurn, RepeatsAfter, ObligationInv, ObligationTypeOK
<1> HIDE DEF new, hits, released, violated, standing, times
<1>6. /\ id \in emitted'.repeated <=> times > (IF Resolved(released[id]) THEN 1 ELSE 0)
      /\ id \in emitted'.revived <=> times > 0 /\ Resolved(released[id])
  BY <1>3 DEF Repeated, Revived, times
<1>7. id \in emitted'.repeated \cup emitted'.revived <=> times > 0
  BY <1>1, <1>6
<1>8. /\ id \in emitted'.ended <=> reset /\ Outstanding(left)
      /\ status'[id] = IF id \in emitted'.ended THEN "unknown" ELSE left
  BY <1>3, <1>4 DEF AfterReset
<1> HIDE DEF left
<1>9. \A kind : <<id, kind>> \in emitted'.resolved
                  <=> id \in ResolvedBy(R) /\ kind = KindOf(R, id)
  BY <1>3
<1>10. status'[id] = Replayed(status[id], emitted', id)
  <2>1. CASE id \in emitted'.ended
    BY <1>8, <2>1 DEF Replayed
  <2>2. CASE id \notin emitted'.ended /\ id \in violated
    BY <1>1, <1>3, <1>8, <2>2 DEF Replayed
  <2>3. CASE id \notin emitted'.ended \cup violated /\ id \in new \cup emitted'.revived
    <3>1. left = "unresolved"
      BY <1>1, <1>6, <2>3 DEF StatusAfter
    <3> QED
      BY <1>3, <1>8, <2>3, <3>1 DEF Replayed
  <2>4. CASE /\ id \notin emitted'.ended \cup violated \cup new \cup emitted'.revived
             /\ id \in ResolvedBy(R)
    <3>1. Resolved(released[id])
      BY <1>1, <2>4 DEF Resolved
    <3>2. left = KindOf(R, id)
      BY <1>1, <1>6, <2>4, <3>1
    <3>3. \E kind \in ResolutionKinds : <<id, kind>> \in emitted'.resolved
      BY <1>1, <1>9, <2>4
    <3>4. (CHOOSE kind \in ResolutionKinds : <<id, kind>> \in emitted'.resolved) = KindOf(R, id)
      BY <1>9, <3>3
    <3>5. Replayed(status[id], emitted', id)
            = CHOOSE kind \in ResolutionKinds : <<id, kind>> \in emitted'.resolved
      BY <1>3, <2>4, <3>3 DEF Replayed
    <3> QED
      BY <1>8, <2>4, <3>2, <3>4, <3>5
  <2>5. CASE /\ id \notin emitted'.ended \cup violated \cup new \cup emitted'.revived
             /\ id \notin ResolvedBy(R)
    <3>1. released[id] = status[id] /\ (times > 0 => status[id] # "unknown")
      BY <1>1, <2>5
    <3>2. left = status[id]
      BY <1>1, <1>6, <2>5, <3>1 DEF StatusAfter
    <3>3. ~\E kind \in ResolutionKinds : <<id, kind>> \in emitted'.resolved
      BY <1>9, <2>5
    <3>4. Replayed(status[id], emitted', id) = status[id]
      BY <1>3, <2>5, <3>3 DEF Replayed
    <3> QED
      BY <1>8, <2>5, <3>2, <3>4
  <2> QED
    BY <2>1, <2>2, <2>3, <2>4, <2>5
<1>11. repeats'[id] > repeats[id] <=> id \in emitted'.repeated \cup emitted'.revived
  BY <1>1, <1>5, <1>7
<1>12. id \in emitted'.introduced \cup emitted'.repeated \cup emitted'.revived => Stands(id)
  BY <1>2, <1>3, <1>7, <1>8 DEF Stands
<1> QED
  BY <1>10, <1>11, <1>12 DEF Told

(* Before the first operator turn there is nothing to tell.                *)
NothingToldYet == turnIndex = 0 => emitted = NoEvents

LEMMA EventsFollowTurns == ObligationSpec => []NothingToldYet
<1>1. ObligationSpecInit => NothingToldYet
  BY DEF ObligationSpecInit, ObligationInit, NothingToldYet
<1>2. ObligationTypeOK /\ NothingToldYet /\ [ObligationNext]_obligationSpecVars => NothingToldYet'
  BY DEF ObligationTypeOK, ExchangeTypeOK, ObligationNext, OperatorTurn, OperatorRecord,
         QuietRecord, ObligationOther, OtherRecord, Finish, Panic, StopAs, NothingToldYet,
         obligationSpecVars, exchangeVars, obligationVars
<1>3. ObligationInv => ObligationTypeOK
  BY DEF ObligationInv
<1> QED
  BY <1>1, <1>2, <1>3, SurfaceInvariant, PTL DEF ObligationSpec

LEMMA StepIsTold ==
  ASSUME ObligationInv, NothingToldYet, ObligationNext
  PROVE  /\ \A id \in Identities : Told(id)
         /\ \A id \in emitted'.introduced \cup emitted'.repeated \cup emitted'.revived : Stands(id)
<1>1. CASE OperatorTurn
  <2>1. PICK R \in Resolutions, cs \in CandidateSeqs, target \in Keys \cup {Nowhere},
             reset \in BOOLEAN : ObligationTurn(R, cs, target, reset)
    BY <1>1 DEF OperatorTurn
  <2>2. emitted'.introduced \cup emitted'.repeated \cup emitted'.revived \subseteq Identities
    BY <2>1, IntroducedIsNew DEF ObligationTurn, Repeated, Revived
  <2> QED
    BY <2>1, <2>2, TurnIsTold
<1>2. CASE QuietRecord \/ Finish \/ Panic
  <2>1. emitted' = NoEvents /\ status' = status /\ repeats' = repeats
    BY <1>2 DEF QuietRecord, Finish, Panic, ObligationOther, obligationVars, NothingToldYet
  <2>2. \A id \in Identities : repeats[id] \in Nat
    BY DEF ObligationInv, ObligationTypeOK
  <2> QED
    BY <2>1, <2>2 DEF Told, Stands, Replayed, NoEvents
<1> QED
  BY <1>1, <1>2 DEF ObligationNext

(* A reader who replays the events of every record holds the surface the   *)
(* projector holds, and what a turn states it leaves standing.             *)
THEOREM SurfaceIsAsTold == ObligationSpec => SurfaceMovesAsTold
<1>1. ObligationInv /\ NothingToldYet /\ [ObligationNext]_obligationSpecVars =>
        [\A id \in Identities :
           /\ status'[id] = Replayed(status[id], emitted', id)
           /\ id \notin emitted'.introduced =>
                (repeats'[id] > repeats[id]
                   <=> id \in emitted'.repeated \cup emitted'.revived)]_obligationSpecVars
  BY StepIsTold DEF Told
<1>2. ObligationInv /\ NothingToldYet /\ [ObligationNext]_obligationSpecVars =>
        [\A id \in emitted'.introduced \cup emitted'.repeated \cup emitted'.revived :
           IF id \in emitted'.ended THEN status'[id] = "unknown"
           ELSE Outstanding(status'[id])]_obligationSpecVars
  BY StepIsTold DEF Stands
<1> QED
  BY <1>1, <1>2, SurfaceInvariant, EventsFollowTurns, PTL
     DEF ObligationSpec, SurfaceMovesAsTold, EventsExplainSurface, StatedStands

-----------------------------------------------------------------------------
(* The surface implements the life of a requirement.                       *)
LEMMA TurnContinues ==
  ASSUME ObligationInv, NEW R \in Resolutions, NEW cs \in CandidateSeqs, NEW target,
         NEW id \in Identities,
         NEW new, new = Introduced(cs), NEW hits, hits = Hits(cs, new),
         NEW left, left = AfterViolate(AfterResolve(R), new, hits, target)[id]
  PROVE  IF id[1] = epoch THEN Lifecycle!Continues(status[id], left) /\ left # "unknown"
         ELSE left = status[id] /\ ~Outstanding(left)
<1> DEFINE released == AfterResolve(R)
           violated == Violated(released, new, hits, target)
<1>1. /\ left = IF id \in violated THEN "violated"
                ELSE IF id \in new THEN "unresolved"
                ELSE IF Times(hits, id) > 0 THEN StatusAfter(released[id])
                ELSE released[id]
      /\ IF id \in ResolvedBy(R)
         THEN /\ released[id] = KindOf(R, id) /\ KindOf(R, id) \in ResolutionKinds
              /\ ~Resolved(status[id])
         ELSE released[id] = status[id]
      /\ released[id] # status[id] => byKey[id[2]] = id
      /\ Times(hits, id) > 0 => id \in new \/ byKey[id[2]] = id
      /\ id \in violated => Times(hits, id) > 0
      /\ id \in new => status[id] = "absent" /\ id[1] = epoch
      /\ byKey[id[2]] = id => status[id] \notin {"absent", "unknown"} /\ id[1] = epoch
      /\ status[id] \in Statuses
  BY TurnStages
<1> HIDE DEF released, violated
<1>2. id[1] # epoch => left = status[id] /\ ~Outstanding(left)
  <2>1. id[1] # epoch => ~Outstanding(status[id])
    BY DEF ObligationInv, EveryObligationFiled, Filed, Outstanding
  <2> QED
    BY <1>1, <2>1
<1>3. id[1] = epoch /\ status[id] # "absent" => byKey[id[2]] = id
  BY DEF ObligationInv, EveryObligationFiled, Filed, ObligationTypeOK, ExchangeTypeOK, Epochs
<1>4. CASE id[1] = epoch /\ status[id] = "absent"
  <2>1. left \in {"absent", "unresolved", "violated"}
    BY <1>1, <1>4
  <2> QED
    BY <1>4, <2>1 DEF Lifecycle!Continues
<1>5. CASE id[1] = epoch /\ status[id] \in {"unresolved", "violated"}
  <2>1. left \in {"unresolved", "violated"} \cup ResolutionKinds
    BY <1>1, <1>5 DEF StatusAfter, Resolved, ResolutionKinds
  <2> QED
    BY <1>5, <2>1 DEF Lifecycle!Continues, Lifecycle!Settled, ResolutionKinds
<1>6. CASE id[1] = epoch /\ status[id] \in ResolutionKinds
  <2>1. left \in {"unresolved", "violated", status[id]}
    BY <1>1, <1>6 DEF StatusAfter, Resolved
  <2> QED
    BY <1>6, <2>1 DEF Lifecycle!Continues, Lifecycle!Settled, ResolutionKinds
<1>7. id[1] = epoch => status[id] # "unknown"
  BY <1>1, <1>3
<1> QED
  BY <1>1, <1>2, <1>4, <1>5, <1>6, <1>7 DEF Statuses

LEMMA TurnIsOneOfItsLife ==
  ASSUME ObligationInv, OperatorTurn
  PROVE  Lifecycle!Next
<1>1. PICK R \in Resolutions, cs \in CandidateSeqs, target \in Keys \cup {Nowhere},
           reset \in BOOLEAN : OperatorRecord(reset) /\ ObligationTurn(R, cs, target, reset)
  BY DEF OperatorTurn
<1> DEFINE new == Introduced(cs)
           hits == Hits(cs, new)
           standing == AfterViolate(AfterResolve(R), new, hits, target)
           epochOf == [id \in Identities |-> id[1]]
<1>2. \A id \in Identities :
        IF epochOf[id] = epoch
        THEN Lifecycle!Continues(status[id], standing[id]) /\ standing[id] # "unknown"
        ELSE standing[id] = status[id] /\ ~Outstanding(standing[id])
  BY TurnContinues
<1>3. status' = IF reset THEN AfterReset(standing) ELSE standing
  BY <1>1 DEF ObligationTurn
<1>4. epoch' = IF reset THEN epoch + 1 ELSE epoch
  BY <1>1 DEF OperatorRecord
<1>5. \A id \in Identities : status[id] \in Statuses
  BY DEF ObligationInv, ObligationTypeOK
<1> HIDE DEF standing, epochOf
<1>6. CASE ~reset
  BY <1>2, <1>3, <1>4, <1>6 DEF Lifecycle!Next, Lifecycle!Turn, epochOf
<1>7. CASE reset
  <2>1. \A id \in Identities :
          status'[id] = IF Outstanding(standing[id]) THEN "unknown" ELSE standing[id]
    BY <1>3, <1>7 DEF AfterReset
  <2>2. ASSUME NEW id \in Identities, epochOf[id] = epoch
        PROVE  Lifecycle!Ends(status[id], status'[id])
    <3>1. Lifecycle!Continues(status[id], standing[id]) /\ standing[id] # "unknown"
      BY <1>2, <2>2
    <3>2. status[id] # "unknown"
      BY <3>1 DEF Lifecycle!Continues, Lifecycle!Settled
    <3> QED
      BY <1>5, <2>1, <3>1, <3>2
         DEF Lifecycle!Ends, Lifecycle!Continues, Lifecycle!Settled, Outstanding, Statuses,
             ResolutionKinds
  <2>3. \A id \in Identities : epochOf[id] # epoch => status'[id] = status[id]
    BY <1>2, <2>1
  <2> QED
    BY <1>4, <1>7, <2>2, <2>3 DEF Lifecycle!Next, Lifecycle!Reset, epochOf
<1> QED
  BY <1>6, <1>7

(* Every requirement lives the life the abstract specification allows: it  *)
(* belongs to the epoch that stated it, may leave the inventory and come   *)
(* back, becomes unknown when a reset ends the epoch while it stands, and  *)
(* never changes after that.                                               *)
THEOREM RequirementsLiveAsTold == ObligationSpec => FollowsLifecycle
<1>1. ObligationSpecInit => Lifecycle!Init
  BY DEF ObligationSpecInit, ExchangeInit, ObligationInit, Lifecycle!Init
<1>2. ObligationInv /\ [ObligationNext]_obligationSpecVars => [Lifecycle!Next]_<<status, epoch>>
  <2> SUFFICES ASSUME ObligationInv, [ObligationNext]_obligationSpecVars
               PROVE  [Lifecycle!Next]_<<status, epoch>>
    OBVIOUS
  <2>1. CASE OperatorTurn
    BY <2>1, TurnIsOneOfItsLife
  <2>2. CASE QuietRecord \/ Finish \/ Panic
    BY <2>2 DEF QuietRecord, Finish, Panic, OtherRecord, TakeRecord, StopAs, ObligationOther,
                obligationVars
  <2>3. CASE UNCHANGED obligationSpecVars
    BY <2>3 DEF obligationSpecVars, exchangeVars, obligationVars
  <2> QED
    BY <2>1, <2>2, <2>3 DEF ObligationNext
<1> QED
  BY <1>1, <1>2, SurfaceInvariant, PTL DEF ObligationSpec, FollowsLifecycle, Lifecycle!Spec
=============================================================================
