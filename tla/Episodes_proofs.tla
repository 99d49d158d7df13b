---------------------------- MODULE Episodes_proofs ----------------------------
(***************************************************************************)
(* What holds of repair episodes for every set of paths and keys and every *)
(* recurrence window: the parts of the episode state agree (EpisodesAgree),*)
(* an outcome stands (OutcomesStand), every record moves the list as the   *)
(* life METRICS.md promises (FollowsLifecycle, a refinement), and repair   *)
(* rests on writes (RepairIsVerifiedByWrites).                             *)
(*                                                                         *)
(* A turn is a composition of stages, each from state to state, so the     *)
(* invariant is an operator on such a state and every stage keeps it.      *)
(* Neither property is inductive.  A provisional close leaves the cycle    *)
(* alone and so rests on AnswersAreRecorded: a cycle that is still there   *)
(* after its assessment has seen no answer.  That a durable close was not  *)
(* taken back rests on StandApart: two episodes the operator opened about  *)
(* one target never stand at once, because a correction looks for a target *)
(* among those awaiting durability before it opens another.                *)
(***************************************************************************)
EXTENDS Episodes, WellFoundedInduction, FiniteSetTheorems, SequenceTheorems, TLAPS

States == [repairs : Seq(Repairs), active : Nat, closing : SUBSET Nat, cycle : Cycles \cup {Nil}]

Indices(e) == 1..Len(e.repairs)

Pointed(e) == e.active \in Indices(e) \cup {0} /\ e.closing \subseteq Indices(e)

OpenIsActive(e) ==
  \A i \in Indices(e) : /\ e.repairs[i].status = "open" <=> i = e.active
                        /\ e.repairs[i].closed <=> e.repairs[i].status # "open"

CycleIsOfActive(e) == e.cycle # Nil => e.active # 0 /\ e.cycle.repair = e.active

AnswersAreRecorded(e) == e.cycle # Nil /\ e.cycle.agentTurns => e.cycle.records

(* The ordinals an episode carries lie in the past. *)
InThePast(e, now) ==
  \A i \in Indices(e) : e.repairs[i].activeIndex <= now /\ e.repairs[i].closeIndex <= now

WaitingInWindow(e, now) ==
  /\ \A i \in Indices(e) : i \in e.closing <=> e.repairs[i].status = "provisionally_closed"
  /\ \A i, j \in e.closing : e.repairs[i].closeIndex = e.repairs[j].closeIndex => i = j
  /\ \A i \in e.closing : now - e.repairs[i].closeIndex < Durability

DurableIsOver(e, now) ==
  \A i \in Indices(e) :
    e.repairs[i].status = "durably_closed" => now - e.repairs[i].closeIndex >= Durability

(* Episodes the operator opened, about one target. *)
Alike(e, i, j) ==
  /\ i # j /\ ~e.repairs[i].structural /\ ~e.repairs[j].structural
  /\ e.repairs[i].target # NoKey /\ e.repairs[i].target = e.repairs[j].target

Stands(e, i) == e.repairs[i].status \in {"open", "provisionally_closed"}

StandApart(e) == \A i, j \in Indices(e) : Alike(e, i, j) => ~(Stands(e, i) /\ Stands(e, j))

NotTakenBack(e) ==
  \A i, j \in Indices(e) :
    Alike(e, i, j) /\ e.repairs[i].status \in {"provisionally_closed", "durably_closed"} =>
      \/ e.repairs[j].activeIndex < e.repairs[i].closeIndex
      \/ e.repairs[j].activeIndex >= e.repairs[i].closeIndex + Durability

(* What every stage keeps, at the ordinal now. *)
Sound(e, now) ==
  /\ e \in States
  /\ Pointed(e) /\ OpenIsActive(e) /\ CycleIsOfActive(e) /\ AnswersAreRecorded(e)
  /\ InThePast(e, now) /\ WaitingInWindow(e, now) /\ DurableIsOver(e, now)
  /\ StandApart(e) /\ NotTakenBack(e)

Accrues(e, now) ==
  e.active # 0 /\ e.cycle = Nil => now - e.repairs[e.active].activeIndex < Durability

(* What a stage may do to an episode that has its outcome: nothing. *)
KeepsOutcomes(e, n) ==
  /\ Len(n.repairs) >= Len(e.repairs)
  /\ \A i \in Indices(e) : e.repairs[i].status \in Terminal => n.repairs[i] = e.repairs[i]

(* What a stage may do to the list: at most one episode opens, and nothing *)
(* closes durably but by the passing of its window.                        *)
NoneMadeDurable(e, n) ==
  \A i \in Indices(e) :
    n.repairs[i].status = "durably_closed" => e.repairs[i].status = "durably_closed"

Proceeds(e, n) ==
  /\ \/ Len(n.repairs) = Len(e.repairs)
     \/ Len(n.repairs) = Len(e.repairs) + 1 /\ n.active = Len(n.repairs)
  /\ NoneMadeDurable(e, n)

(* What a record may do to it: an episode it opens is open, or ended by the *)
(* reset the same turn carries.                                            *)
Lives(e, n) ==
  /\ \/ Len(n.repairs) = Len(e.repairs)
     \/ /\ Len(n.repairs) = Len(e.repairs) + 1
        /\ n.repairs[Len(n.repairs)].status \in {"open", "reset"}
        /\ n.active \in {0, Len(n.repairs)}
  /\ \A i \in Indices(e) :
       n.repairs[i].status = "durably_closed" =>
         e.repairs[i].status \in {"provisionally_closed", "durably_closed"}

-----------------------------------------------------------------------------
(* Records and sequences of them. *)
LEMMA ClosedEpisode ==
  ASSUME NEW r \in Repairs, NEW status \in RepairStatuses
  PROVE  /\ Closed(r, status) \in Repairs
         /\ Closed(r, status).status = status /\ Closed(r, status).closed = TRUE
         /\ Closed(r, status).target = r.target /\ Closed(r, status).structural = r.structural
         /\ Closed(r, status).closeIndex = r.closeIndex
         /\ Closed(r, status).activeIndex = r.activeIndex
  BY DEF Closed, Repairs

LEMMA ReopenedEpisode ==
  ASSUME NEW r \in Repairs, NEW now \in Nat, NEW paths \in SUBSET Paths
  PROVE  /\ Reopened(r, now, paths) \in Repairs
         /\ Reopened(r, now, paths).status = "open" /\ Reopened(r, now, paths).closed = FALSE
         /\ Reopened(r, now, paths).target = r.target
         /\ Reopened(r, now, paths).structural = r.structural
         /\ Reopened(r, now, paths).closeIndex = r.closeIndex
         /\ Reopened(r, now, paths).activeIndex = now
<1> DEFINE opened == [r EXCEPT !.status = "open", !.closed = FALSE]
           deeper == [opened EXCEPT !.depth = r.depth + 1]
           active_now == [deeper EXCEPT !.activeIndex = now]
<1>1. Reopened(r, now, paths) = [active_now EXCEPT !.paths = r.paths \cup paths]
  BY DEF Reopened
<1>2. /\ opened \in Repairs /\ opened.status = "open" /\ opened.closed = FALSE
      /\ opened.target = r.target /\ opened.structural = r.structural
      /\ opened.closeIndex = r.closeIndex
  BY DEF Repairs, RepairStatuses
<1> HIDE DEF opened
<1>3. /\ deeper \in Repairs /\ deeper.status = "open" /\ deeper.closed = FALSE
      /\ deeper.target = r.target /\ deeper.structural = r.structural
      /\ deeper.closeIndex = r.closeIndex
  BY <1>2 DEF Repairs
<1> HIDE DEF deeper
<1>4. /\ active_now \in Repairs /\ active_now.status = "open" /\ active_now.closed = FALSE
      /\ active_now.target = r.target /\ active_now.structural = r.structural
      /\ active_now.closeIndex = r.closeIndex /\ active_now.activeIndex = now
  BY <1>3 DEF Repairs
<1> HIDE DEF active_now
<1> DEFINE last == [active_now EXCEPT !.paths = r.paths \cup paths]
<1>5. /\ last \in Repairs /\ last.status = "open" /\ last.closed = FALSE
      /\ last.target = r.target /\ last.structural = r.structural
      /\ last.closeIndex = r.closeIndex /\ last.activeIndex = now
  BY <1>4 DEF Repairs
<1> QED BY <1>1, <1>5

LEMMA NewCycleFacts ==
  ASSUME NEW i \in Nat
  PROVE  /\ NewCycle(i) \in Cycles /\ NewCycle(i) # Nil
         /\ NewCycle(i).repair = i /\ NewCycle(i).agentTurns = FALSE
<1>1. /\ NewCycle(i) \in Cycles
      /\ NewCycle(i).repair = i /\ NewCycle(i).agentTurns = FALSE
  BY DEF NewCycle, Cycles
<1> QED BY <1>1, NilIsNoCycle

LEMMA Replaced ==
  ASSUME NEW S, NEW q \in Seq(S), NEW i \in 1..Len(q), NEW x \in S
  PROVE  /\ [q EXCEPT ![i] = x] \in Seq(S)
         /\ Len([q EXCEPT ![i] = x]) = Len(q)
         /\ \A k \in 1..Len(q) : [q EXCEPT ![i] = x][k] = IF k = i THEN x ELSE q[k]
  OBVIOUS

-----------------------------------------------------------------------------
(* SettlePollution assesses the open episode and touches nothing else.     *)
OnlyAssessed(e, n) ==
  /\ n \in States /\ Len(n.repairs) = Len(e.repairs)
  /\ n.active = e.active /\ n.closing = e.closing
  /\ n.cycle = Nil \/ (n.cycle = e.cycle /\ ~n.cycle.agentTurns)
  /\ \A i \in Indices(e) :
       /\ n.repairs[i].status = e.repairs[i].status /\ n.repairs[i].closed = e.repairs[i].closed
       /\ n.repairs[i].closeIndex = e.repairs[i].closeIndex
       /\ n.repairs[i].activeIndex = e.repairs[i].activeIndex
       /\ n.repairs[i].target = e.repairs[i].target
       /\ n.repairs[i].structural = e.repairs[i].structural

LEMMA AssessedEpisode ==
  ASSUME NEW r \in Repairs, NEW pollution \in Pollutions
  PROVE  /\ [r EXCEPT !.pollution = pollution] \in Repairs
         /\ [r EXCEPT !.pollution = pollution].status = r.status
         /\ [r EXCEPT !.pollution = pollution].closed = r.closed
         /\ [r EXCEPT !.pollution = pollution].closeIndex = r.closeIndex
         /\ [r EXCEPT !.pollution = pollution].activeIndex = r.activeIndex
         /\ [r EXCEPT !.pollution = pollution].target = r.target
         /\ [r EXCEPT !.pollution = pollution].structural = r.structural
  BY DEF Repairs

LEMMA AssessmentIsKnown ==
  ASSUME NEW c \in Cycles, NEW named \in BOOLEAN, NEW corrected \in BOOLEAN
  PROVE  Pollution(c, named, corrected) \in Pollutions
<1>1. c.repaired \in BOOLEAN /\ c.expanded \in BOOLEAN /\ c.writes \in BOOLEAN
  BY DEF Cycles
<1> QED BY <1>1 DEF Pollution, Pollutions, UnknownPremises

Assessed(e, i, p) == [e EXCEPT !.cycle = Nil, !.repairs[i].pollution = p]

LEMMA AssessedState ==
  ASSUME NEW e \in States, NEW i \in Indices(e), NEW p \in Pollutions
  PROVE  /\ Assessed(e, i, p) \in States
         /\ Assessed(e, i, p).active = e.active /\ Assessed(e, i, p).closing = e.closing
         /\ Assessed(e, i, p).cycle = Nil
         /\ Assessed(e, i, p).repairs
              = [e.repairs EXCEPT ![i] = [e.repairs[i] EXCEPT !.pollution = p]]
<1> DEFINE n == Assessed(e, i, p)
<1>1. e.repairs \in Seq(Repairs) /\ e.repairs[i] \in Repairs
  BY DEF States, Indices
<1>2. [e.repairs[i] EXCEPT !.pollution = p] \in Repairs
  BY <1>1, AssessedEpisode
<1>3. n.repairs = [e.repairs EXCEPT ![i] = [e.repairs[i] EXCEPT !.pollution = p]]
  BY DEF States, Assessed
<1>4. n.repairs \in Seq(Repairs)
  BY <1>1, <1>2, <1>3, Replaced DEF Indices
<1>5. n.active = e.active /\ n.closing = e.closing /\ n.cycle = Nil
  BY DEF States, Assessed
<1>6. n = [e EXCEPT !.cycle = Nil, !.repairs = n.repairs]
  BY <1>3 DEF States, Assessed
<1>7. \A q \in Seq(Repairs) : [e EXCEPT !.cycle = Nil, !.repairs = q] \in States
  BY DEF States
<1> QED BY <1>3, <1>4, <1>5, <1>6, <1>7

LEMMA AssessedKeepsRest ==
  ASSUME NEW e, NEW now \in Nat, Sound(e, now), NEW corrected \in BOOLEAN
  PROVE  /\ OnlyAssessed(e, SettlePollution(e, corrected))
         /\ KeepsOutcomes(e, SettlePollution(e, corrected))
<1> DEFINE n == SettlePollution(e, corrected)
<1>1. CASE e.cycle = Nil
  <2>1. n = e
    BY <1>1 DEF SettlePollution
  <2> QED BY <2>1, <1>1 DEF OnlyAssessed, KeepsOutcomes, Sound, States
<1>2. CASE e.cycle # Nil /\ ~e.cycle.records
  <2>1. n = e
    BY <1>2 DEF SettlePollution
  <2>2. e.cycle.agentTurns \in BOOLEAN /\ ~e.cycle.agentTurns
    BY <1>2 DEF Sound, States, Cycles, AnswersAreRecorded
  <2> QED BY <2>1, <2>2 DEF OnlyAssessed, KeepsOutcomes, Sound, States
<1>3. CASE e.cycle # Nil /\ e.cycle.records
  <2> DEFINE i == e.cycle.repair
             p == Pollution(e.cycle, e.repairs[i].paths # {}, corrected)
  <2>1. /\ i \in Indices(e) /\ i = e.active /\ e \in States /\ e.repairs \in Seq(Repairs)
        /\ e.cycle \in Cycles /\ e.repairs[i] \in Repairs
    BY <1>3 DEF Sound, CycleIsOfActive, Pointed, States, Indices
  <2>2. p \in Pollutions
    BY <2>1, AssessmentIsKnown
  <2>3. n = Assessed(e, i, p)
    BY <1>3 DEF SettlePollution, Assessed
  <2> HIDE DEF p, n, i
  <2>4. /\ n \in States /\ n.active = e.active /\ n.closing = e.closing /\ n.cycle = Nil
        /\ n.repairs = [e.repairs EXCEPT ![i] = [e.repairs[i] EXCEPT !.pollution = p]]
    BY <2>1, <2>2, <2>3, AssessedState, SMTT(30)
  <2>5. [e.repairs[i] EXCEPT !.pollution = p] \in Repairs
    BY <2>1, <2>2, AssessedEpisode
  <2>6. /\ Len(n.repairs) = Len(e.repairs)
        /\ \A k \in Indices(e) :
             n.repairs[k] = IF k = i THEN [e.repairs[i] EXCEPT !.pollution = p] ELSE e.repairs[k]
    BY <2>1, <2>4, <2>5, Replaced DEF Indices
  <2>7. OnlyAssessed(e, n)
    BY <2>1, <2>2, <2>4, <2>6, AssessedEpisode DEF OnlyAssessed
  <2>8. KeepsOutcomes(e, n)
    <3>1. e.repairs[i].status = "open"
      BY <2>1 DEF Sound, OpenIsActive
    <3> QED BY <2>6, <3>1, <2>1 DEF KeepsOutcomes, Terminal, States, Indices
  <2> QED BY <2>7, <2>8 DEF n
<1>4. e.cycle = Nil \/ e.cycle.records \in BOOLEAN
  BY DEF Sound, States, Cycles
<1> QED BY <1>1, <1>2, <1>3, <1>4

LEMMA AssessedIsSound ==
  ASSUME NEW e, NEW n, NEW now \in Nat, Sound(e, now), OnlyAssessed(e, n)
  PROVE  Sound(n, now)
<1> USE DEF Sound, OnlyAssessed, Indices
<1>1. Pointed(n) /\ OpenIsActive(n) /\ CycleIsOfActive(n) /\ AnswersAreRecorded(n)
  BY DEF Pointed, OpenIsActive, CycleIsOfActive, AnswersAreRecorded
<1>2. InThePast(n, now) /\ DurableIsOver(n, now)
  BY DEF InThePast, DurableIsOver
<1>3. WaitingInWindow(n, now)
  BY DEF WaitingInWindow, Pointed
<1>4. StandApart(n)
  BY DEF StandApart, Alike, Stands
<1>5. NotTakenBack(n)
  BY DEF NotTakenBack, Alike
<1> QED BY <1>1, <1>2, <1>3, <1>4, <1>5
-----------------------------------------------------------------------------
(* A stage writes the fields of the state; most change one episode.        *)
Put(e, q, a, c, y) == [e EXCEPT !.repairs = q, !.active = a, !.closing = c, !.cycle = y]

LEMMA PutState ==
  ASSUME NEW e \in States, NEW q \in Seq(Repairs), NEW a \in Nat, NEW c \in SUBSET Nat,
         NEW y \in Cycles \cup {Nil}
  PROVE  /\ Put(e, q, a, c, y) \in States
         /\ Put(e, q, a, c, y).repairs = q /\ Put(e, q, a, c, y).active = a
         /\ Put(e, q, a, c, y).closing = c /\ Put(e, q, a, c, y).cycle = y
  BY DEF Put, States

Swapped(e, n, i, r) ==
  /\ n \in States /\ i \in Indices(e) /\ r \in Repairs
  /\ Len(n.repairs) = Len(e.repairs)
  /\ \A k \in Indices(e) : n.repairs[k] = IF k = i THEN r ELSE e.repairs[k]

LEMMA PutSwapped ==
  ASSUME NEW e \in States, NEW i \in Indices(e), NEW r \in Repairs,
         NEW a \in Nat, NEW c \in SUBSET Nat, NEW y \in Cycles \cup {Nil}
  PROVE  LET n == Put(e, [e.repairs EXCEPT ![i] = r], a, c, y)
         IN  Swapped(e, n, i, r) /\ n.active = a /\ n.closing = c /\ n.cycle = y
<1> DEFINE q == [e.repairs EXCEPT ![i] = r]
<1>1. /\ q \in Seq(Repairs) /\ Len(q) = Len(e.repairs)
      /\ \A k \in Indices(e) : q[k] = IF k = i THEN r ELSE e.repairs[k]
  BY Replaced DEF States, Indices
<1> HIDE DEF q
<1>2. /\ Put(e, q, a, c, y) \in States
      /\ Put(e, q, a, c, y).repairs = q /\ Put(e, q, a, c, y).active = a
      /\ Put(e, q, a, c, y).closing = c /\ Put(e, q, a, c, y).cycle = y
  BY <1>1, PutState
<1> QED BY <1>1, <1>2 DEF Swapped, q

(* The same episode, apart from where it stands. *)
SameEpisode(r, s) == r.target = s.target /\ r.structural = s.structural

-----------------------------------------------------------------------------
(* The open episode ends. *)
LEMMA EndingIsSound ==
  ASSUME NEW e, NEW n, NEW r, NEW now \in Nat, Sound(e, now), e.active # 0,
         Swapped(e, n, e.active, r), SameEpisode(r, e.repairs[e.active]),
         r.status = "unknown", r.closed = TRUE,
         r.closeIndex = e.repairs[e.active].closeIndex,
         r.activeIndex = e.repairs[e.active].activeIndex,
         n.active = 0, n.closing = e.closing, n.cycle = Nil
  PROVE  Sound(n, now) /\ KeepsOutcomes(e, n) /\ Proceeds(e, n)
<1> USE DEF Sound, Swapped, Indices, SameEpisode
<1>1. Pointed(n) /\ CycleIsOfActive(n) /\ AnswersAreRecorded(n)
  BY DEF Pointed, CycleIsOfActive, AnswersAreRecorded
<1>2. OpenIsActive(n)
  BY DEF OpenIsActive
<1>3. InThePast(n, now) /\ DurableIsOver(n, now)
  BY DEF InThePast, DurableIsOver
<1>4. WaitingInWindow(n, now)
  <2>1. \A k \in Indices(n) : k \in n.closing <=> n.repairs[k].status = "provisionally_closed"
    BY DEF WaitingInWindow, OpenIsActive
  <2>2. \A k \in e.closing : k \in Indices(e) /\ k # e.active /\ n.repairs[k] = e.repairs[k]
    BY DEF WaitingInWindow, OpenIsActive, Pointed
  <2> QED BY <2>1, <2>2 DEF WaitingInWindow
<1>5. StandApart(n)
  BY SMTT(30) DEF StandApart, Alike, Stands
<1>6. NotTakenBack(n)
  BY SMTT(30) DEF NotTakenBack, Alike
<1>7. KeepsOutcomes(e, n)
  BY DEF KeepsOutcomes, Terminal, OpenIsActive, States
<1>8. Proceeds(e, n)
  BY DEF Proceeds, NoneMadeDurable
<1> QED BY <1>1, <1>2, <1>3, <1>4, <1>5, <1>6, <1>7, <1>8

(* A correction: the episode it is about, open or awaiting durability, is  *)
(* the open one.                                                           *)
LEMMA ReopeningIsSound ==
  ASSUME NEW e, NEW n, NEW i, NEW r, NEW now \in Nat, Sound(e, now),
         i # 0, i = e.active \/ (e.active = 0 /\ i \in e.closing),
         Swapped(e, n, i, r), SameEpisode(r, e.repairs[i]),
         r.status = "open", r.closed = FALSE,
         r.closeIndex = e.repairs[i].closeIndex, r.activeIndex = now,
         n.active = i, n.closing = e.closing \ {i}, n.cycle = NewCycle(i)
  PROVE  Sound(n, now) /\ n.cycle # Nil /\ KeepsOutcomes(e, n) /\ Proceeds(e, n)
<1> USE DEF Sound, Swapped, Indices, SameEpisode
<1> i \in Nat
  BY DEF States
<1>0. n.cycle # Nil /\ n.cycle.repair = i /\ n.cycle.agentTurns = FALSE
  BY NewCycleFacts
<1> \A k \in Indices(e) : e.repairs[k] \in Repairs
  BY DEF States
<1>1. Pointed(n) /\ CycleIsOfActive(n) /\ AnswersAreRecorded(n)
  BY <1>0 DEF Pointed, CycleIsOfActive, AnswersAreRecorded
<1>2. OpenIsActive(n)
  BY <1>0 DEF OpenIsActive
<1>3. InThePast(n, now)
  BY DEF InThePast
<1>4. DurableIsOver(n, now)
  BY DEF DurableIsOver
<1>5. WaitingInWindow(n, now)
  BY DEF WaitingInWindow, Pointed, OpenIsActive
<1>6. Stands(e, i)
  BY DEF Stands, WaitingInWindow, OpenIsActive
<1>7. StandApart(n)
  BY <1>6 DEF StandApart, Alike, Stands
<1>8. NotTakenBack(n)
  <2> SUFFICES ASSUME NEW k \in Indices(n), NEW j \in Indices(n), Alike(n, k, j),
                      n.repairs[k].status \in {"provisionally_closed", "durably_closed"}
               PROVE  \/ n.repairs[j].activeIndex < n.repairs[k].closeIndex
                      \/ n.repairs[j].activeIndex >= n.repairs[k].closeIndex + Durability
    BY DEF NotTakenBack
  <2>1. k # i /\ n.repairs[k] = e.repairs[k] /\ Alike(e, k, j)
    BY DEF Alike
  <2>2. CASE j = i
    <3>1. e.repairs[k].status = "durably_closed"
      BY <2>1, <2>2, <1>6 DEF StandApart, Stands
    <3>2. now - e.repairs[k].closeIndex >= Durability
      BY <3>1 DEF DurableIsOver
    <3>3. e.repairs[k].closeIndex \in Nat
      BY DEF Repairs
    <3> QED BY <2>1, <2>2, <3>2, <3>3, EpisodeConstants
  <2>3. CASE j # i
    BY <2>1, <2>3 DEF NotTakenBack
  <2> QED BY <2>2, <2>3
<1>9. KeepsOutcomes(e, n)
  BY <1>6 DEF KeepsOutcomes, Terminal, Stands, States
<1>10. Proceeds(e, n)
  BY DEF Proceeds, NoneMadeDurable
<1> QED BY <1>0, <1>1, <1>2, <1>3, <1>4, <1>5, <1>7, <1>8, <1>9, <1>10

(* A turn about something else closes the answered episode. *)
LEMMA ClosingIsSound ==
  ASSUME NEW e, NEW n, NEW r, NEW now \in Nat, Sound(e, now), e.active # 0, e.cycle = Nil,
         \A k \in Indices(e) : e.repairs[k].activeIndex < now /\ e.repairs[k].closeIndex < now,
         Swapped(e, n, e.active, r), SameEpisode(r, e.repairs[e.active]),
         r.status = "provisionally_closed", r.closed = TRUE, r.closeIndex = now,
         r.activeIndex = e.repairs[e.active].activeIndex,
         n.active = 0, n.closing = e.closing \cup {e.active}, n.cycle = Nil
  PROVE  Sound(n, now) /\ KeepsOutcomes(e, n) /\ Proceeds(e, n)
<1> USE DEF Sound, Swapped, Indices, SameEpisode
<1>1. Pointed(n) /\ CycleIsOfActive(n) /\ AnswersAreRecorded(n)
  BY DEF Pointed, CycleIsOfActive, AnswersAreRecorded
<1>2. OpenIsActive(n)
  BY DEF OpenIsActive
<1>3. InThePast(n, now) /\ DurableIsOver(n, now)
  BY DEF InThePast, DurableIsOver
<1>4. WaitingInWindow(n, now)
  <2>1. \A k \in Indices(n) : k \in n.closing <=> n.repairs[k].status = "provisionally_closed"
    BY DEF WaitingInWindow, OpenIsActive
  <2>2. \A k \in e.closing : /\ k # e.active /\ n.repairs[k] = e.repairs[k]
                              /\ n.repairs[k].closeIndex < now
    BY DEF WaitingInWindow, OpenIsActive, Pointed
  <2>3. n.repairs[e.active].closeIndex = now
    BY DEF Pointed
  <2>4. \A k, j \in n.closing : n.repairs[k].closeIndex = n.repairs[j].closeIndex => k = j
    BY <2>2, <2>3 DEF WaitingInWindow
  <2>5. \A k \in n.closing : now - n.repairs[k].closeIndex < Durability
    BY <2>2, <2>3, EpisodeConstants DEF WaitingInWindow
  <2> QED BY <2>1, <2>4, <2>5 DEF WaitingInWindow
<1>5. StandApart(n)
  BY SMTT(30) DEF StandApart, Alike, Stands, OpenIsActive
<1>6. NotTakenBack(n)
  <2> SUFFICES ASSUME NEW k \in Indices(n), NEW j \in Indices(n), Alike(n, k, j),
                      n.repairs[k].status \in {"provisionally_closed", "durably_closed"}
               PROVE  \/ n.repairs[j].activeIndex < n.repairs[k].closeIndex
                      \/ n.repairs[j].activeIndex >= n.repairs[k].closeIndex + Durability
    BY DEF NotTakenBack
  <2>1. Alike(e, k, j) /\ k \in Indices(e) /\ j \in Indices(e)
    BY SMTT(30) DEF Alike
  <2>2. n.repairs[j].activeIndex = e.repairs[j].activeIndex
    OBVIOUS
  <2>3. CASE k = e.active
    BY <2>1, <2>2, <2>3
  <2>4. CASE k # e.active
    BY <2>1, <2>2, <2>4 DEF NotTakenBack
  <2> QED BY <2>3, <2>4
<1>7. KeepsOutcomes(e, n)
  BY DEF KeepsOutcomes, Terminal, OpenIsActive, States
<1>8. Proceeds(e, n)
  BY DEF Proceeds, NoneMadeDurable
<1> QED BY <1>1, <1>2, <1>3, <1>4, <1>5, <1>6, <1>7, <1>8

(* An episode opens while none is open: by a correction about nothing that *)
(* awaits durability, or by the agent editing its own writes again.        *)
LEMMA OpeningIsSound ==
  ASSUME NEW e, NEW now \in Nat, Sound(e, now), e.active = 0, epoch \in Nat,
         NEW key \in TargetKeys \cup {NoKey}, NEW paths \in SUBSET Paths,
         NEW structural \in BOOLEAN, structural \/ SameTarget(e, key) = {}
  PROVE  LET n == Open(e, key, paths, structural, now)
         IN  Sound(n, now) /\ n.cycle # Nil /\ KeepsOutcomes(e, n) /\ Proceeds(e, n)
<1> DEFINE r == NewRepair(key, paths, structural, now)
           i == Len(e.repairs) + 1
           n == Open(e, key, paths, structural, now)
<1>1. /\ r \in Repairs /\ r.status = "open" /\ r.closed = FALSE /\ r.target = key
      /\ r.structural = structural /\ r.closeIndex = 0 /\ r.activeIndex = now
  BY DEF NewRepair, Repairs, RepairStatuses, Pollutions
<1> HIDE DEF r
<1>0. e \in States /\ e.repairs \in Seq(Repairs) /\ i \in Nat /\ i > 0
  BY DEF Sound, States
<1>2. /\ e \in States /\ e.repairs \in Seq(Repairs) /\ i \in Nat /\ i > 0
      /\ NewCycle(i) \in Cycles /\ NewCycle(i) # Nil
      /\ NewCycle(i).repair = i /\ NewCycle(i).agentTurns = FALSE
  BY <1>0, NewCycleFacts
<1> \A k \in Indices(e) : e.repairs[k] \in Repairs
  BY <1>0 DEF Indices
<1>3. n = Put(e, Append(e.repairs, r), i, e.closing, NewCycle(i))
  BY <1>2 DEF States, Put, Open, r
<1>4. /\ Append(e.repairs, r) \in Seq(Repairs) /\ Len(Append(e.repairs, r)) = i
      /\ Append(e.repairs, r)[i] = r
      /\ \A k \in Indices(e) : Append(e.repairs, r)[k] = e.repairs[k]
  BY <1>1, <1>2 DEF Indices
<1>5. /\ n \in States /\ n.repairs = Append(e.repairs, r) /\ n.active = i
      /\ n.closing = e.closing /\ n.cycle = NewCycle(i)
  <2>1. e.closing \in SUBSET Nat
    BY <1>2 DEF States
  <2> DEFINE q == Append(e.repairs, r)
  <2>2. q \in Seq(Repairs) /\ NewCycle(i) \in Cycles \cup {Nil}
    BY <1>2, <1>4
  <2> HIDE DEF q
  <2>3. /\ Put(e, q, i, e.closing, NewCycle(i)) \in States
        /\ Put(e, q, i, e.closing, NewCycle(i)).repairs = q
        /\ Put(e, q, i, e.closing, NewCycle(i)).active = i
        /\ Put(e, q, i, e.closing, NewCycle(i)).closing = e.closing
        /\ Put(e, q, i, e.closing, NewCycle(i)).cycle = NewCycle(i)
    BY <1>2, <2>1, <2>2, PutState
  <2> QED BY <1>3, <2>3 DEF q
<1> HIDE DEF n
<1>6. /\ Len(n.repairs) = i /\ n.repairs[i] = r /\ Indices(n) = Indices(e) \cup {i}
      /\ i \notin Indices(e) /\ i \notin e.closing
      /\ \A k \in Indices(e) : n.repairs[k] = e.repairs[k]
  BY <1>2, <1>4, <1>5 DEF Indices, Sound, Pointed
<1>7. Pointed(n) /\ CycleIsOfActive(n) /\ AnswersAreRecorded(n)
  BY <1>2, <1>5, <1>6 DEF Pointed, CycleIsOfActive, AnswersAreRecorded, Sound
<1>8. OpenIsActive(n)
  BY <1>1, <1>2, <1>5, <1>6 DEF OpenIsActive, Sound, Indices
<1>9. InThePast(n, now) /\ DurableIsOver(n, now)
  BY <1>1, <1>6 DEF InThePast, DurableIsOver, Sound
<1>10. WaitingInWindow(n, now)
  BY <1>1, <1>5, <1>6 DEF WaitingInWindow, Sound, Pointed
<1>11. \A k \in Indices(e) :
         Alike(n, k, i) \/ Alike(n, i, k) => ~Stands(e, k)
  BY <1>1, <1>6 DEF Alike, Stands, SameTarget, Sound, WaitingInWindow, OpenIsActive, Indices
<1>12. \A k, j \in Indices(e) : Alike(n, k, j) <=> Alike(e, k, j)
  BY <1>6 DEF Alike
<1>13. \A k \in Indices(e) : Stands(n, k) <=> Stands(e, k)
  BY <1>6 DEF Stands
<1>14. ~Alike(n, i, i)
  BY DEF Alike
<1>15. StandApart(n)
  BY <1>6, <1>11, <1>12, <1>13, <1>14 DEF StandApart, Sound
<1>16. NotTakenBack(n)
  <2> SUFFICES ASSUME NEW k \in Indices(n), NEW j \in Indices(n), Alike(n, k, j),
                      n.repairs[k].status \in {"provisionally_closed", "durably_closed"}
               PROVE  \/ n.repairs[j].activeIndex < n.repairs[k].closeIndex
                      \/ n.repairs[j].activeIndex >= n.repairs[k].closeIndex + Durability
    BY DEF NotTakenBack
  <2>1. k \in Indices(e) /\ n.repairs[k] = e.repairs[k]
    BY <1>1, <1>6
  <2>2. CASE j = i
    <3>1. e.repairs[k].status = "durably_closed"
      BY <2>1, <2>2, <1>11 DEF Stands
    <3>2. now - e.repairs[k].closeIndex >= Durability
      BY <2>1, <3>1 DEF DurableIsOver, Sound
    <3>3. e.repairs[k].closeIndex \in Nat
      BY <2>1 DEF Repairs
    <3> QED BY <1>1, <1>6, <2>1, <2>2, <3>2, <3>3, EpisodeConstants
  <2>3. CASE j # i
    BY <1>6, <1>12, <2>1, <2>3 DEF NotTakenBack, Sound
  <2> QED BY <2>2, <2>3
<1>17. KeepsOutcomes(e, n)
  BY <1>2, <1>6 DEF KeepsOutcomes
<1>18. Proceeds(e, n)
  BY <1>5, <1>6 DEF Proceeds, NoneMadeDurable
<1> QED BY <1>2, <1>5, <1>7, <1>8, <1>9, <1>10, <1>15, <1>16, <1>17, <1>18 DEF Sound, n
-----------------------------------------------------------------------------
(* SettleDurability moves the clock: what was sound at the previous turn   *)
(* is sound at this one, and every ordinal is now strictly in the past.    *)
Before(e, now) ==
  \A i \in Indices(e) : e.repairs[i].activeIndex < now /\ e.repairs[i].closeIndex < now

LEMMA DurabilityIsSound ==
  ASSUME NEW e, NEW prev \in Nat, NEW now, now = prev + 1, Sound(e, prev)
  PROVE  LET n == SettleDurability(e, now)
         IN  /\ Sound(n, now) /\ Before(n, now) /\ KeepsOutcomes(e, n)
             /\ n.cycle = e.cycle /\ n.active = e.active
             /\ Len(n.repairs) = Len(e.repairs)
             /\ \A i \in Indices(e) :
                  n.repairs[i].status = "durably_closed" =>
                    e.repairs[i].status \in {"provisionally_closed", "durably_closed"}
<1> DEFINE L == Lapsed(e, now)
           n == SettleDurability(e, now)
           D(i) == IF e.repairs[i].target = NoKey THEN "unknown" ELSE "durably_closed"
<1>1. /\ e \in States /\ e.repairs \in Seq(Repairs) /\ e.closing \in SUBSET Nat
      /\ Len(e.repairs) \in Nat /\ \A i \in Indices(e) : e.repairs[i] \in Repairs
  BY DEF Sound, States, Indices
<1>2. n = Put(e, n.repairs, e.active, e.closing \ L, e.cycle)
  BY <1>1 DEF States, Put, SettleDurability
<1>3. n.repairs = [i \in DOMAIN e.repairs |->
                     IF i \in L THEN [e.repairs[i] EXCEPT !.status = D(i)] ELSE e.repairs[i]]
  BY <1>1 DEF States, SettleDurability
<1>4. L = {i \in e.closing : now - e.repairs[i].closeIndex >= Durability}
  BY DEF Lapsed
<1> HIDE DEF n, L
<1>5. \A i \in Indices(e) :
        LET r == [e.repairs[i] EXCEPT !.status = D(i)]
        IN  /\ r \in Repairs /\ r.status = D(i) /\ r.closed = e.repairs[i].closed
            /\ r.target = e.repairs[i].target /\ r.structural = e.repairs[i].structural
            /\ r.closeIndex = e.repairs[i].closeIndex
            /\ r.activeIndex = e.repairs[i].activeIndex
  BY <1>1 DEF Repairs, RepairStatuses
<1>6. DOMAIN e.repairs = Indices(e) /\ n.repairs \in Seq(Repairs)
  <2>1. DOMAIN e.repairs = 1..Len(e.repairs)
    BY <1>1
  <2>2. n.repairs \in [1..Len(e.repairs) -> Repairs]
    BY <1>1, <1>3, <1>5, <2>1 DEF Indices
  <2> QED BY <1>1, <2>1, <2>2 DEF Indices
<1>7. Len(n.repairs) = Len(e.repairs)
  BY <1>1, <1>3, <1>6 DEF Indices
<1>8. /\ n \in States /\ n.active = e.active /\ n.closing = e.closing \ L /\ n.cycle = e.cycle
  <2>1. e.active \in Nat /\ e.cycle \in Cycles \cup {Nil} /\ e.closing \ L \in SUBSET Nat
    BY <1>1 DEF States
  <2> QED BY <1>1, <1>2, <1>6, <2>1, PutState
<1>9. \A i \in Indices(e) :
        /\ n.repairs[i].status = IF i \in L THEN D(i) ELSE e.repairs[i].status
        /\ n.repairs[i].closed = e.repairs[i].closed
        /\ n.repairs[i].target = e.repairs[i].target
        /\ n.repairs[i].structural = e.repairs[i].structural
        /\ n.repairs[i].closeIndex = e.repairs[i].closeIndex
        /\ n.repairs[i].activeIndex = e.repairs[i].activeIndex
        /\ i \notin L => n.repairs[i] = e.repairs[i]
  BY <1>3, <1>5, <1>6
<1>10. \A i \in Indices(e) : e.repairs[i].closeIndex \in Nat /\ e.repairs[i].activeIndex \in Nat
  BY <1>1 DEF Repairs
<1>11. \A i \in L : i \in Indices(e) /\ e.repairs[i].status = "provisionally_closed"
  BY <1>4 DEF Sound, WaitingInWindow, Pointed
<1>12. \A i : D(i) \in {"unknown", "durably_closed"}
  OBVIOUS
<1> HIDE DEF D
<1>13. Indices(n) = Indices(e)
  BY <1>7 DEF Indices
<1>14. Pointed(n) /\ CycleIsOfActive(n) /\ AnswersAreRecorded(n)
  BY <1>8, <1>13 DEF Sound, Pointed, CycleIsOfActive, AnswersAreRecorded
<1>15. OpenIsActive(n)
  BY <1>8, <1>9, <1>11, <1>12, <1>13 DEF Sound, OpenIsActive
<1>16. Before(n, now) /\ InThePast(n, now)
  <2>1. \A i \in Indices(e) : e.repairs[i].activeIndex < now /\ e.repairs[i].closeIndex < now
    BY <1>10 DEF Sound, InThePast
  <2> QED BY <1>9, <1>10, <1>13, <2>1 DEF Before, InThePast
<1>17. WaitingInWindow(n, now)
  <2>1. \A i \in Indices(n) : i \in n.closing <=> n.repairs[i].status = "provisionally_closed"
    BY <1>8, <1>9, <1>11, <1>12, <1>13 DEF Sound, WaitingInWindow
  <2>2. \A i \in n.closing : i \in Indices(e) /\ i \in e.closing /\ i \notin L
                             /\ n.repairs[i] = e.repairs[i]
    BY <1>8, <1>9 DEF Sound, Pointed
  <2>3. \A i \in n.closing : now - n.repairs[i].closeIndex < Durability
    BY <2>2, <1>4, <1>10, EpisodeConstants
  <2> QED BY <2>1, <2>2, <2>3 DEF Sound, WaitingInWindow
<1>18. DurableIsOver(n, now)
  <2> SUFFICES ASSUME NEW i \in Indices(n), n.repairs[i].status = "durably_closed"
               PROVE  now - n.repairs[i].closeIndex >= Durability
    BY DEF DurableIsOver
  <2>1. CASE i \in L
    BY <2>1, <1>4, <1>9, <1>13
  <2>2. CASE i \notin L
    <3>1. prev - e.repairs[i].closeIndex >= Durability
      BY <2>2, <1>9, <1>13 DEF Sound, DurableIsOver
    <3> QED BY <2>2, <3>1, <1>9, <1>10, <1>13, EpisodeConstants
  <2> QED BY <2>1, <2>2
<1>19. \A i, j \in Indices(n) : Alike(n, i, j) => Alike(e, i, j)
  BY <1>9, <1>13 DEF Alike
<1>20. \A i \in Indices(n) : Stands(n, i) => Stands(e, i)
  BY <1>9, <1>11, <1>12, <1>13 DEF Stands
<1>21. StandApart(n)
  BY <1>13, <1>19, <1>20 DEF StandApart, Sound
<1>22. NotTakenBack(n)
  BY <1>9, <1>11, <1>13, <1>19 DEF NotTakenBack, Sound
<1>23. KeepsOutcomes(e, n)
  BY <1>1, <1>7, <1>9, <1>11 DEF KeepsOutcomes, Terminal
<1>24. \A i \in Indices(e) :
         n.repairs[i].status = "durably_closed" =>
           e.repairs[i].status \in {"provisionally_closed", "durably_closed"}
  BY <1>9, <1>11
<1> QED BY <1>7, <1>8, <1>14, <1>15, <1>16, <1>17, <1>18, <1>21, <1>22, <1>23, <1>24 DEF Sound, n

LEMMA KeepingIsTransitive ==
  ASSUME NEW e, NEW m, NEW n, e \in States, m \in States, n \in States,
         KeepsOutcomes(e, m), KeepsOutcomes(m, n)
  PROVE  KeepsOutcomes(e, n)
<1>1. Len(e.repairs) \in Nat /\ Len(m.repairs) \in Nat /\ Len(n.repairs) \in Nat
  BY DEF States
<1>2. \A i \in Indices(e) : i \in Indices(m)
  BY <1>1 DEF KeepsOutcomes, Indices
<1> QED BY <1>1, <1>2 DEF KeepsOutcomes

LEMMA KeepingIsReflexive ==
  ASSUME NEW e \in States
  PROVE  KeepsOutcomes(e, e) /\ Proceeds(e, e)
<1>1. Len(e.repairs) \in Nat
  BY DEF States
<1> QED BY <1>1 DEF KeepsOutcomes, Proceeds, NoneMadeDurable

-----------------------------------------------------------------------------
(* The stages of projectRepair.                                            *)
LEMMA RetiringIsSound ==
  ASSUME NEW e, NEW now \in Nat, Sound(e, now)
  PROVE  LET n == RetireActive(e)
         IN  Sound(n, now) /\ n.active = 0 /\ KeepsOutcomes(e, n) /\ Proceeds(e, n)
<1> DEFINE n == RetireActive(e)
           i == e.active
           r == Closed(e.repairs[i], "unknown")
<1>1. e \in States
  BY DEF Sound
<1>2. CASE i = 0
  <2>1. n = e
    BY <1>2 DEF RetireActive
  <2> QED BY <1>1, <1>2, <2>1, KeepingIsReflexive
<1>3. CASE i # 0
  <2>1. i \in Indices(e) /\ e.repairs[i] \in Repairs /\ e.closing \in SUBSET Nat
    BY <1>1, <1>3 DEF Sound, Pointed, States, Indices
  <2>2. /\ r \in Repairs /\ r.status = "unknown" /\ r.closed = TRUE
        /\ SameEpisode(r, e.repairs[i])
        /\ r.closeIndex = e.repairs[i].closeIndex /\ r.activeIndex = e.repairs[i].activeIndex
    BY <2>1, ClosedEpisode DEF RepairStatuses, SameEpisode
  <2>3. n = Put(e, [e.repairs EXCEPT ![i] = r], 0, e.closing, Nil)
    BY <1>1, <1>3 DEF States, Put, RetireActive
  <2> HIDE DEF r, n, i
  <2>4. Swapped(e, n, i, r) /\ n.active = 0 /\ n.closing = e.closing /\ n.cycle = Nil
    BY <1>1, <2>1, <2>2, <2>3, PutSwapped
  <2> QED BY <1>3, <2>2, <2>4, EndingIsSound DEF n, i
<1> QED BY <1>2, <1>3

LEMMA DeepeningIsSound ==
  ASSUME NEW e, NEW now \in Nat, Sound(e, now), e.active # 0, NEW r \in Readings
  PROVE  LET n == Deepen(e, r, now)
         IN  Sound(n, now) /\ n.cycle # Nil /\ KeepsOutcomes(e, n) /\ Proceeds(e, n)
<1> DEFINE n == Deepen(e, r, now)
           i == e.active
           s == Reopened(e.repairs[i], now, r.paths)
<1>1. /\ e \in States /\ i \in Indices(e) /\ i \in Nat /\ i \notin e.closing
      /\ e.repairs[i] \in Repairs /\ e.closing \in SUBSET Nat
  BY DEF Sound, Pointed, States, Indices, WaitingInWindow, OpenIsActive
<1>2. r.paths \in SUBSET Paths
  BY DEF Readings
<1>3. /\ s \in Repairs /\ s.status = "open" /\ s.closed = FALSE
      /\ SameEpisode(s, e.repairs[i])
      /\ s.closeIndex = e.repairs[i].closeIndex /\ s.activeIndex = now
  BY <1>1, <1>2, ReopenedEpisode, ZenonT(60) DEF SameEpisode
<1>4. n = Put(e, [e.repairs EXCEPT ![i] = s], i, e.closing, NewCycle(i))
  BY <1>1 DEF States, Put, Deepen
<1>5. e.closing = e.closing \ {i}
  BY <1>1
<1>6. NewCycle(i) \in Cycles
  BY <1>1, NewCycleFacts
<1> HIDE DEF n, s
<1>7. Swapped(e, n, i, s) /\ n.active = i /\ n.closing = e.closing \ {i} /\ n.cycle = NewCycle(i)
  BY <1>1, <1>3, <1>4, <1>5, <1>6, PutSwapped
<1> QED BY <1>3, <1>7, ReopeningIsSound DEF n

(* Of the episodes awaiting durability, one closed first. *)
LEMMA LeastOf ==
  ASSUME NEW S \in SUBSET Nat, S # {}
  PROVE  \E m \in S : \A l \in S : m <= l
<1>1. IsWellFoundedOn(OpToRel(<, Nat), Nat)
  BY NatLessThanWellFounded
<1>2. PICK m \in S : \A l \in S : ~(<<l, m>> \in OpToRel(<, Nat))
  BY <1>1, WFMin
<1>3. \A l \in S : ~(l < m)
  BY <1>2 DEF OpToRel
<1> QED BY <1>3

LEMMA FirstClosedIsOne ==
  ASSUME NEW e \in States, NEW S \in SUBSET Indices(e), S # {}
  PROVE  FirstClosed(e, S) \in S
<1> DEFINE T == {e.repairs[k].closeIndex : k \in S}
<1>1. \A k \in S : e.repairs[k] \in Repairs
  BY DEF States, Indices
<1>2. \A k \in S : e.repairs[k].closeIndex \in Nat
  BY <1>1 DEF Repairs
<1>3. T \in SUBSET Nat /\ T # {}
  BY <1>2
<1>4. PICK m \in T : \A l \in T : m <= l
  <2> HIDE DEF T
  <2> QED BY <1>3, LeastOf
<1>5. PICK k \in S : e.repairs[k].closeIndex = m
  BY <1>4
<1>6. \A j \in S : e.repairs[k].closeIndex <= e.repairs[j].closeIndex
  BY <1>4, <1>5
<1> QED BY <1>6 DEF FirstClosed

LEMMA RecurringIsSound ==
  ASSUME NEW e, NEW now \in Nat, Sound(e, now), e.active = 0, NEW r \in Readings,
         SameTarget(e, r.key) # {}
  PROVE  LET n == Recur(e, r, now)
         IN  Sound(n, now) /\ n.cycle # Nil /\ KeepsOutcomes(e, n) /\ Proceeds(e, n)
<1> DEFINE S == SameTarget(e, r.key)
           i == FirstClosed(e, S)
           n == Recur(e, r, now)
<1>1. e \in States /\ S \subseteq e.closing /\ e.closing \subseteq Indices(e)
      /\ e.closing \in SUBSET Nat
  BY DEF Sound, Pointed, SameTarget, States
<1>2. i \in S
  <2>1. S \in SUBSET Indices(e)
    BY <1>1
  <2> HIDE DEF S
  <2> QED BY <1>1, <2>1, FirstClosedIsOne DEF S
<1> HIDE DEF S, i
<1> DEFINE s == [Reopened(e.repairs[i], now, r.paths) EXCEPT !.recurred = TRUE]
<1>3. i \in Indices(e) /\ i \in e.closing /\ i \in Nat /\ i # 0 /\ e.repairs[i] \in Repairs
  <2>1. i \in Indices(e) /\ i \in e.closing
    BY <1>1, <1>2
  <2> QED BY <1>1, <2>1 DEF Indices, States
<1>4. r.paths \in SUBSET Paths
  BY DEF Readings
<1>5. /\ s \in Repairs /\ s.status = "open" /\ s.closed = FALSE
      /\ SameEpisode(s, e.repairs[i])
      /\ s.closeIndex = e.repairs[i].closeIndex /\ s.activeIndex = now
  <2> DEFINE o == Reopened(e.repairs[i], now, r.paths)
  <2>1. /\ o \in Repairs /\ o.status = "open" /\ o.closed = FALSE
        /\ o.target = e.repairs[i].target /\ o.structural = e.repairs[i].structural
        /\ o.closeIndex = e.repairs[i].closeIndex /\ o.activeIndex = now
    BY <1>3, <1>4, ReopenedEpisode, ZenonT(60)
  <2> HIDE DEF o
  <2> DEFINE b == [o EXCEPT !.recurred = TRUE]
  <2>2. /\ b \in Repairs /\ b.status = o.status /\ b.closed = o.closed
        /\ b.target = o.target /\ b.structural = o.structural
        /\ b.closeIndex = o.closeIndex /\ b.activeIndex = o.activeIndex
    BY <2>1 DEF Repairs
  <2>3. s = b
    BY DEF o
  <2> QED BY <2>1, <2>2, <2>3 DEF SameEpisode
<1>6. n = Put(e, [e.repairs EXCEPT ![i] = s], i, e.closing \ {i}, NewCycle(i))
  BY <1>1 DEF States, Put, Recur, i, S
<1>7. NewCycle(i) \in Cycles /\ e.closing \ {i} \in SUBSET Nat
  BY <1>1, <1>3, NewCycleFacts
<1> HIDE DEF n, s
<1>8. Swapped(e, n, i, s) /\ n.active = i /\ n.closing = e.closing \ {i} /\ n.cycle = NewCycle(i)
  BY <1>1, <1>3, <1>5, <1>6, <1>7, PutSwapped
<1>9. n = Recur(e, r, now)
  BY DEF n
<1>10. Sound(n, now) /\ n.cycle # Nil /\ KeepsOutcomes(e, n) /\ Proceeds(e, n)
  BY <1>3, <1>5, <1>8, ReopeningIsSound
<1> QED BY <1>9, <1>10

LEMMA CorrectionIsSound ==
  ASSUME NEW e, NEW now \in Nat, Sound(e, now), epoch \in Nat, NEW r \in Readings,
         IsCorrection(r)
  PROVE  LET n == ProjectCorrection(e, r, now)
         IN  Sound(n, now) /\ n.cycle # Nil /\ KeepsOutcomes(e, n) /\ Proceeds(e, n)
<1> DEFINE m == RetireActive(e)
           n == ProjectCorrection(e, r, now)
<1>1. CASE e.active # 0 /\ TargetEquivalent(e.repairs[e.active].target, r.key)
  <2>1. n = Deepen(e, r, now)
    BY <1>1 DEF ProjectCorrection
  <2> HIDE DEF n
  <2> QED BY <1>1, <2>1, DeepeningIsSound DEF n
<1>2. CASE ~(e.active # 0 /\ TargetEquivalent(e.repairs[e.active].target, r.key))
  <2>1. Sound(m, now) /\ m.active = 0 /\ KeepsOutcomes(e, m) /\ Proceeds(e, m)
    BY RetiringIsSound
  <2>2. r.key \in TargetKeys \cup {NoKey} /\ r.paths \in SUBSET Paths
    BY DEF Readings, TargetKeys
  <2>3. n = IF SameTarget(m, r.key) # {} THEN Recur(m, r, now)
            ELSE Open(m, r.key, r.paths, FALSE, now)
    BY <1>2 DEF ProjectCorrection
  <2> HIDE DEF m, n
  <2>4. Sound(n, now) /\ n.cycle # Nil /\ KeepsOutcomes(m, n) /\ Proceeds(m, n)
    <3>1. CASE SameTarget(m, r.key) # {}
      <4>1. n = Recur(m, r, now)
        BY <2>3, <3>1
      <4> QED BY <2>1, <3>1, <4>1, RecurringIsSound
    <3>2. CASE SameTarget(m, r.key) = {}
      <4>1. n = Open(m, r.key, r.paths, FALSE, now)
        BY <2>3, <3>2
      <4> QED BY <2>1, <2>2, <3>2, <4>1, OpeningIsSound
    <3> QED BY <3>1, <3>2
  <2>5. KeepsOutcomes(e, n)
    BY <2>1, <2>4, KeepingIsTransitive DEF Sound
  <2>6. Proceeds(e, n)
    <3>1. Len(e.repairs) \in Nat /\ Len(m.repairs) \in Nat
      BY <2>1 DEF Sound, States
    <3>2. Len(m.repairs) = Len(e.repairs)
      BY <2>1, <3>1 DEF Proceeds
    <3> QED BY <2>1, <2>4, <3>2 DEF Proceeds, NoneMadeDurable, Indices
  <2> QED BY <2>4, <2>5, <2>6 DEF n
<1> QED BY <1>1, <1>2

LEMMA OtherTurnIsSound ==
  ASSUME NEW e, NEW now \in Nat, Sound(e, now), Before(e, now), NEW r \in Readings,
         e.cycle # Nil => ~e.cycle.agentTurns
  PROVE  LET n == ProjectOther(e, r, now)
         IN  Sound(n, now) /\ Accrues(n, now) /\ KeepsOutcomes(e, n) /\ Proceeds(e, n)
<1> DEFINE n == ProjectOther(e, r, now)
           i == e.active
<1>1. e \in States
  BY DEF Sound
<1>2. CASE i = 0 \/ CycleUnanswered(e)
  <2>1. n = e
    BY <1>2 DEF ProjectOther
  <2>2. Accrues(e, now)
    BY <1>2 DEF Accrues, CycleUnanswered
  <2> QED BY <1>1, <2>1, <2>2, KeepingIsReflexive
<1>3. ASSUME i # 0, ~CycleUnanswered(e)
      PROVE  Sound(n, now) /\ Accrues(n, now) /\ KeepsOutcomes(e, n) /\ Proceeds(e, n)
  <2>1. e.cycle = Nil
    BY <1>3 DEF CycleUnanswered
  <2>2. i \in Indices(e) /\ i \in Nat /\ e.repairs[i] \in Repairs /\ e.closing \in SUBSET Nat
    BY <1>1, <1>3 DEF Sound, Pointed, States, Indices
  <2>3. CASE r.kind = "engaged" /\ ~Overdue(e, now)
    <3>1. n = e
      BY <1>3, <2>3 DEF ProjectOther
    <3>2. e.repairs[i].activeIndex \in Nat
      BY <2>2 DEF Repairs
    <3>3. Accrues(e, now)
      BY <2>3, <3>2, EpisodeConstants DEF Accrues, Overdue
    <3> QED BY <1>1, <3>1, <3>3, KeepingIsReflexive
  <2>4. CASE r.kind = "engaged" /\ Overdue(e, now)
    <3> DEFINE s == Closed(e.repairs[i], "unknown")
    <3>1. /\ s \in Repairs /\ s.status = "unknown" /\ s.closed = TRUE
          /\ SameEpisode(s, e.repairs[i])
          /\ s.closeIndex = e.repairs[i].closeIndex /\ s.activeIndex = e.repairs[i].activeIndex
      BY <2>2, ClosedEpisode DEF RepairStatuses, SameEpisode
    <3>2. n = Put(e, [e.repairs EXCEPT ![i] = s], 0, e.closing, Nil)
      BY <1>1, <1>3, <2>4 DEF States, Put, ProjectOther
    <3> HIDE DEF s, n
    <3>3. Swapped(e, n, i, s) /\ n.active = 0 /\ n.closing = e.closing /\ n.cycle = Nil
      BY <1>1, <2>2, <3>1, <3>2, PutSwapped
    <3>4. Sound(n, now) /\ KeepsOutcomes(e, n) /\ Proceeds(e, n)
      BY <1>3, <3>1, <3>3, EndingIsSound
    <3> QED BY <3>3, <3>4 DEF Accrues
  <2>5. CASE r.kind # "engaged"
    <3> DEFINE c == Closed(e.repairs[i], "provisionally_closed")
               s == [c EXCEPT !.closeIndex = now]
    <3>1. /\ c \in Repairs /\ c.status = "provisionally_closed" /\ c.closed = TRUE
          /\ c.target = e.repairs[i].target /\ c.structural = e.repairs[i].structural
          /\ c.activeIndex = e.repairs[i].activeIndex
      BY <2>2, ClosedEpisode DEF RepairStatuses
    <3> HIDE DEF c
    <3>2. /\ s \in Repairs /\ s.status = "provisionally_closed" /\ s.closed = TRUE
          /\ SameEpisode(s, e.repairs[i])
          /\ s.closeIndex = now /\ s.activeIndex = e.repairs[i].activeIndex
      BY <3>1 DEF Repairs, SameEpisode
    <3>3. n = Put(e, [e.repairs EXCEPT ![i] = s], 0, e.closing \cup {i}, e.cycle)
      BY <1>1, <1>3, <2>5 DEF States, Put, ProjectOther, c
    <3>4. e.closing \cup {i} \in SUBSET Nat /\ 0 \in Nat /\ e.cycle \in Cycles \cup {Nil}
      BY <2>1, <2>2
    <3> HIDE DEF s, n
    <3>5. /\ Swapped(e, n, i, s) /\ n.active = 0 /\ n.closing = e.closing \cup {i}
          /\ n.cycle = Nil
      BY <1>1, <2>1, <2>2, <3>2, <3>3, <3>4, PutSwapped
    <3>6. Sound(n, now) /\ KeepsOutcomes(e, n) /\ Proceeds(e, n)
      BY <1>3, <2>1, <3>2, <3>5, ClosingIsSound DEF Before
    <3> QED BY <3>5, <3>6 DEF Accrues
  <2> QED BY <2>3, <2>4, <2>5
<1> QED BY <1>2, <1>3
-----------------------------------------------------------------------------
(* The reset marker, last in the turn. *)
LEMMA ResetIsSound ==
  ASSUME NEW e, NEW now \in Nat, Sound(e, now), NEW reset \in BOOLEAN
  PROVE  LET n == ApplyReset(e, reset)
         IN  /\ Sound(n, now) /\ KeepsOutcomes(e, n)
             /\ Accrues(e, now) => Accrues(n, now)
             /\ Len(n.repairs) = Len(e.repairs) /\ NoneMadeDurable(e, n)
             /\ n.active = e.active
                \/ (n.active = 0 /\ n.repairs[e.active].status = "reset")
                \/ (n.active = 0 /\ e.active = 0)
<1> DEFINE n == ApplyReset(e, reset)
<1>1. /\ e \in States /\ e.repairs \in Seq(Repairs) /\ Len(e.repairs) \in Nat
      /\ DOMAIN e.repairs = Indices(e) /\ \A i \in Indices(e) : e.repairs[i] \in Repairs
  BY DEF Sound, States, Indices
<1>2. CASE ~reset
  <2>1. n = e
    BY <1>2 DEF ApplyReset
  <2> QED BY <1>1, <2>1, KeepingIsReflexive DEF NoneMadeDurable
<1>3. CASE reset
  <2>1. e.active = 0 => e.cycle = Nil
    BY DEF Sound, CycleIsOfActive
  <2>2. n = [repairs |-> [i \in DOMAIN e.repairs |-> EndOfEpoch(e, i)],
             active |-> 0, closing |-> {}, cycle |-> Nil]
    BY <1>3, <2>1 DEF ApplyReset
  <2>3. /\ n.repairs = [i \in Indices(e) |-> EndOfEpoch(e, i)]
        /\ n.active = 0 /\ n.closing = {} /\ n.cycle = Nil
    BY <1>1, <2>2
  <2> HIDE DEF n
  <2>3a. /\ n.repairs = [i \in Indices(e) |-> n.repairs[i]]
         /\ \A i \in Indices(e) : n.repairs[i] = EndOfEpoch(e, i)
    BY <2>3
  <2>4. \A i \in Indices(e) :
          LET r == EndOfEpoch(e, i)
          IN  /\ r \in Repairs
              /\ r.status = IF i = e.active THEN "reset"
                            ELSE IF i \in e.closing THEN "unknown" ELSE e.repairs[i].status
              /\ r.closed = IF i = e.active THEN TRUE ELSE e.repairs[i].closed
              /\ SameEpisode(r, e.repairs[i])
              /\ r.closeIndex = e.repairs[i].closeIndex
              /\ r.activeIndex = e.repairs[i].activeIndex
              /\ i # e.active /\ i \notin e.closing => r = e.repairs[i]
    <3> SUFFICES ASSUME NEW i \in Indices(e)
                 PROVE  LET r == EndOfEpoch(e, i)
                        IN  /\ r \in Repairs
                            /\ r.status = IF i = e.active THEN "reset"
                                          ELSE IF i \in e.closing THEN "unknown"
                                          ELSE e.repairs[i].status
                            /\ r.closed = IF i = e.active THEN TRUE ELSE e.repairs[i].closed
                            /\ SameEpisode(r, e.repairs[i])
                            /\ r.closeIndex = e.repairs[i].closeIndex
                            /\ r.activeIndex = e.repairs[i].activeIndex
                            /\ i # e.active /\ i \notin e.closing => r = e.repairs[i]
      OBVIOUS
    <3>1. e.repairs[i] \in Repairs
      BY <1>1
    <3>2. CASE i = e.active
      BY <3>1, <3>2, ClosedEpisode DEF EndOfEpoch, SameEpisode, RepairStatuses
    <3>3. CASE i # e.active /\ i \in e.closing
      <4> DEFINE s == [e.repairs[i] EXCEPT !.status = "unknown"]
      <4>1. /\ s \in Repairs /\ s.status = "unknown" /\ s.closed = e.repairs[i].closed
            /\ s.target = e.repairs[i].target /\ s.structural = e.repairs[i].structural
            /\ s.closeIndex = e.repairs[i].closeIndex
            /\ s.activeIndex = e.repairs[i].activeIndex
        BY <3>1 DEF Repairs, RepairStatuses
      <4>2. EndOfEpoch(e, i) = s
        BY <3>3 DEF EndOfEpoch
      <4> HIDE DEF s
      <4> QED BY <3>3, <4>1, <4>2 DEF SameEpisode
    <3>4. CASE i # e.active /\ i \notin e.closing
      BY <3>1, <3>4 DEF EndOfEpoch, SameEpisode
    <3> QED BY <3>2, <3>3, <3>4
  <2>5. n.repairs \in Seq(Repairs) /\ Len(n.repairs) = Len(e.repairs)
    <3>1. n.repairs \in [1..Len(e.repairs) -> Repairs]
      <4>1. \A i \in Indices(e) : n.repairs[i] \in Repairs
        BY <2>3a, <2>4
      <4>2. n.repairs \in [Indices(e) -> Repairs]
        BY <2>3a, <4>1
      <4> QED BY <4>2 DEF Indices
    <3> QED BY <1>1, <3>1
  <2>6. n \in States
    BY <2>2, <2>3, <2>5 DEF States
  <2>7. \A i \in Indices(e) :
          /\ n.repairs[i].status = IF i = e.active THEN "reset"
                                   ELSE IF i \in e.closing THEN "unknown" ELSE e.repairs[i].status
          /\ n.repairs[i].closed = IF i = e.active THEN TRUE ELSE e.repairs[i].closed
          /\ SameEpisode(n.repairs[i], e.repairs[i])
          /\ n.repairs[i].closeIndex = e.repairs[i].closeIndex
          /\ n.repairs[i].activeIndex = e.repairs[i].activeIndex
          /\ i # e.active /\ i \notin e.closing => n.repairs[i] = e.repairs[i]
    BY <2>3a, <2>4, ZenonT(60)
  <2>8. Indices(n) = Indices(e)
    BY <2>5 DEF Indices
  <2>9. Pointed(n) /\ CycleIsOfActive(n) /\ AnswersAreRecorded(n)
    BY <2>3 DEF Pointed, CycleIsOfActive, AnswersAreRecorded
  <2>10. OpenIsActive(n)
    <3>1. \A i \in Indices(n) : n.repairs[i].status # "open" /\ i # n.active
      <4>1. \A i \in Indices(e) : i # 0
        BY <1>1 DEF Indices
      <4>2. \A i \in Indices(e) : e.repairs[i].status = "open" => i = e.active
        BY DEF Sound, OpenIsActive
      <4>3. \A i \in Indices(e) : n.repairs[i].status # "open"
        BY <2>7, <4>2
      <4> QED BY <2>3, <2>8, <4>1, <4>3
    <3>2. \A i \in Indices(n) : n.repairs[i].closed = TRUE
      BY <1>1, <2>7, <2>8 DEF Sound, OpenIsActive, Repairs
    <3> QED BY <3>1, <3>2 DEF OpenIsActive
  <2>11. InThePast(n, now) /\ DurableIsOver(n, now)
    BY <2>7, <2>8 DEF Sound, InThePast, DurableIsOver
  <2>12. \A i \in Indices(n) : ~Stands(n, i)
    <3> SUFFICES ASSUME NEW i \in Indices(n) PROVE ~Stands(n, i)
      OBVIOUS
    <3>1. e.repairs[i].status = "open" => i = e.active
      BY <2>8 DEF Sound, OpenIsActive
    <3>2. e.repairs[i].status = "provisionally_closed" => i \in e.closing
      BY <2>8 DEF Sound, WaitingInWindow
    <3> QED BY <2>7, <2>8, <3>1, <3>2 DEF Stands
  <2>13. WaitingInWindow(n, now)
    BY <2>3, <2>12 DEF WaitingInWindow, Stands
  <2>14. StandApart(n)
    BY <2>12 DEF StandApart
  <2>15. NotTakenBack(n)
    BY <2>7, <2>8, <2>12, ZenonT(60) DEF Sound, NotTakenBack, Alike, SameEpisode, Stands
  <2>16. KeepsOutcomes(e, n)
    <3>1. \A i \in Indices(e) :
            e.repairs[i].status \in Terminal => i # e.active /\ i \notin e.closing
      BY DEF Sound, OpenIsActive, WaitingInWindow, Terminal
    <3>2. \A i \in Indices(e) : e.repairs[i].status \in Terminal => n.repairs[i] = e.repairs[i]
      BY <2>7, <3>1
    <3> QED BY <1>1, <2>5, <3>2 DEF KeepsOutcomes
  <2>17. Accrues(n, now)
    BY <2>3 DEF Accrues
  <2>18. NoneMadeDurable(e, n)
    BY <2>7 DEF NoneMadeDurable
  <2>19. e.active # 0 => n.repairs[e.active].status = "reset"
    BY <2>7 DEF Sound, Pointed
  <2> QED BY <2>3, <2>5, <2>18, <2>19, <2>6, <2>9, <2>10, <2>11, <2>13, <2>14, <2>15, <2>16, <2>17 DEF Sound, n
<1> QED BY <1>2, <1>3

(* A whole operator turn. *)
TurnOn(e, r, reset, now) ==
  LET settled == SettleDurability(SettlePollution(e, IsCorrection(r)), now)
  IN  ApplyReset(ProjectRepair(settled, r, now), reset)

LEMMA TurnIsSound ==
  ASSUME NEW e, NEW prev \in Nat, NEW now, now = prev + 1, Sound(e, prev), epoch \in Nat,
         NEW r \in Readings, NEW reset \in BOOLEAN
  PROVE  LET n == TurnOn(e, r, reset, now)
         IN  Sound(n, now) /\ Accrues(n, now) /\ KeepsOutcomes(e, n) /\ Lives(e, n)
<1> DEFINE a == SettlePollution(e, IsCorrection(r))
           d == SettleDurability(a, now)
           m == ProjectRepair(d, r, now)
           n == ApplyReset(m, reset)
<1>1. /\ Sound(a, prev) /\ KeepsOutcomes(e, a) /\ (a.cycle # Nil => ~a.cycle.agentTurns)
      /\ Len(a.repairs) = Len(e.repairs)
      /\ \A i \in Indices(e) : a.repairs[i].status = e.repairs[i].status
  <2>1. IsCorrection(r) \in BOOLEAN
    BY DEF IsCorrection
  <2>2. OnlyAssessed(e, a) /\ KeepsOutcomes(e, a)
    BY <2>1, AssessedKeepsRest
  <2> HIDE DEF a
  <2> QED BY <2>2, AssessedIsSound DEF OnlyAssessed
<1> HIDE DEF a
<1>2. /\ Sound(d, now) /\ Before(d, now) /\ KeepsOutcomes(a, d) /\ d.cycle = a.cycle
      /\ Len(d.repairs) = Len(a.repairs)
      /\ \A i \in Indices(a) :
           d.repairs[i].status = "durably_closed" =>
             a.repairs[i].status \in {"provisionally_closed", "durably_closed"}
  BY <1>1, DurabilityIsSound
<1> HIDE DEF d
<1>3. Sound(m, now) /\ Accrues(m, now) /\ KeepsOutcomes(d, m) /\ Proceeds(d, m)
  <2>1. CASE IsCorrection(r)
    <3>1. m = ProjectCorrection(d, r, now)
      BY <2>1 DEF ProjectRepair
    <3> HIDE DEF m
    <3>2. Sound(m, now) /\ m.cycle # Nil /\ KeepsOutcomes(d, m) /\ Proceeds(d, m)
      BY <1>2, <2>1, <3>1, CorrectionIsSound
    <3> QED BY <3>2 DEF Accrues
  <2>2. CASE ~IsCorrection(r)
    <3>1. m = ProjectOther(d, r, now)
      BY <2>2 DEF ProjectRepair
    <3> HIDE DEF m
    <3> QED BY <1>1, <1>2, <3>1, OtherTurnIsSound
  <2> QED BY <2>1, <2>2
<1> HIDE DEF m
<1>4. /\ Sound(n, now) /\ Accrues(n, now) /\ KeepsOutcomes(m, n)
      /\ Len(n.repairs) = Len(m.repairs) /\ NoneMadeDurable(m, n)
      /\ n.active = m.active
         \/ (n.active = 0 /\ n.repairs[m.active].status = "reset")
         \/ (n.active = 0 /\ m.active = 0)
  BY <1>3, ResetIsSound
<1>5. n = TurnOn(e, r, reset, now)
  BY DEF TurnOn, m, d, a
<1> HIDE DEF n
<1>6. e \in States /\ a \in States /\ d \in States /\ m \in States /\ n \in States
  BY <1>1, <1>2, <1>3, <1>4 DEF Sound
<1>7. KeepsOutcomes(e, n)
  <2>1. KeepsOutcomes(e, d)
    BY <1>1, <1>2, <1>6, KeepingIsTransitive
  <2>2. KeepsOutcomes(e, m)
    BY <1>3, <1>6, <2>1, KeepingIsTransitive
  <2> QED BY <1>4, <1>6, <2>2, KeepingIsTransitive
<1>8. Lives(e, n)
  <2>1. /\ Len(e.repairs) \in Nat /\ Len(a.repairs) \in Nat /\ Len(d.repairs) \in Nat
        /\ Len(m.repairs) \in Nat /\ Len(n.repairs) \in Nat
    BY <1>6 DEF States
  <2>2. \A i \in Indices(e) :
          n.repairs[i].status = "durably_closed" =>
            e.repairs[i].status \in {"provisionally_closed", "durably_closed"}
    <3> SUFFICES ASSUME NEW i \in Indices(e), n.repairs[i].status = "durably_closed"
                 PROVE  e.repairs[i].status \in {"provisionally_closed", "durably_closed"}
      OBVIOUS
    <3>1. i \in Indices(a) /\ i \in Indices(d) /\ i \in Indices(m)
      BY <1>1, <1>2, <1>3, <2>1 DEF Proceeds, Indices
    <3>2. d.repairs[i].status = "durably_closed"
      BY <1>3, <1>4, <3>1 DEF Proceeds, NoneMadeDurable
    <3> QED BY <1>1, <1>2, <3>1, <3>2
  <2>3. CASE Len(m.repairs) = Len(d.repairs)
    BY <1>1, <1>2, <1>4, <2>2, <2>3 DEF Lives
  <2>4. CASE Len(m.repairs) = Len(d.repairs) + 1 /\ m.active = Len(m.repairs)
    <3>1. m.active # 0 /\ Len(n.repairs) = m.active /\ Len(n.repairs) = Len(e.repairs) + 1
      BY <1>1, <1>2, <1>4, <2>1, <2>4
    <3>2. n.repairs[Len(n.repairs)].status \in {"open", "reset"}
      <4>1. CASE n.active = m.active
        BY <2>1, <3>1, <1>4, <4>1 DEF Sound, OpenIsActive, Indices
      <4>2. CASE n.active = 0 /\ n.repairs[m.active].status = "reset"
        BY <3>1, <4>2
      <4> QED BY <1>4, <3>1, <4>1, <4>2
    <3>3. n.active \in {0, Len(n.repairs)}
      BY <1>4, <3>1
    <3> QED BY <2>2, <3>1, <3>2, <3>3 DEF Lives
  <2> QED BY <1>3, <2>3, <2>4 DEF Proceeds
<1> QED BY <1>4, <1>5, <1>7, <1>8

-----------------------------------------------------------------------------
(* A record that is no operator turn changes the running cycle, at most.   *)
LEMMA CycleAloneIsSound ==
  ASSUME NEW e, NEW n \in States, NEW now \in Nat, Sound(e, now),
         n.repairs = e.repairs, n.active = e.active, n.closing = e.closing,
         n.cycle = Nil <=> e.cycle = Nil,
         n.cycle # Nil => /\ n.cycle.repair = e.cycle.repair
                          /\ n.cycle.agentTurns => n.cycle.records
  PROVE  Sound(n, now) /\ KeepsOutcomes(e, n) /\ (Accrues(e, now) => Accrues(n, now))
<1> USE DEF Sound, Indices
<1>1. Pointed(n) /\ OpenIsActive(n) /\ CycleIsOfActive(n) /\ AnswersAreRecorded(n)
  BY DEF Pointed, OpenIsActive, CycleIsOfActive, AnswersAreRecorded
<1>2. InThePast(n, now) /\ DurableIsOver(n, now) /\ WaitingInWindow(n, now)
  BY DEF InThePast, DurableIsOver, WaitingInWindow
<1>3. StandApart(n)
  BY DEF StandApart, Alike, Stands
<1>4. NotTakenBack(n)
  BY DEF NotTakenBack, Alike
<1>5. KeepsOutcomes(e, n)
  BY DEF KeepsOutcomes, States
<1>6. Accrues(e, now) => Accrues(n, now)
  BY DEF Accrues
<1> QED BY <1>1, <1>2, <1>3, <1>4, <1>5, <1>6
-----------------------------------------------------------------------------
(* The invariant of the specification. *)
EpisodeInv ==
  /\ ExchangeTypeOK
  /\ Sound(Current, turnIndex)
  /\ Accrues(Current, turnIndex)
  /\ cycleWrites \in SUBSET Paths /\ priorWrites \in SUBSET Paths
  /\ mapMade \in BOOLEAN

LEMMA CurrentFields ==
  /\ Current.repairs = repairs /\ Current.active = active
  /\ Current.closing = closing /\ Current.cycle = cycle
  BY DEF Current

LEMMA NothingLives ==
  ASSUME NEW e, NEW n, Len(n.repairs) = Len(e.repairs),
         \A i \in Indices(e) : n.repairs[i].status = "durably_closed" =>
           e.repairs[i].status = "durably_closed"
  PROVE  Lives(e, n)
  BY DEF Lives

(* Where the statuses are sound before and after, a step that keeps the    *)
(* outcomes is one of the life METRICS.md promises.                        *)
LEMMA LivesAsPromised ==
  ASSUME NEW n, NEW now \in Nat, Sound(n, now), Sound(Current, turnIndex),
         KeepsOutcomes(Current, n), Lives(Current, n), repairs' = n.repairs
  PROVE  Lifecycle!Next
<1> DEFINE old == [i \in DOMAIN repairs |-> repairs[i].status]
           new == [i \in DOMAIN n.repairs |-> n.repairs[i].status]
<1>1. /\ repairs \in Seq(Repairs) /\ n.repairs \in Seq(Repairs)
      /\ Len(repairs) \in Nat /\ Len(n.repairs) \in Nat
      /\ DOMAIN repairs = 1..Len(repairs) /\ DOMAIN n.repairs = 1..Len(n.repairs)
      /\ Indices(Current) = 1..Len(repairs) /\ Indices(n) = 1..Len(n.repairs)
  BY CurrentFields DEF Sound, States, Indices
<1>2. /\ DOMAIN old = 1..Len(repairs) /\ DOMAIN new = 1..Len(n.repairs)
      /\ Len(old) = Len(repairs) /\ Len(new) = Len(n.repairs)
      /\ \A i \in 1..Len(repairs) : old[i] = repairs[i].status
      /\ \A i \in 1..Len(n.repairs) : new[i] = n.repairs[i].status
  BY <1>1
<1>3. \A i \in 1..Len(repairs) : old[i] \in RepairStatuses
  <2>1. \A i \in 1..Len(repairs) : repairs[i] \in Repairs
    BY <1>1
  <2> QED BY <1>2, <2>1 DEF Repairs
<1>4. \A i \in 1..Len(n.repairs) : new[i] \in RepairStatuses
  <2>1. \A i \in 1..Len(n.repairs) : n.repairs[i] \in Repairs
    BY <1>1
  <2> QED BY <1>2, <2>1 DEF Repairs
<1>5. Len(n.repairs) >= Len(repairs)
  BY CurrentFields DEF KeepsOutcomes
<1>6. \A i \in 1..Len(repairs) :
        /\ old[i] \in Terminal => new[i] = old[i]
        /\ new[i] = "durably_closed" => old[i] \in {"provisionally_closed", "durably_closed"}
  BY <1>1, <1>2, <1>5, CurrentFields DEF KeepsOutcomes, Lives
<1>7. \A i, j \in 1..Len(n.repairs) : new[i] = "open" /\ new[j] = "open" => i = j
  BY <1>1, <1>2 DEF Sound, OpenIsActive
<1>8. Len(n.repairs) = Len(repairs) \/
        /\ Len(n.repairs) = Len(repairs) + 1
        /\ new[Len(n.repairs)] \in {"open", "reset"}
        /\ \A i \in 1..Len(n.repairs) : new[i] = "open" => i = Len(n.repairs)
  <2>1. \A i \in 1..Len(n.repairs) : new[i] = "open" => i = n.active
    BY <1>1, <1>2 DEF Sound, OpenIsActive
  <2>2. ASSUME Len(n.repairs) # Len(repairs)
        PROVE  /\ Len(n.repairs) = Len(repairs) + 1
               /\ n.repairs[Len(n.repairs)].status \in {"open", "reset"}
               /\ n.active \in {0, Len(n.repairs)}
    BY <2>2, CurrentFields DEF Lives
  <2>3. ASSUME Len(n.repairs) # Len(repairs)
        PROVE  /\ new[Len(n.repairs)] \in {"open", "reset"}
               /\ \A i \in 1..Len(n.repairs) : new[i] = "open" => i = Len(n.repairs)
    <3>1. Len(n.repairs) \in 1..Len(n.repairs) /\ \A i \in 1..Len(n.repairs) : i # 0
      BY <1>1, <2>2, <2>3
    <3>2. new[Len(n.repairs)] = n.repairs[Len(n.repairs)].status
      BY <1>2, <3>1
    <3> HIDE DEF new
    <3> QED BY <2>1, <2>2, <2>3, <3>1, <3>2
  <2> QED BY <2>2, <2>3
<1>9. new = [i \in DOMAIN repairs' |-> repairs'[i].status]
  OBVIOUS
<1> HIDE DEF old, new
<1>10. \A i \in 1..Len(repairs) : new[i] \in Lifecycle!Successors(old[i])
  <2> SUFFICES ASSUME NEW i \in 1..Len(repairs)
               PROVE  new[i] \in Lifecycle!Successors(old[i])
    OBVIOUS
  <2>1. i \in 1..Len(n.repairs) /\ new[i] \in RepairStatuses /\ old[i] \in RepairStatuses
    BY <1>1, <1>3, <1>4, <1>5
  <2>2. CASE old[i] = "open"
    BY <1>6, <2>1, <2>2 DEF RepairStatuses, Lifecycle!Successors
  <2>3. CASE old[i] = "provisionally_closed"
    BY <2>1, <2>3 DEF RepairStatuses, Lifecycle!Successors
  <2>4. CASE old[i] \in Terminal
    BY <1>6, <2>4 DEF Terminal, Lifecycle!Successors
  <2> QED BY <2>1, <2>2, <2>3, <2>4 DEF RepairStatuses, Terminal
<1>11. /\ Len(new) \in Len(old)..(Len(old) + 1)
       /\ \A i \in DOMAIN old : new[i] \in Lifecycle!Successors(old[i])
       /\ Len(new) > Len(old) =>
            /\ new[Len(new)] \in {"open", "reset"}
            /\ {i \in DOMAIN new : new[i] = "open"} \subseteq {Len(new)}
       /\ \A i, j \in {k \in DOMAIN new : new[k] = "open"} : i = j
  BY <1>1, <1>2, <1>5, <1>7, <1>8, <1>10
<1> QED BY <1>9, <1>11, ZenonT(60) DEF Lifecycle!Next, Lifecycle!Continue, Lifecycle!Open, old

LEMMA BecomesIsSound ==
  ASSUME NEW n, NEW now \in Nat, Sound(n, now), Accrues(n, now), Sound(Current, turnIndex),
         KeepsOutcomes(Current, n), Lives(Current, n), Becomes(n), turnIndex' = now
  PROVE  /\ Sound(Current, turnIndex)' /\ Accrues(Current, turnIndex)'
         /\ OutcomesAreFinal /\ Lifecycle!Next
<1> DEFINE m == [repairs |-> repairs', active |-> active', closing |-> closing', cycle |-> cycle']
<1>1. n \in States
  BY DEF Sound
<1>2. /\ m.repairs = n.repairs /\ m.active = n.active /\ m.closing = n.closing
      /\ m.cycle = n.cycle /\ m \in States
  BY <1>1 DEF Becomes, States
<1>3. Sound(m, now) /\ (Accrues(n, now) => Accrues(m, now))
  <2>1. n.cycle # Nil /\ n.cycle.agentTurns => n.cycle.records
    BY DEF Sound, AnswersAreRecorded
  <2> HIDE DEF m
  <2> QED BY <1>1, <1>2, <2>1, CycleAloneIsSound
<1>4. Sound(Current, turnIndex)' /\ Accrues(Current, turnIndex)'
  BY <1>3 DEF Current
<1>5. OutcomesAreFinal
  <2>1. repairs' = n.repairs
    BY DEF Becomes
  <2>2. \A i \in 1..Len(repairs) : repairs[i].status \in Terminal => n.repairs[i] = repairs[i]
    BY CurrentFields DEF KeepsOutcomes, Indices
  <2> QED BY <2>1, <2>2 DEF OutcomesAreFinal
<1>6. Lifecycle!Next
  BY LivesAsPromised DEF Becomes
<1> QED BY <1>4, <1>5, <1>6

LEMMA EpisodesInitially == EpisodeSpecInit => EpisodeInv
<1> SUFFICES ASSUME EpisodeSpecInit PROVE EpisodeInv
  OBVIOUS
<1> USE DEF EpisodeSpecInit, EpisodeInit, ExchangeInit
<1>1. ExchangeTypeOK
  BY ExchangeBounds DEF ExchangeTypeOK
<1>2. Current \in States /\ Len(Current.repairs) = 0 /\ Indices(Current) = {}
  BY DEF Current, States, Indices
<1>3. Sound(Current, turnIndex)
  BY <1>2, CurrentFields DEF Sound, Pointed, OpenIsActive, CycleIsOfActive, AnswersAreRecorded,
     InThePast, WaitingInWindow, DurableIsOver, StandApart, NotTakenBack
<1>4. Accrues(Current, turnIndex)
  BY CurrentFields DEF Accrues
<1> QED BY <1>1, <1>3, <1>4 DEF EpisodeInv

LEMMA OperatorTurnKeeps ==
  ASSUME EpisodeInv, OperatorTurn
  PROVE  EpisodeInv' /\ OutcomesAreFinal /\ Lifecycle!Next
<1>1. PICK r \in Readings, reset \in BOOLEAN : OperatorRecord(reset) /\ EpisodeTurn(r, reset)
  BY DEF OperatorTurn
<1> DEFINE now == turnIndex + 1
           n == TurnOn(Current, r, reset, now)
<1>2. /\ turnIndex \in Nat /\ epoch \in Nat /\ now \in Nat /\ turnIndex' = now
      /\ ExchangeTypeOK'
  BY <1>1, ExchangeBounds DEF EpisodeInv, ExchangeTypeOK, OperatorRecord, TakeRecord
<1>3. /\ Sound(n, now) /\ Accrues(n, now) /\ KeepsOutcomes(Current, n)
      /\ Lives(Current, n)
  <2> HIDE DEF now
  <2> QED BY <1>2, TurnIsSound DEF EpisodeInv, now
<1>4. Becomes(n)
  BY <1>1 DEF EpisodeTurn, TurnOutcome, TurnOn
<1> HIDE DEF n
<1>5. /\ Sound(Current, turnIndex)' /\ Accrues(Current, turnIndex)'
      /\ OutcomesAreFinal /\ Lifecycle!Next
  BY <1>2, <1>3, <1>4, BecomesIsSound DEF EpisodeInv
<1> QED BY <1>1, <1>2, <1>5 DEF EpisodeInv, EpisodeTurn

LEMMA FoldedCycle ==
  ASSUME NEW c \in Cycles, NEW W, NEW expansion \in BOOLEAN
  PROVE  /\ Folded(c, W, expansion) \in Cycles /\ Folded(c, W, expansion) # Nil
         /\ Folded(c, W, expansion).repair = c.repair
         /\ Folded(c, W, expansion).records = TRUE
         /\ Folded(c, W, expansion).agentTurns = TRUE
         /\ Folded(c, W, expansion).writes = c.writes
         /\ Folded(c, W, expansion).repaired => c.repaired \/ W \cap Named # {}
<1> DEFINE a == c.repaired \/ W \cap Named # {}
           b == c.expanded \/ expansion \/ (Named # {} /\ W \ Named # {})
           f == [c EXCEPT !.records = TRUE, !.agentTurns = TRUE, !.repaired = a, !.expanded = b]
<1>1. Folded(c, W, expansion) = f
  BY DEF Folded
<1>2. a \in BOOLEAN /\ b \in BOOLEAN
  OBVIOUS
<1> HIDE DEF a, b
<1>3. /\ f \in Cycles /\ f.repair = c.repair /\ f.records = TRUE /\ f.agentTurns = TRUE
      /\ f.writes = c.writes /\ f.repaired = a
  BY <1>2 DEF Cycles
<1> QED BY <1>1, <1>3, NilIsNoCycle DEF a

LEMMA AgentTurnKeeps ==
  ASSUME EpisodeInv, AgentTurn
  PROVE  EpisodeInv' /\ OutcomesAreFinal /\ Lifecycle!Next
<1>1. PICK W \in SUBSET Paths, key \in Paths \cup {NoKey}, expansion \in BOOLEAN :
        OtherRecord /\ EpisodeAgent(W, key, expansion)
  BY DEF AgentTurn
<1> DEFINE wrote == IF cycle = Nil \/ W = {} THEN cycle ELSE [cycle EXCEPT !.writes = TRUE]
           before == [Current EXCEPT !.cycle = wrote]
           after == IF OpensStructurally(W)
                    THEN Open(before, key, Overlap(W), TRUE, turnIndex) ELSE before
           n == [after EXCEPT !.cycle = IF @ = Nil THEN @ ELSE Folded(@, W, expansion)]
<1>2. /\ turnIndex \in Nat /\ epoch \in Nat /\ turnIndex' = turnIndex /\ ExchangeTypeOK'
  BY <1>1, ExchangeBounds DEF EpisodeInv, ExchangeTypeOK, OtherRecord, TakeRecord
<1>3. Becomes(n)
  BY <1>1 DEF EpisodeAgent
<1>4. Current \in States /\ Sound(Current, turnIndex) /\ Accrues(Current, turnIndex)
  BY DEF EpisodeInv, Sound
<1>5. /\ wrote \in Cycles \cup {Nil} /\ (wrote = Nil <=> cycle = Nil)
      /\ wrote # Nil => wrote.repair = cycle.repair /\ (wrote.agentTurns => wrote.records)
  <2>1. cycle \in Cycles \cup {Nil} /\ (cycle # Nil /\ cycle.agentTurns => cycle.records)
    BY <1>4, CurrentFields DEF Sound, States, AnswersAreRecorded
  <2>2. CASE cycle = Nil \/ W = {}
    BY <2>1, <2>2
  <2>3. CASE cycle # Nil /\ W # {}
    <3>1. wrote = [cycle EXCEPT !.writes = TRUE] /\ cycle \in Cycles
      BY <2>1, <2>3
    <3> HIDE DEF wrote
    <3>2. /\ wrote \in Cycles /\ wrote.repair = cycle.repair
          /\ wrote.agentTurns = cycle.agentTurns /\ wrote.records = cycle.records
      BY <3>1 DEF Cycles
    <3> QED BY <2>1, <2>3, <3>2, NilIsNoCycle
  <2> QED BY <2>2, <2>3
<1> HIDE DEF wrote
<1>6. /\ before \in States /\ before.repairs = Current.repairs
      /\ before.active = Current.active /\ before.closing = Current.closing
      /\ before.cycle = wrote
  BY <1>4, <1>5 DEF States
<1> HIDE DEF before
<1>7. /\ Sound(before, turnIndex) /\ Accrues(before, turnIndex)
      /\ KeepsOutcomes(Current, before)
  BY <1>2, <1>4, <1>5, <1>6, CurrentFields, CycleAloneIsSound
<1>8. /\ Sound(after, turnIndex) /\ Accrues(after, turnIndex)
      /\ KeepsOutcomes(Current, after) /\ Proceeds(before, after)
  <2>1. CASE OpensStructurally(W)
    <3>1. /\ before.active = 0 /\ key \in TargetKeys \cup {NoKey}
          /\ Overlap(W) \in SUBSET Paths
      BY <1>6, <2>1, CurrentFields DEF OpensStructurally, TargetKeys, Overlap
    <3>2. /\ Sound(after, turnIndex) /\ after.cycle # Nil
          /\ KeepsOutcomes(before, after) /\ Proceeds(before, after)
      <4>1. after = Open(before, key, Overlap(W), TRUE, turnIndex)
        BY <2>1
      <4> HIDE DEF after
      <4> QED BY <1>2, <1>7, <3>1, <4>1, OpeningIsSound
    <3> HIDE DEF after
    <3>3. KeepsOutcomes(Current, after)
      BY <1>4, <1>6, <1>7, <3>2, KeepingIsTransitive DEF Sound
    <3> QED BY <3>2, <3>3 DEF Accrues
  <2>2. CASE ~OpensStructurally(W)
    BY <1>6, <1>7, <2>2, KeepingIsReflexive
  <2> QED BY <2>1, <2>2
<1> HIDE DEF after
<1>9. after \in States /\ after.cycle \in Cycles \cup {Nil}
  BY <1>8 DEF Sound, States
<1> DEFINE folded == IF after.cycle = Nil THEN after.cycle ELSE Folded(after.cycle, W, expansion)
<1>10. /\ folded \in Cycles \cup {Nil} /\ (folded = Nil <=> after.cycle = Nil)
       /\ folded # Nil => /\ folded.repair = after.cycle.repair
                          /\ folded.agentTurns => folded.records
  BY <1>9, FoldedCycle
<1> HIDE DEF folded
<1>11. /\ n \in States /\ n.repairs = after.repairs /\ n.active = after.active
       /\ n.closing = after.closing /\ n.cycle = folded
  BY <1>9, <1>10 DEF States, folded
<1> HIDE DEF n
<1>12. Sound(n, turnIndex) /\ Accrues(n, turnIndex) /\ KeepsOutcomes(Current, n)
  <2>1. Sound(n, turnIndex) /\ Accrues(n, turnIndex) /\ KeepsOutcomes(after, n)
    BY <1>2, <1>8, <1>10, <1>11, CycleAloneIsSound
  <2> QED BY <1>4, <1>8, <1>9, <1>11, <2>1, KeepingIsTransitive
<1>12a. Lives(Current, n)
  <2>1. /\ Len(n.repairs) = Len(Current.repairs)
           \/ /\ Len(n.repairs) = Len(Current.repairs) + 1
              /\ n.active = Len(n.repairs)
        /\ \A i \in Indices(Current) :
             n.repairs[i].status = "durably_closed" =>
               Current.repairs[i].status = "durably_closed"
    BY <1>6, <1>8, <1>11 DEF Proceeds, NoneMadeDurable, Indices
  <2>2. ASSUME Len(n.repairs) = Len(Current.repairs) + 1, n.active = Len(n.repairs)
        PROVE  n.repairs[Len(n.repairs)].status = "open"
    <3>1. Len(Current.repairs) \in Nat /\ Len(n.repairs) \in 1..Len(n.repairs)
      BY <1>4, <2>2 DEF States
    <3> QED BY <1>12, <2>2, <3>1 DEF Sound, OpenIsActive, Indices
  <2> QED BY <2>1, <2>2 DEF Lives
<1>13. /\ Sound(Current, turnIndex)' /\ Accrues(Current, turnIndex)'
      /\ OutcomesAreFinal /\ Lifecycle!Next
  BY <1>2, <1>3, <1>4, <1>12, <1>12a, BecomesIsSound
<1>14. /\ cycleWrites' \in SUBSET Paths /\ priorWrites' \in SUBSET Paths
       /\ mapMade' \in BOOLEAN
  BY <1>1 DEF EpisodeInv, EpisodeAgent
<1> QED BY <1>2, <1>13, <1>14 DEF EpisodeInv

LEMMA OtherTurnKeeps ==
  ASSUME EpisodeInv, OtherTurn
  PROVE  EpisodeInv' /\ OutcomesAreFinal /\ Lifecycle!Next
<1> DEFINE y == IF cycle = Nil THEN cycle ELSE [cycle EXCEPT !.records = TRUE]
           n == Put(Current, repairs, active, closing, y)
<1>1. /\ turnIndex \in Nat /\ turnIndex' = turnIndex /\ ExchangeTypeOK'
  BY ExchangeBounds DEF EpisodeInv, ExchangeTypeOK, OtherTurn, OtherRecord, TakeRecord
<1>2. Current \in States /\ Sound(Current, turnIndex) /\ Accrues(Current, turnIndex)
  BY DEF EpisodeInv, Sound
<1>3. /\ repairs \in Seq(Repairs) /\ active \in Nat /\ closing \in SUBSET Nat
      /\ cycle \in Cycles \cup {Nil}
  BY <1>2, CurrentFields DEF States
<1>4. /\ y \in Cycles \cup {Nil} /\ (y = Nil <=> cycle = Nil)
      /\ y # Nil => y.repair = cycle.repair /\ y.records = TRUE
  BY <1>3, NilIsNoCycle DEF Cycles
<1>5. /\ repairs' = repairs /\ active' = active /\ closing' = closing /\ cycle' = y
      /\ UNCHANGED <<cycleWrites, priorWrites, mapMade>>
  BY DEF OtherTurn, EpisodeOther
<1> HIDE DEF y
<1>6. /\ n \in States /\ n.repairs = repairs /\ n.active = active
      /\ n.closing = closing /\ n.cycle = y
  BY <1>2, <1>3, <1>4, PutState
<1> HIDE DEF n
<1>7. Becomes(n)
  BY <1>5, <1>6 DEF Becomes
<1>8. Sound(n, turnIndex) /\ Accrues(n, turnIndex) /\ KeepsOutcomes(Current, n)
  BY <1>1, <1>2, <1>4, <1>6, CurrentFields, CycleAloneIsSound
<1>8a. Lives(Current, n)
  BY <1>6, CurrentFields, NothingLives
<1>9. /\ Sound(Current, turnIndex)' /\ Accrues(Current, turnIndex)'
      /\ OutcomesAreFinal /\ Lifecycle!Next
  BY <1>1, <1>2, <1>7, <1>8, <1>8a, BecomesIsSound
<1> QED BY <1>1, <1>5, <1>9 DEF EpisodeInv

LEMMA FinishKeeps ==
  ASSUME EpisodeInv, Finish
  PROVE  EpisodeInv' /\ OutcomesAreFinal /\ Lifecycle!Next
<1> DEFINE a == SettlePollution(Current, FALSE)
           n == RetireActive(a)
<1>1. /\ turnIndex \in Nat /\ turnIndex' = turnIndex /\ ExchangeTypeOK'
  BY ExchangeBounds DEF EpisodeInv, ExchangeTypeOK, Finish, StopAs
<1>2. Becomes(n) /\ UNCHANGED <<cycleWrites, priorWrites, mapMade>>
  BY DEF Finish, EpisodeFinish
<1>3. Sound(Current, turnIndex)
  BY DEF EpisodeInv
<1>4. Sound(a, turnIndex) /\ KeepsOutcomes(Current, a) /\ OnlyAssessed(Current, a)
  <2>1. OnlyAssessed(Current, a) /\ KeepsOutcomes(Current, a)
    BY <1>1, <1>3, AssessedKeepsRest
  <2> HIDE DEF a
  <2> QED BY <1>1, <1>3, <2>1, AssessedIsSound
<1> HIDE DEF a
<1>5. /\ Sound(n, turnIndex) /\ n.active = 0 /\ KeepsOutcomes(a, n)
      /\ Proceeds(a, n)
  BY <1>1, <1>4, RetiringIsSound
<1> HIDE DEF n
<1>6. KeepsOutcomes(Current, n) /\ Accrues(n, turnIndex)
  BY <1>3, <1>4, <1>5, KeepingIsTransitive DEF Sound, Accrues
<1>6a. Lives(Current, n)
  <2>1. Len(a.repairs) \in Nat /\ Len(a.repairs) = Len(Current.repairs)
    BY <1>4 DEF OnlyAssessed, Sound, States
  <2>2. Len(n.repairs) = Len(Current.repairs)
    BY <1>5, <2>1 DEF Proceeds
  <2> QED BY <1>4, <1>5, <2>1, <2>2, NothingLives
          DEF OnlyAssessed, Proceeds, NoneMadeDurable, Indices
<1>7. /\ Sound(Current, turnIndex)' /\ Accrues(Current, turnIndex)'
      /\ OutcomesAreFinal /\ Lifecycle!Next
  BY <1>1, <1>2, <1>3, <1>5, <1>6, <1>6a, BecomesIsSound
<1> QED BY <1>1, <1>2, <1>7 DEF EpisodeInv

LEMMA NothingMovesKeeps ==
  ASSUME EpisodeInv, UNCHANGED episodeVars, turnIndex' = turnIndex, ExchangeTypeOK'
  PROVE  EpisodeInv' /\ OutcomesAreFinal /\ Lifecycle!Next
<1>1. EpisodeInv'
  BY DEF EpisodeInv, Current, episodeVars
<1>2. repairs' = Current.repairs /\ Sound(Current, turnIndex)
  BY CurrentFields DEF EpisodeInv, episodeVars
<1>3. Lives(Current, Current) /\ KeepsOutcomes(Current, Current) /\ turnIndex \in Nat
  BY <1>2, ExchangeBounds, KeepingIsReflexive, NothingLives
     DEF EpisodeInv, ExchangeTypeOK, Sound
<1>4. Lifecycle!Next
  BY <1>2, <1>3, LivesAsPromised
<1> QED BY <1>1, <1>4 DEF episodeVars, OutcomesAreFinal

LEMMA EpisodesInductive ==
  ASSUME EpisodeInv, [EpisodeNext]_episodeSpecVars
  PROVE  EpisodeInv' /\ OutcomesAreFinal /\ Lifecycle!Next
<1>1. CASE OperatorTurn
  BY <1>1, OperatorTurnKeeps
<1>2. CASE AgentTurn
  BY <1>2, AgentTurnKeeps
<1>3. CASE AgentPanic
  <2>1. UNCHANGED episodeVars /\ turnIndex' = turnIndex /\ ExchangeTypeOK'
    BY <1>3 DEF EpisodeInv, ExchangeTypeOK, AgentPanic, StopAs, EpisodePanic, episodeVars
  <2> QED BY <2>1, NothingMovesKeeps
<1>4. CASE OtherTurn
  BY <1>4, OtherTurnKeeps
<1>5. CASE Finish
  BY <1>5, FinishKeeps
<1>6. CASE UNCHANGED episodeSpecVars
  <2>1. UNCHANGED episodeVars /\ turnIndex' = turnIndex /\ ExchangeTypeOK'
    BY <1>6 DEF EpisodeInv, ExchangeTypeOK, episodeSpecVars, exchangeVars
  <2> QED BY <2>1, NothingMovesKeeps
<1> QED BY <1>1, <1>2, <1>3, <1>4, <1>5, <1>6 DEF EpisodeNext

-----------------------------------------------------------------------------
LEMMA WaitersAreFew ==
  ASSUME EpisodeInv
  PROVE  Cardinality(closing) <= Durability
<1> DEFINE T == (turnIndex - Durability + 1)..turnIndex
           f == [i \in closing |-> repairs[i].closeIndex]
<1>1. turnIndex \in Nat /\ Durability \in Nat \ {0}
  BY EpisodeConstants, ExchangeBounds DEF EpisodeInv, ExchangeTypeOK
<1>2. Sound(Current, turnIndex) /\ Current \in States
  BY DEF EpisodeInv, Sound
<1>3. \A i \in closing : i \in 1..Len(repairs) /\ repairs[i] \in Repairs
  BY <1>2, CurrentFields DEF Sound, Pointed, States, Indices
<1>4. \A i \in closing : repairs[i].closeIndex \in T
  <2> SUFFICES ASSUME NEW i \in closing PROVE repairs[i].closeIndex \in T
    OBVIOUS
  <2>1. repairs[i].closeIndex \in Nat
    BY <1>3 DEF Repairs
  <2>2. /\ turnIndex - repairs[i].closeIndex < Durability
        /\ repairs[i].closeIndex <= turnIndex
    BY <1>2, <1>3, CurrentFields DEF Sound, WaitingInWindow, InThePast, Indices
  <2> QED BY <1>1, <2>1, <2>2
<1>5. \A i, j \in closing : repairs[i].closeIndex = repairs[j].closeIndex => i = j
  BY <1>2, CurrentFields DEF Sound, WaitingInWindow
<1>6. f \in Injection(closing, T)
  BY <1>4, <1>5 DEF Injection, IsInjective
<1>7. IsFiniteSet(T) /\ Cardinality(T) = Durability
  BY <1>1, FS_Interval
<1> HIDE DEF T, f
<1>8. Cardinality(closing) <= Cardinality(T)
  BY <1>6, <1>7, FS_Injection
<1> QED BY <1>7, <1>8

LEMMA EpisodeInvAgrees == EpisodeInv => EpisodesAgree
<1> SUFFICES ASSUME EpisodeInv PROVE EpisodesAgree
  OBVIOUS
<1>1. /\ Sound(Current, turnIndex) /\ Accrues(Current, turnIndex) /\ ExchangeTypeOK
      /\ turnIndex \in Nat
  BY ExchangeBounds DEF EpisodeInv, ExchangeTypeOK
<1>2. /\ repairs \in Seq(Repairs) /\ Len(repairs) \in Nat /\ cycle \in Cycles \cup {Nil}
      /\ DOMAIN repairs = 1..Len(repairs) /\ Indices(Current) = 1..Len(repairs)
  BY <1>1, CurrentFields DEF Sound, States, Indices
<1>3. \A i \in 1..Len(repairs) : repairs[i].closeIndex \in Nat
  <2>1. \A i \in 1..Len(repairs) : repairs[i] \in Repairs
    BY <1>2
  <2> QED BY <2>1 DEF Repairs
<1>4. EpisodeTypeOK
  <2>1. active \in 0..Len(repairs) /\ closing \subseteq 1..Len(repairs)
    BY <1>1, <1>2, CurrentFields DEF Sound, Pointed
  <2> QED BY <1>1, <1>2, <2>1 DEF EpisodeInv, EpisodeTypeOK
<1>5. OneOpenEpisode
  <2>1. \A i \in 1..Len(repairs) :
          /\ repairs[i].status = "open" <=> i = active
          /\ repairs[i].closed <=> repairs[i].status # "open"
    BY <1>1, <1>2, CurrentFields DEF Sound, OpenIsActive
  <2>2. active \in 0..Len(repairs)
    BY <1>4 DEF EpisodeTypeOK
  <2> QED BY <1>2, <2>1, <2>2 DEF OneOpenEpisode
<1>6. ClosingAwaitsDurability
  <2>1. /\ \A i \in 1..Len(repairs) : i \in closing <=> repairs[i].status = "provisionally_closed"
        /\ \A i, j \in closing : repairs[i].closeIndex = repairs[j].closeIndex => i = j
        /\ \A i \in closing : turnIndex - repairs[i].closeIndex < Durability
    BY <1>1, <1>2, CurrentFields DEF Sound, WaitingInWindow
  <2>2. closing \subseteq 1..Len(repairs)
    BY <1>4 DEF EpisodeTypeOK
  <2>3. closing = {i \in DOMAIN repairs : repairs[i].status = "provisionally_closed"}
    BY <1>2, <2>1, <2>2
  <2>4. \A i \in closing : turnIndex - repairs[i].closeIndex \in 0..(Durability - 1)
    <3>1. \A i \in closing : repairs[i].closeIndex <= turnIndex
      BY <1>1, <1>2, <2>2, CurrentFields DEF Sound, InThePast
    <3> QED BY <1>1, <1>3, <2>1, <2>2, <3>1, EpisodeConstants
  <2> QED BY <2>1, <2>3, <2>4, WaitersAreFew DEF ClosingAwaitsDurability
<1>7. CycleAnswersOpenEpisode
  BY <1>1, CurrentFields DEF Sound, CycleIsOfActive, CycleAnswersOpenEpisode
<1>8. AccrualBounded
  BY <1>1, CurrentFields DEF Accrues, AccrualBounded
<1> QED BY <1>4, <1>5, <1>6, <1>7, <1>8 DEF EpisodesAgree

LEMMA EpisodeInvStands == EpisodeInv => DurableMeansNotCorrected
<1> SUFFICES ASSUME EpisodeInv, NEW i \in DOMAIN repairs, NEW j \in DOMAIN repairs,
                    repairs[i].status = "durably_closed",
                    ~repairs[i].structural, ~repairs[j].structural, RecursWithin(i, j)
             PROVE  FALSE
  BY DEF DurableMeansNotCorrected
<1>1. Sound(Current, turnIndex) /\ repairs \in Seq(Repairs)
  BY CurrentFields DEF EpisodeInv, Sound, States
<1>2. /\ i \in Indices(Current) /\ j \in Indices(Current)
      /\ repairs[i] \in Repairs /\ repairs[j] \in Repairs
  BY <1>1, CurrentFields DEF Indices
<1>3. Alike(Current, i, j)
  BY CurrentFields DEF Alike, RecursWithin
<1>4. \/ repairs[j].activeIndex < repairs[i].closeIndex
      \/ repairs[j].activeIndex >= repairs[i].closeIndex + Durability
  BY <1>1, <1>2, <1>3, CurrentFields DEF Sound, NotTakenBack
<1>5. repairs[j].activeIndex \in Nat /\ repairs[i].closeIndex \in Nat
  BY <1>2 DEF Repairs
<1> QED BY <1>4, <1>5, EpisodeConstants DEF RecursWithin

(* The parts of the episode state agree in every reachable state. *)
THEOREM EpisodesAlwaysAgree == EpisodeSpec => []EpisodesAgree
<1>1. EpisodeInv /\ [EpisodeNext]_episodeSpecVars => EpisodeInv'
  BY EpisodesInductive
<1> QED BY <1>1, EpisodesInitially, EpisodeInvAgrees, PTL DEF EpisodeSpec

(* Among the episodes the operator opened, no correction inside the window *)
(* leaves a durable close behind it, and an outcome once written is never  *)
(* written again.                                                          *)
THEOREM OutcomesAlwaysStand == EpisodeSpec => OutcomesStand
<1>1. EpisodeInv /\ [EpisodeNext]_episodeSpecVars
        => EpisodeInv' /\ OutcomesAreFinal
  BY EpisodesInductive
<1>2. EpisodeInv' => DurableMeansNotCorrected'
  BY EpisodeInvStands, PTL
<1>3. EpisodeInv /\ [EpisodeNext]_episodeSpecVars
        => EpisodeInv' /\ [DurableMeansNotCorrected' /\ OutcomesAreFinal]_episodeSpecVars
  BY <1>1, <1>2
<1> QED BY <1>3, EpisodesInitially, PTL DEF EpisodeSpec, OutcomesStand

(* An episode lives the life METRICS.md promises it, step by step: it      *)
(* closes durably only from a provisional close, what has ended stays      *)
(* ended, and one record opens at most one.                                *)
THEOREM EpisodesLiveAsPromised == EpisodeSpec => FollowsLifecycle
<1>1. EpisodeInv /\ [EpisodeNext]_episodeSpecVars => EpisodeInv' /\ Lifecycle!Next
  BY EpisodesInductive
<1>2. EpisodeSpecInit => Lifecycle!Init
  BY DEF EpisodeSpecInit, EpisodeInit, Lifecycle!Init
<1> QED BY <1>1, <1>2, EpisodesInitially, PTL DEF EpisodeSpec, FollowsLifecycle, Lifecycle!Spec

-----------------------------------------------------------------------------
(* What verifies a repair.  A cycle that holds a repair has seen an answer *)
(* of the agent, so it does not outlive the assessment at the next turn,   *)
(* which is where the writes it rests on are forgotten.                    *)
RepairIsAnswered == cycle # Nil /\ cycle.repaired => cycle.agentTurns

VerifiedInv == EpisodeInv /\ RepairIsAnswered /\ RepairIsVerifiedByWrites

Unrepaired(e) == e.cycle # Nil => e.cycle.repaired = FALSE

LEMMA CorrectionTakesCycle ==
  ASSUME NEW e, NEW now \in Nat, Sound(e, now), NEW r \in Readings
  PROVE  \E i \in Nat : ProjectCorrection(e, r, now).cycle = NewCycle(i)
<1> DEFINE m == RetireActive(e)
<1>1. CASE e.active # 0 /\ TargetEquivalent(e.repairs[e.active].target, r.key)
  <2>1. e \in States /\ e.active \in Nat
    BY DEF Sound, States
  <2>2. Deepen(e, r, now).cycle = NewCycle(e.active)
    BY <2>1 DEF Deepen, States
  <2> QED BY <1>1, <2>1, <2>2 DEF ProjectCorrection
<1>2. CASE ~(e.active # 0 /\ TargetEquivalent(e.repairs[e.active].target, r.key))
  <2>1. Sound(m, now) /\ m \in States
    BY RetiringIsSound DEF Sound
  <2>2. ProjectCorrection(e, r, now) = IF SameTarget(m, r.key) # {} THEN Recur(m, r, now)
                                       ELSE Open(m, r.key, r.paths, FALSE, now)
    BY <1>2 DEF ProjectCorrection
  <2> HIDE DEF m
  <2>3. CASE SameTarget(m, r.key) # {}
    <3>1. FirstClosed(m, SameTarget(m, r.key)) \in Nat
      <4>1. SameTarget(m, r.key) \in SUBSET Indices(m)
        BY <2>1 DEF SameTarget, Sound, Pointed
      <4>2. FirstClosed(m, SameTarget(m, r.key)) \in SameTarget(m, r.key)
        BY <2>1, <2>3, <4>1, FirstClosedIsOne
      <4> QED BY <2>1, <4>2 DEF SameTarget, States
    <3>2. Recur(m, r, now).cycle = NewCycle(FirstClosed(m, SameTarget(m, r.key)))
      BY <2>1 DEF Recur, States
    <3> QED BY <2>2, <2>3, <3>1, <3>2
  <2>4. CASE SameTarget(m, r.key) = {}
    <3>1. Len(m.repairs) + 1 \in Nat
      BY <2>1 DEF States
    <3>2. Open(m, r.key, r.paths, FALSE, now).cycle = NewCycle(Len(m.repairs) + 1)
      BY <2>1 DEF Open, States
    <3> QED BY <2>2, <2>4, <3>1, <3>2
  <2> QED BY <2>3, <2>4
<1> QED BY <1>1, <1>2

LEMMA TurnTakesCycle ==
  ASSUME NEW e, NEW prev \in Nat, NEW now, now = prev + 1, Sound(e, prev), epoch \in Nat,
         e.cycle # Nil /\ e.cycle.repaired => e.cycle.agentTurns,
         NEW r \in Readings, NEW reset \in BOOLEAN
  PROVE  Unrepaired(TurnOn(e, r, reset, now))
<1> DEFINE a == SettlePollution(e, IsCorrection(r))
           d == SettleDurability(a, now)
           m == ProjectRepair(d, r, now)
           n == ApplyReset(m, reset)
<1>1. Sound(a, prev) /\ Unrepaired(a) /\ (a.cycle # Nil => ~a.cycle.agentTurns)
  <2>1. IsCorrection(r) \in BOOLEAN
    BY DEF IsCorrection
  <2>2. OnlyAssessed(e, a)
    BY <2>1, AssessedKeepsRest
  <2> HIDE DEF a
  <2>3. Sound(a, prev)
    BY <2>2, AssessedIsSound
  <2>4. a.cycle # Nil => a.cycle.repaired \in BOOLEAN
    BY <2>3 DEF Sound, States, Cycles
  <2> QED BY <2>2, <2>3, <2>4 DEF OnlyAssessed, Unrepaired
<1> HIDE DEF a
<1>2. Sound(d, now) /\ Before(d, now) /\ d.cycle = a.cycle
  BY <1>1, DurabilityIsSound
<1> HIDE DEF d
<1>3. Unrepaired(m)
  <2>1. CASE IsCorrection(r)
    <3>1. m = ProjectCorrection(d, r, now)
      BY <2>1 DEF ProjectRepair
    <3>2. \E i \in Nat : ProjectCorrection(d, r, now).cycle = NewCycle(i)
      BY <1>2, CorrectionTakesCycle
    <3> QED BY <3>1, <3>2 DEF Unrepaired, NewCycle
  <2>2. CASE ~IsCorrection(r)
    <3>1. m = ProjectOther(d, r, now)
      BY <2>2 DEF ProjectRepair
    <3>2. d \in States
      BY <1>2 DEF Sound
    <3>3. ProjectOther(d, r, now).cycle \in {Nil, d.cycle}
      BY <3>2 DEF ProjectOther, States
    <3> QED BY <1>1, <1>2, <3>1, <3>3 DEF Unrepaired
  <2> QED BY <2>1, <2>2
<1> HIDE DEF m
<1>4. n.cycle \in {Nil, m.cycle} /\ n = TurnOn(e, r, reset, now)
  BY DEF ApplyReset, TurnOn, m, d, a
<1> HIDE DEF n
<1> QED BY <1>3, <1>4 DEF Unrepaired

LEMMA VerifiedInductive ==
  ASSUME VerifiedInv, [EpisodeNext]_episodeSpecVars
  PROVE  VerifiedInv'
<1>1. EpisodeInv' /\ Sound(Current, turnIndex) /\ Current \in States
  BY EpisodesInductive DEF VerifiedInv, EpisodeInv, Sound
<1>2. /\ repairs \in Seq(Repairs) /\ active \in Nat /\ cycle \in Cycles \cup {Nil}
      /\ cycle # Nil => active # 0 /\ cycle.repair = active
  BY <1>1, CurrentFields DEF States, Sound, CycleIsOfActive
<1>3. CASE OperatorTurn
  <2>1. PICK r \in Readings, reset \in BOOLEAN : OperatorRecord(reset) /\ EpisodeTurn(r, reset)
    BY <1>3 DEF OperatorTurn
  <2> DEFINE now == turnIndex + 1
             n == TurnOn(Current, r, reset, now)
  <2>2. turnIndex \in Nat /\ epoch \in Nat
    BY ExchangeBounds DEF VerifiedInv, EpisodeInv, ExchangeTypeOK
  <2>3. Current.cycle # Nil /\ Current.cycle.repaired => Current.cycle.agentTurns
    BY CurrentFields DEF VerifiedInv, RepairIsAnswered
  <2>4. Unrepaired(n)
    <3> HIDE DEF now
    <3> QED BY <1>1, <2>2, <2>3, TurnTakesCycle DEF now
  <2>5. cycle' = n.cycle
    BY <2>1 DEF EpisodeTurn, TurnOutcome, TurnOn, Becomes
  <2> HIDE DEF n
  <2> QED BY <1>1, <2>4, <2>5 DEF VerifiedInv, RepairIsAnswered, RepairIsVerifiedByWrites, Unrepaired
<1>4. CASE AgentTurn
  <2>1. PICK W \in SUBSET Paths, key \in Paths \cup {NoKey}, expansion \in BOOLEAN :
          OtherRecord /\ EpisodeAgent(W, key, expansion)
    BY <1>4 DEF AgentTurn
  <2> DEFINE wrote == IF cycle = Nil \/ W = {} THEN cycle ELSE [cycle EXCEPT !.writes = TRUE]
             before == [Current EXCEPT !.cycle = wrote]
             after == IF OpensStructurally(W)
                      THEN Open(before, key, Overlap(W), TRUE, turnIndex) ELSE before
             folded == IF after.cycle = Nil THEN after.cycle
                       ELSE Folded(after.cycle, W, expansion)
  <2>2. cycleWrites' = cycleWrites \cup W
    BY <2>1 DEF EpisodeAgent
  <2>3. wrote \in Cycles \cup {Nil}
    BY <1>2 DEF Cycles
  <2>4. /\ before \in States /\ before.repairs = repairs /\ before.active = active
        /\ before.cycle = wrote
    <3> HIDE DEF wrote
    <3> QED BY <1>1, <2>3, CurrentFields DEF States
  <2>7. Becomes([after EXCEPT !.cycle = folded])
    BY <2>1 DEF EpisodeAgent
  <2>5. CASE OpensStructurally(W)
    <3>1. /\ active = 0 /\ cycle = Nil /\ Named = {}
      BY <1>2, <2>5 DEF OpensStructurally, Named
    <3>2. Len(repairs) + 1 \in Nat
      BY <1>2
    <3>3. after \in States /\ after.cycle = NewCycle(Len(repairs) + 1)
      <4> HIDE DEF before
      <4>1. after = Open(before, key, Overlap(W), TRUE, turnIndex)
        BY <2>5
      <4>2. after.cycle = NewCycle(Len(repairs) + 1)
        BY <2>4, <4>1 DEF Open, States
      <4>3. Sound(before, turnIndex)
        <5>1. wrote = Nil /\ before.closing = closing /\ turnIndex \in Nat
          BY <1>1, <3>1, CurrentFields, ExchangeBounds
             DEF States, before, EpisodeInv, VerifiedInv, ExchangeTypeOK
        <5> HIDE DEF wrote
        <5> QED BY <1>1, <2>4, <3>1, <5>1, CurrentFields, CycleAloneIsSound
      <4>4. key \in TargetKeys \cup {NoKey} /\ Overlap(W) \in SUBSET Paths
        BY <2>5, <1>1 DEF TargetKeys, Overlap, EpisodeInv
      <4>5. turnIndex \in Nat /\ epoch \in Nat
        BY ExchangeBounds DEF VerifiedInv, EpisodeInv, ExchangeTypeOK
      <4> HIDE DEF after
      <4>6. Sound(after, turnIndex)
        BY <2>4, <3>1, <4>1, <4>3, <4>4, <4>5, OpeningIsSound
      <4> QED BY <4>2, <4>6 DEF Sound
    <3> HIDE DEF after
    <3>4. /\ after.cycle \in Cycles /\ after.cycle # Nil /\ after.cycle.repaired = FALSE
      <4>1. NewCycle(Len(repairs) + 1).repaired = FALSE
        BY DEF NewCycle
      <4> QED BY <3>2, <3>3, <4>1, NewCycleFacts
    <3>5. cycle' = Folded(after.cycle, W, expansion)
      BY <2>7, <3>3, <3>4 DEF Becomes, States
    <3>6. cycle'.repaired = FALSE
      <4>1. /\ Folded(after.cycle, W, expansion).repaired
                 => after.cycle.repaired \/ W \cap Named # {}
            /\ Folded(after.cycle, W, expansion) \in Cycles
        BY <3>4, FoldedCycle
      <4>2. Folded(after.cycle, W, expansion).repaired \in BOOLEAN
        BY <4>1 DEF Cycles
      <4> QED BY <3>1, <3>4, <3>5, <4>1, <4>2
    <3> QED BY <1>1, <3>6 DEF VerifiedInv, RepairIsAnswered, RepairIsVerifiedByWrites
  <2>6. CASE ~OpensStructurally(W)
    <3>1. after = before
      BY <2>6
    <3>2. repairs' = repairs /\ cycle' = IF wrote = Nil THEN wrote ELSE Folded(wrote, W, expansion)
      <4> HIDE DEF before, wrote
      <4> QED BY <2>1, <2>4, <3>1 DEF EpisodeAgent, Becomes, States, before, wrote
    <3>3. CASE cycle = Nil
      BY <1>1, <3>2, <3>3 DEF VerifiedInv, RepairIsAnswered, RepairIsVerifiedByWrites
    <3>4. CASE cycle # Nil
      <4>1. /\ wrote \in Cycles /\ wrote # Nil /\ wrote.repair = cycle.repair
            /\ wrote.repaired = cycle.repaired
            /\ cycle.writes \/ W # {} => wrote.writes
        BY <1>2, <3>4, NilIsNoCycle DEF Cycles
      <4> HIDE DEF wrote
      <4>2. /\ cycle'.agentTurns = TRUE /\ cycle'.repair = cycle.repair
            /\ cycle'.writes = wrote.writes
            /\ cycle'.repaired => cycle.repaired \/ W \cap Named # {}
        <5>1. cycle' = Folded(wrote, W, expansion)
          BY <3>2, <4>1
        <5>2. /\ Folded(wrote, W, expansion).agentTurns = TRUE
              /\ Folded(wrote, W, expansion).repair = wrote.repair
              /\ Folded(wrote, W, expansion).writes = wrote.writes
              /\ Folded(wrote, W, expansion).repaired => wrote.repaired \/ W \cap Named # {}
          BY <4>1, FoldedCycle
        <5> QED BY <4>1, <5>1, <5>2
      <4>3. Named = repairs[cycle.repair].paths
        BY <1>2, <3>4 DEF Named
      <4>4. cycle'.repaired => cycle'.writes /\ cycleWrites' \cap repairs[cycle.repair].paths # {}
        BY <2>2, <3>4, <4>1, <4>2, <4>3 DEF VerifiedInv, RepairIsVerifiedByWrites
      <4> QED BY <1>1, <3>2, <4>2, <4>4 DEF VerifiedInv, RepairIsAnswered, RepairIsVerifiedByWrites
    <3> QED BY <3>3, <3>4
  <2> QED BY <2>5, <2>6
<1>5. CASE OtherTurn
  <2>1. /\ cycle' = IF cycle = Nil THEN cycle ELSE [cycle EXCEPT !.records = TRUE]
        /\ UNCHANGED <<repairs, cycleWrites>>
    BY <1>5 DEF OtherTurn, EpisodeOther
  <2>2. cycle # Nil => /\ cycle'.repaired = cycle.repaired /\ cycle'.agentTurns = cycle.agentTurns
                       /\ cycle'.writes = cycle.writes /\ cycle'.repair = cycle.repair
    BY <1>2, <2>1 DEF Cycles
  <2> QED BY <1>1, <2>1, <2>2 DEF VerifiedInv, RepairIsAnswered, RepairIsVerifiedByWrites
<1>6. CASE Finish
  <2> DEFINE a == SettlePollution(Current, FALSE)
  <2>1. cycle' = RetireActive(a).cycle /\ active' = RetireActive(a).active
    BY <1>6 DEF Finish, EpisodeFinish, Becomes
  <2>2. turnIndex \in Nat
    BY ExchangeBounds DEF VerifiedInv, EpisodeInv, ExchangeTypeOK
  <2>3. Sound(a, turnIndex)
    <3>1. OnlyAssessed(Current, a)
      BY <1>1, <2>2, AssessedKeepsRest
    <3> HIDE DEF a
    <3> QED BY <1>1, <2>2, <3>1, AssessedIsSound
  <2> HIDE DEF a
  <2>4. RetireActive(a).active = 0 /\ Sound(RetireActive(a), turnIndex)
    BY <2>2, <2>3, RetiringIsSound
  <2>5. cycle' = Nil
    BY <2>1, <2>4 DEF Sound, CycleIsOfActive
  <2> QED BY <1>1, <2>5 DEF VerifiedInv, RepairIsAnswered, RepairIsVerifiedByWrites
<1>7. CASE AgentPanic \/ UNCHANGED episodeSpecVars
  <2>1. UNCHANGED <<repairs, cycle, cycleWrites>>
    BY <1>7 DEF AgentPanic, EpisodePanic, episodeSpecVars, episodeVars
  <2> QED BY <1>1, <2>1 DEF VerifiedInv, RepairIsAnswered, RepairIsVerifiedByWrites
<1> QED BY <1>3, <1>4, <1>5, <1>6, <1>7 DEF EpisodeNext

(* A repair is verified by writes to the paths the correction named. *)
THEOREM RepairsAreVerified == EpisodeSpec => []RepairIsVerifiedByWrites
<1>1. EpisodeSpecInit => VerifiedInv
  BY EpisodesInitially DEF EpisodeSpecInit, EpisodeInit, VerifiedInv, RepairIsAnswered,
     RepairIsVerifiedByWrites
<1>2. VerifiedInv /\ [EpisodeNext]_episodeSpecVars => VerifiedInv'
  BY VerifiedInductive
<1> QED BY <1>1, <1>2, PTL DEF EpisodeSpec, VerifiedInv

-----------------------------------------------------------------------------
(* What a record leaves open, for those who read the episodes after it: a  *)
(* correction leaves the episode it is about, at work on this turn.        *)
LEMMA EpisodeInvariant == EpisodeSpec => []EpisodeInv
<1>1. EpisodeInv /\ [EpisodeNext]_episodeSpecVars => EpisodeInv'
  BY EpisodesInductive
<1> QED BY <1>1, EpisodesInitially, PTL DEF EpisodeSpec

Answers(n, key, now) ==
  /\ n.active # 0
  /\ n.repairs[n.active].activeIndex = now
  /\ key # NoKey => n.repairs[n.active].target = key

LEMMA CorrectionIsAnswered ==
  ASSUME NEW e, NEW now \in Nat, Sound(e, now), NEW r \in Readings
  PROVE  Answers(ProjectCorrection(e, r, now), r.key, now)
<1> DEFINE m == RetireActive(e)
<1>0. r.paths \in SUBSET Paths
  BY DEF Readings
<1>1. CASE e.active # 0 /\ TargetEquivalent(e.repairs[e.active].target, r.key)
  <2> DEFINE i == e.active
             s == Reopened(e.repairs[i], now, r.paths)
             n == Deepen(e, r, now)
  <2>1. /\ e \in States /\ i \in Indices(e) /\ i \in Nat /\ i # 0
        /\ e.repairs[i] \in Repairs /\ e.closing \in SUBSET Nat
    BY <1>1 DEF Sound, Pointed, States, Indices
  <2>2. s \in Repairs /\ s.target = e.repairs[i].target /\ s.activeIndex = now
    BY <1>0, <2>1, ReopenedEpisode
  <2>3. n = Put(e, [e.repairs EXCEPT ![i] = s], i, e.closing, NewCycle(i))
    BY <2>1 DEF States, Put, Deepen
  <2>4. NewCycle(i) \in Cycles
    BY <2>1, NewCycleFacts
  <2> HIDE DEF s, n
  <2>5. Swapped(e, n, i, s) /\ n.active = i
    BY <2>1, <2>2, <2>3, <2>4, PutSwapped
  <2>6. ProjectCorrection(e, r, now) = n
    BY <1>1 DEF ProjectCorrection, n
  <2> QED BY <1>1, <2>1, <2>2, <2>5, <2>6 DEF Answers, Swapped, TargetEquivalent
<1>2. CASE ~(e.active # 0 /\ TargetEquivalent(e.repairs[e.active].target, r.key))
  <2>1. Sound(m, now) /\ m \in States
    BY RetiringIsSound DEF Sound
  <2>2. ProjectCorrection(e, r, now) = IF SameTarget(m, r.key) # {} THEN Recur(m, r, now)
                                       ELSE Open(m, r.key, r.paths, FALSE, now)
    BY <1>2 DEF ProjectCorrection
  <2> HIDE DEF m
  <2>3. CASE SameTarget(m, r.key) # {}
    <3> DEFINE S == SameTarget(m, r.key)
               i == FirstClosed(m, S)
               s == [Reopened(m.repairs[i], now, r.paths) EXCEPT !.recurred = TRUE]
               n == Recur(m, r, now)
    <3>1. S \in SUBSET Indices(m) /\ m.closing \in SUBSET Nat
      BY <2>1 DEF SameTarget, Sound, Pointed, States
    <3>2. i \in S
      BY <2>1, <2>3, <3>1, FirstClosedIsOne
    <3>3. /\ i \in Indices(m) /\ i \in Nat /\ i # 0 /\ m.repairs[i] \in Repairs
          /\ m.repairs[i].target = r.key
      BY <2>1, <3>1, <3>2 DEF States, Indices, SameTarget
    <3>4. n = Put(m, [m.repairs EXCEPT ![i] = s], i, m.closing \ {i}, NewCycle(i))
      BY <2>1 DEF States, Put, Recur
    <3> HIDE DEF S, i, n
    <3>5. s \in Repairs /\ s.target = r.key /\ s.activeIndex = now
      <4> DEFINE o == Reopened(m.repairs[i], now, r.paths)
      <4>1. o \in Repairs /\ o.target = r.key /\ o.activeIndex = now
        BY <1>0, <3>3, ReopenedEpisode
      <4> HIDE DEF o
      <4>2. LET b == [o EXCEPT !.recurred = TRUE]
            IN  b \in Repairs /\ b.target = o.target /\ b.activeIndex = o.activeIndex
        BY <4>1 DEF Repairs
      <4> QED BY <4>1, <4>2 DEF o
    <3> HIDE DEF s
    <3>6. NewCycle(i) \in Cycles /\ m.closing \ {i} \in SUBSET Nat
      BY <3>1, <3>3, NewCycleFacts
    <3>7. Swapped(m, n, i, s) /\ n.active = i
      BY <2>1, <3>3, <3>4, <3>5, <3>6, PutSwapped
    <3>8. ProjectCorrection(e, r, now) = n
      BY <2>2, <2>3 DEF n
    <3> QED BY <3>3, <3>5, <3>7, <3>8 DEF Answers, Swapped
  <2>4. CASE SameTarget(m, r.key) = {}
    <3> DEFINE i == Len(m.repairs) + 1
               s == NewRepair(r.key, r.paths, FALSE, now)
               n == Open(m, r.key, r.paths, FALSE, now)
    <3>0. m.repairs \in Seq(Repairs) /\ i # 0
      BY <2>1 DEF States
    <3>1. n.active = i /\ n.repairs = Append(m.repairs, s)
      <4> HIDE DEF i, s
      <4>1. n = [m EXCEPT !.repairs = Append(m.repairs, s), !.active = i, !.cycle = NewCycle(i)]
        BY DEF Open, i, s
      <4> HIDE DEF n
      <4> QED BY <2>1, <4>1 DEF States
    <3>2. s.target = r.key /\ s.activeIndex = now
      BY DEF NewRepair
    <3> HIDE DEF s, n
    <3>3. Append(m.repairs, s)[i] = s
      BY <3>0
    <3>4. ProjectCorrection(e, r, now) = n
      BY <2>2, <2>4 DEF n
    <3> QED BY <3>0, <3>1, <3>2, <3>3, <3>4 DEF Answers
  <2> QED BY <2>3, <2>4
<1> QED BY <1>1, <1>2

LEMMA CorrectionLeavesOpen ==
  ASSUME EpisodeInv, NEW r \in Readings, IsCorrection(r), EpisodeTurn(r, FALSE)
  PROVE  /\ active' # 0
         /\ repairs'[active'].activeIndex = turnIndex + 1
         /\ r.key # NoKey => repairs'[active'].target = r.key
<1> DEFINE now == turnIndex + 1
           a == SettlePollution(Current, IsCorrection(r))
           d == SettleDurability(a, now)
           n == ProjectCorrection(d, r, now)
<1>1. turnIndex \in Nat /\ now \in Nat /\ Sound(Current, turnIndex)
  BY ExchangeBounds DEF EpisodeInv, ExchangeTypeOK
<1>2. Becomes(n)
  BY DEF EpisodeTurn, TurnOutcome, ProjectRepair, ApplyReset
<1>3. Sound(a, turnIndex)
  <2>1. IsCorrection(r) \in BOOLEAN
    BY DEF IsCorrection
  <2>2. OnlyAssessed(Current, a)
    BY <1>1, <2>1, AssessedKeepsRest
  <2> HIDE DEF a
  <2> QED BY <1>1, <2>2, AssessedIsSound
<1> HIDE DEF a
<1>4. Sound(d, now)
  BY <1>1, <1>3, DurabilityIsSound
<1> HIDE DEF d, now
<1>5. Answers(n, r.key, now)
  BY <1>1, <1>4, CorrectionIsAnswered
<1> HIDE DEF n
<1> QED BY <1>2, <1>5 DEF Answers, Becomes, now

(* An agent record leaves the episodes as they are, or opens one by itself *)
(* when none is open.                                                      *)
LEMMA AgentLeavesOpen ==
  ASSUME EpisodeInv, NEW W \in SUBSET Paths, NEW key, NEW expansion,
         EpisodeAgent(W, key, expansion)
  PROVE  IF OpensStructurally(W)
         THEN /\ active' # 0
              /\ repairs'[active'].structural
              /\ repairs'[active'].activeIndex = turnIndex
              /\ repairs'[active'].depth = 1
         ELSE active' = active /\ repairs' = repairs
<1> DEFINE wrote == IF cycle = Nil \/ W = {} THEN cycle ELSE [cycle EXCEPT !.writes = TRUE]
           before == [Current EXCEPT !.cycle = wrote]
           after == IF OpensStructurally(W)
                    THEN Open(before, key, Overlap(W), TRUE, turnIndex) ELSE before
           n == [after EXCEPT !.cycle = IF @ = Nil THEN @ ELSE Folded(@, W, expansion)]
<1>1. Becomes(n)
  BY DEF EpisodeAgent
<1>2. repairs \in Seq(Repairs)
  BY CurrentFields DEF EpisodeInv, Sound, States
<1>3. before.repairs = repairs /\ before.active = active
  BY DEF Current
<1>4. DOMAIN before = {"repairs", "active", "closing", "cycle"}
  BY DEF Current
<1> HIDE DEF before
<1>5. CASE OpensStructurally(W)
  <2> DEFINE s == NewRepair(key, Overlap(W), TRUE, turnIndex)
             i == Len(repairs) + 1
  <2>1. after.active = i /\ after.repairs = Append(repairs, s)
    BY <1>3, <1>4, <1>5 DEF Open
  <2> HIDE DEF after
  <2>2. n.active = after.active /\ n.repairs = after.repairs
    OBVIOUS
  <2> HIDE DEF n
  <2>3. active' = i /\ repairs' = Append(repairs, s)
    BY <1>1, <2>1, <2>2 DEF Becomes
  <2>4. s.structural /\ s.activeIndex = turnIndex /\ s.depth = 1
    BY DEF NewRepair
  <2> HIDE DEF s
  <2>5. Append(repairs, s)[i] = s /\ i # 0
    BY <1>2
  <2> QED BY <1>5, <2>3, <2>4, <2>5
<1>6. CASE ~OpensStructurally(W)
  <2>1. after = before
    BY <1>6
  <2> HIDE DEF after
  <2>2. n.active = after.active /\ n.repairs = after.repairs
    BY <1>4, <2>1
  <2> HIDE DEF n
  <2> QED BY <1>1, <1>3, <1>6, <2>1, <2>2 DEF Becomes
<1> QED BY <1>5, <1>6
=============================================================================
