------------------------------ MODULE Trends_proofs ------------------------------
(***************************************************************************)
(* What holds of the compact references, of the control baseline and of    *)
(* the trends read off them, for every number of records, every window,    *)
(* every set of reference texts and every durability.                      *)
(*                                                                         *)
(* The references.  That every reference is counted once, in its window,   *)
(* is not inductive by itself: a turn could find a reference of a turn     *)
(* that has not come yet, or a baseline that holds a turn twice.           *)
(* PointersInv adds that references are of turns already pushed            *)
(* (NoneAhead), that a reset leaves none of them pending                   *)
(* (ResetLeavesNone), which is why nothing old joins the baseline after    *)
(* it, and that the baseline holds settled turns, each once.  The turns    *)
(* that join the baseline together join in order; PlacesAreTaken says that *)
(* their places are the numbers from one on, so that the order is a        *)
(* sequence of exactly these turns.                                        *)
(*                                                                         *)
(* The trends.  The tracker has no history, only a candidate and a count.  *)
(* Runs says what the count means: the history of measured bands ends with *)
(* that many of the candidate, and no more.  With it a band crosses        *)
(* exactly when it stands in the history (CrossingStands).                 *)
(***************************************************************************)
EXTENDS Trends, FiniteSetTheorems, TLAPS

Once(q) == \A i, j \in DOMAIN q : q[i] = q[j] => i = j

(* The turns the baseline may hold. *)
Settled ==
  {s \in Turns : s <= seq /\ pointers[s].state \in {"none", "success", "unknown"}}

NoneAhead == \A s \in Turns : s > seq => pointers[s].state = "none"

(* A reset settles every reference. *)
ResetLeavesNone == resetPending => Pending = {} /\ epoch > 0

BaselineIsSettled == baseline \in Seq(Settled) /\ Once(baseline)

PointersInv ==
  /\ PointerTypeOK
  /\ OutcomesAreCountedOnce
  /\ WindowIsSpentByEvaluations
  /\ NoneAhead
  /\ ResetLeavesNone
  /\ BaselineIsSettled

-----------------------------------------------------------------------------
(* The place of a turn in a finite set of turns grows with the turn, so    *)
(* the turns of the set have the places from one to their number.          *)
LEMMA PlacesAreTaken ==
  ASSUME NEW S \in SUBSET Nat, IsFiniteSet(S)
  PROVE  /\ Cardinality(S) \in Nat
         /\ \A i \in 1..Cardinality(S) : \E s \in S : Place(S, s) = i
<1> DEFINE n == Cardinality(S)
           UpTo(s) == {t \in S : t <= s}
           place == [s \in S |-> Place(S, s)]
<1>1. n \in Nat
  BY FS_CardinalityType
<1>2. \A s \in S : IsFiniteSet(UpTo(s)) /\ Place(S, s) \in 1..n
  <2> SUFFICES ASSUME NEW s \in S PROVE IsFiniteSet(UpTo(s)) /\ Place(S, s) \in 1..n
    OBVIOUS
  <2>1. UpTo(s) \in SUBSET S /\ s \in UpTo(s) /\ UpTo(s) # {}
    OBVIOUS
  <2>2. IsFiniteSet(UpTo(s)) /\ Cardinality(UpTo(s)) <= n
    BY <2>1, FS_Subset
  <2>3. Cardinality(UpTo(s)) \in Nat /\ Cardinality(UpTo(s)) # 0
    BY <2>1, <2>2, FS_CardinalityType, FS_EmptySet
  <2> QED
    BY <2>2, <2>3, <1>1 DEF Place
<1>3. \A s, t \in S : s < t => Place(S, s) # Place(S, t)
  <2> SUFFICES ASSUME NEW s \in S, NEW t \in S, s < t PROVE Place(S, s) # Place(S, t)
    OBVIOUS
  <2>1. UpTo(s) \in SUBSET UpTo(t) /\ t \in UpTo(t) /\ t \notin UpTo(s)
    <3>1. s \in Nat /\ t \in Nat /\ t <= t /\ ~(t <= s)
      OBVIOUS
    <3>2. \A u \in S : u <= s => u <= t
      OBVIOUS
    <3> QED
      BY <3>1, <3>2
  <2>2. UpTo(s) # UpTo(t)
    BY <2>1
  <2> HIDE DEF UpTo
  <2>3. Cardinality(UpTo(t)) # Cardinality(UpTo(s))
    BY <1>2, <2>1, <2>2, FS_Subset
  <2> QED
    BY <2>3 DEF Place, UpTo
<1>4. place \in Injection(S, 1..n)
  <2>1. place \in [S -> 1..n]
    BY <1>2
  <2>2. \A s, t \in S : place[s] = place[t] => s = t
    BY <1>3
  <2> QED
    BY <2>1, <2>2 DEF Injection, IsInjective
<1>5. IsFiniteSet(1..n) /\ Cardinality(1..n) = n
  BY <1>1, FS_Interval
<1> HIDE DEF place, n
<1>6. place \in Surjection(S, 1..n)
  BY <1>4, <1>5, FS_Injection DEF n
<1>7. \A i \in 1..n : \E s \in S : place[s] = i
  BY <1>6 DEF Surjection
<1> QED
  BY <1>1, <1>7 DEF place, n

(* Put in order, a finite set of turns is a sequence of each of them once. *)
LEMMA OrderIsSequence ==
  ASSUME NEW S \in SUBSET Nat, IsFiniteSet(S)
  PROVE  InOrder(S) \in Seq(S) /\ Once(InOrder(S))
<1> DEFINE q == InOrder(S)
           n == Cardinality(S)
<1>1. n \in Nat /\ \A i \in 1..n : \E s \in S : Place(S, s) = i
  BY PlacesAreTaken
<1>2. DOMAIN q = 1..n /\ \A i \in 1..n : q[i] \in S /\ Place(S, q[i]) = i
  <2>1. q = [i \in 1..n |-> CHOOSE s \in S : Place(S, s) = i]
    BY DEF InOrder
  <2> HIDE DEF q, n
  <2> QED
    BY <1>1, <2>1
<1>3. q = [i \in 1..n |-> q[i]]
  BY DEF InOrder
<1> HIDE DEF q, n
<1>4. q \in Seq(S)
  BY <1>1, <1>2, <1>3
<1>5. Once(q)
  BY <1>2 DEF Once
<1> QED
  BY <1>4, <1>5 DEF q

LEMMA NothingInOrder == InOrder({}) = << >>
<1>1. Cardinality({}) = 0
  BY FS_EmptySet
<1>2. InOrder({}) = [i \in 1..0 |-> CHOOSE s \in {} : Place({}, s) = i]
  BY <1>1 DEF InOrder
<1>3. \A f : f = [i \in 1..0 |-> f[i]] => f = << >>
  OBVIOUS
<1> QED
  BY <1>2

(* What the baseline keeps of a sequence of turns is a part of it that is  *)
(* not longer than the window.                                             *)
LEMMA LatestIsPart ==
  ASSUME NEW S, NEW q \in Seq(S)
  PROVE  /\ Latest(q) \in Seq(S) /\ Len(Latest(q)) <= RollingTurns
         /\ Once(q) => Once(Latest(q))
<1>1. RollingTurns \in Nat \ {0} /\ Len(q) \in Nat
  BY PointerConstants
<1>2. CASE Len(q) <= RollingTurns
  BY <1>1, <1>2 DEF Latest
<1>3. CASE Len(q) > RollingTurns
  <2> DEFINE d == Len(q) - RollingTurns
             r == SubSeq(q, d + 1, Len(q))
  <2>1. Latest(q) = r
    BY <1>3 DEF Latest
  <2>2. d \in Nat /\ d + 1 \in 1..Len(q)
    BY <1>1, <1>3
  <2>3. r \in Seq(S) /\ Len(r) = RollingTurns
    BY <1>1, <2>2
  <2>4. \A i \in 1..RollingTurns : r[i] = q[d + i]
    BY <1>1, <2>2
  <2>5. \A i \in 1..RollingTurns : d + i \in 1..Len(q)
    BY <1>1, <2>2
  <2>6. Once(q) => Once(r)
    <3> SUFFICES ASSUME Once(q), NEW i \in 1..RollingTurns, NEW j \in 1..RollingTurns, r[i] = r[j]
                 PROVE  i = j
      BY <2>3 DEF Once
    <3>1. q[d + i] = q[d + j]
      BY <2>4
    <3>2. d + i = d + j
      BY <3>1, <2>5 DEF Once
    <3> QED
      BY <3>2, <2>2
  <2> QED
    BY <1>1, <2>1, <2>3, <2>6
<1> QED
  BY <1>1, <1>2, <1>3

(* Two sequences of different turns, one after the other. *)
LEMMA JoinedOnce ==
  ASSUME NEW S, NEW T, S \cap T = {}, NEW q \in Seq(S), NEW r \in Seq(T), Once(q), Once(r)
  PROVE  q \o r \in Seq(S \cup T) /\ Once(q \o r)
<1>1. q \in Seq(S \cup T) /\ r \in Seq(S \cup T)
  OBVIOUS
<1>2. q \o r \in Seq(S \cup T) /\ Len(q \o r) = Len(q) + Len(r)
  BY <1>1
<1>3. \A i \in 1..Len(q) : (q \o r)[i] = q[i] /\ q[i] \in S
  BY <1>1
<1>4. \A i \in (Len(q) + 1)..(Len(q) + Len(r)) :
        (q \o r)[i] = r[i - Len(q)] /\ i - Len(q) \in 1..Len(r) /\ r[i - Len(q)] \in T
  BY <1>1
<1>5. ASSUME NEW i \in 1..Len(q \o r), NEW j \in 1..Len(q \o r), (q \o r)[i] = (q \o r)[j]
      PROVE  i = j
  <2>1. CASE i <= Len(q) /\ j <= Len(q)
    BY <1>2, <1>3, <1>5, <2>1 DEF Once
  <2>2. CASE i > Len(q) /\ j > Len(q)
    <3>1. i - Len(q) = j - Len(q)
      BY <1>2, <1>4, <1>5, <2>2 DEF Once
    <3> QED
      BY <3>1
  <2>3. CASE ~(i <= Len(q) <=> j <= Len(q))
    BY <1>2, <1>3, <1>4, <1>5, <2>3
  <2> QED
    BY <2>1, <2>2, <2>3
<1> QED
  BY <1>2, <1>5 DEF Once
-----------------------------------------------------------------------------
(* What one turn makes of the references it finds.                         *)
LEMMA TurnsAreFinite ==
  ASSUME NEW S \in SUBSET Turns
  PROVE  IsFiniteSet(S) /\ Cardinality(S) \in Nat /\ S \in SUBSET Nat
<1>1. MaxRecords \in Nat
  BY ExchangeBounds
<1>2. IsFiniteSet(Turns) /\ Turns \subseteq Nat
  BY <1>1, FS_Interval DEF Turns
<1> QED
  BY <1>2, FS_Subset, FS_CardinalityType

LEMMA CountsAdd ==
  ASSUME NEW S \in SUBSET Turns, NEW T \in SUBSET Turns, S \cap T = {}
  PROVE  Cardinality(S \cup T) = Cardinality(S) + Cardinality(T)
<1>1. Cardinality({}) = 0
  BY FS_EmptySet
<1>2. Cardinality(S \cup T) = Cardinality(S) + Cardinality(T) - Cardinality(S \cap T)
  BY TurnsAreFinite, FS_Union
<1> QED
  BY <1>1, <1>2, TurnsAreFinite

LEMMA VerdictIsKnown ==
  ASSUME NEW s, NEW e
  PROVE  /\ Verdict(s, e) \in {"pending", "success", "failure", "unknown"}
         /\ Verdict(s, e) = "pending" => pointers[s].remaining > 1
BY DEF Verdict

(* Only a pending reference the agent has answered changes.  One that      *)
(* stays pending has spent one turn of its window.                         *)
LEMMA AfterTurnOf ==
  ASSUME PointersInv, NEW e
  PROVE  /\ AfterTurn(e) \in [Turns -> Pointer]
         /\ \A s \in Turns \ Evaluated(e) : AfterTurn(e)[s] = pointers[s]
         /\ \A s \in Evaluated(e) :
              /\ AfterTurn(e)[s].state = Verdict(s, e)
              /\ Verdict(s, e) = "pending" =>
                   /\ AfterTurn(e)[s].evaluated
                   /\ AfterTurn(e)[s].remaining > 0
                   /\ AfterTurn(e)[s].remaining < OutcomeTurns
<1>1. OutcomeTurns \in Nat \ {0}
  BY PointerConstants
<1>2. pointers \in [Turns -> Pointer]
  BY DEF PointersInv, PointerTypeOK
<1>3. ASSUME NEW s \in Evaluated(e)
      PROVE  /\ s \in Turns /\ AfterTurn(e)[s] \in Pointer
             /\ AfterTurn(e)[s].state = Verdict(s, e)
             /\ Verdict(s, e) = "pending" =>
                  /\ AfterTurn(e)[s].evaluated
                  /\ AfterTurn(e)[s].remaining > 0
                  /\ AfterTurn(e)[s].remaining < OutcomeTurns
  <2> DEFINE r == pointers[s]
             v == Verdict(s, e)
             a == AfterTurn(e)[s]
  <2>1. s \in Turns /\ s \in Pending
    BY <1>3 DEF Evaluated, Pending
  <2>2. r \in Pointer /\ r.remaining \in 1..OutcomeTurns
    BY <1>1, <1>2, <2>1 DEF PointersInv, WindowIsSpentByEvaluations, Pointer
  <2>3. v \in {"pending", "success", "failure", "unknown"} /\ (v = "pending" => r.remaining > 1)
    BY VerdictIsKnown
  <2>4. a = IF v \in {"pending", "unknown"}
            THEN [r EXCEPT !.state = v, !.evaluated = TRUE, !.remaining = @ - 1]
            ELSE [r EXCEPT !.state = v]
    BY <1>3, <2>1 DEF AfterTurn
  <2> HIDE DEF r, v, a
  <2>5. a \in Pointer /\ a.state = v
    <3>1. v \in {"none", "pending"} \cup Settlements
      BY <2>3 DEF Settlements
    <3>2. r.remaining - 1 \in 0..OutcomeTurns
      BY <1>1, <2>2
    <3>3. CASE v \in {"pending", "unknown"}
      BY <3>1, <3>2, <3>3, <2>2, <2>4 DEF Pointer
    <3>4. CASE v \notin {"pending", "unknown"}
      BY <3>1, <3>4, <2>2, <2>4 DEF Pointer
    <3> QED
      BY <3>3, <3>4
  <2>6. v = "pending" => a.evaluated /\ a.remaining = r.remaining - 1
    BY <2>2, <2>4 DEF Pointer
  <2> QED
    BY <1>1, <2>1, <2>2, <2>3, <2>5, <2>6 DEF r, v, a
<1>4. \A s \in Turns \ Evaluated(e) : AfterTurn(e)[s] = pointers[s]
  BY DEF AfterTurn
<1>5. \A s \in Turns : AfterTurn(e)[s] \in Pointer
  BY <1>2, <1>3, <1>4
<1>6. AfterTurn(e) \in [Turns -> Pointer]
  <2>1. AfterTurn(e) = [s \in Turns |-> AfterTurn(e)[s]]
    BY DEF AfterTurn
  <2> QED
    BY <1>5, <2>1
<1> QED
  BY <1>3, <1>4, <1>6

(* The references as an operator turn leaves them before a reset, if it    *)
(* brings one, settles what is pending.                                    *)
Fresh(e, key, outside) ==
  [state |-> "pending", key |-> IF key = Nothing THEN NoTarget ELSE key,
   remaining |-> OutcomeTurns, evaluated |-> FALSE,
   eligible |-> e.kind # "correction" /\ outside]

Carried(e, key, outside) ==
  IF key = Nothing THEN AfterTurn(e)
  ELSE [AfterTurn(e) EXCEPT ![seq + 1] = Fresh(e, key, outside)]

(* What a pending reference has left, whichever turn it was sent in. *)
WindowOf(r, s) ==
  /\ lastAgentSeq < s => r.remaining = OutcomeTurns /\ ~r.evaluated
  /\ r.evaluated <=> r.remaining < OutcomeTurns
  /\ r.remaining > 0

LEMMA FreshIsPending ==
  ASSUME NEW e, NEW key \in PointerKeys \cup {NoTarget, Nothing}, NEW outside, NEW s
  PROVE  /\ Fresh(e, key, outside) \in Pointer
         /\ Fresh(e, key, outside).state = "pending"
         /\ WindowOf(Fresh(e, key, outside), s)
<1>1. OutcomeTurns \in Nat \ {0}
  BY PointerConstants
<1>2. (e.kind # "correction" /\ outside) \in BOOLEAN
  OBVIOUS
<1>3. (IF key = Nothing THEN NoTarget ELSE key) \in PointerKeys \cup {NoTarget}
  OBVIOUS
<1> QED
  BY <1>1, <1>2, <1>3 DEF Fresh, WindowOf, Pointer

(* What an operator turn e leaves of the references: c. *)
Leaves(c, e, key) ==
  /\ c \in [Turns -> Pointer]
  /\ \A s \in Turns : s > seq + 1 => c[s].state = "none"
  /\ \A s \in Turns \ Pending : s # seq + 1 \/ key = Nothing => c[s].state = pointers[s].state
  /\ \A s \in Evaluated(e) : c[s].state = Verdict(s, e)
  /\ \A s \in Pending \ Evaluated(e) : c[s].state = "pending"
  /\ key # Nothing => c[seq + 1].state = "pending"
  /\ \A s \in Turns : c[s].state = "pending" => WindowOf(c[s], s)

LEMMA CarriedOf ==
  ASSUME PointersInv, seq < MaxRecords, NEW e,
         NEW key \in PointerKeys \cup {NoTarget, Nothing}, NEW outside
  PROVE  Leaves(Carried(e, key, outside), e, key)
<1> DEFINE a == AfterTurn(e)
           f == Fresh(e, key, outside)
           c == Carried(e, key, outside)
           new == seq + 1
<1>1. seq \in Nat /\ new \in Turns /\ lastAgentSeq \in 0..seq /\ OutcomeTurns \in Nat
  BY ExchangeBounds, PointerConstants DEF PointersInv, PointerTypeOK, ExchangeTypeOK, Turns
<1>2. pointers[new].state = "none"
  BY <1>1 DEF PointersInv, NoneAhead
<1>3. new \notin Pending /\ Evaluated(e) \subseteq Pending /\ Pending \subseteq Turns
  BY <1>2 DEF Pending, Evaluated
<1>4. /\ a \in [Turns -> Pointer]
      /\ \A s \in Turns \ Evaluated(e) : a[s] = pointers[s]
      /\ \A s \in Evaluated(e) :
           /\ a[s].state = Verdict(s, e)
           /\ Verdict(s, e) = "pending" =>
                a[s].evaluated /\ a[s].remaining > 0 /\ a[s].remaining < OutcomeTurns
  BY AfterTurnOf
<1>5. f \in Pointer /\ f.state = "pending" /\ WindowOf(f, new)
  BY FreshIsPending
<1>6. c = IF key = Nothing THEN a ELSE [a EXCEPT ![new] = f]
  BY DEF Carried
<1>7. \A s \in Pending : WindowOf(pointers[s], s)
  BY DEF PointersInv, WindowIsSpentByEvaluations, WindowOf
<1>8. \A s \in Evaluated(e) : lastAgentSeq > s /\ s \in Nat
  BY <1>3 DEF Evaluated, Answered, Turns
<1>9. \A s \in Turns : a[s].state = "pending" => WindowOf(a[s], s)
  <2> SUFFICES ASSUME NEW s \in Turns, a[s].state = "pending" PROVE WindowOf(a[s], s)
    OBVIOUS
  <2>1. CASE s \in Evaluated(e)
    <3>1. a[s].evaluated /\ a[s].remaining > 0 /\ a[s].remaining < OutcomeTurns
      BY <1>4, <2>1
    <3>2. ~(lastAgentSeq < s)
      BY <1>1, <1>8, <2>1
    <3> HIDE DEF a
    <3> QED
      BY <3>1, <3>2 DEF WindowOf
  <2>2. CASE s \notin Evaluated(e)
    BY <1>4, <1>7, <2>2 DEF Pending
  <2> QED
    BY <2>1, <2>2
<1>10. \A s \in Turns : s > seq => s \notin Pending
  BY DEF PointersInv, NoneAhead, Pending
<1>11. \A s \in Turns : s # new \/ key = Nothing => c[s] = a[s]
  BY <1>4, <1>6
<1>12. key # Nothing => c[new] = f
  BY <1>1, <1>4, <1>6
<1>13. c \in [Turns -> Pointer]
  BY <1>4, <1>5, <1>6
<1> HIDE DEF a, f, c, new
<1>14. \A s \in Turns : s > new => c[s].state = "none"
  <2> SUFFICES ASSUME NEW s \in Turns, s > new PROVE c[s].state = "none"
    OBVIOUS
  <2>1. s > seq /\ s # new
    BY <1>1 DEF new, Turns
  <2> QED
    BY <1>3, <1>4, <1>10, <1>11, <2>1 DEF PointersInv, NoneAhead
<1>15. \A s \in Turns : c[s].state = "pending" => WindowOf(c[s], s)
  BY <1>5, <1>9, <1>11, <1>12
<1>16. \A s \in Turns \ Pending : s # new \/ key = Nothing => c[s].state = pointers[s].state
  BY <1>3, <1>4, <1>11
<1>17. \A s \in Evaluated(e) : c[s].state = Verdict(s, e)
  BY <1>3, <1>4, <1>11
<1>18. \A s \in Pending \ Evaluated(e) : c[s].state = "pending"
  BY <1>3, <1>4, <1>11 DEF Pending
<1>19. key # Nothing => c[new].state = "pending"
  BY <1>5, <1>12
<1>20. Leaves(c, e, key)
  BY <1>13, <1>14, <1>15, <1>16, <1>17, <1>18, <1>19 DEF Leaves, new
<1> QED
  BY <1>20 DEF c

LEMMA AllUnknownOf ==
  ASSUME NEW ps \in [Turns -> Pointer]
  PROVE  /\ AllUnknown(ps) \in [Turns -> Pointer]
         /\ \A s \in Turns : ps[s].state = "pending" => AllUnknown(ps)[s].state = "unknown"
         /\ \A s \in Turns : ps[s].state # "pending" => AllUnknown(ps)[s] = ps[s]
<1>1. \A s \in Turns : ps[s].state = "pending" => AllUnknown(ps)[s] = [ps[s] EXCEPT !.state = "unknown"]
  BY DEF AllUnknown
<1>2. \A r \in Pointer : /\ [r EXCEPT !.state = "unknown"] \in Pointer
                         /\ [r EXCEPT !.state = "unknown"].state = "unknown"
  BY DEF Pointer, Settlements
<1>3. \A s \in Turns : ps[s].state # "pending" => AllUnknown(ps)[s] = ps[s]
  BY DEF AllUnknown
<1>4. ASSUME NEW s \in Turns
      PROVE  /\ AllUnknown(ps)[s] \in Pointer
             /\ ps[s].state = "pending" => AllUnknown(ps)[s].state = "unknown"
  <2>1. ps[s] \in Pointer
    OBVIOUS
  <2> QED
    BY <1>1, <1>2, <1>3, <2>1
<1>5. AllUnknown(ps) = [s \in Turns |-> AllUnknown(ps)[s]]
  BY DEF AllUnknown
<1>6. AllUnknown(ps) \in [Turns -> Pointer]
  BY <1>4, <1>5
<1> QED
  BY <1>3, <1>4, <1>6

(* The turns in one state after an operator turn: those that were in it,   *)
(* those it settled so, and for the unknown ones those a reset gives up.   *)
StatesMove(e, gone) ==
  /\ WithState("success")' = WithState("success") \cup SettledAs(e, "success")
  /\ WithState("failure")' = WithState("failure") \cup SettledAs(e, "failure")
  /\ WithState("unknown")' = WithState("unknown") \cup SettledAs(e, "unknown") \cup gone
  /\ gone \cap (WithState("unknown") \cup SettledAs(e, "unknown")) = {}
  /\ gone \subseteq Turns

Dropped(e, key, outside, reset) ==
  IF reset THEN {s \in Turns : Carried(e, key, outside)[s].state = "pending"} ELSE {}

LEMMA StatesAfterTurn ==
  ASSUME PointersInv, seq < MaxRecords, NEW e,
         NEW key \in PointerKeys \cup {NoTarget, Nothing}, NEW outside,
         NEW reset \in BOOLEAN,
         pointers' = IF reset THEN AllUnknown(Carried(e, key, outside))
                     ELSE Carried(e, key, outside)
  PROVE  /\ pointers' \in [Turns -> Pointer]
         /\ StatesMove(e, Dropped(e, key, outside, reset))
<1> DEFINE c == Carried(e, key, outside)
           new == seq + 1
<1>0. Leaves(c, e, key)
  BY CarriedOf
<1> HIDE DEF c
<1>1. /\ c \in [Turns -> Pointer]
      /\ \A s \in Turns \ Pending :
           s # new \/ key = Nothing => c[s].state = pointers[s].state
      /\ \A s \in Evaluated(e) : c[s].state = Verdict(s, e)
      /\ \A s \in Pending \ Evaluated(e) : c[s].state = "pending"
      /\ key # Nothing => c[new].state = "pending"
  BY <1>0 DEF Leaves
<1>2. new \in Turns /\ pointers[new].state = "none"
  BY ExchangeBounds DEF PointersInv, PointerTypeOK, ExchangeTypeOK, Turns, NoneAhead
<1>3. Evaluated(e) \subseteq Pending /\ Pending \subseteq Turns
  BY DEF Pending, Evaluated
<1> HIDE DEF new
<1>4. ASSUME NEW st \in {"success", "failure", "unknown"}
      PROVE  {s \in Turns : c[s].state = st} = WithState(st) \cup SettledAs(e, st)
  <2>1. ASSUME NEW s \in Turns, c[s].state = st PROVE s \in WithState(st) \cup SettledAs(e, st)
    <3>1. CASE s \in Evaluated(e)
      BY <1>1, <2>1, <3>1 DEF SettledAs
    <3>2. CASE s \in Pending \ Evaluated(e)
      BY <1>1, <2>1, <3>2, <1>4
    <3>3. CASE s \notin Pending
      BY <1>1, <2>1, <3>3, <1>4 DEF WithState
    <3> QED
      BY <3>1, <3>2, <3>3
  <2>2. ASSUME NEW s \in WithState(st) PROVE s \in Turns /\ c[s].state = st
    <3>1. s \in Turns /\ s \notin Pending /\ s # new
      BY <1>2, <1>4 DEF WithState, Pending
    <3> QED
      BY <1>1, <3>1 DEF WithState
  <2>3. ASSUME NEW s \in SettledAs(e, st) PROVE s \in Turns /\ c[s].state = st
    BY <1>1, <1>3 DEF SettledAs
  <2> QED
    BY <2>1, <2>2, <2>3
<1>5. /\ AllUnknown(c) \in [Turns -> Pointer]
      /\ \A s \in Turns : c[s].state = "pending" => AllUnknown(c)[s].state = "unknown"
      /\ \A s \in Turns : c[s].state # "pending" => AllUnknown(c)[s] = c[s]
  BY <1>1, AllUnknownOf
<1>6. pointers' = IF reset THEN AllUnknown(c) ELSE c
  BY DEF c
<1>7. pointers' \in [Turns -> Pointer]
  BY <1>1, <1>5, <1>6
<1>8. ASSUME NEW st \in {"success", "failure"} PROVE WithState(st)' = {s \in Turns : c[s].state = st}
  BY <1>5, <1>6, <1>8 DEF WithState
<1> DEFINE gone == Dropped(e, key, outside, reset)
<1>9. gone = IF reset THEN {s \in Turns : c[s].state = "pending"} ELSE {}
  BY DEF Dropped, c
<1> HIDE DEF gone
<1>10. WithState("unknown")' = {s \in Turns : c[s].state = "unknown"} \cup gone
  BY <1>5, <1>6, <1>9 DEF WithState
<1>11. gone \cap {s \in Turns : c[s].state = "unknown"} = {} /\ gone \subseteq Turns
  BY <1>9
<1>12. StatesMove(e, gone)
  <2>1. WithState("success")' = WithState("success") \cup SettledAs(e, "success")
    BY <1>4, <1>8
  <2>2. WithState("failure")' = WithState("failure") \cup SettledAs(e, "failure")
    BY <1>4, <1>8
  <2>3. {s \in Turns : c[s].state = "unknown"} = WithState("unknown") \cup SettledAs(e, "unknown")
    BY <1>4
  <2> QED
    BY <2>1, <2>2, <2>3, <1>10, <1>11 DEF StatesMove
<1> QED
  BY <1>7, <1>12 DEF gone

(* The turns a turn adds to the baseline. *)
LEMMA BaselineAfterTurn ==
  ASSUME PointersInv, seq < MaxRecords, NEW e, NEW own \in {<< >>, <<seq + 1>>}
  PROVE  LET q == Latest(MeasuredBaseline(e) \o own) IN
         /\ q \in Seq(Settled \cup Joining(e) \cup {n \in {seq + 1} : own # << >>})
         /\ Once(q) /\ Len(q) <= RollingTurns
<1> DEFINE B == Cleared(baseline)
           J == InOrder(Joining(e))
           M == Latest(B \o J)
           New == {n \in {seq + 1} : own # << >>}
           q == Latest(M \o own)
<1>1. B \in Seq(Settled) /\ Once(B)
  BY DEF PointersInv, BaselineIsSettled, Cleared, Once
<1>2. Joining(e) \subseteq Pending /\ Pending \subseteq Turns
  BY DEF Joining, SettledAs, Evaluated, Pending
<1>3. J \in Seq(Joining(e)) /\ Once(J)
  BY <1>2, TurnsAreFinite, OrderIsSequence
<1>4. Settled \cap Joining(e) = {}
  BY <1>2 DEF Settled, Pending
<1>5. seq \in Nat /\ \A s \in Settled \cup Pending : s \in Nat /\ s <= seq
  BY ExchangeBounds
     DEF PointersInv, PointerTypeOK, ExchangeTypeOK, Settled, Pending, NoneAhead, Turns
<1>6. (Settled \cup Joining(e)) \cap New = {}
  BY <1>2, <1>5
<1>7. own \in Seq(New) /\ Once(own)
  <2>1. CASE own = << >>
    BY <2>1 DEF Once
  <2>2. CASE own = <<seq + 1>>
    <3>1. DOMAIN own = {1} /\ own # << >> /\ seq + 1 \in New
      BY <2>2
    <3> QED
      BY <2>2, <3>1 DEF Once
  <2> QED
    BY <2>1, <2>2
<1> HIDE DEF B, J, New, M, q
<1>8. B \o J \in Seq(Settled \cup Joining(e)) /\ Once(B \o J)
  BY <1>1, <1>3, <1>4, JoinedOnce
<1>9. M \in Seq(Settled \cup Joining(e)) /\ Once(M)
  BY <1>8, LatestIsPart DEF M
<1>10. M \o own \in Seq((Settled \cup Joining(e)) \cup New) /\ Once(M \o own)
  BY <1>6, <1>7, <1>9, JoinedOnce
<1>11. q \in Seq((Settled \cup Joining(e)) \cup New) /\ Once(q) /\ Len(q) <= RollingTurns
  BY <1>10, LatestIsPart DEF q
<1>12. q = Latest(MeasuredBaseline(e) \o own)
  BY DEF q, M, B, J, MeasuredBaseline
<1> QED
  BY <1>11, <1>12 DEF New

(* The marks of the misses. *)
LEMMA MissesAfterTurn ==
  ASSUME PointersInv, seq < MaxRecords, NEW e
  PROVE  /\ Misses(e) \in Seq(Turns)
         /\ Len(Misses(e)) = Cardinality(SettledAs(e, "failure"))
         /\ SettledAs(e, "failure") = {} => Misses(e) = << >>
<1> DEFINE n == Cardinality(SettledAs(e, "failure"))
<1>1. SettledAs(e, "failure") \subseteq Turns
  BY DEF SettledAs, Evaluated, Pending
<1>2. n \in Nat /\ (SettledAs(e, "failure") = {} => n = 0)
  BY <1>1, TurnsAreFinite, FS_EmptySet
<1>3. turnIndex + 1 \in Turns
  BY ExchangeBounds DEF PointersInv, PointerTypeOK, ExchangeTypeOK, Turns
<1>4. Misses(e) = [i \in 1..n |-> turnIndex + 1]
  BY DEF Misses
<1> HIDE DEF n
<1>5. Misses(e) \in Seq(Turns) /\ Len(Misses(e)) = n
  BY <1>2, <1>3, <1>4
<1>6. n = 0 => Misses(e) = << >>
  BY <1>4
<1> QED
  BY <1>2, <1>5, <1>6 DEF n

-----------------------------------------------------------------------------
(* One lemma per action. *)

(* The turn that pushes an operator record, with what it reports. *)
TurnReports(e, key, outside, outsideAfter, reset) ==
  /\ OperatorRecord(reset)
  /\ PointerTurn(e, key, outside, outsideAfter, reset)

Own(e, key, outsideAfter) ==
  IF key = Nothing /\ e.kind # "correction" /\ outsideAfter THEN <<seq + 1>> ELSE << >>

LEMMA TurnEquations ==
  ASSUME NEW e, NEW key, NEW outside, NEW outsideAfter, NEW reset,
         TurnReports(e, key, outside, outsideAfter, reset)
  PROVE  /\ pointers' = IF reset THEN AllUnknown(Carried(e, key, outside))
                        ELSE Carried(e, key, outside)
         /\ success' = success + Cardinality(SettledAs(e, "success"))
         /\ failure' = failure + Cardinality(SettledAs(e, "failure"))
         /\ noAnswer' = noAnswer + Cardinality(SettledAs(e, "unknown"))
              + IF reset
                THEN Cardinality({s \in Turns : Carried(e, key, outside)[s].state = "pending"})
                ELSE 0
         /\ failures' = Cleared(failures) \o Misses(e)
         /\ baseline' = Latest(MeasuredBaseline(e) \o Own(e, key, outsideAfter))
         /\ resetPending' = reset
         /\ lastAgentSeq' = lastAgentSeq
  BY DEF TurnReports, PointerTurn, Carried, Fresh, Own

LEMMA TurnKeepsTypes ==
  ASSUME PointersInv, NEW e, NEW key \in PointerKeys \cup {NoTarget, Nothing}, NEW outside,
         NEW outsideAfter, NEW reset \in BOOLEAN,
         TurnReports(e, key, outside, outsideAfter, reset)
  PROVE  ExchangeTypeOK' /\ PointerTypeOK'
<1>1. /\ phase = "live" /\ seq < MaxRecords /\ seq' = seq + 1 /\ phase' = phase
      /\ turnIndex' = turnIndex + 1
      /\ reset => epoch < MaxEpoch
      /\ epoch' = IF reset THEN epoch + 1 ELSE epoch
  BY DEF TurnReports, OperatorRecord, TakeRecord
<1>2. ExchangeTypeOK'
  BY <1>1, ExchangeBounds DEF PointersInv, PointerTypeOK, ExchangeTypeOK
<1>3. /\ pointers' = IF reset THEN AllUnknown(Carried(e, key, outside))
                     ELSE Carried(e, key, outside)
      /\ success' = success + Cardinality(SettledAs(e, "success"))
      /\ failure' = failure + Cardinality(SettledAs(e, "failure"))
      /\ noAnswer' = noAnswer + Cardinality(SettledAs(e, "unknown"))
           + IF reset
             THEN Cardinality({s \in Turns : Carried(e, key, outside)[s].state = "pending"})
             ELSE 0
      /\ failures' = Cleared(failures) \o Misses(e)
      /\ baseline' = Latest(MeasuredBaseline(e) \o Own(e, key, outsideAfter))
      /\ resetPending' = reset
      /\ lastAgentSeq' = lastAgentSeq
  BY TurnEquations
<1>4. pointers' \in [Turns -> Pointer]
  BY <1>1, <1>3, StatesAfterTurn
<1>5. success' \in Nat /\ failure' \in Nat /\ noAnswer' \in Nat
  <2>1. \A st : SettledAs(e, st) \in SUBSET Turns
    BY DEF SettledAs, Evaluated, Pending
  <2>2. \A st : Cardinality(SettledAs(e, st)) \in Nat
    BY <2>1, TurnsAreFinite
  <2>3. Cardinality({s \in Turns : Carried(e, key, outside)[s].state = "pending"}) \in Nat
    BY TurnsAreFinite
  <2>4. success \in Nat /\ failure \in Nat /\ noAnswer \in Nat
    BY DEF PointersInv, PointerTypeOK
  <2> QED
    BY <1>3, <2>2, <2>3, <2>4
<1>6. failures' \in Seq(Turns)
  <2>1. Misses(e) \in Seq(Turns) /\ Cleared(failures) \in Seq(Turns)
    BY <1>1, MissesAfterTurn DEF Cleared, PointersInv, PointerTypeOK
  <2> QED
    BY <1>3, <2>1
<1>7. baseline' \in Seq(Turns) /\ Len(baseline') <= RollingTurns
  <2> DEFINE own == Own(e, key, outsideAfter)
             N == {n \in {seq + 1} : own # << >>}
  <2>1. own \in {<< >>, <<seq + 1>>}
    BY DEF Own
  <2>2. baseline' \in Seq(Settled \cup Joining(e) \cup N) /\ Len(baseline') <= RollingTurns
    BY <1>1, <1>3, <2>1, BaselineAfterTurn
  <2>3. (Settled \cup Joining(e) \cup N) \subseteq Turns
    BY <1>1, ExchangeBounds DEF Settled, Joining, SettledAs, Evaluated, Pending, Turns,
       PointersInv, PointerTypeOK, ExchangeTypeOK
  <2> HIDE DEF N
  <2> QED
    BY <2>2, <2>3
<1>8. lastAgentSeq' \in 0..seq' /\ resetPending' \in BOOLEAN
  BY <1>1, <1>3 DEF PointersInv, PointerTypeOK, ExchangeTypeOK
<1> QED
  BY <1>2, <1>4, <1>5, <1>6, <1>7, <1>8 DEF PointerTypeOK

LEMMA TurnKeepsCounts ==
  ASSUME PointersInv, NEW e, NEW key \in PointerKeys \cup {NoTarget, Nothing}, NEW outside,
         NEW outsideAfter, NEW reset \in BOOLEAN,
         TurnReports(e, key, outside, outsideAfter, reset)
  PROVE  OutcomesAreCountedOnce'
<1>1. /\ seq < MaxRecords /\ epoch \in Nat
      /\ epoch' = IF reset THEN epoch + 1 ELSE epoch
  BY DEF TurnReports, OperatorRecord, TakeRecord, PointersInv, PointerTypeOK, ExchangeTypeOK
<1>2. /\ pointers' = IF reset THEN AllUnknown(Carried(e, key, outside))
                     ELSE Carried(e, key, outside)
      /\ success' = success + Cardinality(SettledAs(e, "success"))
      /\ failure' = failure + Cardinality(SettledAs(e, "failure"))
      /\ noAnswer' = noAnswer + Cardinality(SettledAs(e, "unknown"))
           + IF reset
             THEN Cardinality({s \in Turns : Carried(e, key, outside)[s].state = "pending"})
             ELSE 0
      /\ failures' = Cleared(failures) \o Misses(e)
      /\ baseline' = Latest(MeasuredBaseline(e) \o Own(e, key, outsideAfter))
      /\ resetPending' = reset
      /\ lastAgentSeq' = lastAgentSeq
  BY TurnEquations
<1>3. StatesMove(e, Dropped(e, key, outside, reset))
  BY <1>1, <1>2, StatesAfterTurn
<1> DEFINE gone == Dropped(e, key, outside, reset)
<1>4. ASSUME NEW st \in {"success", "failure", "unknown"}
      PROVE  /\ WithState(st) \in SUBSET Turns /\ SettledAs(e, st) \in SUBSET Turns
             /\ Cardinality(WithState(st) \cup SettledAs(e, st))
                  = Cardinality(WithState(st)) + Cardinality(SettledAs(e, st))
  <2>1. WithState(st) \in SUBSET Turns /\ SettledAs(e, st) \in SUBSET Turns
    BY DEF WithState, SettledAs, Evaluated, Pending
  <2>2. WithState(st) \cap SettledAs(e, st) = {}
    BY <1>4 DEF WithState, SettledAs, Evaluated, Pending
  <2> QED
    BY <2>1, <2>2, CountsAdd
<1>5. noAnswer' = noAnswer + Cardinality(SettledAs(e, "unknown")) + Cardinality(gone)
  <2>1. Cardinality({}) = 0
    BY FS_EmptySet
  <2> QED
    BY <1>2, <2>1 DEF Dropped
<1> HIDE DEF gone
<1>6. Cardinality(WithState("unknown") \cup SettledAs(e, "unknown") \cup gone)
        = Cardinality(WithState("unknown") \cup SettledAs(e, "unknown")) + Cardinality(gone)
  <2>1. gone \in SUBSET Turns
    BY <1>3 DEF gone, StatesMove
  <2>2. WithState("unknown") \cup SettledAs(e, "unknown") \in SUBSET Turns
    BY <1>4
  <2>3. (WithState("unknown") \cup SettledAs(e, "unknown")) \cap gone = {}
    BY <1>3 DEF gone, StatesMove
  <2> QED
    BY <2>1, <2>2, <2>3, CountsAdd
<1>8. Len(failures') <= failure' /\ (epoch' = 0 => Len(failures') = failure')
  <2> DEFINE k == Cardinality(SettledAs(e, "failure"))
             F == Cleared(failures)
             M == Misses(e)
  <2>1. k \in Nat /\ failure \in Nat /\ failure' = failure + k
    BY <1>2, <1>4, TurnsAreFinite DEF PointersInv, PointerTypeOK
  <2>2. M \in Seq(Turns) /\ Len(M) = k
    BY <1>1, MissesAfterTurn
  <2>3. failures \in Seq(Turns) /\ F = IF resetPending THEN << >> ELSE failures
    BY DEF PointersInv, PointerTypeOK, Cleared
  <2>4. F \in Seq(Turns) /\ Len(F) <= failure
    BY <2>1, <2>3 DEF PointersInv, OutcomesAreCountedOnce
  <2>5. epoch' = 0 => epoch = 0
    BY <1>1
  <2>6. epoch = 0 => Len(F) = failure
    BY <2>3 DEF PointersInv, ResetLeavesNone, OutcomesAreCountedOnce
  <2> HIDE DEF k, F, M
  <2>7. Len(F \o M) = Len(F) + Len(M) /\ Len(F) \in Nat
    BY <2>2, <2>4
  <2>8. failures' = F \o M
    BY <1>2 DEF F, M
  <2>9. Len(failures') = Len(F) + k /\ Len(F) <= failure
    BY <2>2, <2>4, <2>7, <2>8
  <2> QED
    BY <2>1, <2>5, <2>6, <2>7, <2>9
<1>9. /\ success = Cardinality(WithState("success"))
      /\ failure = Cardinality(WithState("failure"))
      /\ noAnswer = Cardinality(WithState("unknown"))
  BY DEF PointersInv, OutcomesAreCountedOnce
<1>10. success' = Cardinality(WithState("success")')
  BY <1>2, <1>3, <1>4, <1>9 DEF StatesMove
<1>11. failure' = Cardinality(WithState("failure")')
  BY <1>2, <1>3, <1>4, <1>9 DEF StatesMove
<1>12. noAnswer' = Cardinality(WithState("unknown")')
  BY <1>3, <1>4, <1>5, <1>6, <1>9 DEF StatesMove, gone
<1> QED
  BY <1>8, <1>10, <1>11, <1>12 DEF OutcomesAreCountedOnce

LEMMA TurnKeepsRest ==
  ASSUME PointersInv, NEW e, NEW key \in PointerKeys \cup {NoTarget, Nothing}, NEW outside,
         NEW outsideAfter, NEW reset \in BOOLEAN,
         TurnReports(e, key, outside, outsideAfter, reset)
  PROVE  /\ WindowIsSpentByEvaluations' /\ NoneAhead' /\ ResetLeavesNone'
         /\ BaselineIsSettled'
<1> DEFINE c == Carried(e, key, outside)
           new == seq + 1
<1>1. /\ seq < MaxRecords /\ seq' = seq + 1 /\ epoch \in Nat
      /\ epoch' = IF reset THEN epoch + 1 ELSE epoch
      /\ seq \in Nat
  BY DEF TurnReports, OperatorRecord, TakeRecord, PointersInv, PointerTypeOK, ExchangeTypeOK
<1>2. /\ pointers' = IF reset THEN AllUnknown(c) ELSE c
      /\ baseline' = Latest(MeasuredBaseline(e) \o Own(e, key, outsideAfter))
      /\ resetPending' = reset
      /\ lastAgentSeq' = lastAgentSeq
  BY TurnEquations
<1>3. Leaves(c, e, key)
  BY <1>1, CarriedOf
<1>4. pointers[new].state = "none" /\ new \in Turns /\ new = seq'
  BY <1>1, ExchangeBounds DEF PointersInv, NoneAhead, Turns
<1> HIDE DEF c
<1>5. /\ c \in [Turns -> Pointer]
      /\ \A s \in Turns : s > new => c[s].state = "none"
      /\ \A s \in Turns \ Pending : s # new \/ key = Nothing => c[s].state = pointers[s].state
      /\ \A s \in Evaluated(e) : c[s].state = Verdict(s, e)
      /\ \A s \in Turns : c[s].state = "pending" => WindowOf(c[s], s)
  BY <1>3 DEF Leaves
<1>6. \A s \in Turns : /\ c[s].state = "pending" /\ reset => pointers'[s].state = "unknown"
                       /\ c[s].state # "pending" \/ ~reset => pointers'[s] = c[s]
  BY <1>2, <1>5, AllUnknownOf
<1> HIDE DEF new
<1>7. WindowIsSpentByEvaluations'
  <2> SUFFICES ASSUME NEW s \in Turns, pointers'[s].state = "pending"
               PROVE  WindowOf(pointers'[s], s)
    BY <1>2 DEF WindowIsSpentByEvaluations, Pending, WindowOf
  <2> QED
    BY <1>5, <1>6
<1>8. NoneAhead'
  BY <1>4, <1>5, <1>6 DEF NoneAhead
<1>9. ResetLeavesNone'
  <2>1. reset => Pending' = {}
    BY <1>6 DEF Pending
  <2>2. reset => epoch' > 0
    BY <1>1
  <2> QED
    BY <1>2, <2>1, <2>2 DEF ResetLeavesNone
<1>10. BaselineIsSettled'
  <2> DEFINE own == Own(e, key, outsideAfter)
             N == {n \in {seq + 1} : own # << >>}
  <2>1. own \in {<< >>, <<seq + 1>>} /\ (own # << >> => key = Nothing)
    BY DEF Own
  <2>2. baseline' \in Seq(Settled \cup Joining(e) \cup N) /\ Once(baseline')
    BY <1>1, <1>2, <2>1, BaselineAfterTurn
  <2>3. Settled \subseteq Settled'
    <3> SUFFICES ASSUME NEW s \in Settled PROVE s \in Settled'
      OBVIOUS
    <3>1. /\ s \in Turns /\ s <= seq /\ s \notin Pending
          /\ pointers[s].state \in {"none", "success", "unknown"}
      BY DEF Settled, Pending
    <3>2. s # new /\ s <= seq'
      BY <1>1, <3>1 DEF new, Turns
    <3>3. c[s].state = pointers[s].state
      BY <1>5, <3>1, <3>2
    <3> QED
      BY <1>6, <3>1, <3>2, <3>3 DEF Settled
  <2>4. Joining(e) \subseteq Settled'
    <3> SUFFICES ASSUME NEW s \in Joining(e) PROVE s \in Settled'
      OBVIOUS
    <3>1. s \in Evaluated(e) /\ Verdict(s, e) \in {"success", "unknown"}
      BY DEF Joining, SettledAs
    <3>2. s \in Turns /\ s <= seq
      BY <1>1, <3>1 DEF Evaluated, Pending, PointersInv, NoneAhead, Turns
    <3>3. c[s].state \in {"success", "unknown"} /\ s <= seq'
      BY <1>1, <1>5, <3>1, <3>2 DEF Turns
    <3> QED
      BY <1>6, <3>2, <3>3 DEF Settled
  <2>5. N \subseteq Settled'
    <3> SUFFICES ASSUME key = Nothing PROVE new \in Settled'
      BY <2>1 DEF new
    <3>1. c[new].state = "none"
      BY <1>4, <1>5 DEF Pending
    <3> QED
      BY <1>1, <1>4, <1>6, <3>1 DEF Settled, new
  <2> HIDE DEF N
  <2> QED
    BY <2>2, <2>3, <2>4, <2>5 DEF BaselineIsSettled, Once
<1> QED
  BY <1>7, <1>8, <1>9, <1>10

LEMMA OperatorTurnKeeps == ASSUME PointersInv, OperatorTurn PROVE PointersInv'
<1>1. PICK e \in Evidence, key \in PointerKeys \cup {NoTarget, Nothing},
           outside \in BOOLEAN, outsideAfter \in BOOLEAN, reset \in BOOLEAN :
             TurnReports(e, key, outside, outsideAfter, reset)
  BY DEF OperatorTurn, TurnReports
<1> QED
  BY <1>1, TurnKeepsTypes, TurnKeepsCounts, TurnKeepsRest DEF PointersInv

(* An agent record, or any other, settles nothing: it only moves the clock *)
(* and with it what the agent has answered.                                *)
LEMMA OtherRecordsKeep ==
  ASSUME PointersInv, OtherRecord, lastAgentSeq' \in {lastAgentSeq, seq + 1},
         UNCHANGED <<pointers, success, failure, noAnswer, failures, baseline, resetPending>>
  PROVE  PointersInv'
<1>1. /\ seq < MaxRecords /\ seq' = seq + 1 /\ seq \in Nat
      /\ UNCHANGED <<turnIndex, epoch, phase>>
  BY DEF OtherRecord, TakeRecord, PointersInv, PointerTypeOK, ExchangeTypeOK
<1>2. Pending' = Pending /\ \A st : WithState(st)' = WithState(st)
  BY DEF Pending, WithState
<1>3. PointerTypeOK'
  BY <1>1, ExchangeBounds DEF PointersInv, PointerTypeOK, ExchangeTypeOK
<1>4. OutcomesAreCountedOnce'
  BY <1>1, <1>2 DEF PointersInv, OutcomesAreCountedOnce
<1>5. WindowIsSpentByEvaluations'
  <2>1. ASSUME NEW s \in Pending PROVE lastAgentSeq' < s => lastAgentSeq < s
    <3>1. s \in Nat /\ s <= seq /\ lastAgentSeq \in 0..seq
      BY <1>1 DEF PointersInv, PointerTypeOK, NoneAhead, Pending, Turns
    <3> QED
      BY <1>1, <3>1
  <2> QED
    BY <1>2, <2>1 DEF PointersInv, WindowIsSpentByEvaluations
<1>6. NoneAhead' /\ ResetLeavesNone'
  BY <1>1, <1>2 DEF PointersInv, NoneAhead, ResetLeavesNone, Turns
<1>7. BaselineIsSettled'
  <2>1. Settled \subseteq Settled'
    BY <1>1 DEF Settled, Turns
  <2> QED
    BY <2>1 DEF PointersInv, BaselineIsSettled, Once
<1> QED
  BY <1>3, <1>4, <1>5, <1>6, <1>7 DEF PointersInv

(* At the end of the source what is pending stays unknown. *)
LEMMA FinishKeeps == ASSUME PointersInv, Finish PROVE PointersInv'
<1> DEFINE J == {s \in Pending : pointers[s].eligible}
<1>1. /\ UNCHANGED <<seq, turnIndex, epoch, lastAgentSeq, success, failure, failures, resetPending>>
      /\ phase' = "finished"
      /\ pointers' = AllUnknown(pointers)
      /\ noAnswer' = noAnswer + Cardinality(Pending)
      /\ baseline' = Latest(baseline \o InOrder(J))
  BY DEF Finish, StopAs, PointerFinish
<1>2. pointers \in [Turns -> Pointer]
  BY DEF PointersInv, PointerTypeOK
<1>3. /\ pointers' \in [Turns -> Pointer]
      /\ \A s \in Turns : pointers[s].state = "pending" => pointers'[s].state = "unknown"
      /\ \A s \in Turns : pointers[s].state # "pending" => pointers'[s] = pointers[s]
  BY <1>1, <1>2, AllUnknownOf
<1>4. Pending' = {} /\ Pending \in SUBSET Turns
  BY <1>3 DEF Pending
<1>5. /\ WithState("success")' = WithState("success")
      /\ WithState("failure")' = WithState("failure")
      /\ WithState("unknown")' = WithState("unknown") \cup Pending
      /\ WithState("unknown") \cap Pending = {} /\ WithState("unknown") \in SUBSET Turns
  BY <1>3 DEF WithState, Pending
<1>6. baseline' \in Seq(Settled \cup J) /\ Once(baseline') /\ Len(baseline') <= RollingTurns
  <2>1. J \in SUBSET Nat /\ IsFiniteSet(J) /\ Settled \cap J = {}
    BY <1>4, TurnsAreFinite DEF Settled, Pending
  <2>2. InOrder(J) \in Seq(J) /\ Once(InOrder(J))
    BY <2>1, OrderIsSequence
  <2>3. baseline \in Seq(Settled) /\ Once(baseline)
    BY DEF PointersInv, BaselineIsSettled
  <2> HIDE DEF J
  <2>4. baseline \o InOrder(J) \in Seq(Settled \cup J) /\ Once(baseline \o InOrder(J))
    BY <2>1, <2>2, <2>3, JoinedOnce
  <2> QED
    BY <1>1, <2>4, LatestIsPart
<1>7. Settled \cup J \subseteq Settled' /\ Settled \cup J \subseteq Turns
  <2>1. \A s \in Pending : s <= seq
    BY DEF PointersInv, PointerTypeOK, ExchangeTypeOK, NoneAhead, Pending, Turns
  <2> QED
    BY <1>1, <1>3, <2>1 DEF Settled, Pending
<1> HIDE DEF J
<1>8. noAnswer' \in Nat /\ noAnswer' = Cardinality(WithState("unknown")')
  <2>1. Cardinality(Pending) \in Nat
    BY <1>4, TurnsAreFinite
  <2>2. Cardinality(WithState("unknown") \cup Pending)
          = Cardinality(WithState("unknown")) + Cardinality(Pending)
    BY <1>4, <1>5, CountsAdd
  <2>3. noAnswer \in Nat /\ noAnswer = Cardinality(WithState("unknown"))
    BY DEF PointersInv, PointerTypeOK, OutcomesAreCountedOnce
  <2>4. noAnswer' = noAnswer + Cardinality(Pending)
    BY <1>1
  <2>5. WithState("unknown")' = WithState("unknown") \cup Pending
    BY <1>5
  <2>6. Cardinality(WithState("unknown")') = Cardinality(WithState("unknown")) + Cardinality(Pending)
    BY <2>2, <2>5
  <2>7. noAnswer' \in Nat
    BY <2>1, <2>3, <2>4
  <2>8. noAnswer' = Cardinality(WithState("unknown")')
    BY <2>3, <2>4, <2>6
  <2> QED
    BY <2>7, <2>8
<1>9. PointerTypeOK'
  <2>1. ExchangeTypeOK'
    BY <1>1 DEF PointersInv, PointerTypeOK, ExchangeTypeOK
  <2>2. baseline' \in Seq(Turns)
    BY <1>6, <1>7
  <2> QED
    BY <1>1, <1>3, <1>6, <1>8, <2>1, <2>2 DEF PointersInv, PointerTypeOK
<1>10. OutcomesAreCountedOnce'
  BY <1>1, <1>5, <1>8 DEF PointersInv, OutcomesAreCountedOnce
<1>11. WindowIsSpentByEvaluations'
  BY <1>4 DEF WindowIsSpentByEvaluations
<1>12. NoneAhead' /\ ResetLeavesNone'
  BY <1>1, <1>3, <1>4 DEF PointersInv, NoneAhead, ResetLeavesNone
<1>13. BaselineIsSettled'
  BY <1>6, <1>7 DEF BaselineIsSettled
<1> QED
  BY <1>9, <1>10, <1>11, <1>12, <1>13 DEF PointersInv

LEMMA PanicKeeps ==
  ASSUME PointersInv, UNCHANGED <<seq, turnIndex, epoch, pointerVars>>,
         phase' \in {phase, "panicked"}
  PROVE  PointersInv'
<1>1. UNCHANGED <<pointers, lastAgentSeq, success, failure, noAnswer, failures, baseline, resetPending>>
  BY DEF pointerVars
<1>2. Pending' = Pending /\ \A st : WithState(st)' = WithState(st)
  BY <1>1 DEF Pending, WithState
<1>3. PointerTypeOK'
  BY <1>1 DEF PointersInv, PointerTypeOK, ExchangeTypeOK
<1>4. OutcomesAreCountedOnce' /\ WindowIsSpentByEvaluations'
  BY <1>1, <1>2 DEF PointersInv, OutcomesAreCountedOnce, WindowIsSpentByEvaluations
<1>5. NoneAhead' /\ ResetLeavesNone' /\ BaselineIsSettled'
  BY <1>1, <1>2 DEF PointersInv, NoneAhead, ResetLeavesNone, BaselineIsSettled, Settled, Once
<1> QED
  BY <1>3, <1>4, <1>5 DEF PointersInv

LEMMA PointersInitially == PointerSpecInit => PointersInv
<1> SUFFICES ASSUME PointerSpecInit PROVE PointersInv
  OBVIOUS
<1>1. /\ seq = 0 /\ turnIndex = 0 /\ epoch = 0 /\ phase = "live"
      /\ pointers = [s \in Turns |-> NoPointer] /\ lastAgentSeq = 0
      /\ success = 0 /\ failure = 0 /\ noAnswer = 0 /\ failures = << >> /\ baseline = << >>
      /\ resetPending = FALSE
  BY DEF PointerSpecInit, ExchangeInit, PointerInit
<1>2. NoPointer \in Pointer /\ NoPointer.state = "none"
  BY PointerConstants DEF NoPointer, Pointer
<1>3. \A s \in Turns : pointers[s].state = "none"
  BY <1>1, <1>2
<1>4. PointerTypeOK
  <2>1. pointers \in [Turns -> Pointer]
    BY <1>1, <1>2
  <2>2. ExchangeTypeOK
    BY <1>1, ExchangeBounds DEF ExchangeTypeOK
  <2>3. failures \in Seq(Turns) /\ baseline \in Seq(Turns) /\ Len(baseline) <= RollingTurns
    BY <1>1, PointerConstants
  <2>4. lastAgentSeq \in 0..seq /\ success \in Nat /\ failure \in Nat /\ noAnswer \in Nat
    BY <1>1
  <2>5. resetPending \in BOOLEAN
    BY <1>1
  <2> QED
    BY <2>1, <2>2, <2>3, <2>4, <2>5 DEF PointerTypeOK
<1>5. Pending = {} /\ WithState("success") = {} /\ WithState("failure") = {} /\ WithState("unknown") = {}
  BY <1>3 DEF Pending, WithState
<1>6. OutcomesAreCountedOnce
  <2>1. Cardinality({}) = 0
    BY FS_EmptySet
  <2>2. Len(failures) = 0
    BY <1>1
  <2>3. /\ success = Cardinality(WithState("success"))
        /\ failure = Cardinality(WithState("failure"))
        /\ noAnswer = Cardinality(WithState("unknown"))
    BY <1>1, <1>5, <2>1
  <2>4. Len(failures) <= failure /\ Len(failures) = failure
    BY <1>1, <2>2
  <2> QED
    BY <2>3, <2>4 DEF OutcomesAreCountedOnce
<1>7. WindowIsSpentByEvaluations /\ NoneAhead /\ ResetLeavesNone /\ BaselineIsSettled
  BY <1>1, <1>3, <1>5
     DEF WindowIsSpentByEvaluations, NoneAhead, ResetLeavesNone, BaselineIsSettled, Once
<1> QED
  BY <1>4, <1>6, <1>7 DEF PointersInv

LEMMA PointersInductive ==
  ASSUME PointersInv, [PointerNext]_pointerSpecVars PROVE PointersInv'
<1>1. CASE OperatorTurn
  BY <1>1, OperatorTurnKeeps
<1>2. CASE AgentTurn
  BY <1>2, OtherRecordsKeep DEF AgentTurn, PointerAgent
<1>3. CASE OtherTurn
  BY <1>3, OtherRecordsKeep DEF OtherTurn, PointerOther, pointerVars
<1>4. CASE Finish
  BY <1>4, FinishKeeps
<1>5. CASE Panic
  BY <1>5, PanicKeeps DEF Panic, StopAs
<1>6. CASE UNCHANGED pointerSpecVars
  BY <1>6, PanicKeeps DEF pointerSpecVars, exchangeVars
<1> QED
  BY <1>1, <1>2, <1>3, <1>4, <1>5, <1>6 DEF PointerNext

(* With nothing pending, the turn after a reset settles nothing: what is   *)
(* left in the baseline is its own turn, and there are no marks.           *)
LEMMA ResetIsFollowed ==
  ASSUME PointersInv, [PointerNext]_pointerSpecVars, resetPending, turnIndex' > turnIndex
  PROVE  (\A i \in DOMAIN baseline' : baseline'[i] = seq') /\ failures' = << >>
<1>1. OperatorTurn
  <2>1. turnIndex \in Nat /\ turnIndex' # turnIndex
    BY DEF PointersInv, PointerTypeOK, ExchangeTypeOK
  <2> QED
    BY <2>1 DEF PointerNext, AgentTurn, OtherTurn, OtherRecord, Finish, Panic, StopAs,
                pointerSpecVars, exchangeVars
<1>2. PICK e \in Evidence, key \in PointerKeys \cup {NoTarget, Nothing},
           outside \in BOOLEAN, outsideAfter \in BOOLEAN, reset \in BOOLEAN :
             TurnReports(e, key, outside, outsideAfter, reset)
  BY <1>1 DEF OperatorTurn, TurnReports
<1>3. seq < MaxRecords /\ seq' = seq + 1
  BY <1>2 DEF TurnReports, OperatorRecord, TakeRecord
<1>4. failures' = Cleared(failures) \o Misses(e)
  BY <1>2, TurnEquations
<1>5. baseline' = Latest(MeasuredBaseline(e) \o Own(e, key, outsideAfter))
  BY <1>2, TurnEquations
<1>6. SettledAs(e, "failure") = {} /\ Joining(e) = {}
  BY DEF PointersInv, ResetLeavesNone, SettledAs, Joining, Evaluated
<1>7. failures' = << >>
  BY <1>3, <1>4, <1>6, MissesAfterTurn DEF Cleared
<1>8. MeasuredBaseline(e) = << >>
  <2>1. Cleared(baseline) \o InOrder(Joining(e)) = << >>
    BY <1>6, NothingInOrder DEF Cleared
  <2> QED
    BY <2>1, PointerConstants DEF MeasuredBaseline, Latest
<1>9. MeasuredBaseline(e) \o Own(e, key, outsideAfter) \in Seq({seq'})
  <2>1. Own(e, key, outsideAfter) \in {<< >>, <<seq'>>}
    BY <1>3 DEF Own
  <2>2. << >> \in Seq({seq'}) /\ <<seq'>> \in Seq({seq'})
    OBVIOUS
  <2>3. Own(e, key, outsideAfter) \in Seq({seq'})
    BY <2>1, <2>2
  <2>4. MeasuredBaseline(e) \in Seq({seq'})
    BY <1>8, <2>2
  <2> QED
    BY <2>3, <2>4
<1>10. baseline' \in Seq({seq'})
  BY <1>5, <1>9, LatestIsPart
<1> QED
  BY <1>7, <1>10

-----------------------------------------------------------------------------
(* The settled turns of the baseline are different turns, none of them     *)
(* pending or missed.                                                      *)
LEMMA PointersInvSettles == PointersInv => ReferencesAreSettledOnce
<1> SUFFICES ASSUME PointersInv PROVE ReferencesAreSettledOnce
  OBVIOUS
<1>1. baseline \in Seq(Settled) /\ Once(baseline)
  BY DEF PointersInv, BaselineIsSettled
<1>2. BaselineHoldsSettledTurns
  BY <1>1 DEF BaselineHoldsSettledTurns, Once, Settled
<1> QED
  BY <1>2 DEF PointersInv, ReferencesAreSettledOnce

(* Every reference is counted once, in its own window, and only a settled  *)
(* one is part of the baseline (resolvePointers, addBaseline, Finish).     *)
THEOREM ReferencesSettle == PointerSpec => []ReferencesAreSettledOnce
<1> QED
  BY PointersInitially, PointersInductive, PointersInvSettles, PTL DEF PointerSpec

(* Nothing of the epoch before a reset is in the baseline or among the     *)
(* misses once the next operator turn is in (clearRolling).                *)
THEOREM ResetStartsAfresh == PointerSpec => ResetClearsBaseline
<1>1. PointersInv /\ [PointerNext]_pointerSpecVars =>
        [resetPending /\ turnIndex' > turnIndex =>
           /\ \A i \in DOMAIN baseline' : baseline'[i] = seq'
           /\ failures' = << >>]_pointerSpecVars
  BY ResetIsFollowed
<1> QED
  BY <1>1, PointersInitially, PointersInductive, PTL DEF PointerSpec, ResetClearsBaseline

-----------------------------------------------------------------------------
(* The trends: bands that are measured, and what a tracker keeps of them.  *)
Bands == {"good", "mid", "bad"}

Trackers == [confirmed : Bands \cup {Unknown}, candidate : Bands \cup {Unknown}, held : Nat]

IsLatestStanding(q, i) ==
  /\ i \in DOMAIN q /\ Stands(q, i)
  /\ \A j \in DOMAIN q : Stands(q, j) => j <= i

(* A tracker of a history of measured bands: what it confirmed is what     *)
(* stands, and what it holds against it is the run the history ends with,  *)
(* no shorter and no longer.                                               *)
Follows(st, q) ==
  /\ st.confirmed = LastStanding(q)
  /\ q # <<>> => \E i \in DOMAIN q : IsLatestStanding(q, i)
  /\ st.confirmed = Unknown <=> q = <<>>

Runs(st, q) ==
  /\ st.candidate = Unknown => st.held = 0 /\ (q # <<>> => q[Len(q)] = st.confirmed)
  /\ st.candidate # Unknown =>
       /\ st.held \in 1..(Len(q) - 1) /\ st.held < TrendTurns
       /\ st.candidate # st.confirmed
       /\ \A j \in (Len(q) - st.held + 1)..Len(q) : q[j] = st.candidate
       /\ q[Len(q) - st.held] # st.candidate

Tracks(st, q) == st \in Trackers /\ q \in Seq(Bands) /\ Follows(st, q) /\ Runs(st, q)

TrendsInv == \A m \in Metrics : Tracks(trends[m], bands[m])

-----------------------------------------------------------------------------
LEMMA StandsLatest ==
  ASSUME NEW q \in Seq(Bands), NEW i, IsLatestStanding(q, i)
  PROVE  LastStanding(q) = q[i]
<1> DEFINE I == {k \in DOMAIN q : Stands(q, k)}
           c == CHOOSE k \in I : \A j \in I : j <= k
<1>1. i \in I /\ \A j \in I : j <= i
  BY DEF IsLatestStanding
<1>2. I \in SUBSET Nat
  OBVIOUS
<1> HIDE DEF I
<1>3. c \in I /\ \A j \in I : j <= c
  BY <1>1
<1> HIDE DEF c
<1>4. c = i
  BY <1>1, <1>2, <1>3
<1>5. LastStanding(q) = q[c]
  BY <1>1 DEF LastStanding, I, c
<1> QED
  BY <1>4, <1>5

(* A history grows by one band: what stood goes on standing, and the new   *)
(* band stands if the run it ends is long enough.                          *)
LEMMA StandsStill ==
  ASSUME NEW q \in Seq(Bands), NEW b \in Bands, NEW t, t = Append(q, b)
  PROVE  /\ t \in Seq(Bands) /\ Len(q) \in Nat /\ Len(t) = Len(q) + 1 /\ t # <<>>
         /\ DOMAIN q = 1..Len(q) /\ DOMAIN t = 1..(Len(q) + 1)
         /\ t[Len(q) + 1] = b
         /\ \A i \in 1..Len(q) : t[i] = q[i] /\ (Stands(t, i) <=> Stands(q, i))
<1>1. /\ t \in Seq(Bands) /\ Len(q) \in Nat /\ Len(t) = Len(q) + 1 /\ t # <<>>
      /\ DOMAIN q = 1..Len(q) /\ DOMAIN t = 1..(Len(q) + 1)
      /\ t[Len(q) + 1] = b
      /\ \A i \in 1..Len(q) : t[i] = q[i]
  OBVIOUS
<1>2. ASSUME NEW i \in 1..Len(q) PROVE Stands(t, i) <=> Stands(q, i)
  <2>1. CASE i >= TrendTurns + 1
    <3>1. \A j \in (i - TrendTurns + 1)..i : j \in 1..Len(q)
      BY <1>1, <2>1, TrendConstants
    <3>2. t[i] = q[i] /\ \A j \in (i - TrendTurns + 1)..i : t[j] = q[j]
      BY <1>1, <3>1
    <3> QED
      BY <3>2 DEF Stands
  <2>2. CASE ~(i >= TrendTurns + 1)
    BY <2>2 DEF Stands
  <2> QED
    BY <2>1, <2>2
<1> QED
  BY <1>1, <1>2

LEMMA StandingAfter ==
  ASSUME NEW q \in Seq(Bands), NEW b \in Bands, NEW t, t = Append(q, b),
         q # <<>> => \E i \in DOMAIN q : IsLatestStanding(q, i)
  PROVE  /\ \E i \in DOMAIN t : IsLatestStanding(t, i)
         /\ LastStanding(t) = IF Stands(t, Len(q) + 1) THEN b ELSE LastStanding(q)
<1> DEFINE n == Len(q)
<1>1. /\ t \in Seq(Bands) /\ n \in Nat /\ DOMAIN q = 1..n /\ DOMAIN t = 1..(n + 1)
      /\ t[n + 1] = b
      /\ \A i \in 1..n : t[i] = q[i] /\ (Stands(t, i) <=> Stands(q, i))
  BY StandsStill
<1>2. CASE Stands(t, n + 1)
  <2>1. IsLatestStanding(t, n + 1) /\ n + 1 \in DOMAIN t
    BY <1>1, <1>2 DEF IsLatestStanding
  <2> QED
    BY <1>1, <1>2, <2>1, StandsLatest
<1>3. CASE ~Stands(t, n + 1)
  <2>1. q # <<>>
    <3>1. SUFFICES ASSUME n = 0 PROVE FALSE
      BY <1>1
    <3> QED
      BY <1>3, <3>1 DEF Stands
  <2>2. PICK i \in DOMAIN q : IsLatestStanding(q, i)
    BY <2>1
  <2> HIDE DEF n
  <2>3. i \in DOMAIN t /\ IsLatestStanding(t, i) /\ t[i] = q[i]
    <3>1. i \in 1..n /\ Stands(q, i) /\ \A j \in 1..n : Stands(q, j) => j <= i
      BY <1>1, <2>2 DEF IsLatestStanding
    <3>2. \A j \in 1..(n + 1) : j \in 1..n \/ j = n + 1
      BY <1>1
    <3> QED
      BY <1>1, <1>3, <3>1, <3>2 DEF IsLatestStanding
  <2>4. LastStanding(t) = t[i] /\ LastStanding(q) = q[i]
    BY <1>1, <2>2, <2>3, StandsLatest
  <2> QED
    BY <1>3, <2>3, <2>4 DEF n
<1> QED
  BY <1>2, <1>3

LEMMA StandsAfterFirst ==
  ASSUME NEW t, NEW n \in Nat \ {0}
  PROVE  Stands(t, n + 1) <=> /\ n + 1 >= TrendTurns + 1
                              /\ \A j \in (n + 1 - TrendTurns + 1)..(n + 1) : t[j] = t[n + 1]
<1>1. n + 1 # 1
  OBVIOUS
<1>2. ASSUME Stands(t, n + 1)
      PROVE  /\ n + 1 >= TrendTurns + 1
             /\ \A j \in (n + 1 - TrendTurns + 1)..(n + 1) : t[j] = t[n + 1]
  BY <1>1, <1>2, TrendConstants DEF Stands
<1>3. ASSUME n + 1 >= TrendTurns + 1,
             \A j \in (n + 1 - TrendTurns + 1)..(n + 1) : t[j] = t[n + 1]
      PROVE  Stands(t, n + 1)
  BY <1>3, TrendConstants DEF Stands
<1> QED
  BY <1>2, <1>3

(* The band that comes next stands exactly if there was none, or the       *)
(* tracker has held it for long enough.                                    *)
LEMMA CrossingStands ==
  ASSUME NEW st, NEW q, Tracks(st, q), NEW b \in Bands, NEW t, t = Append(q, b),
         b # st.confirmed, q # <<>>
  PROVE  Stands(t, Len(q) + 1) <=> Held(st, b) >= TrendTurns
<1> DEFINE n == Len(q)
<1>1. /\ q \in Seq(Bands) /\ st \in Trackers /\ Runs(st, q)
  BY DEF Tracks
<1>2. /\ n \in Nat \ {0} /\ TrendTurns \in Nat \ {0}
      /\ t[n + 1] = b /\ \A i \in 1..n : t[i] = q[i]
  BY <1>1, StandsStill, TrendConstants
<1>3. st.held \in Nat /\ st.candidate \in Bands \cup {Unknown}
  BY <1>1 DEF Trackers
<1>4. CASE b = st.candidate
  <2> DEFINE h == st.held
  <2>1. st.candidate # Unknown
    BY <1>4 DEF Bands, Unknown
  <2>2. /\ h \in 1..(n - 1) /\ h < TrendTurns
        /\ \A j \in (n - h + 1)..n : q[j] = b
        /\ q[n - h] # b
    BY <1>1, <1>4, <2>1 DEF Runs
  <2>3. Held(st, b) = h + 1
    BY <1>4 DEF Held
  <2> HIDE DEF h, n
  <2>4. ASSUME h + 1 >= TrendTurns PROVE Stands(t, n + 1)
    <3>1. h + 1 = TrendTurns /\ n + 1 >= TrendTurns + 1
      BY <1>2, <2>2, <2>4
    <3>2. \A j \in (n + 1 - TrendTurns + 1)..(n + 1) :
             j = n + 1 \/ (j \in (n - h + 1)..n /\ j \in 1..n)
      BY <1>2, <2>2, <3>1
    <3>3. \A j \in (n + 1 - TrendTurns + 1)..(n + 1) : t[j] = b
      BY <1>2, <2>2, <3>2
    <3> QED
      BY <1>2, <3>1, <3>3, StandsAfterFirst
  <2>5. ASSUME Stands(t, n + 1), ~(h + 1 >= TrendTurns) PROVE FALSE
    <3>1. n - h \in (n + 1 - TrendTurns + 1)..(n + 1) /\ n - h \in 1..n
      BY <1>2, <2>2, <2>5
    <3>2. \A j \in (n + 1 - TrendTurns + 1)..(n + 1) : t[j] = t[n + 1]
      BY <1>2, <2>5, StandsAfterFirst
    <3> QED
      BY <1>2, <2>2, <3>1, <3>2
  <2> QED
    BY <2>3, <2>4, <2>5 DEF n
<1>5. CASE b # st.candidate
  <2>1. Held(st, b) = 1
    BY <1>5 DEF Held
  <2>2. q[n] # b
    <3>1. CASE st.candidate = Unknown
      BY <1>1, <3>1 DEF Runs
    <3>2. CASE st.candidate # Unknown
      <4>1. /\ st.held \in 1..(n - 1)
            /\ \A j \in (n - st.held + 1)..n : q[j] = st.candidate
        BY <1>1, <3>2 DEF Runs
      <4> QED
        BY <1>2, <1>5, <4>1
    <3> QED
      BY <3>1, <3>2
  <2> HIDE DEF n
  <2>3. ASSUME 1 >= TrendTurns PROVE Stands(t, n + 1)
    <3>1. TrendTurns = 1
      BY <1>2, <2>3
    <3>2. \A j \in (n + 1 - TrendTurns + 1)..(n + 1) : j = n + 1
      BY <1>2, <3>1
    <3> QED
      BY <1>2, <3>1, <3>2, StandsAfterFirst
  <2>4. ASSUME Stands(t, n + 1), ~(1 >= TrendTurns) PROVE FALSE
    <3>1. n \in (n + 1 - TrendTurns + 1)..(n + 1) /\ n \in 1..n
      BY <1>2, <2>4
    <3>2. \A j \in (n + 1 - TrendTurns + 1)..(n + 1) : t[j] = t[n + 1]
      BY <1>2, <2>4, StandsAfterFirst
    <3> QED
      BY <1>2, <2>2, <3>1, <3>2
  <2> QED
    BY <2>1, <2>3, <2>4 DEF n
<1> QED
  BY <1>4, <1>5

(* The history after a turn read as b. *)
Grown(q, b) == IF b = Unknown THEN q ELSE Append(q, b)

LEMMA TrackerFollows ==
  ASSUME NEW st, NEW q, Tracks(st, q), NEW b \in Bands \cup {Unknown}
  PROVE  /\ Tracks(Observed(st, b), Grown(q, b))
         /\ Crosses(st, b) <=> /\ LastStanding(q) # Unknown
                               /\ LastStanding(Grown(q, b)) # LastStanding(q)
         /\ Crosses(st, b) => LastStanding(Grown(q, b)) = b
<1> DEFINE n == Len(q)
           t == Append(q, b)
<1>1. /\ q \in Seq(Bands) /\ st \in Trackers /\ Runs(st, q) /\ Follows(st, q)
      /\ st.confirmed = LastStanding(q) /\ (st.confirmed = Unknown <=> q = <<>>)
      /\ TrendTurns \in Nat \ {0}
  BY TrendConstants DEF Tracks, Follows
<1>2. CASE b = Unknown
  BY <1>1, <1>2 DEF Observed, AfterGap, Grown, Crosses
<1>3. CASE b # Unknown
  <2>1. b \in Bands /\ Grown(q, b) = t
    BY <1>3 DEF Grown
  <2>2. /\ t \in Seq(Bands) /\ n \in Nat /\ Len(t) = n + 1 /\ t # <<>>
        /\ t[n + 1] = b /\ \A i \in 1..n : t[i] = q[i]
    BY <1>1, <2>1, StandsStill
  <2>3. /\ \E i \in DOMAIN t : IsLatestStanding(t, i)
        /\ LastStanding(t) = IF Stands(t, n + 1) THEN b ELSE LastStanding(q)
    BY <1>1, <2>1, StandingAfter DEF Follows
  <2> HIDE DEF t
  <2>4. Crosses(st, b) <=> st.confirmed # Unknown /\ b # st.confirmed /\ Held(st, b) >= TrendTurns
    BY <1>3 DEF Crosses
  <2>5. CASE st.confirmed \in {Unknown, b} \/ Crosses(st, b)
    <3>1. Observed(st, b) = [confirmed |-> b, candidate |-> Unknown, held |-> 0]
      BY <1>3, <2>5 DEF Observed, Confirmed
    <3>2. LastStanding(t) = b
      <4>1. CASE st.confirmed = Unknown
        <5>1. n = 0
          BY <1>1, <4>1
        <5> QED
          BY <2>3, <5>1 DEF Stands
      <4>2. CASE st.confirmed = b
        BY <1>1, <2>3, <4>2
      <4>3. CASE Crosses(st, b)
        <5>1. b # st.confirmed /\ q # <<>> /\ Held(st, b) >= TrendTurns
          BY <1>1, <2>4, <4>3
        <5>2. Stands(t, n + 1)
          BY <2>1, <5>1, CrossingStands DEF t
        <5> QED
          BY <2>3, <5>2
      <4> QED
        BY <2>5, <4>1, <4>2, <4>3
    <3>3. Tracks(Observed(st, b), t)
      BY <1>3, <2>1, <2>2, <2>3, <3>1, <3>2 DEF Tracks, Trackers, Follows, Runs
    <3> QED
      BY <1>1, <1>3, <2>1, <2>4, <2>5, <3>2, <3>3
  <2>6. CASE st.confirmed \notin {Unknown, b} /\ ~Crosses(st, b)
    <3>1. b # st.confirmed /\ q # <<>> /\ ~(Held(st, b) >= TrendTurns)
      BY <1>1, <2>4, <2>6
    <3>2. Observed(st, b) = [st EXCEPT !.candidate = b, !.held = Held(st, b)]
      BY <1>3, <2>6 DEF Observed
    <3>3. ~Stands(t, n + 1)
      BY <2>1, <3>1, CrossingStands DEF t
    <3>4. LastStanding(t) = st.confirmed
      BY <1>1, <2>3, <3>3
    <3>5. Held(st, b) \in Nat
      BY <1>1 DEF Held, Trackers
    <3>6. Observed(st, b) = [confirmed |-> st.confirmed, candidate |-> b, held |-> Held(st, b)]
      BY <1>1, <3>2 DEF Trackers
    <3>7. Observed(st, b) \in Trackers /\ Follows(Observed(st, b), t)
      BY <1>1, <2>1, <2>2, <2>3, <2>6, <3>4, <3>5, <3>6 DEF Trackers, Follows
    <3>8. /\ Held(st, b) \in 1..n
          /\ \A j \in (n + 1 - Held(st, b) + 1)..(n + 1) : t[j] = b
          /\ t[n + 1 - Held(st, b)] # b
      <4>1. CASE b = st.candidate
        <5> DEFINE h == st.held
        <5>1. st.candidate # Unknown
          BY <1>3, <4>1
        <5>2. /\ h \in 1..(n - 1)
              /\ \A j \in (n - h + 1)..n : q[j] = b
              /\ q[n - h] # b
          BY <1>1, <4>1, <5>1 DEF Runs
        <5>3. Held(st, b) = h + 1
          BY <4>1 DEF Held
        <5> HIDE DEF h, n
        <5>4. n + 1 - (h + 1) = n - h /\ n - h \in 1..n /\ h + 1 \in 1..n
          BY <2>2, <5>2
        <5>5. \A j \in (n + 1 - (h + 1) + 1)..(n + 1) :
                 j = n + 1 \/ (j \in (n - h + 1)..n /\ j \in 1..n)
          BY <2>2, <5>2
        <5> QED
          BY <2>2, <5>2, <5>3, <5>4, <5>5
      <4>2. CASE b # st.candidate
        <5>1. Held(st, b) = 1
          BY <4>2 DEF Held
        <5>2. n \in 1..n
          BY <1>1, <2>2, <3>1
        <5>3. q[n] # b
          <6>1. CASE st.candidate = Unknown
            BY <1>1, <3>1, <6>1 DEF Runs
          <6>2. CASE st.candidate # Unknown
            <7>1. /\ st.held \in 1..(n - 1)
                  /\ \A j \in (n - st.held + 1)..n : q[j] = st.candidate
              BY <1>1, <6>2 DEF Runs
            <7> QED
              BY <2>2, <4>2, <7>1
          <6> QED
            BY <6>1, <6>2
        <5> HIDE DEF n
        <5>4. /\ n + 1 - 1 = n /\ 1 \in 1..n
              /\ \A j \in (n + 1 - 1 + 1)..(n + 1) : j = n + 1
          BY <2>2, <5>2
        <5> QED
          BY <2>2, <5>1, <5>2, <5>3, <5>4
      <4> QED
        BY <4>1, <4>2
    <3>9. Runs(Observed(st, b), t)
      <4>1. Held(st, b) < TrendTurns
        BY <1>1, <3>1, <3>5
      <4> HIDE DEF n
      <4>2. /\ Observed(st, b).candidate = b /\ Observed(st, b).confirmed = st.confirmed
            /\ Observed(st, b).held = Held(st, b) /\ Len(t) - 1 = n
        BY <2>2, <3>6
      <4> QED
        BY <1>3, <2>2, <3>1, <3>8, <4>1, <4>2 DEF Runs
    <3> QED
      BY <1>1, <2>1, <2>2, <2>6, <3>4, <3>7, <3>9 DEF Tracks
  <2> QED
    BY <2>5, <2>6
<1> QED
  BY <1>2, <1>3

-----------------------------------------------------------------------------
(* What an operator turn was read as: a band for each metric.              *)
Readings == [Metrics -> Bands \cup {Unknown}]

ReadAs(band) ==
  /\ trends' = [m \in Metrics |-> Observed(trends[m], band[m])]
  /\ bands' = [m \in Metrics |-> Grown(bands[m], band[m])]
  /\ reported' = {[metric |-> m, from |-> trends[m].confirmed, to |-> band[m]] :
                    m \in {n \in Metrics : Crosses(trends[n], band[n])}}

LEMMA BandsAre ==
  ASSUME NEW hits \in Nat, NEW misses \in Nat
  PROVE  BandDereference(hits, misses) \in Bands \cup {Unknown}
<1>1. \/ hits + misses = 0
      \/ hits + misses > 0 /\ 5 * hits >= 4 * (hits + misses)
      \/ 5 * hits < 4 * (hits + misses) /\ 2 * hits >= hits + misses
      \/ 2 * hits < hits + misses
  OBVIOUS
<1> QED
  BY <1>1 DEF BandDereference, Bands

LEMMA TurnIsRead ==
  ASSUME PointersInv', NEW e, ObserveTurn(e)
  PROVE  \E band \in Readings : ReadAs(band)
<1>1. success' \in Nat /\ failure' \in Nat
  BY DEF PointersInv, PointerTypeOK
<1>2. PICK inflation \in BandsSerialization(MeasuredBaseline(e)) :
        LET band == [m \in Metrics |-> IF m = "dereference" THEN BandDereference(success', failure')
                                       ELSE inflation]
        IN  /\ trends' = [m \in Metrics |-> Observed(trends[m], band[m])]
            /\ reported' = {[metric |-> m, from |-> trends[m].confirmed, to |-> band[m]] :
                              m \in {n \in Metrics : Crosses(trends[n], band[n])}}
            /\ bands' = [m \in Metrics |-> IF band[m] = Unknown THEN bands[m]
                                           ELSE Append(bands[m], band[m])]
  BY DEF ObserveTurn
<1> DEFINE band == [m \in Metrics |-> IF m = "dereference" THEN BandDereference(success', failure')
                                      ELSE inflation]
<1>3. inflation \in Bands \cup {Unknown}
  <2>1. BandsSerialization(MeasuredBaseline(e)) \subseteq Bands \cup {Unknown}
    BY TrendConstants DEF BandsSerialization, Bands
  <2> QED
    BY <2>1
<1>4. band \in Readings
  BY <1>1, <1>3, BandsAre DEF Readings
<1> HIDE DEF band
<1>5. /\ trends' = [m \in Metrics |-> Observed(trends[m], band[m])]
      /\ reported' = {[metric |-> m, from |-> trends[m].confirmed, to |-> band[m]] :
                        m \in {n \in Metrics : Crosses(trends[n], band[n])}}
      /\ bands' = [m \in Metrics |-> IF band[m] = Unknown THEN bands[m]
                                     ELSE Append(bands[m], band[m])]
  BY <1>2 DEF band
<1>6. ReadAs(band)
  BY <1>5 DEF ReadAs, Grown
<1> QED
  BY <1>4, <1>6

LEMMA ReadingKeeps ==
  ASSUME TrendsInv, NEW band \in Readings, ReadAs(band)
  PROVE  TrendsInv'
<1> SUFFICES ASSUME NEW m \in Metrics PROVE Tracks(trends'[m], bands'[m])
  BY DEF TrendsInv
<1>1. Tracks(trends[m], bands[m]) /\ band[m] \in Bands \cup {Unknown}
  BY DEF TrendsInv, Readings
<1>2. Tracks(Observed(trends[m], band[m]), Grown(bands[m], band[m]))
  BY <1>1, TrackerFollows
<1> QED
  BY <1>2 DEF ReadAs

(* A turn reports of a metric what crossed, and nothing else.              *)
LEMMA ReadingReports ==
  ASSUME TrendsInv, NEW band \in Readings, ReadAs(band), NEW m \in Metrics
  PROVE  LET before == LastStanding(bands[m])
             after  == LastStanding(bands'[m])
             now    == {r \in reported' : r.metric = m}
         IN  now = IF before = after \/ before = Unknown THEN {}
                   ELSE {[metric |-> m, from |-> before, to |-> after]}
<1> DEFINE before == LastStanding(bands[m])
           after  == LastStanding(bands'[m])
           now    == {r \in reported' : r.metric = m}
           crosses == Crosses(trends[m], band[m])
<1>1. /\ Tracks(trends[m], bands[m]) /\ band[m] \in Bands \cup {Unknown}
      /\ trends[m].confirmed = before
  BY DEF TrendsInv, Readings, Tracks, Follows
<1>2. bands'[m] = Grown(bands[m], band[m])
  BY DEF ReadAs
<1>3. /\ crosses <=> before # Unknown /\ after # before
      /\ crosses => after = band[m]
  BY <1>1, <1>2, TrackerFollows
<1>4. now = IF crosses THEN {[metric |-> m, from |-> trends[m].confirmed, to |-> band[m]]} ELSE {}
  BY DEF ReadAs
<1> HIDE DEF before, after, now, crosses
<1>5. now = IF before = after \/ before = Unknown THEN {}
            ELSE {[metric |-> m, from |-> before, to |-> after]}
  BY <1>1, <1>3, <1>4
<1> QED
  BY <1>5 DEF before, after, now

-----------------------------------------------------------------------------
(* A turn that is measured is a turn of the references.                    *)
LEMMA TrendStepsArePointerSteps ==
  [TrendNext]_trendSpecVars => [PointerNext]_pointerSpecVars
BY DEF TrendNext, MeasuredTurn, PointerNext, OperatorTurn, trendSpecVars, pointerSpecVars

LEMMA TrendsInitially == TrendSpecInit => TrendsInv
<1> SUFFICES ASSUME TrendSpecInit, NEW m \in Metrics PROVE Tracks(trends[m], bands[m])
  BY DEF TrendsInv
<1>1. /\ trends[m] = [confirmed |-> Unknown, candidate |-> Unknown, held |-> 0]
      /\ bands[m] = << >>
  BY DEF TrendSpecInit, TrendInit
<1>2. << >> \in Seq(Bands)
  OBVIOUS
<1>3. LastStanding(<< >>) = Unknown
  BY DEF LastStanding
<1> QED
  BY <1>1, <1>2, <1>3 DEF Tracks, Trackers, Follows, Runs

LEMMA TrendsInductive ==
  ASSUME PointersInv, PointersInv', TrendsInv, [TrendNext]_trendSpecVars
  PROVE  TrendsInv'
<1>1. CASE MeasuredTurn
  <2>1. PICK e : ObserveTurn(e)
    BY <1>1 DEF MeasuredTurn
  <2> QED
    BY <2>1, TurnIsRead, ReadingKeeps
<1>2. CASE UNCHANGED trendVars
  BY <1>2 DEF TrendsInv, trendVars
<1> QED
  BY <1>1, <1>2 DEF TrendNext, trendSpecVars

LEMMA CrossingsAsReported ==
  ASSUME PointersInv, PointersInv', TrendsInv, [TrendNext]_trendSpecVars,
         turnIndex' > turnIndex, NEW m \in Metrics
  PROVE  LET before == LastStanding(bands[m])
             after  == LastStanding(bands'[m])
             now    == {r \in reported' : r.metric = m}
         IN  now = IF before = after \/ before = Unknown THEN {}
                   ELSE {[metric |-> m, from |-> before, to |-> after]}
<1>1. MeasuredTurn
  <2>1. turnIndex \in Nat /\ turnIndex' # turnIndex
    BY DEF PointersInv, PointerTypeOK, ExchangeTypeOK
  <2> QED
    BY <2>1 DEF TrendNext, AgentTurn, OtherTurn, OtherRecord, Finish, Panic, StopAs,
                trendSpecVars, pointerSpecVars, exchangeVars
<1>2. PICK e : ObserveTurn(e)
  BY <1>1 DEF MeasuredTurn
<1>3. PICK band \in Readings : ReadAs(band)
  BY <1>2, TurnIsRead
<1> QED
  BY <1>3, ReadingReports

(* Measuring a turn leaves the references as they are: what is proved of   *)
(* them above holds here as well.                                          *)
THEOREM MeasuringIsReading == TrendSpec => PointerSpec
<1>1. TrendSpecInit => PointerSpecInit
  BY DEF TrendSpecInit
<1> QED
  BY <1>1, TrendStepsArePointerSteps, PTL DEF TrendSpec, PointerSpec

(* A direction is confirmed exactly when the history of measured bands     *)
(* says so (trendTracker.observe).                                         *)
THEOREM TrendsAreHistory == TrendSpec => []TrendsFollowTheHistory
<1>1. TrendSpecInit => PointersInv
  BY PointersInitially DEF TrendSpecInit
<1>2. PointersInv /\ [TrendNext]_trendSpecVars => PointersInv'
  BY TrendStepsArePointerSteps, PointersInductive
<1>3. TrendsInv => TrendsFollowTheHistory
  BY DEF TrendsInv, Tracks, Follows, TrendsFollowTheHistory
<1> QED
  BY <1>1, <1>2, <1>3, TrendsInitially, TrendsInductive, PTL DEF TrendSpec

(* A crossing is reported by the turn that confirms it, once, and no other *)
(* turn reports one (trendTracker.observe).                                *)
THEOREM CrossingsAreHistory == TrendSpec => CrossingsAreReportedOnce
<1>1. TrendSpecInit => PointersInv
  BY PointersInitially DEF TrendSpecInit
<1>2. PointersInv /\ [TrendNext]_trendSpecVars => PointersInv'
  BY TrendStepsArePointerSteps, PointersInductive
<1>3. (PointersInv /\ TrendsInv) /\ [TrendNext]_trendSpecVars =>
        [\A m \in Metrics :
           LET before == LastStanding(bands[m])
               after  == LastStanding(bands'[m])
               now    == {r \in reported' : r.metric = m}
           IN  turnIndex' > turnIndex =>
                 now = IF before = after \/ before = Unknown THEN {}
                       ELSE {[metric |-> m, from |-> before, to |-> after]}]_trendSpecVars
  BY <1>2, CrossingsAsReported
<1> QED
  BY <1>1, <1>2, <1>3, TrendsInitially, TrendsInductive, PTL
     DEF TrendSpec, CrossingsAreReportedOnce
==================================================================================
