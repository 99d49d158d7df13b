----------------------------- MODULE Watch_proofs -----------------------------
(***************************************************************************)
(* What holds of one live watch for every length of the file, of the       *)
(* handles by which an operator names the session to watch, and of what    *)
(* the runs that write the session directories leave there.                *)
(*                                                                         *)
(* NoLineSkipped is not inductive: after an arrival was refused or given   *)
(* up, only an inequality is left of it, and a stop must find that the     *)
(* inequality still holds and that nothing is projected afterwards.        *)
(* WatchInv adds both, and what the reporter has pushed at each place.     *)
(*                                                                         *)
(* HandlesResolve is not about steps: it holds of any set of sessions,     *)
(* because in lexicographic order the session that shares most with one    *)
(* is sorted next to it, so that no other needs to be compared with it.    *)
(*                                                                         *)
(* EventsAreOneRunsReplay is strengthened in two ways.  Of each run it is  *)
(* said what its files hold before they are opened and while they are      *)
(* removed (Sound): nothing of an earlier life of it, which is why it may  *)
(* come back to a session it left.  And of each directory that is not      *)
(* shared, that one run at most has it open, which is the one whose events *)
(* are there as soon as it writes (Alone).                                 *)
(***************************************************************************)
EXTENDS Watch, Sessions, FiniteSetTheorems, SequenceTheorems, WellFoundedInduction, TLAPS

GivenAway ==
  /\ offset >= 2 * (projected + InHand)
  /\ stopOffset # NotStopped => loop \in {"closing", "done"}

RowAtEnd ==
  /\ reporter \in {"clearing", "gone"} => pushed = Cleared
  /\ loop = "done" => reporter \in {"gone", "off"}

WatchInv == WatchTypeOK /\ NoLineSkipped /\ GivenAway /\ RowAtEnd

-----------------------------------------------------------------------------
(* Whole never runs past what was read, ends on a line, and leaves less    *)
(* than a line.                                                            *)
LEMMA WholeLines ==
  ASSUME NEW bytes \in Bytes
  PROVE  /\ Whole(bytes) \in Bytes
         /\ Whole(bytes) % 2 = 0
         /\ bytes - Whole(bytes) \in 0..1
  BY WatchBounds DEF Whole, Bytes

(* A row that is drawn is the number of lines it was drawn after. *)
LEMMA DrawnRows ==
  ASSUME WatchTypeOK, NEW n \in Lines, NEW due \in BOOLEAN, Draw(n, due)
  PROVE  row' \in Lines \cup {NoRow} /\ lastRow' \in Lines \cup {NoRow}
  BY DEF WatchTypeOK, Draw

LEMMA InitiallyWatched == Init => WatchInv
<1> SUFFICES ASSUME Init PROVE WatchInv
  OBVIOUS
<1>1. 0 \in Lines /\ 0..1 \subseteq Bytes
  BY WatchBounds DEF Lines, Bytes
<1>2. row \in Lines \cup {NoRow} /\ lastRow \in Lines \cup {NoRow}
  BY <1>1 DEF Init
<1>3. size \in Bytes /\ offset \in Bytes /\ offset % 2 = 0 /\ held \in 0..1
  BY <1>1 DEF Init
<1>4. arrival \in [lines : Lines, err : {"none", "error", "canceled"}] /\ projected \in Lines
  BY <1>1 DEF Init, Arrival
<1>5. WatchTypeOK
  BY <1>2, <1>3, <1>4 DEF Init, WatchTypeOK
<1>6. NoLineSkipped /\ GivenAway /\ RowAtEnd
  BY DEF Init, NoLineSkipped, GivenAway, RowAtEnd, InHand, Refused, Arrival, NotStopped
<1>7. QED BY <1>5, <1>6 DEF WatchInv

-----------------------------------------------------------------------------
LEMMA FileKeeps == ASSUME WatchInv, FileGrows \/ Truncate \/ Cancel PROVE WatchInv'
<1>1. CASE FileGrows
  BY <1>1, WatchBounds DEF FileGrows, WatchInv, WatchTypeOK, NoLineSkipped, GivenAway, RowAtEnd,
     InHand, Refused, Bytes, fileVars, tailVars, loopVars, rowVars
<1>2. CASE Truncate
  BY <1>2, WatchBounds DEF Truncate, WatchInv, WatchTypeOK, NoLineSkipped, GivenAway, RowAtEnd,
     InHand, Refused, Bytes, fileVars, tailVars, loopVars, rowVars
<1>3. CASE Cancel
  BY <1>3 DEF Cancel, WatchInv, WatchTypeOK, NoLineSkipped, GivenAway, RowAtEnd,
     InHand, Refused, fileVars, tailVars, loopVars, rowVars
<1>4. QED BY <1>1, <1>2, <1>3

LEMMA ReadKeeps == ASSUME WatchInv, Read PROVE WatchInv'
<1>1. PICK upto \in (Seen + 1)..size :
        LET whole == Whole(upto)
        IN  IF whole = offset
            THEN held' = upto - offset /\ UNCHANGED <<offset, reader, arrival>>
            ELSE /\ offset' = whole
                 /\ held' = upto - whole
                 /\ \/ Offer((whole - offset) \div 2, "none")
                    \/ Offer(0, "error")
  BY DEF Read
<1>2. upto \in Bytes /\ upto > offset
  <2>1. size \in Nat /\ size <= 2 * MaxLines /\ offset \in Nat /\ held \in Nat
    BY WatchBounds DEF WatchInv, WatchTypeOK, Bytes
  <2>2. upto \in Nat /\ offset + held + 1 <= upto /\ upto <= size
    BY <2>1 DEF Seen
  <2>3. QED BY <2>1, <2>2, WatchBounds DEF Bytes
<1>3. /\ Whole(upto) \in Bytes /\ Whole(upto) % 2 = 0 /\ upto - Whole(upto) \in 0..1
      /\ Whole(upto) >= offset
  <2>1. Whole(upto) \in Bytes /\ Whole(upto) % 2 = 0 /\ upto - Whole(upto) \in 0..1
    BY <1>2, WholeLines
  <2>2. offset \in Nat /\ upto \in Nat /\ offset % 2 = 0
    BY <1>2 DEF WatchInv, WatchTypeOK, Bytes
  <2>3. Whole(upto) >= offset
    BY <1>2, <2>2 DEF Whole
  <2>4. QED BY <2>1, <2>3
<1>4. reader = "reading" /\ UNCHANGED <<size, shrunk, canceled, loop, projected, stopOffset,
                                        reporter, row, lastRow, pushed>>
  BY DEF Read, fileVars, loopVars, rowVars
<1>5. CASE Whole(upto) = offset
  BY <1>1, <1>3, <1>4, <1>5 DEF WatchInv, WatchTypeOK, NoLineSkipped, GivenAway, RowAtEnd,
     InHand, Refused
<1>6. CASE Whole(upto) # offset
  <2>1. DEFINE lines == (Whole(upto) - offset) \div 2
  <2>2. lines \in Lines /\ Whole(upto) - offset = 2 * lines
    BY <1>3, WatchBounds DEF WatchInv, WatchTypeOK, Bytes, Lines
  <2>3. /\ offset' = Whole(upto) /\ held' = upto - Whole(upto) /\ reader' = "offering"
        /\ \/ arrival' = [lines |-> lines, err |-> "none"]
           \/ arrival' = [lines |-> 0, err |-> "error"]
    BY <1>1, <1>6 DEF Offer, Arrival
  <2>4. WatchTypeOK'
    BY <1>3, <1>4, <2>2, <2>3, WatchBounds DEF WatchInv, WatchTypeOK, Lines
  <2>5. InHand = 0 /\ ~Refused
    BY <1>4 DEF InHand, Refused
  <2>6. /\ InHand' \in {0, lines}
        /\ ~Refused' => InHand' = lines
    BY <2>3 DEF InHand, Refused
  <2>7. /\ offset \in Int /\ projected \in Int /\ lines \in Nat /\ InHand' \in Nat
        /\ offset' = offset + 2 * lines
    BY <1>3, <2>2, <2>3, <2>6 DEF WatchInv, WatchTypeOK, Bytes, Lines
  <2>8. NoLineSkipped'
    BY <1>4, <2>5, <2>6, <2>7 DEF WatchInv, NoLineSkipped
  <2>9. GivenAway' /\ RowAtEnd'
    BY <1>4, <2>5, <2>6, <2>7 DEF WatchInv, GivenAway, RowAtEnd
  <2>10. QED BY <2>4, <2>8, <2>9 DEF WatchInv
<1>7. QED BY <1>5, <1>6

LEMMA ReaderKeeps == ASSUME WatchInv, ReaderStep PROVE WatchInv'
<1>1. CASE ReadTruncated
  BY <1>1, WatchBounds DEF ReadTruncated, Offer, Arrival, WatchInv, WatchTypeOK, NoLineSkipped,
     GivenAway, RowAtEnd, InHand, Refused, Lines, fileVars, loopVars, rowVars
<1>2. CASE Read
  BY <1>2, ReadKeeps
<1>3. CASE ReadCanceled
  BY <1>3, WatchBounds DEF ReadCanceled, Offer, Arrival, WatchInv, WatchTypeOK, NoLineSkipped,
     GivenAway, RowAtEnd, InHand, Refused, Lines, fileVars, loopVars, rowVars
<1>4. CASE Withdraw
  BY <1>4 DEF Withdraw, WatchInv, WatchTypeOK, NoLineSkipped, GivenAway, RowAtEnd, InHand,
     Refused, Bytes, Lines, fileVars, loopVars, rowVars
<1>5. QED BY <1>1, <1>2, <1>3, <1>4 DEF ReaderStep

-----------------------------------------------------------------------------
LEMMA BeatKeeps == ASSUME WatchInv, NEW due \in BOOLEAN, Beat(due) PROVE WatchInv'
<1>1. row' \in Lines \cup {NoRow} /\ lastRow' \in Lines \cup {NoRow}
  BY DrawnRows DEF Beat, WatchInv, WatchTypeOK
<1>2. QED
  BY <1>1 DEF Beat, WatchInv, WatchTypeOK, NoLineSkipped, GivenAway, RowAtEnd, InHand, Refused,
     fileVars, tailVars, loopVars

LEMMA ReceiveKeeps == ASSUME WatchInv, NEW due \in BOOLEAN, Receive(due) PROVE WatchInv'
<1>1. /\ loop = "select" /\ reader = "offering" /\ arrival.err = "none"
      /\ projected' = projected + arrival.lines /\ reader' = "reading"
      /\ Draw(projected', due)
      /\ UNCHANGED <<size, shrunk, canceled, offset, held, arrival, loop, stopOffset, reporter, pushed>>
  BY DEF Receive, fileVars
<1>2. InHand = arrival.lines /\ ~Refused /\ InHand' = 0 /\ ~Refused'
  BY <1>1 DEF InHand, Refused
<1>3. projected' \in Lines
  BY <1>1, <1>2, WatchBounds DEF WatchInv, WatchTypeOK, GivenAway, Bytes, Lines
<1>4. row' \in Lines \cup {NoRow} /\ lastRow' \in Lines \cup {NoRow}
  BY <1>1, <1>3, DrawnRows DEF WatchInv
<1>5. WatchTypeOK'
  BY <1>1, <1>3, <1>4 DEF WatchInv, WatchTypeOK
<1>6. arrival.lines \in Nat /\ projected \in Nat /\ offset \in Nat
  BY DEF WatchInv, WatchTypeOK, Bytes, Lines
<1>7. NoLineSkipped' /\ GivenAway' /\ RowAtEnd'
  BY <1>1, <1>2, <1>6 DEF WatchInv, NoLineSkipped, GivenAway, RowAtEnd
<1>8. QED BY <1>5, <1>7 DEF WatchInv

LEMMA StopKeeps == ASSUME WatchInv, NEW due \in BOOLEAN, Stop(due) PROVE WatchInv'
<1>1. row' \in Lines \cup {NoRow} /\ lastRow' \in Lines \cup {NoRow}
  BY DrawnRows DEF Stop, WatchInv, WatchTypeOK
<1>2. /\ loop = "select" /\ loop' = "stopping"
      /\ reader' = reader \/ (arrival.err = "canceled" /\ reader' = "gone")
      /\ UNCHANGED <<size, shrunk, canceled, offset, held, arrival, projected, stopOffset, reporter, pushed>>
  BY DEF Stop, fileVars
<1>3. InHand' = InHand
  BY <1>2 DEF InHand, Stop
<1>4. WatchTypeOK'
  BY <1>1, <1>2 DEF WatchInv, WatchTypeOK
<1>5. NoLineSkipped' /\ GivenAway' /\ RowAtEnd'
  BY <1>2, <1>3 DEF WatchInv, NoLineSkipped, GivenAway, RowAtEnd
<1>6. QED BY <1>4, <1>5 DEF WatchInv

(* What two counts of lines account for, smaller counts do not exceed. *)
LEMMA Doubles ==
  ASSUME NEW bytes \in Nat, NEW a \in Nat, NEW b \in Nat, NEW c \in Nat, NEW d \in Nat,
         bytes >= 2 * (a + b), c + d <= a + b
  PROVE  bytes >= 2 * (c + d) /\ bytes >= 2 * c
  OBVIOUS

LEMMA WithinBytes ==
  ASSUME NEW bytes \in Bytes, NEW n \in Nat, bytes >= 2 * n
  PROVE  n \in Lines
  BY WatchBounds DEF Bytes, Lines

LEMMA FailKeeps == ASSUME WatchInv, Fail PROVE WatchInv'
<1>1. /\ loop = "select" /\ loop' = "closing"
      /\ UNCHANGED <<size, shrunk, canceled, offset, held, arrival, stopOffset,
                     reporter, row, lastRow, pushed>>
  BY DEF Fail, fileVars, rowVars
<1>2. arrival.lines \in Nat /\ projected \in Nat /\ offset \in Nat
  BY DEF WatchInv, WatchTypeOK, Bytes, Lines
<1>3. InHand \in Nat /\ offset >= 2 * (projected + InHand) /\ offset \in Bytes
  BY <1>2 DEF WatchInv, GivenAway, InHand, WatchTypeOK
<1>4. /\ reader' \in {"reading", "offering", "gone"}
      /\ projected' \in Nat /\ InHand' \in Nat
      /\ projected' + InHand' <= projected + InHand
  <2>1. CASE UNCHANGED <<reader, projected>>
    BY <1>1, <1>2, <1>3, <2>1 DEF InHand, WatchInv, WatchTypeOK
  <2>2. CASE reader = "offering" /\ arrival.err = "error" /\ reader' = "gone" /\ UNCHANGED projected
    BY <1>1, <1>2, <1>3, <2>2 DEF InHand
  <2>3. CASE /\ reader = "offering" /\ arrival.err = "none" /\ reader' = "reading"
             /\ \E n \in 0..arrival.lines : projected' = projected + n
    BY <1>1, <1>2, <1>3, <2>3 DEF InHand
  <2>4. QED BY <2>1, <2>2, <2>3 DEF Fail
<1>5. offset >= 2 * (projected' + InHand') /\ offset >= 2 * projected'
  BY <1>2, <1>3, <1>4, Doubles
<1>6. projected' \in Lines
  <2>1. projected' \in Nat
    BY <1>4
  <2>2. QED BY <1>3, <1>5, <2>1, WithinBytes
<1>7. WatchTypeOK'
  BY <1>1, <1>4, <1>6 DEF WatchInv, WatchTypeOK
<1>8. stopOffset = NotStopped
  BY <1>1 DEF WatchInv, GivenAway
<1>9. NoLineSkipped'
  BY <1>1, <1>5, <1>8 DEF NoLineSkipped
<1>10. GivenAway' /\ RowAtEnd'
  BY <1>1, <1>5, <1>8 DEF WatchInv, GivenAway, RowAtEnd
<1>11. QED BY <1>7, <1>9, <1>10 DEF WatchInv

LEMMA EndKeeps == ASSUME WatchInv, RecordStop \/ Return PROVE WatchInv'
<1>1. CASE RecordStop
  BY <1>1 DEF RecordStop, WatchInv, WatchTypeOK, NoLineSkipped, GivenAway, RowAtEnd, InHand,
     Refused, fileVars, tailVars, rowVars
<1>2. CASE Return
  BY <1>2 DEF Return, WatchInv, WatchTypeOK, NoLineSkipped, GivenAway, RowAtEnd, InHand,
     Refused, fileVars, tailVars, rowVars
<1>3. QED BY <1>1, <1>2

LEMMA LoopKeeps == ASSUME WatchInv, LoopStep PROVE WatchInv'
  BY BeatKeeps, ReceiveKeeps, StopKeeps, FailKeeps, EndKeeps DEF LoopStep

LEMMA ReporterKeeps == ASSUME WatchInv, ReporterStep PROVE WatchInv'
<1>1. CASE TakeRow
  BY <1>1 DEF TakeRow, WatchInv, WatchTypeOK, NoLineSkipped, GivenAway, RowAtEnd, InHand,
     Refused, fileVars, tailVars, loopVars
<1>2. CASE PushEnds
  BY <1>2 DEF PushEnds, WatchInv, WatchTypeOK, NoLineSkipped, GivenAway, RowAtEnd, InHand,
     Refused, fileVars, tailVars, loopVars
<1>3. CASE Clear
  BY <1>3 DEF Clear, WatchInv, WatchTypeOK, NoLineSkipped, GivenAway, RowAtEnd, InHand,
     Refused, fileVars, tailVars, loopVars
<1>4. CASE ClearEnds
  BY <1>4 DEF ClearEnds, WatchInv, WatchTypeOK, NoLineSkipped, GivenAway, RowAtEnd, InHand,
     Refused, fileVars, tailVars, loopVars
<1>5. QED BY <1>1, <1>2, <1>3, <1>4 DEF ReporterStep

LEMMA StutterKeeps == ASSUME WatchInv, UNCHANGED watchVars PROVE WatchInv'
  BY DEF watchVars, fileVars, tailVars, loopVars, rowVars, WatchInv, WatchTypeOK, NoLineSkipped,
     GivenAway, RowAtEnd, InHand, Refused

LEMMA WatchInductive == ASSUME WatchInv, [Next]_watchVars PROVE WatchInv'
  BY FileKeeps, ReaderKeeps, LoopKeeps, ReporterKeeps, StutterKeeps DEF Next

LEMMA WatchInvariant == WatchSpec => []WatchInv
<1>1. WatchInv /\ [Next]_watchVars => WatchInv'
  BY WatchInductive
<1>2. QED BY InitiallyWatched, <1>1, PTL DEF WatchSpec

-----------------------------------------------------------------------------
(* The variables of the tail, of the loop and of the reporter keep their   *)
(* types; in particular an offset always lies on a line boundary.          *)
THEOREM WatchTypeCorrect == WatchSpec => []WatchTypeOK
<1>1. WatchInv => WatchTypeOK
  BY DEF WatchInv
<1>2. QED BY WatchInvariant, <1>1, PTL

(* Whatever the interleaving of reader, loop and cancellation, no line is  *)
(* skipped while the watch goes on, and no later watch reads one again.    *)
THEOREM LinesAreNotSkipped == WatchSpec => []NoLineSkipped
<1>1. WatchInv => NoLineSkipped
  BY DEF WatchInv
<1>2. QED BY WatchInvariant, <1>1, PTL

(* A watch that has returned has cleared its row and pushes nothing more.  *)
THEOREM RowIsCleared == WatchSpec => []ClearedBeforeReturn
<1>1. WatchInv => ClearedBeforeReturn
  BY DEF WatchInv, RowAtEnd, ClearedBeforeReturn
<1>2. QED BY WatchInvariant, <1>1, PTL

-----------------------------------------------------------------------------
(* Handles: parts of sequences and bounded sets of numbers. *)
LEMMA PartOfASequence ==
  ASSUME NEW S, NEW s \in Seq(S), NEW i \in Nat \ {0}, NEW j \in Nat, i <= j + 1, j <= Len(s),
         NEW x, x = SubSeq(s, i, j)
  PROVE  /\ x \in Seq(S) /\ Len(x) = j - i + 1 /\ DOMAIN x = 1..j - i + 1
         /\ \A k \in 1..j - i + 1 : x[k] = s[i + k - 1]
<1>1. \A k \in i..j : s[k] \in S
  <2>1. Len(s) \in Nat /\ \A k \in 1..Len(s) : s[k] \in S
    OBVIOUS
  <2> QED BY <2>1
<1>2. /\ x \in Seq(S) /\ Len(x) = (IF i <= j THEN j - i + 1 ELSE 0)
      /\ \A k \in 1..j - i + 1 : x[k] = s[i + k - 1]
  BY <1>1, SubSeqProperties
<1>3. Len(x) = j - i + 1
  BY <1>2
<1>4. DOMAIN x = 1..Len(x)
  BY <1>2
<1> QED BY <1>2, <1>3, <1>4

(* The least of a set of numbers, and the greatest of a bounded one. *)
LEMMA LeastNumber ==
  ASSUME NEW S, S \subseteq Nat, S # {}
  PROVE  \E n \in S : \A m \in S : n <= m
<1> DEFINE R == OpToRel(<, Nat)
<1>1. IsWellFoundedOn(R, Nat)
  BY NatLessThanWellFounded
<1> HIDE DEF R
<1>2. PICK x \in S : \A y \in S : ~ (<<y, x>> \in R)
  BY <1>1, WFMin
<1>3. \A y \in S : ~(y < x)
  BY <1>2 DEF R, OpToRel
<1> QED BY <1>3

LEMMA GreatestNumber ==
  ASSUME NEW S, S \subseteq Nat, S # {}, NEW b \in Nat, \A n \in S : n <= b
  PROVE  \E n \in S : \A m \in S : m <= n
<1> DEFINE T == {b - n : n \in S}
<1>1. T \subseteq Nat /\ T # {}
  <2>1. \A n \in S : b - n \in Nat
    <3> SUFFICES ASSUME NEW n \in S PROVE b - n \in Nat
      OBVIOUS
    <3>1. n \in Nat /\ n <= b
      OBVIOUS
    <3> QED BY <3>1
  <2> QED BY <2>1
<1>2. PICK k \in T : \A m \in T : k <= m
  BY <1>1, LeastNumber
<1>3. PICK n \in S : k = b - n
  BY <1>2
<1>4. \A m \in S : b - n <= b - m
  BY <1>2, <1>3
<1>5. \A m \in S : m <= n
  BY <1>3, <1>4
<1> QED BY <1>5

(* A finite order has an element that none is above. *)
LEMMA TopExists ==
  ASSUME NEW U, IsFiniteSet(U), U # {}, NEW R,
         \A x, y, z \in U : <<x, y>> \in R /\ <<y, z>> \in R => <<x, z>> \in R,
         \A x \in U : <<x, x>> \notin R
  PROVE  \E u \in U : \A v \in U : <<u, v>> \notin R
<1> DEFINE A(u) == {v \in U : <<u, v>> \in R}
           N == {Cardinality(A(u)) : u \in U}
<1>1. \A u \in U : IsFiniteSet(A(u)) /\ Cardinality(A(u)) \in Nat
  <2> SUFFICES ASSUME NEW u \in U PROVE IsFiniteSet(A(u)) /\ Cardinality(A(u)) \in Nat
    OBVIOUS
  <2>1. A(u) \subseteq U
    OBVIOUS
  <2> HIDE DEF A
  <2> QED BY <2>1, FS_Subset, FS_CardinalityType
<1>2. PICK n \in N : \A m \in N : n <= m
  <2>1. N \subseteq Nat /\ N # {}
    <3> HIDE DEF A
    <3> QED BY <1>1
  <2> HIDE DEF N
  <2> QED BY <2>1, LeastNumber
<1>3. PICK u \in U : n = Cardinality(A(u))
  BY <1>2
<1>4. ASSUME NEW v \in U, <<u, v>> \in R PROVE FALSE
  <2>1. A(v) \subseteq A(u) /\ v \in A(u) /\ v \notin A(v)
    BY <1>4
  <2> HIDE DEF A
  <2>2. Cardinality(A(u)) <= Cardinality(A(v))
    BY <1>2, <1>3
  <2>3. IsFiniteSet(A(u)) /\ Cardinality(A(u)) \in Nat /\ Cardinality(A(v)) \in Nat
    BY <1>1
  <2>4. Cardinality(A(v)) <= Cardinality(A(u)) /\ (Cardinality(A(u)) = Cardinality(A(v)) => A(u) = A(v))
    BY <2>1, <2>3, FS_Subset
  <2> QED BY <2>1, <2>2, <2>3, <2>4
<1> QED BY <1>4

-----------------------------------------------------------------------------
(* Identifiers: where two of them part. *)
Part(a, b, n) ==
  /\ n \in Nat /\ n <= Len(a) /\ n <= Len(b)
  /\ \A i \in 1..n : a[i] = b[i]
  /\ n < Len(a) /\ n < Len(b) => a[n + 1] # b[n + 1]

LEMMA PartExists ==
  ASSUME NEW a \in Seq(Nat), NEW b \in Seq(Nat)
  PROVE  \E n \in Nat : Part(a, b, n)
<1> DEFINE W == {k \in Nat : k > Len(a) \/ k > Len(b) \/ (k # 0 /\ k <= Len(a) /\ k <= Len(b) /\ a[k] # b[k])}
<1>1. Len(a) \in Nat /\ Len(b) \in Nat
  OBVIOUS
<1>2. Len(a) + 1 \in W
  BY <1>1
<1>3. PICK w \in W : \A m \in W : w <= m
  BY <1>2, LeastNumber
<1>4. w \in Nat /\ w # 0
  BY <1>1, <1>3
<1> DEFINE n == w - 1
<1>5. n \in Nat /\ n < w /\ n + 1 = w
  BY <1>4
<1>6. \A i \in 0..n : i \in Nat /\ ~(w <= i)
  BY <1>4, <1>5
<1>7. \A i \in 0..n : i \notin W
  BY <1>3, <1>6
<1>8. n \in 0..n /\ n \notin W
  BY <1>5, <1>7
<1>9. n <= Len(a) /\ n <= Len(b)
  BY <1>1, <1>5, <1>8
<1>10. ASSUME NEW i \in 1..n PROVE a[i] = b[i]
  <2>1. i \in 0..n /\ i # 0 /\ i <= Len(a) /\ i <= Len(b)
    BY <1>1, <1>5, <1>9
  <2>2. i \notin W /\ i \in Nat
    BY <1>7, <2>1
  <2> QED BY <2>1, <2>2
<1>11. n < Len(a) /\ n < Len(b) => a[n + 1] # b[n + 1]
  <2> SUFFICES ASSUME n < Len(a), n < Len(b) PROVE a[n + 1] # b[n + 1]
    OBVIOUS
  <2>1. ~(w > Len(a)) /\ ~(w > Len(b))
    BY <1>1, <1>5
  <2>2. a[w] # b[w]
    BY <1>3, <2>1
  <2> QED BY <2>2, <1>5
<1>12. Part(a, b, n)
  BY <1>5, <1>9, <1>10, <1>11 DEF Part
<1> QED BY <1>5, <1>12

LEMMA PartIsOne ==
  ASSUME NEW a \in Seq(Nat), NEW b \in Seq(Nat), NEW n, NEW m, Part(a, b, n), Part(a, b, m)
  PROVE  n = m
<1>1. n \in Nat /\ m \in Nat /\ Len(a) \in Nat /\ Len(b) \in Nat
  BY DEF Part
<1>2. ASSUME NEW x \in Nat, NEW y \in Nat, Part(a, b, x), Part(a, b, y), x < y PROVE FALSE
  <2>1. x + 1 \in 1..y /\ x < Len(a) /\ x < Len(b)
    BY <1>1, <1>2 DEF Part
  <2> QED BY <1>2, <2>1 DEF Part
<1> QED BY <1>1, <1>2

LEMMA BeginningsAgree ==
  ASSUME NEW a \in Seq(Nat), NEW b \in Seq(Nat), NEW n \in Nat, n <= Len(a), n <= Len(b)
  PROVE  SubSeq(a, 1, n) = SubSeq(b, 1, n) <=> \A i \in 1..n : a[i] = b[i]
<1> DEFINE x == SubSeq(a, 1, n)
           y == SubSeq(b, 1, n)
<1>1. /\ x \in Seq(Nat) /\ Len(x) = n - 1 + 1 /\ \A k \in 1..n - 1 + 1 : x[k] = a[1 + k - 1]
      /\ y \in Seq(Nat) /\ Len(y) = n - 1 + 1 /\ \A k \in 1..n - 1 + 1 : y[k] = b[1 + k - 1]
  <2>1. 1 \in Nat \ {0} /\ 1 <= n + 1 /\ x = SubSeq(a, 1, n) /\ y = SubSeq(b, 1, n)
    OBVIOUS
  <2> HIDE DEF x, y
  <2>2. /\ x \in Seq(Nat) /\ Len(x) = n - 1 + 1 /\ DOMAIN x = 1..n - 1 + 1
        /\ \A k \in 1..n - 1 + 1 : x[k] = a[1 + k - 1]
    BY <2>1, PartOfASequence
  <2>3. /\ y \in Seq(Nat) /\ Len(y) = n - 1 + 1 /\ DOMAIN y = 1..n - 1 + 1
        /\ \A k \in 1..n - 1 + 1 : y[k] = b[1 + k - 1]
    BY <2>1, PartOfASequence
  <2> QED BY <2>2, <2>3
<1>2. n - 1 + 1 = n /\ \A k \in 1..n : 1 + k - 1 = k
  OBVIOUS
<1>3. /\ x \in Seq(Nat) /\ Len(x) = n /\ \A k \in 1..n : x[k] = a[k]
      /\ y \in Seq(Nat) /\ Len(y) = n /\ \A k \in 1..n : y[k] = b[k]
  BY <1>1, <1>2
<1> HIDE DEF x, y
<1>4. (\A i \in 1..n : a[i] = b[i]) => x = y
  <2> SUFFICES ASSUME \A i \in 1..n : a[i] = b[i] PROVE x = y
    OBVIOUS
  <2>1. Len(x) = Len(y) /\ \A i \in 1..Len(x) : x[i] = y[i]
    BY <1>3
  <2> QED BY <1>3, <2>1, SeqEqual
<1>5. x = y => \A i \in 1..n : a[i] = b[i]
  BY <1>3
<1> QED BY <1>4, <1>5 DEF x, y

LEMMA SharedIsWhereTheyPart ==
  ASSUME NEW a \in Seq(Nat), NEW b \in Seq(Nat)
  PROVE  Part(a, b, Shared(a, b))
<1> DEFINE P == {n \in 1..Len(a) : n <= Len(b) /\ SubSeq(a, 1, n) = SubSeq(b, 1, n)}
<1>1. PICK n \in Nat : Part(a, b, n)
  BY PartExists
<1>2. Len(a) \in Nat /\ Len(b) \in Nat /\ n <= Len(a) /\ n <= Len(b) /\ \A i \in 1..n : a[i] = b[i]
  BY <1>1 DEF Part
<1>3. ASSUME NEW k \in 1..n PROVE k \in P
  <2>1. k \in 1..Len(a) /\ k \in Nat /\ k <= Len(a) /\ k <= Len(b) /\ \A i \in 1..k : a[i] = b[i]
    BY <1>2
  <2> QED BY <2>1, BeginningsAgree
<1>4. ASSUME NEW k \in P PROVE k \in 1..n
  <2>1. k \in Nat /\ k # 0 /\ k <= Len(a) /\ k <= Len(b) /\ SubSeq(a, 1, k) = SubSeq(b, 1, k)
    BY <1>2
  <2>2. \A i \in 1..k : a[i] = b[i]
    BY <2>1, BeginningsAgree
  <2>3. ~(n < k)
    <3> SUFFICES ASSUME n < k PROVE FALSE
      OBVIOUS
    <3>1. n + 1 \in 1..k /\ n < Len(a) /\ n < Len(b)
      BY <1>2, <2>1
    <3> QED BY <1>1, <2>2, <3>1 DEF Part
  <2> QED BY <2>1, <2>3
<1>5. P = 1..n
  <2> HIDE DEF P
  <2> QED BY <1>3, <1>4
<1>6. Shared(a, b) = Cardinality(P)
  BY DEF Shared
<1> HIDE DEF P
<1>7. Cardinality(1..n) = n
  BY FS_Interval
<1> QED BY <1>1, <1>5, <1>6, <1>7

LEMMA SharedIsMutual ==
  ASSUME NEW a \in Seq(Nat), NEW b \in Seq(Nat)
  PROVE  Shared(a, b) = Shared(b, a)
<1>1. Part(a, b, Shared(a, b)) /\ Part(b, a, Shared(b, a))
  BY SharedIsWhereTheyPart
<1>2. Part(a, b, Shared(b, a))
  BY <1>1 DEF Part
<1> QED BY <1>1, <1>2, PartIsOne

(* Of two identifiers, one goes before the other. *)
LEMMA OneIsBelow ==
  ASSUME NEW a \in Seq(Nat), NEW b \in Seq(Nat), a # b
  PROVE  Below(a, b) \/ Below(b, a)
<1> DEFINE n == Shared(a, b)
<1>1. Part(a, b, n) /\ Shared(b, a) = n
  BY SharedIsWhereTheyPart, SharedIsMutual
<1> HIDE DEF n
<1>2. Len(a) \in Nat /\ Len(b) \in Nat /\ n \in Nat /\ n <= Len(a) /\ n <= Len(b)
  BY <1>1 DEF Part
<1>3. ~(n = Len(a) /\ n = Len(b))
  <2> SUFFICES ASSUME n = Len(a), n = Len(b) PROVE FALSE
    OBVIOUS
  <2>1. Len(a) = Len(b) /\ \A i \in 1..Len(a) : a[i] = b[i]
    BY <1>1 DEF Part
  <2> QED BY <2>1, SeqEqual
<1>4. CASE n = Len(a)
  <2>1. Below(a, b)
    BY <1>2, <1>3, <1>4 DEF Below, n
  <2> QED BY <2>1
<1>5. CASE n = Len(b)
  <2>1. Below(b, a)
    BY <1>1, <1>2, <1>3, <1>5 DEF Below
  <2> QED BY <2>1
<1>6. CASE n # Len(a) /\ n # Len(b)
  <2>1. n < Len(a) /\ n < Len(b) /\ n + 1 \in 1..Len(a) /\ n + 1 \in 1..Len(b)
    BY <1>2, <1>6
  <2>2. a[n + 1] # b[n + 1] /\ a[n + 1] \in Nat /\ b[n + 1] \in Nat
    BY <1>1, <2>1 DEF Part
  <2>3. a[n + 1] < b[n + 1] \/ b[n + 1] < a[n + 1]
    BY <2>2
  <2>4. CASE a[n + 1] < b[n + 1]
    BY <2>1, <2>4 DEF Below, n
  <2>5. CASE b[n + 1] < a[n + 1]
    BY <1>1, <2>1, <2>5 DEF Below
  <2> QED BY <2>3, <2>4, <2>5
<1> QED BY <1>4, <1>5, <1>6

(* What lies between two identifiers shares at least as much with either. *)
LEMMA BetweenSharesMore ==
  ASSUME NEW a \in Seq(Nat), NEW b \in Seq(Nat), NEW c \in Seq(Nat), Below(a, b), Below(b, c)
  PROVE  /\ Below(a, c)
         /\ Shared(a, c) <= Shared(a, b) /\ Shared(a, c) <= Shared(b, c)
<1> DEFINE p == Shared(a, b)
           q == Shared(b, c)
<1>1. Part(a, b, p) /\ Part(b, c, q)
  BY SharedIsWhereTheyPart
<1>2. /\ p < Len(b) /\ (p = Len(a) \/ a[p + 1] < b[p + 1])
      /\ q < Len(c) /\ (q = Len(b) \/ b[q + 1] < c[q + 1])
  BY DEF Below
<1> HIDE DEF p, q
<1>3. /\ Len(a) \in Nat /\ Len(b) \in Nat /\ Len(c) \in Nat /\ p \in Nat /\ q \in Nat
      /\ p <= Len(a) /\ q <= Len(b)
  BY <1>1 DEF Part
<1>4. \A i \in 1..Len(a) : a[i] \in Nat
  OBVIOUS
<1>5. \A i \in 1..Len(b) : b[i] \in Nat
  OBVIOUS
<1>6. \A i \in 1..Len(c) : c[i] \in Nat
  OBVIOUS
<1>7. CASE p < q
  <2>1. p + 1 \in 1..q /\ p + 1 \in 1..Len(c) /\ p + 1 \in 1..Len(b) /\ p < Len(c)
    BY <1>2, <1>3, <1>7
  <2>2. b[p + 1] = c[p + 1] /\ \A i \in 1..p : a[i] = b[i] /\ b[i] = c[i]
    BY <1>1, <1>3, <1>7, <2>1, SMTT(30) DEF Part
  <2>3. p < Len(a) => a[p + 1] < c[p + 1] /\ a[p + 1] \in Nat
    <3> SUFFICES ASSUME p < Len(a) PROVE a[p + 1] < c[p + 1] /\ a[p + 1] \in Nat
      OBVIOUS
    <3>1. p + 1 \in 1..Len(a)
      BY <1>3
    <3> QED BY <1>2, <1>3, <1>4, <2>2, <3>1
  <2>4. Part(a, c, p)
    <3>1. p < Len(a) /\ p < Len(c) => a[p + 1] # c[p + 1]
      BY <2>3, <2>1, <1>6
    <3> QED BY <1>3, <2>1, <2>2, <3>1 DEF Part
  <2>5. Shared(a, c) = p
    BY <2>4, SharedIsWhereTheyPart, PartIsOne
  <2>6. Below(a, c)
    BY <1>3, <2>1, <2>3, <2>5 DEF Below
  <2> QED BY <2>5, <2>6, <1>3, <1>7 DEF p, q
<1>8. CASE p = q
  <2>1. p < Len(c) /\ p + 1 \in 1..Len(b) /\ p + 1 \in 1..Len(c)
    BY <1>2, <1>3, <1>8
  <2>2. b[p + 1] < c[p + 1] /\ b[p + 1] \in Nat /\ c[p + 1] \in Nat
    BY <1>2, <1>3, <1>5, <1>6, <1>8, <2>1
  <2>3. p < Len(a) => a[p + 1] < c[p + 1] /\ a[p + 1] \in Nat
    <3> SUFFICES ASSUME p < Len(a) PROVE a[p + 1] < c[p + 1] /\ a[p + 1] \in Nat
      OBVIOUS
    <3>1. p + 1 \in 1..Len(a)
      BY <1>3
    <3>2. a[p + 1] < b[p + 1] /\ a[p + 1] \in Nat
      BY <1>2, <1>3, <1>4, <3>1
    <3> QED BY <2>2, <3>2
  <2>4. Part(a, c, p)
    <3>1. p < Len(a) /\ p < Len(c) => a[p + 1] # c[p + 1]
      BY <2>2, <2>3
    <3>2. \A i \in 1..p : a[i] = c[i]
      BY <1>1, <1>8 DEF Part
    <3> QED BY <1>3, <2>1, <3>1, <3>2 DEF Part
  <2>5. Shared(a, c) = p
    BY <2>4, SharedIsWhereTheyPart, PartIsOne
  <2>6. Below(a, c)
    BY <1>3, <2>1, <2>3, <2>5 DEF Below
  <2> QED BY <2>5, <2>6, <1>3, <1>8 DEF p, q
<1>9. CASE q < p
  <2>1. q < Len(a) /\ q < Len(b) /\ q + 1 \in 1..p /\ q + 1 \in 1..Len(b) /\ q + 1 \in 1..Len(c)
    BY <1>2, <1>3, <1>9, SMTT(30)
  <2>2. b[q + 1] < c[q + 1] /\ a[q + 1] = b[q + 1] /\ b[q + 1] \in Nat /\ c[q + 1] \in Nat
    BY <1>1, <1>2, <1>3, <1>5, <1>6, <2>1 DEF Part
  <2>3. Part(a, c, q)
    <3>1. \A i \in 1..q : a[i] = c[i]
      BY <1>1, <1>3, <1>9 DEF Part
    <3>2. a[q + 1] # c[q + 1]
      BY <2>2
    <3> QED BY <1>2, <1>3, <2>1, <3>1, <3>2, SMTT(30) DEF Part
  <2>4. Shared(a, c) = q
    BY <2>3, SharedIsWhereTheyPart, PartIsOne
  <2>5. Below(a, c)
    BY <1>2, <2>2, <2>4 DEF Below
  <2> QED BY <2>4, <2>5, <1>3, <1>9 DEF p, q
<1> QED BY <1>3, <1>7, <1>8, <1>9

LEMMA NoneIsBelowItself ==
  ASSUME NEW a \in Seq(Nat)
  PROVE  ~Below(a, a)
<1>1. Part(a, a, Shared(a, a))
  BY SharedIsWhereTheyPart
<1>2. Part(a, a, Len(a))
  BY DEF Part
<1>3. Shared(a, a) = Len(a) /\ Len(a) \in Nat
  BY <1>1, <1>2, PartIsOne
<1> QED BY <1>3 DEF Below

-----------------------------------------------------------------------------
Id(s) == About[s].id

LEMMA IdsAreApart ==
  ASSUME SelectionConstants
  PROVE  /\ \A s \in Streams : Id(s) \in Seq(Nat)
         /\ \A s, t \in Streams : s # t => Below(Id(s), Id(t)) \/ Below(Id(t), Id(s))
<1>1. \A s \in Streams : Id(s) \in Seq(Nat)
  BY DEF SelectionConstants, Id
<1>2. ASSUME NEW s \in Streams, NEW t \in Streams, s # t
      PROVE  Below(Id(s), Id(t)) \/ Below(Id(t), Id(s))
  <2>1. Id(s) # Id(t)
    BY <1>2 DEF SelectionConstants, Id
  <2> QED BY <1>1, <2>1, OneIsBelow
<1> QED BY <1>1, <1>2

(* No session shares more with s than a neighbour of s does: on either     *)
(* side of s, the nearest one that is listed.                              *)
LEMMA NearestSharesMost ==
  ASSUME SelectionConstants, NEW listed, listed \subseteq Streams,
         NEW s \in listed, NEW t \in listed, s # t
  PROVE  \E u \in Neighbours(s, listed) : Shared(Id(s), Id(t)) <= Shared(Id(s), Id(u))
<1> DEFINE B(x, y) == Below(Id(x), Id(y))
<1>1. \A x \in listed : Id(x) \in Seq(Nat)
  BY IdsAreApart
<1>2. \A x, y \in listed : x # y => B(x, y) \/ B(y, x)
  BY IdsAreApart
<1>3. \A x, y, z \in listed : B(x, y) /\ B(y, z) =>
        /\ B(x, z)
        /\ Shared(Id(x), Id(z)) <= Shared(Id(x), Id(y))
        /\ Shared(Id(x), Id(z)) <= Shared(Id(y), Id(z))
  BY <1>1, BetweenSharesMore
<1>4. \A x \in listed : ~B(x, x)
  BY <1>1, NoneIsBelowItself
<1>5. \A x, y \in listed : Shared(Id(x), Id(y)) = Shared(Id(y), Id(x)) /\ Shared(Id(x), Id(y)) \in Nat
  BY <1>1, SharedIsMutual, SharedIsWhereTheyPart DEF Part
<1>6. IsFiniteSet(listed)
  BY FS_Subset DEF SelectionConstants
<1>7. Neighbours(s, listed) =
        {v \in listed \ {s} : ~\E w \in listed \ {s, v} : (B(v, w) /\ B(w, s)) \/ (B(s, w) /\ B(w, v))}
  BY DEF Neighbours, Id
<1> HIDE DEF B
<1>8. CASE B(t, s)
  <2> DEFINE U == {v \in listed : B(v, s)}
             R == {p \in U \X U : B(p[1], p[2])}
  <2>1. U \subseteq listed /\ t \in U
    BY <1>8
  <2>2. IsFiniteSet(U) /\ U # {}
    <3> HIDE DEF U
    <3> QED BY <1>6, <2>1, FS_Subset
  <2>3. \A x, y \in U : <<x, y>> \in R <=> B(x, y)
    OBVIOUS
  <2> HIDE DEF R
  <2>4. (\A x, y, z \in U : <<x, y>> \in R /\ <<y, z>> \in R => <<x, z>> \in R)
        /\ (\A x \in U : <<x, x>> \notin R)
    <3> HIDE DEF U
    <3> QED BY <1>3, <1>4, <2>1, <2>3
  <2>5. PICK u \in U : \A v \in U : <<u, v>> \notin R
    <3> HIDE DEF U
    <3> QED BY <2>2, <2>4, TopExists
  <2>6. u \in listed /\ B(u, s) /\ \A v \in listed : B(v, s) => ~B(u, v)
    BY <2>3, <2>5
  <2>7. u \in Neighbours(s, listed)
    <3>1. u # s
      BY <1>4, <2>6
    <3>2. ASSUME NEW w \in listed \ {s, u}, (B(u, w) /\ B(w, s)) \/ (B(s, w) /\ B(w, u)) PROVE FALSE
      <4>1. CASE B(u, w) /\ B(w, s)
        BY <2>6, <4>1
      <4>2. CASE B(s, w) /\ B(w, u)
        <5>1. B(s, u)
          BY <1>3, <2>6, <4>2
        <5> QED BY <1>3, <1>4, <2>6, <5>1
      <4> QED BY <3>2, <4>1, <4>2
    <3> QED BY <1>7, <2>6, <3>1, <3>2
  <2>8. Shared(Id(s), Id(t)) <= Shared(Id(s), Id(u))
    <3>1. CASE t = u
      BY <3>1, <1>5
    <3>2. CASE t # u
      <4>1. B(t, u)
        BY <1>2, <1>8, <2>6, <3>2
      <4>2. Shared(Id(t), Id(s)) <= Shared(Id(u), Id(s))
        BY <1>3, <2>6, <4>1
      <4> QED BY <1>5, <2>6, <4>2
    <3> QED BY <3>1, <3>2
  <2> QED BY <2>7, <2>8
<1>9. CASE B(s, t)
  <2> DEFINE U == {v \in listed : B(s, v)}
             R == {p \in U \X U : B(p[2], p[1])}
  <2>1. U \subseteq listed /\ t \in U
    BY <1>9
  <2>2. IsFiniteSet(U) /\ U # {}
    <3> HIDE DEF U
    <3> QED BY <1>6, <2>1, FS_Subset
  <2>3. \A x, y \in U : <<x, y>> \in R <=> B(y, x)
    OBVIOUS
  <2> HIDE DEF R
  <2>4. (\A x, y, z \in U : <<x, y>> \in R /\ <<y, z>> \in R => <<x, z>> \in R)
        /\ (\A x \in U : <<x, x>> \notin R)
    <3> HIDE DEF U
    <3> QED BY <1>3, <1>4, <2>1, <2>3
  <2>5. PICK u \in U : \A v \in U : <<u, v>> \notin R
    <3> HIDE DEF U
    <3> QED BY <2>2, <2>4, TopExists
  <2>6. u \in listed /\ B(s, u) /\ \A v \in listed : B(s, v) => ~B(v, u)
    BY <2>3, <2>5
  <2>7. u \in Neighbours(s, listed)
    <3>1. u # s
      BY <1>4, <2>6
    <3>2. ASSUME NEW w \in listed \ {s, u}, (B(u, w) /\ B(w, s)) \/ (B(s, w) /\ B(w, u)) PROVE FALSE
      <4>1. CASE B(s, w) /\ B(w, u)
        BY <2>6, <4>1
      <4>2. CASE B(u, w) /\ B(w, s)
        <5>1. B(u, s)
          BY <1>3, <2>6, <4>2
        <5> QED BY <1>3, <1>4, <2>6, <5>1
      <4> QED BY <3>2, <4>1, <4>2
    <3> QED BY <1>7, <2>6, <3>1, <3>2
  <2>8. Shared(Id(s), Id(t)) <= Shared(Id(s), Id(u))
    <3>1. CASE t = u
      BY <3>1, <1>5
    <3>2. CASE t # u
      <4>1. B(u, t)
        BY <1>2, <1>9, <2>6, <3>2
      <4> QED BY <1>3, <2>6, <4>1
    <3> QED BY <3>1, <3>2
  <2> QED BY <2>7, <2>8
<1> QED BY <1>2, <1>8, <1>9

(* A handle is a beginning of the identifier that is longer than what is   *)
(* shared with any other session listed, or all of it.                     *)
GoesPast(s, listed, handle, k) ==
  /\ k <= Len(Id(s)) /\ handle = SubSeq(Id(s), 1, k)
  /\ k # Len(Id(s)) => \A t \in listed \ {s} : Shared(Id(s), Id(t)) < k

LEMMA HandleGoesPastTheShared ==
  ASSUME SelectionConstants, NEW listed, listed \subseteq Streams, NEW s \in listed
  PROVE  \E k \in Nat : GoesPast(s, listed, HandleOf(s, listed), k)
<1> DEFINE id == Id(s)
           lengths == {ShortLen} \cup {Shared(id, Id(t)) + 1 : t \in Neighbours(s, listed)}
           longest == CHOOSE n \in lengths : \A m \in lengths : m <= n
           k == IF longest > Len(id) THEN Len(id) ELSE longest
<1>1. HandleOf(s, listed) = SubSeq(id, 1, k)
  BY DEF HandleOf, Id
<1>2. id \in Seq(Nat) /\ Len(id) \in Nat
  BY IdsAreApart
<1>3. Neighbours(s, listed) \subseteq listed
  BY DEF Neighbours
<1>4. \A t \in listed : Shared(id, Id(t)) \in Nat /\ Shared(id, Id(t)) <= Len(id)
  <2>1. \A t \in listed : Id(t) \in Seq(Nat)
    BY IdsAreApart
  <2> HIDE DEF id
  <2> QED BY <1>2, <2>1, SharedIsWhereTheyPart DEF Part
<1>5. ShortLen \in Nat
  BY DEF SelectionConstants
<1> HIDE DEF id
<1>6. longest \in lengths /\ \A m \in lengths : m <= longest
  <2>1. lengths \subseteq Nat /\ ShortLen \in lengths /\ \A n \in lengths : n <= ShortLen + Len(id) + 1
    BY <1>2, <1>3, <1>4, <1>5
  <2> HIDE DEF lengths
  <2>2. ShortLen + Len(id) + 1 \in Nat
    BY <1>2, <1>5
  <2>3. \E n \in lengths : \A m \in lengths : m <= n
    BY <2>1, <2>2, GreatestNumber
  <2> QED BY <2>3
<1> HIDE DEF longest
<1>7. longest \in Nat
  BY <1>3, <1>4, <1>5, <1>6
<1>8. ASSUME k # Len(id), NEW t \in listed \ {s} PROVE Shared(id, Id(t)) < k
  <2>1. k = longest
    BY <1>8
  <2>2. PICK u \in Neighbours(s, listed) : Shared(id, Id(t)) <= Shared(id, Id(u))
    BY NearestSharesMost DEF id
  <2>3. Shared(id, Id(u)) + 1 <= longest
    BY <1>6, <2>2
  <2>4. Shared(id, Id(u)) \in Nat /\ Shared(id, Id(t)) \in Nat
    BY <1>3, <1>4, <2>2
  <2> QED BY <1>7, <2>1, <2>2, <2>3, <2>4
<1>9. k \in Nat /\ k <= Len(id)
  BY <1>2, <1>7
<1> HIDE DEF k
<1>10. GoesPast(s, listed, HandleOf(s, listed), k)
  BY <1>1, <1>8, <1>9 DEF GoesPast, id
<1> QED BY <1>9, <1>10

LEMMA HandlesAreOfOne ==
  ASSUME SelectionConstants, NEW known, known \subseteq Streams,
         NEW listed, listed = Followable(known, FALSE),
         NEW s \in listed, \A t \in listed \ {s} : ~IsPrefix(About[s].id, About[t].id)
  PROVE  Resolved(HandleOf(s, listed), known) = s
<1> DEFINE h == HandleOf(s, listed)
           matches == {t \in listed : IsPrefix(h, Id(t))}
<1>1. listed \subseteq Streams
  BY DEF Followable
<1>0. PICK k \in Nat : GoesPast(s, listed, h, k)
  BY <1>1, HandleGoesPastTheShared
<1>2. /\ k <= Len(Id(s)) /\ h = SubSeq(Id(s), 1, k)
      /\ k # Len(Id(s)) => \A t \in listed \ {s} : Shared(Id(s), Id(t)) < k
  BY <1>0 DEF GoesPast
<1>3. \A t \in listed : Id(t) \in Seq(Nat)
  BY <1>1, IdsAreApart
<1> HIDE DEF h
<1>4. h \in Seq(Nat) /\ Len(h) = k
  <2> DEFINE id == Id(s)
  <2>1. 1 \in Nat \ {0} /\ 1 <= k + 1 /\ k - 1 + 1 = k
    OBVIOUS
  <2>2. id \in Seq(Nat) /\ k <= Len(id) /\ h = SubSeq(id, 1, k)
    BY <1>2, <1>3
  <2> HIDE DEF id
  <2>3. h \in Seq(Nat) /\ Len(h) = k - 1 + 1 /\ DOMAIN h = 1..k - 1 + 1
        /\ \A i \in 1..k - 1 + 1 : h[i] = id[1 + i - 1]
    BY <2>1, <2>2, PartOfASequence
  <2> QED BY <2>1, <2>3
<1>5. \A i \in 1..k : h[i] = Id(s)[i]
  <2>1. SubSeq(h, 1, k) = SubSeq(Id(s), 1, k)
    <3>1. SubSeq(h, 1, k) = h
      <4> DEFINE x == SubSeq(h, 1, k)
      <4>1. 1 \in Nat \ {0} /\ 1 <= k + 1 /\ k - 1 + 1 = k /\ \A i \in 1..k : 1 + i - 1 = i
        OBVIOUS
      <4>2. x = SubSeq(h, 1, k)
        OBVIOUS
      <4> HIDE DEF x
      <4>3. x \in Seq(Nat) /\ Len(x) = k - 1 + 1 /\ DOMAIN x = 1..k - 1 + 1
            /\ \A i \in 1..k - 1 + 1 : x[i] = h[1 + i - 1]
        BY <1>4, <4>1, <4>2, PartOfASequence
      <4>4. Len(x) = Len(h) /\ \A i \in 1..Len(x) : x[i] = h[i]
        BY <1>4, <4>1, <4>3
      <4>5. x = h
        BY <1>4, <4>3, <4>4, SeqEqual
      <4> QED BY <4>5 DEF x
    <3> QED BY <1>2, <3>1
  <2> QED BY <1>2, <1>3, <1>4, <2>1, BeginningsAgree
<1>6. IsPrefix(h, Id(s))
  <2>1. SubSeq(h, 1, k) = SubSeq(Id(s), 1, k)
    BY <1>2, <1>3, <1>4, <1>5, BeginningsAgree
  <2> QED BY <1>2, <1>4, <2>1 DEF IsPrefix
<1>7. ASSUME NEW t \in listed, t # s, IsPrefix(h, Id(t)) PROVE FALSE
  <2>1. Id(t) \in Seq(Nat) /\ Id(s) \in Seq(Nat) /\ k <= Len(Id(t)) /\ SubSeq(h, 1, k) = SubSeq(Id(t), 1, k)
    BY <1>3, <1>4, <1>7 DEF IsPrefix
  <2>2. \A i \in 1..k : h[i] = Id(t)[i]
    BY <1>4, <2>1, BeginningsAgree
  <2>3. \A i \in 1..k : Id(s)[i] = Id(t)[i]
    BY <1>5, <2>2
  <2>4. CASE k = Len(Id(s))
    <3>1. SubSeq(Id(s), 1, k) = SubSeq(Id(t), 1, k)
      BY <1>2, <2>1, <2>3, BeginningsAgree
    <3>2. IsPrefix(Id(s), Id(t))
      BY <2>1, <2>4, <3>1 DEF IsPrefix
    <3> QED BY <1>7, <3>2 DEF Id
  <2>5. CASE k # Len(Id(s))
    <3> DEFINE n == Shared(Id(s), Id(t))
    <3>1. n < k
      BY <1>2, <1>7, <2>5
    <3>2. Part(Id(s), Id(t), n)
      BY <2>1, SharedIsWhereTheyPart
    <3> HIDE DEF n
    <3>3. n \in Nat /\ n + 1 \in 1..k /\ n < Len(Id(s)) /\ n < Len(Id(t))
      <4>1. Len(Id(s)) \in Nat /\ Len(Id(t)) \in Nat
        BY <2>1
      <4> QED BY <1>2, <2>1, <3>1, <3>2, <4>1 DEF Part
    <3> QED BY <2>3, <3>2, <3>3 DEF Part
  <2> QED BY <2>4, <2>5
<1>8. matches = {s}
  BY <1>6, <1>7
<1>9. Resolved(h, known) = IF Cardinality(matches) = 1 THEN CHOOSE t \in matches : TRUE ELSE NoStream
  BY DEF Resolved, Id
<1> HIDE DEF matches
<1>10. Cardinality(matches) = 1
  BY <1>8, FS_Singleton
<1>11. (CHOOSE t \in matches : TRUE) = s
  BY <1>8
<1> QED BY <1>9, <1>10, <1>11 DEF h

(* Every handle the listing prints resolves to its session, whatever       *)
(* sessions there are and whenever they appear, except where one           *)
(* identifier is the beginning of another: it is enough that               *)
(* uniquePrefixes compares a session with the two sorted next to it        *)
(* (sessions.go). *)
THEOREM HandlesAreResolved == SessionsSpec => []HandlesResolve
<1>1. HandlesResolve
  <2> DEFINE listed == Followable(Known, FALSE)
  <2>1. Known \subseteq Streams
    BY DEF Known
  <2> HIDE DEF listed
  <2>2. ASSUME NEW s \in listed, ~\E t \in listed \ {s} : IsPrefix(About[s].id, About[t].id)
        PROVE  Resolved(HandleOf(s, listed), Known) = s
    BY <2>1, <2>2, SelectionConstants, HandlesAreOfOne DEF listed
  <2> QED BY <2>2 DEF HandlesResolve, listed
<1> QED BY <1>1, PTL

-----------------------------------------------------------------------------
(* The runs and their directories.                                         *)
Stages == {"unborn", "resolving", "opening", "removing", "watching", "closing", "ended"}
Fact == Runs \X Nat
FileState == [there : BOOLEAN, lines : Seq(Fact), torn : SUBSET Runs, garbled : BOOLEAN]

RunState ==
  [stage : Stages, command : {"none", "replay", "watch", "pane"}, stream : Streams \cup {NoStream},
   force : BOOLEAN, tail : BOOLEAN, from : 0..MaxRecords, at : 0..MaxRecords,
   open : [Files -> {"closed", "held", "orphan"}], buffer : [Files -> Seq(Fact)],
   pending : SUBSET Files, interrupted : BOOLEAN, changed : BOOLEAN,
   monitor : {"off", "on", "found"}, target : Targets \cup {AutoPane}]

SessionsTyped ==
  /\ source \in [Streams -> 0..MaxRecords]
  /\ log \in [Streams -> [Files -> FileState]]
  /\ runs \in [Runs -> RunState]
  /\ shared \subseteq Streams

(* What of a sequence a run has said, and that it said it in order. *)
Numbers(q, r) == {q[i][2] : i \in {j \in DOMAIN q : q[j][1] = r}}
Rising(q, r) == \A i, j \in DOMAIN q : q[i][1] = r /\ q[j][1] = r /\ i < j => q[i][2] < q[j][2]
OnlyOf(q, r) == \A i \in DOMAIN q : q[i][1] = r

(* HeldFilesAreComplete, with what is not held yet: nothing was said. *)
FileSound(r, run, f, file) ==
  /\ OnlyOf(run.buffer[f], r)
  /\ run.buffer[f] # <<>> => run.open[f] = "held"
  /\ run.open[f] = "closed" => Numbers(file.lines, r) = {} /\ Facts(run, f) = {}
  /\ run.open[f] = "held" =>
       /\ file.there = TRUE
       /\ Numbers(file.lines, r) \cup Numbers(run.buffer[f], r) = Facts(run, f)
       /\ Rising(file.lines, r) /\ Rising(run.buffer[f], r)
       /\ \A m \in Numbers(file.lines, r), n \in Numbers(run.buffer[f], r) : m < n

Writing(run) == run.stage \in {"watching", "closing"}

(* A run that does not write holds nothing, and what it said in an earlier  *)
(* life is gone from the files it has removed.                             *)
Sound(r, run, files) ==
  /\ run.from <= run.at
  /\ run.stage \in {"opening", "removing", "watching", "closing"} => run.stream \in Streams
  /\ run.stage \in {"opening", "removing"} => run.at = run.from
  /\ ~Writing(run) => run.open = NothingOpen /\ run.buffer = NothingBuffered
  /\ run.stage = "removing" => \A f \in Files \ run.pending : Numbers(files[f].lines, r) = {}
  /\ Writing(run) => \A f \in Files : FileSound(r, run, f, files[f])

Holds(run, s) == run.stream = s /\ run.stage \in {"removing", "watching", "closing"}

(* Legible, and what one run has said. *)
OwnedBy(file, o) ==
  OnlyOf(file.lines, o) /\ Rising(file.lines, o) /\ file.torn \subseteq {o} /\ file.garbled = FALSE

(* Of a directory no two runs had open together: one run at most has it     *)
(* open, and if it writes it is the one whose events are there.            *)
Alone(R, files, s) ==
  /\ \A p, q \in Runs : Holds(R[p], s) /\ Holds(R[q], s) => p = q
  /\ \A q \in Runs : Holds(R[q], s) /\ R[q].stage = "removing" =>
       \A f \in Files \ R[q].pending : Blank(files[f])
  /\ \E o \in Runs :
       /\ \A f \in Files : OwnedBy(files[f], o)
       /\ \A q \in Runs : Holds(R[q], s) /\ Writing(R[q]) => q = o

AbsentIsEmpty == \A s \in Streams, f \in Files : log[s][f].there \/ log[s][f] = NoFile

SessionsInv ==
  /\ SessionsTyped /\ AbsentIsEmpty
  /\ \A r \in Runs : Sound(r, runs[r], log[runs[r].stream])
  /\ \A s \in Streams \ shared : Alone(runs, log[s], s)

-----------------------------------------------------------------------------
(* What is said in two sequences one behind the other. *)
LEMMA SaidInBoth ==
  ASSUME NEW p \in Seq(Fact), NEW q \in Seq(Fact), NEW r
  PROVE  /\ p \o q \in Seq(Fact)
         /\ Numbers(p \o q, r) = Numbers(p, r) \cup Numbers(q, r)
         /\ OnlyOf(p, r) /\ OnlyOf(q, r) => OnlyOf(p \o q, r)
         /\ Rising(p, r) /\ Rising(q, r) /\ (\A m \in Numbers(p, r), n \in Numbers(q, r) : m < n)
              => Rising(p \o q, r)
<1> DEFINE x == p \o q
           a == Len(p)
           b == Len(q)
<1>1. a \in Nat /\ b \in Nat /\ DOMAIN p = 1..a /\ DOMAIN q = 1..b
  BY LenProperties
<1>2. /\ x \in Seq(Fact) /\ Len(x) = a + b
      /\ \A i \in 1..a + b : x[i] = IF i <= a THEN p[i] ELSE q[i - a]
  BY ConcatProperties
<1>3. DOMAIN x = 1..a + b
  BY <1>2, LenProperties
<1> HIDE DEF x, a, b
<1>4. \A i \in 1..a : i \in DOMAIN x /\ x[i] = p[i]
  BY <1>1, <1>2, <1>3
<1>5. \A j \in 1..b : a + j \in DOMAIN x /\ x[a + j] = q[j]
  <2> SUFFICES ASSUME NEW j \in 1..b PROVE a + j \in DOMAIN x /\ x[a + j] = q[j]
    OBVIOUS
  <2>1. a + j \in 1..a + b /\ ~(a + j <= a) /\ (a + j) - a = j
    BY <1>1
  <2> QED BY <1>2, <1>3, <2>1
<1>6. \A i \in DOMAIN x : i \in 1..a \/ \E j \in 1..b : i = a + j
  <2> SUFFICES ASSUME NEW i \in 1..a + b, i \notin 1..a PROVE \E j \in 1..b : i = a + j
    BY <1>3
  <2>1. i - a \in 1..b /\ i = a + (i - a)
    BY <1>1
  <2> QED BY <2>1
<1>7. Numbers(x, r) = Numbers(p, r) \cup Numbers(q, r)
  <2>1. \A n \in Numbers(x, r) : n \in Numbers(p, r) \cup Numbers(q, r)
    <3> SUFFICES ASSUME NEW i \in DOMAIN x, x[i][1] = r
                 PROVE  x[i][2] \in Numbers(p, r) \cup Numbers(q, r)
      BY DEF Numbers
    <3>1. CASE i \in 1..a
      BY <1>1, <1>4, <3>1 DEF Numbers
    <3>2. CASE \E j \in 1..b : i = a + j
      BY <1>1, <1>5, <3>2 DEF Numbers
    <3> QED BY <1>6, <3>1, <3>2
  <2>2. \A n \in Numbers(p, r) : n \in Numbers(x, r)
    BY <1>1, <1>4 DEF Numbers
  <2>3. \A n \in Numbers(q, r) : n \in Numbers(x, r)
    BY <1>1, <1>5 DEF Numbers
  <2> QED BY <2>1, <2>2, <2>3
<1>8. ASSUME OnlyOf(p, r), OnlyOf(q, r) PROVE OnlyOf(x, r)
  <2> SUFFICES ASSUME NEW i \in DOMAIN x PROVE x[i][1] = r
    BY DEF OnlyOf
  <2>1. CASE i \in 1..a
    BY <1>1, <1>4, <1>8, <2>1 DEF OnlyOf
  <2>2. CASE \E j \in 1..b : i = a + j
    BY <1>1, <1>5, <1>8, <2>2 DEF OnlyOf
  <2> QED BY <1>6, <2>1, <2>2
<1>9. ASSUME Rising(p, r), Rising(q, r), \A m \in Numbers(p, r), n \in Numbers(q, r) : m < n
      PROVE  Rising(x, r)
  <2> SUFFICES ASSUME NEW i \in DOMAIN x, NEW k \in DOMAIN x, x[i][1] = r, x[k][1] = r, i < k
               PROVE  x[i][2] < x[k][2]
    BY DEF Rising
  <2>1. CASE i \in 1..a /\ k \in 1..a
    BY <1>1, <1>4, <1>9, <2>1 DEF Rising
  <2>2. CASE i \in 1..a /\ \E l \in 1..b : k = a + l
    <3>1. x[i][2] \in Numbers(p, r)
      BY <1>1, <1>4, <2>2 DEF Numbers
    <3>2. x[k][2] \in Numbers(q, r)
      BY <1>1, <1>5, <2>2 DEF Numbers
    <3> QED BY <1>9, <3>1, <3>2
  <2>3. CASE (\E j \in 1..b : i = a + j) /\ k \in 1..a
    <3>1. PICK j \in 1..b : i = a + j
      BY <2>3
    <3>2. ~(i < k)
      BY <1>1, <2>3, <3>1
    <3> QED BY <3>2
  <2>4. CASE (\E j \in 1..b : i = a + j) /\ \E l \in 1..b : k = a + l
    <3>1. PICK j \in 1..b : i = a + j
      BY <2>4
    <3>2. PICK l \in 1..b : k = a + l
      BY <2>4
    <3>3. j < l
      BY <1>1, <3>1, <3>2
    <3>4. x[i] = q[j] /\ x[k] = q[l]
      BY <1>5, <3>1, <3>2
    <3> QED BY <1>1, <1>9, <3>3, <3>4 DEF Rising
  <2> QED BY <1>6, <2>1, <2>2, <2>3, <2>4
<1> QED BY <1>2, <1>7, <1>8, <1>9 DEF x

LEMMA NothingSaid == \A r : Numbers(<<>>, r) = {} /\ OnlyOf(<<>>, r) /\ Rising(<<>>, r)
  BY DEF Numbers, OnlyOf, Rising

LEMMA SaidByAnother ==
  ASSUME NEW q \in Seq(Fact), NEW o, OnlyOf(q, o), NEW r, r # o
  PROVE  Numbers(q, r) = {} /\ Rising(q, r)
  BY DEF Numbers, OnlyOf, Rising

LEMMA OneFact ==
  ASSUME NEW r \in Runs, NEW n \in Nat
  PROVE  /\ <<<<r, n>>>> \in Seq(Fact) /\ Numbers(<<<<r, n>>>>, r) = {n}
         /\ OnlyOf(<<<<r, n>>>>, r) /\ Rising(<<<<r, n>>>>, r)
<1> DEFINE q == <<<<r, n>>>>
<1>1. q \in Seq(Fact) /\ DOMAIN q = {1} /\ q[1] = <<r, n>>
  BY DEF Fact
<1>2. q[1][1] = r /\ q[1][2] = n
  BY <1>1
<1> HIDE DEF q
<1>3. Numbers(q, r) = {n} /\ OnlyOf(q, r) /\ Rising(q, r)
  BY <1>1, <1>2 DEF Numbers, OnlyOf, Rising
<1> QED BY <1>1, <1>3 DEF q

(* One more fact behind the others. *)
LEMMA OneMoreFact ==
  ASSUME NEW q \in Seq(Fact), NEW r \in Runs, NEW n \in Nat
  PROVE  /\ Append(q, <<r, n>>) \in Seq(Fact)
         /\ Numbers(Append(q, <<r, n>>), r) = Numbers(q, r) \cup {n}
         /\ OnlyOf(q, r) => OnlyOf(Append(q, <<r, n>>), r)
         /\ Rising(q, r) /\ (\A m \in Numbers(q, r) : m < n) => Rising(Append(q, <<r, n>>), r)
<1>1. <<r, n>> \in Fact
  BY DEF Fact
<1>2. Append(q, <<r, n>>) = q \o <<<<r, n>>>>
  BY <1>1, AppendIsConcat
<1> DEFINE e == <<<<r, n>>>>
<1>3. e \in Seq(Fact) /\ Numbers(e, r) = {n} /\ OnlyOf(e, r) /\ Rising(e, r)
  BY OneFact
<1> HIDE DEF e
<1>4. /\ q \o e \in Seq(Fact)
      /\ Numbers(q \o e, r) = Numbers(q, r) \cup {n}
      /\ OnlyOf(q, r) => OnlyOf(q \o e, r)
      /\ Rising(q, r) /\ (\A m \in Numbers(q, r) : m < n) => Rising(q \o e, r)
  BY <1>3, SaidInBoth
<1> QED BY <1>2, <1>4 DEF e

-----------------------------------------------------------------------------
(* What follows from the invariant. *)
LEMMA SoundIsComplete == SessionsInv => HeldFilesAreComplete
<1> SUFFICES ASSUME SessionsInv, NEW r \in Runs, NEW f \in Files,
                    /\ runs[r].stage \in {"watching", "closing"} /\ runs[r].open[f] = "held"
                    /\ ~log[runs[r].stream][f].garbled
             PROVE  LET found == log[runs[r].stream][f].lines \o runs[r].buffer[f]
                        own   == {i \in DOMAIN found : found[i][1] = r}
                    IN  /\ {found[i][2] : i \in own} = Facts(runs[r], f)
                        /\ \A i, j \in own : i < j => found[i][2] < found[j][2]
  BY DEF HeldFilesAreComplete
<1> DEFINE p == log[runs[r].stream][f].lines
           q == runs[r].buffer[f]
           found == p \o q
<1>1. Sound(r, runs[r], log[runs[r].stream])
  BY DEF SessionsInv
<1>2. runs[r].stream \in Streams /\ FileSound(r, runs[r], f, log[runs[r].stream][f])
  BY <1>1 DEF Sound, Writing
<1>3. p \in Seq(Fact) /\ q \in Seq(Fact)
  BY <1>2 DEF SessionsInv, SessionsTyped, RunState, FileState
<1>4. /\ Numbers(p, r) \cup Numbers(q, r) = Facts(runs[r], f)
      /\ Rising(p, r) /\ Rising(q, r) /\ \A m \in Numbers(p, r), n \in Numbers(q, r) : m < n
  BY <1>2 DEF FileSound
<1> HIDE DEF p, q
<1>5. Numbers(found, r) = Facts(runs[r], f) /\ Rising(found, r)
  BY <1>3, <1>4, SaidInBoth
<1> HIDE DEF found
<1>6. /\ {found[i][2] : i \in {j \in DOMAIN found : found[j][1] = r}} = Facts(runs[r], f)
      /\ \A i, j \in {k \in DOMAIN found : found[k][1] = r} : i < j => found[i][2] < found[j][2]
  BY <1>5 DEF Numbers, Rising
<1> QED BY <1>6 DEF found, p, q

LEMMA AloneIsOnce == SessionsInv => AloneIsOneReplay
<1> SUFFICES ASSUME SessionsInv, NEW s \in Streams \ shared
             PROVE  \E r \in Runs : \A f \in Files :
                      /\ ~log[s][f].garbled
                      /\ \A i \in DOMAIN log[s][f].lines : log[s][f].lines[i][1] = r
                      /\ \A i, j \in DOMAIN log[s][f].lines :
                           i < j => log[s][f].lines[i][2] < log[s][f].lines[j][2]
  BY DEF AloneIsOneReplay
<1>1. PICK o \in Runs : \A f \in Files : OwnedBy(log[s][f], o)
  BY DEF SessionsInv, Alone
<1>2. \A f \in Files :
        /\ ~log[s][f].garbled
        /\ \A i \in DOMAIN log[s][f].lines : log[s][f].lines[i][1] = o
        /\ \A i, j \in DOMAIN log[s][f].lines :
             i < j => log[s][f].lines[i][2] < log[s][f].lines[j][2]
  BY <1>1 DEF OwnedBy, OnlyOf, Rising
<1> QED BY <1>2

-----------------------------------------------------------------------------
LEMMA UnbornIsSound ==
  /\ Unborn \in RunState /\ ~Writing(Unborn)
  /\ \A r \in Runs : \A files : Sound(r, Unborn, files)
<1>1. 0 \in 0..MaxRecords
  BY SessionsConstants
<1>2. NothingOpen \in [Files -> {"closed", "held", "orphan"}] /\ NothingBuffered \in [Files -> Seq(Fact)]
  BY DEF NothingOpen, NothingBuffered
<1>3. Unborn \in RunState
  BY <1>1, <1>2 DEF Unborn, RunState, Stages
<1>4. \A r \in Runs : \A files : Sound(r, Unborn, files)
  BY DEF Sound, Writing, Unborn
<1> QED BY <1>3, <1>4 DEF Writing, Unborn

LEMMA BlankIsOwned == \A file : Blank(file) => \A o : OwnedBy(file, o)
  BY NothingSaid DEF Blank, OwnedBy

LEMMA SessionsInitially == SessionsInit => SessionsInv
<1> SUFFICES ASSUME SessionsInit PROVE SessionsInv
  OBVIOUS
<1>1. NoFile \in FileState
  BY DEF NoFile, FileState
<1>2. SessionsTyped
  BY <1>1, UnbornIsSound, SessionsConstants DEF SessionsInit, SessionsTyped
<1>3. AbsentIsEmpty
  BY DEF SessionsInit, AbsentIsEmpty, NoFile
<1>4. \A r \in Runs : runs[r] = Unborn
  BY DEF SessionsInit
<1>5. \A r \in Runs : Sound(r, runs[r], log[runs[r].stream])
  BY <1>4, UnbornIsSound
<1>6. ASSUME NEW s \in Streams PROVE Alone(runs, log[s], s)
  <2>1. \A f \in Files : Blank(log[s][f])
    BY DEF SessionsInit, NoFile, Blank
  <2>2. \A q \in Runs : ~Holds(runs[q], s)
    BY <1>4 DEF Holds, Unborn
  <2>3. 1 \in Runs
    BY SessionsConstants DEF Runs
  <2> QED BY <2>1, <2>2, <2>3, BlankIsOwned DEF Alone
<1> QED BY <1>2, <1>3, <1>5, <1>6 DEF SessionsInv

-----------------------------------------------------------------------------
(* A step of one run that leaves the directories alone. *)
NoNewHold(x, y, s) ==
  Holds(x, s) =>
    /\ Holds(y, s)
    /\ x.stage = "removing" => y.stage = "removing" /\ x.pending = y.pending
    /\ Writing(x) => Writing(y)

LEMMA AloneStays ==
  ASSUME NEW R, NEW Q, NEW files, NEW s, Alone(R, files, s),
         \A q \in Runs : NoNewHold(Q[q], R[q], s)
  PROVE  Alone(Q, files, s)
<1>1. \A q \in Runs : Holds(Q[q], s) =>
        /\ Holds(R[q], s)
        /\ Q[q].stage = "removing" => R[q].stage = "removing" /\ Q[q].pending = R[q].pending
        /\ Writing(Q[q]) => Writing(R[q])
  BY DEF NoNewHold
<1>2. \A p, q \in Runs : Holds(Q[p], s) /\ Holds(Q[q], s) => p = q
  BY <1>1 DEF Alone
<1>3. \A q \in Runs : Holds(Q[q], s) /\ Q[q].stage = "removing" =>
        \A f \in Files \ Q[q].pending : Blank(files[f])
  BY <1>1 DEF Alone
<1>4. PICK o \in Runs :
        /\ \A f \in Files : OwnedBy(files[f], o)
        /\ \A q \in Runs : Holds(R[q], s) /\ Writing(R[q]) => q = o
  BY DEF Alone
<1>5. \A q \in Runs : Holds(Q[q], s) /\ Writing(Q[q]) => q = o
  BY <1>1, <1>4
<1> QED BY <1>2, <1>3, <1>4, <1>5 DEF Alone

LEMMA SameHold == \A x, s : NoNewHold(x, x, s)
  BY DEF NoNewHold

LEMMA RunMoves ==
  ASSUME SessionsInv, NEW r \in Runs, NEW x \in RunState, runs' = [runs EXCEPT ![r] = x],
         UNCHANGED log, UNCHANGED source, UNCHANGED shared,
         Sound(r, x, log[x.stream]), \A s \in Streams : NoNewHold(x, runs[r], s)
  PROVE  SessionsInv'
<1>1. runs' \in [Runs -> RunState] /\ runs'[r] = x /\ \A q \in Runs \ {r} : runs'[q] = runs[q]
  BY DEF SessionsInv, SessionsTyped
<1>2. SessionsTyped' /\ AbsentIsEmpty'
  BY <1>1 DEF SessionsInv, SessionsTyped, AbsentIsEmpty
<1>3. ASSUME NEW q \in Runs PROVE Sound(q, runs'[q], log'[runs'[q].stream])
  BY <1>1, <1>3 DEF SessionsInv
<1>4. \A q \in Runs, s \in Streams : NoNewHold(runs'[q], runs[q], s)
  BY <1>1, SameHold
<1>5. \A s \in Streams \ shared' : Alone(runs', log'[s], s)
  BY <1>4, AloneStays DEF SessionsInv
<1> QED BY <1>2, <1>3, <1>5 DEF SessionsInv

(* Fields that no file depends on. *)
LEMMA SoundAsBefore ==
  ASSUME NEW r \in Runs, NEW run \in RunState, NEW files, Sound(r, run, files),
         NEW x \in RunState, x.stage = run.stage, x.stream = run.stream, x.from = run.from,
         x.at = run.at, x.open = run.open, x.buffer = run.buffer, x.pending = run.pending
  PROVE  Sound(r, x, files) /\ \A s : NoNewHold(x, run, s)
<1>1. \A f \in Files : Facts(x, f) = Facts(run, f)
  BY DEF Facts
<1>2. Writing(x) <=> Writing(run)
  BY DEF Writing
<1>3. \A f \in Files : FileSound(r, run, f, files[f]) => FileSound(r, x, f, files[f])
  BY <1>1 DEF FileSound
<1>4. Sound(r, x, files)
  BY <1>2, <1>3 DEF Sound
<1> QED BY <1>2, <1>4 DEF NoNewHold, Holds

-----------------------------------------------------------------------------
(* The steps that leave the directories and who has them open as they are. *)
LEMMA OthersKeep ==
  ASSUME SessionsInv, UNCHANGED <<log, runs, shared>>, source' \in [Streams -> 0..MaxRecords]
  PROVE  SessionsInv'
  BY DEF SessionsInv, SessionsTyped, AbsentIsEmpty

LEMMA SourcesKeep ==
  ASSUME SessionsInv, \/ \E s \in Streams : AgentWrites(s)
                      \/ \E p \in Panes : PaneTurns(p)
  PROVE  SessionsInv'
<1>1. ASSUME NEW s \in Streams, AgentWrites(s) PROVE SessionsInv'
  <2>1. source[s] + 1 \in 0..MaxRecords
    BY <1>1, SessionsConstants DEF AgentWrites, SessionsInv, SessionsTyped
  <2>2. source' \in [Streams -> 0..MaxRecords]
    BY <1>1, <2>1 DEF AgentWrites, SessionsInv, SessionsTyped
  <2> QED BY <1>1, <2>2, OthersKeep DEF AgentWrites
<1>2. ASSUME NEW p \in Panes, PaneTurns(p) PROVE SessionsInv'
  <2>1. source' \in [Streams -> 0..MaxRecords]
    BY <1>2 DEF PaneTurns, SessionsInv, SessionsTyped
  <2> QED BY <1>2, <2>1, OthersKeep DEF PaneTurns
<1> QED BY <1>1, <1>2

LEMMA IdleMoves ==
  ASSUME SessionsInv, NEW r \in Runs, NEW x \in RunState, runs' = [runs EXCEPT ![r] = x],
         UNCHANGED log, UNCHANGED source, UNCHANGED shared,
         x.stage \notin {"removing", "watching", "closing"},
         Sound(r, x, log[x.stream])
  PROVE  SessionsInv'
<1>1. \A s \in Streams : NoNewHold(x, runs[r], s)
  BY DEF NoNewHold, Holds
<1> QED BY <1>1, RunMoves

LEMMA OpeningIsSound ==
  ASSUME NEW command \in {"replay", "watch"}, NEW s \in Streams, NEW force \in BOOLEAN,
         NEW from \in 0..MaxRecords
  PROVE  /\ OnStream(command, s, force, from) \in RunState
         /\ OnStream(command, s, force, from).stage = "opening"
         /\ \A r \in Runs : \A files : Sound(r, OnStream(command, s, force, from), files)
<1> DEFINE x == OnStream(command, s, force, from)
<1>1. x \in RunState
  BY UnbornIsSound DEF OnStream, RunState, Stages
<1>2. /\ x.stage = "opening" /\ x.stream = s /\ x.from = from /\ x.at = from
      /\ x.open = NothingOpen /\ x.buffer = NothingBuffered
  BY DEF OnStream, Unborn
<1> HIDE DEF x
<1>3. from <= from
  OBVIOUS
<1>4. \A r \in Runs : \A files : Sound(r, x, files)
  BY <1>2, <1>3 DEF Sound, Writing
<1> QED BY <1>1, <1>2, <1>4 DEF x

(* Whatever is chosen is a session that is known. *)
LEMMA ChosenIsKnown == ASSUME NEW K, K \subseteq Streams PROVE Chosen(K) \subseteq Streams
<1>1. Followable(K, FALSE) \subseteq Streams /\ ByDirectory(K) \subseteq Streams
  BY DEF Followable, ByDirectory
<1>2. ASSUME NEW typed, Resolved(typed, K) # NoStream PROVE Resolved(typed, K) \in Streams
  <2> DEFINE matches == {s \in Followable(K, FALSE) : IsPrefix(typed, About[s].id)}
  <2>1. Cardinality(matches) = 1
    BY <1>2 DEF Resolved
  <2>2. Resolved(typed, K) = CHOOSE s \in matches : TRUE
    BY <2>1 DEF Resolved
  <2>3. matches \subseteq Streams
    BY <1>1
  <2> HIDE DEF matches
  <2>4. matches # {}
    BY <2>1, FS_EmptySet
  <2> QED BY <2>2, <2>3, <2>4
<1>3. ByIdentifier(K) \subseteq Streams
  BY <1>2 DEF ByIdentifier
<1> QED BY <1>1, <1>3 DEF Chosen, ByRecency

LEMMA StartKeeps == ASSUME SessionsInv, NEW r \in Runs, Start(r) PROVE SessionsInv'
<1>1. Known \subseteq Streams /\ Chosen(Known) \subseteq Streams
  BY ChosenIsKnown DEF Known
<1>2. ASSUME NEW command \in {"replay", "watch"}, NEW s \in Streams, NEW force \in BOOLEAN,
             NEW from \in {0, source[s]}, Launch(r, OnStream(command, s, force, from))
      PROVE  SessionsInv'
  <2>1. from \in 0..MaxRecords
    BY SessionsConstants DEF SessionsInv, SessionsTyped
  <2> DEFINE x == OnStream(command, s, force, from)
  <2>2. x \in RunState /\ x.stage = "opening" /\ Sound(r, x, log[x.stream])
    BY <2>1, OpeningIsSound
  <2>3. runs' = [runs EXCEPT ![r] = x] /\ UNCHANGED log /\ UNCHANGED source /\ UNCHANGED shared
    BY <1>2 DEF Launch
  <2> HIDE DEF x
  <2> QED BY <2>2, <2>3, IdleMoves
<1>3. ASSUME NEW target \in Targets, NEW tail \in BOOLEAN,
             Launch(r, [Unborn EXCEPT !.stage = "resolving", !.command = "pane", !.force = TRUE,
                                      !.tail = tail, !.target = target])
      PROVE  SessionsInv'
  <2> DEFINE x == [Unborn EXCEPT !.stage = "resolving", !.command = "pane", !.force = TRUE,
                                 !.tail = tail, !.target = target]
  <2>1. x \in RunState
    BY UnbornIsSound DEF RunState, Stages
  <2>2. /\ x.stage = "resolving" /\ x.from <= x.at
        /\ x.open = NothingOpen /\ x.buffer = NothingBuffered
    BY DEF Unborn
  <2>3. runs' = [runs EXCEPT ![r] = x] /\ UNCHANGED log /\ UNCHANGED source /\ UNCHANGED shared
    BY <1>3 DEF Launch
  <2> HIDE DEF x
  <2>4. Sound(r, x, log[x.stream])
    BY <2>2 DEF Sound, Writing
  <2> QED BY <2>1, <2>2, <2>3, <2>4, IdleMoves
<1>4. CASE "replay" \in Commands[r] /\ \E s \in Known, force \in BOOLEAN : Launch(r, OnStream("replay", s, force, 0))
  BY <1>1, <1>2, <1>4
<1>5. CASE \/ \E s \in Known, force \in BOOLEAN : \E from \in {0, source[s]} :
                Launch(r, OnStream("watch", s, force, from))
           \/ \E s \in Chosen(Known) : \E from \in {0, source[s]} :
                Launch(r, OnStream("watch", s, TRUE, from))
  BY <1>1, <1>2, <1>5
<1> QED BY <1>3, <1>4, <1>5 DEF Start

LEMMA GoneIsSound ==
  /\ Gone \in RunState /\ Gone.stage = "ended"
  /\ \A r \in Runs : \A files : Sound(r, Gone, files)
<1>1. Gone \in RunState
  BY UnbornIsSound DEF Gone, RunState, Stages
<1>2. Gone.stage = "ended" /\ Gone.from <= Gone.at /\ Gone.open = NothingOpen /\ Gone.buffer = NothingBuffered
  BY DEF Gone, Unborn
<1>3. \A r \in Runs : \A files : Sound(r, Gone, files)
  BY <1>2 DEF Sound, Writing
<1> QED BY <1>1, <1>2, <1>3

LEMMA LeavingKeeps ==
  ASSUME SessionsInv, NEW r \in Runs, Step(r, Gone), SourcesStay, UNCHANGED <<log, shared>>
  PROVE  SessionsInv'
  BY GoneIsSound, IdleMoves DEF Step, SourcesStay

LEMMA ResolveKeeps == ASSUME SessionsInv, NEW r \in Runs, ResolvePane(r) PROVE SessionsInv'
<1>1. PICK s \in Streams :
        runs' = [runs EXCEPT ![r] = [runs[r] EXCEPT
           !.stage = "opening", !.stream = s, !.tail = FALSE,
           !.from = IF runs[r].tail THEN source[s] ELSE 0,
           !.at = IF runs[r].tail THEN source[s] ELSE 0]]
  BY DEF ResolvePane, Step, Known
<1> DEFINE n == IF runs[r].tail THEN source[s] ELSE 0
           x == [runs[r] EXCEPT !.stage = "opening", !.stream = s, !.tail = FALSE, !.from = n, !.at = n]
<1>2. n \in 0..MaxRecords
  BY SessionsConstants DEF SessionsInv, SessionsTyped
<1>3. runs[r] \in RunState
  BY DEF SessionsInv, SessionsTyped
<1>4. runs' = [runs EXCEPT ![r] = x]
  BY <1>1
<1> HIDE DEF n
<1>5. x \in RunState
  BY <1>2, <1>3 DEF RunState, Stages
<1>6. /\ x.stage = "opening" /\ x.stream = s /\ x.from = n /\ x.at = n
      /\ x.open = runs[r].open /\ x.buffer = runs[r].buffer
  BY <1>3 DEF RunState
<1> HIDE DEF x
<1>7. runs[r].open = NothingOpen /\ runs[r].buffer = NothingBuffered
  BY DEF SessionsInv, Sound, Writing, ResolvePane
<1>8. n <= n
  BY <1>2
<1>9. Sound(r, x, log[x.stream])
  BY <1>6, <1>7, <1>8 DEF Sound, Writing
<1>10. UNCHANGED log /\ UNCHANGED source /\ UNCHANGED shared
  BY DEF ResolvePane, SourcesStay
<1> QED BY <1>4, <1>5, <1>6, <1>9, <1>10, IdleMoves

LEMMA CloseKeeps == ASSUME SessionsInv, NEW r \in Runs, Close(r) PROVE SessionsInv'
<1>1. CASE ~runs[r].changed
  BY <1>1, LeavingKeeps DEF Close
<1>2. CASE runs[r].changed
  <2> DEFINE x == [Unborn EXCEPT !.stage = "resolving", !.command = "pane", !.force = TRUE,
                     !.target = runs[r].target, !.interrupted = runs[r].interrupted]
  <2>1. runs[r].target \in Targets \cup {AutoPane} /\ runs[r].interrupted \in BOOLEAN
    BY DEF SessionsInv, SessionsTyped, RunState
  <2>2. x \in RunState
    BY <2>1, UnbornIsSound DEF RunState, Stages
  <2>3. /\ x.stage = "resolving" /\ x.from <= x.at
        /\ x.open = NothingOpen /\ x.buffer = NothingBuffered
    BY DEF Unborn
  <2>4. runs' = [runs EXCEPT ![r] = x] /\ UNCHANGED log /\ UNCHANGED source /\ UNCHANGED shared
    BY <1>2 DEF Close, Step, SourcesStay
  <2> HIDE DEF x
  <2>5. Sound(r, x, log[x.stream])
    BY <2>3 DEF Sound, Writing
  <2> QED BY <2>2, <2>3, <2>4, <2>5, IdleMoves
<1> QED BY <1>1, <1>2

(* A signal and the monitor touch no file. *)
SameFiles(x, y) ==
  /\ x.stage = y.stage /\ x.stream = y.stream /\ x.from = y.from /\ x.at = y.at
  /\ x.open = y.open /\ x.buffer = y.buffer /\ x.pending = y.pending

LEMMA SignalKeeps ==
  ASSUME SessionsInv, NEW r \in Runs, MonitorStep(r) \/ Interrupt(r)
  PROVE  SessionsInv'
<1>1. runs[r] \in RunState /\ Sound(r, runs[r], log[runs[r].stream])
  BY DEF SessionsInv, SessionsTyped
<1>2. UNCHANGED log /\ UNCHANGED source /\ UNCHANGED shared
  BY DEF MonitorStep, MonitorReads, MonitorCancels, MonitorQuits, Interrupt, SourcesStay
<1>3. ASSUME NEW x \in RunState, SameFiles(x, runs[r]), runs' = [runs EXCEPT ![r] = x]
      PROVE  SessionsInv'
  <2>1. Sound(r, x, log[runs[r].stream]) /\ \A s \in Streams : NoNewHold(x, runs[r], s)
    BY <1>1, <1>3, SoundAsBefore DEF SameFiles
  <2>2. x.stream = runs[r].stream
    BY <1>3 DEF SameFiles
  <2> QED BY <1>2, <1>3, <2>1, <2>2, RunMoves
<1>4. CASE MonitorReads(r)
  <2> DEFINE x == [runs[r] EXCEPT !.monitor = "found"]
  <2>1. x \in RunState /\ SameFiles(x, runs[r])
    BY <1>1 DEF RunState, SameFiles
  <2>2. runs' = [runs EXCEPT ![r] = x]
    BY <1>4 DEF MonitorReads, Step
  <2> QED BY <1>3, <2>1, <2>2
<1>5. CASE MonitorCancels(r)
  <2> DEFINE x == [runs[r] EXCEPT !.monitor = "off", !.changed = TRUE]
  <2>1. x \in RunState /\ SameFiles(x, runs[r])
    BY <1>1 DEF RunState, SameFiles
  <2>2. runs' = [runs EXCEPT ![r] = x]
    BY <1>5 DEF MonitorCancels, Step
  <2> QED BY <1>3, <2>1, <2>2
<1>6. CASE MonitorQuits(r)
  <2> DEFINE x == [runs[r] EXCEPT !.monitor = "off"]
  <2>1. x \in RunState /\ SameFiles(x, runs[r])
    BY <1>1 DEF RunState, SameFiles
  <2>2. runs' = [runs EXCEPT ![r] = x]
    BY <1>6 DEF MonitorQuits, Step
  <2> QED BY <1>3, <2>1, <2>2
<1>7. CASE Interrupt(r)
  <2> DEFINE x == [runs[r] EXCEPT !.interrupted = TRUE]
  <2>1. x \in RunState /\ SameFiles(x, runs[r])
    BY <1>1 DEF RunState, SameFiles
  <2>2. runs' = [runs EXCEPT ![r] = x]
    BY <1>7 DEF Interrupt, Step
  <2> QED BY <1>3, <2>1, <2>2
<1> QED BY <1>4, <1>5, <1>6, <1>7 DEF MonitorStep

-----------------------------------------------------------------------------
(* A directory is opened.  What a run said in an earlier life was in its   *)
(* files; there are none, or they are all to be removed.                   *)
LEMMA NobodyElseHolds ==
  ASSUME NEW r \in Runs, NEW s, ~HeldByAnother(r, s)
  PROVE  \A q \in Runs \ {r} : ~Holds(runs[q], s)
  BY DEF HeldByAnother, Holds

(* Of a run that is the only one to have an empty directory open. *)
LEMMA AloneAtFirst ==
  ASSUME NEW r \in Runs, NEW R, NEW files, NEW s, \A q \in Runs \ {r} : ~Holds(R[q], s),
         \A f \in Files : Blank(files[f])
  PROVE  Alone(R, files, s)
<1>1. \A q \in Runs : Holds(R[q], s) => q = r
  OBVIOUS
<1>2. \A f \in Files : OwnedBy(files[f], r)
  BY BlankIsOwned
<1> QED BY <1>1, <1>2 DEF Alone

LEMMA OpenedIsSound ==
  ASSUME NEW r \in Runs, NEW run \in RunState, NEW files, run.open = NothingOpen,
         run.buffer = NothingBuffered, run.at = run.from, run.stream \in Streams,
         \A f \in Files : Numbers(files[f].lines, r) = {},
         NEW x \in RunState, x.stage = "watching", x.stream = run.stream, x.from = run.from,
         x.at = run.at, x.open = run.open, x.buffer = run.buffer
  PROVE  Sound(r, x, files)
<1>1. x.at \in Nat /\ x.from = x.at
  BY SessionsConstants DEF RunState
<1>2. \A f \in Files : x.open[f] = "closed" /\ x.buffer[f] = <<>>
  BY DEF NothingOpen, NothingBuffered
<1>3. \A f \in Files : Facts(x, f) = {}
  BY <1>1 DEF Facts
<1>4. \A f \in Files : FileSound(r, x, f, files[f])
  BY <1>2, <1>3, NothingSaid DEF FileSound
<1> QED BY <1>1, <1>4 DEF Sound, Writing

LEMMA OpenKeeps == ASSUME SessionsInv, NEW r \in Runs, Open(r) PROVE SessionsInv'
<1> DEFINE s == runs[r].stream
<1>1. runs[r] \in RunState /\ Sound(r, runs[r], log[s]) /\ runs[r].stage = "opening"
  BY DEF SessionsInv, SessionsTyped, Open
<1>2. s \in Streams /\ runs[r].at = runs[r].from /\ runs[r].open = NothingOpen /\ runs[r].buffer = NothingBuffered
  BY <1>1 DEF Sound, Writing
<1>3. UNCHANGED log /\ UNCHANGED source
  BY DEF Open, SourcesStay
<1>4. CASE Refuses(r)
  BY <1>3, <1>4, GoneIsSound, IdleMoves DEF Open, Step
<1>5. ASSUME ~Refuses(r), NEW x \in RunState, runs' = [runs EXCEPT ![r] = x], x.stream = s,
             Sound(r, x, log[s]),
             s \notin shared' => Alone(runs', log[s], s)
      PROVE  SessionsInv'
  <2>1. runs' \in [Runs -> RunState] /\ runs'[r] = x /\ \A q \in Runs \ {r} : runs'[q] = runs[q]
    BY <1>5 DEF SessionsInv, SessionsTyped
  <2>2. shared' \subseteq Streams /\ \A t \in Streams \ {s} : t \in shared' <=> t \in shared
    BY <1>2, <1>5 DEF Open, SessionsInv, SessionsTyped
  <2>3. SessionsTyped' /\ AbsentIsEmpty'
    BY <1>3, <2>1, <2>2 DEF SessionsInv, SessionsTyped, AbsentIsEmpty
  <2>4. ASSUME NEW q \in Runs PROVE Sound(q, runs'[q], log'[runs'[q].stream])
    BY <1>3, <1>5, <2>1, <2>4 DEF SessionsInv
  <2>5. ASSUME NEW t \in Streams \ shared' PROVE Alone(runs', log'[t], t)
    <3>1. CASE t = s
      BY <1>3, <1>5, <3>1
    <3>2. CASE t # s
      <4>1. \A q \in Runs : NoNewHold(runs'[q], runs[q], t)
        BY <1>5, <2>1, <3>2, SameHold DEF NoNewHold, Holds
      <4> QED BY <1>3, <2>2, <3>2, <4>1, AloneStays DEF SessionsInv
    <3> QED BY <3>1, <3>2
  <2> QED BY <2>3, <2>4, <2>5 DEF SessionsInv
<1>6. CASE ~Refuses(r) /\ HasEvents(s)
  <2> DEFINE x == [runs[r] EXCEPT !.stage = "removing", !.pending = Files]
  <2>1. x \in RunState
    BY <1>1 DEF RunState, Stages
  <2>2. /\ x.stage = "removing" /\ x.pending = Files /\ x.stream = s /\ x.from = runs[r].from
        /\ x.at = runs[r].at /\ x.open = runs[r].open /\ x.buffer = runs[r].buffer
    BY <1>1 DEF RunState
  <2>3. runs' = [runs EXCEPT ![r] = x] /\ (s \notin shared' => s \notin shared /\ ~HeldByAnother(r, s))
    BY <1>6 DEF Open, Step
  <2> HIDE DEF x
  <2>4. Sound(r, x, log[s])
    BY <1>1, <1>2, <2>2 DEF Sound, Writing
  <2>5. ASSUME s \notin shared' PROVE Alone(runs', log[s], s)
    <3>1. runs'[r] = x /\ \A q \in Runs \ {r} : runs'[q] = runs[q] /\ ~Holds(runs'[q], s)
      BY <2>3, <2>5, NobodyElseHolds DEF SessionsInv, SessionsTyped
    <3>2. Alone(runs, log[s], s)
      BY <1>2, <2>3, <2>5 DEF SessionsInv
    <3>3. PICK o \in Runs : \A f \in Files : OwnedBy(log[s][f], o)
      BY <3>2 DEF Alone
    <3>4. \A q \in Runs : Holds(runs'[q], s) => q = r /\ runs'[q] = x
      BY <3>1
    <3>5. ~Writing(x) /\ Files \ x.pending = {}
      BY <2>2 DEF Writing
    <3> QED BY <3>3, <3>4, <3>5 DEF Alone
  <2> HIDE DEF s
  <2> QED BY <1>5, <1>6, <2>1, <2>2, <2>3, <2>4, <2>5
<1>7. CASE ~Refuses(r) /\ ~HasEvents(s)
  <2> DEFINE x == Opened(runs[r])
  <2>1. x \in RunState
    BY <1>1 DEF Opened, RunState, Stages
  <2>2. /\ x.stage = "watching" /\ x.stream = s /\ x.from = runs[r].from
        /\ x.at = runs[r].at /\ x.open = runs[r].open /\ x.buffer = runs[r].buffer
    BY <1>1 DEF Opened, RunState
  <2>3. runs' = [runs EXCEPT ![r] = x] /\ (s \notin shared' => ~HeldByAnother(r, s))
    BY <1>7 DEF Open, Step
  <2> HIDE DEF x
  <2>4. \A f \in Files : Blank(log[s][f]) /\ log[s][f].lines = <<>>
    BY <1>7 DEF HasEvents, Blank
  <2>5. Sound(r, x, log[s])
    BY <1>1, <1>2, <2>1, <2>2, <2>4, NothingSaid, OpenedIsSound
  <2>6. ASSUME s \notin shared' PROVE Alone(runs', log[s], s)
    <3>1. \A q \in Runs \ {r} : ~Holds(runs'[q], s)
      BY <2>3, <2>6, NobodyElseHolds DEF SessionsInv, SessionsTyped
    <3> QED BY <2>4, <3>1, AloneAtFirst
  <2> HIDE DEF s
  <2> QED BY <1>5, <1>7, <2>1, <2>2, <2>3, <2>5, <2>6
<1> HIDE DEF s
<1> QED BY <1>4, <1>6, <1>7

-----------------------------------------------------------------------------
(* What another run does to a directory: its own facts, and no others. *)
LEMMA SoundElsewhere ==
  ASSUME NEW q, NEW run, NEW files, Sound(q, run, files), NEW g,
         \A f \in Files : /\ Numbers(g[f].lines, q) = Numbers(files[f].lines, q)
                          /\ Rising(files[f].lines, q) => Rising(g[f].lines, q)
                          /\ files[f].there = TRUE => g[f].there = TRUE
  PROVE  Sound(q, run, g)
<1>1. \A f \in Files : FileSound(q, run, f, files[f]) => FileSound(q, run, f, g[f])
  BY DEF FileSound
<1> QED BY <1>1 DEF Sound

(* A fact is appended to some files: those not held yet are opened. *)
OpenAfter(run, to) ==
  [f \in Files |-> IF f \in to /\ run.open[f] = "closed" THEN "held" ELSE run.open[f]]

BufferAfter(r, run, line, to) ==
  [f \in Files |-> IF f \in to /\ run.open[f] # "orphan"
                   THEN Append(run.buffer[f], <<r, line>>) ELSE run.buffer[f]]

FactsAfter(run, line, to, x) ==
  /\ \A f \in Files : Facts(x, f) = Facts(run, f) \cup (IF f \in to THEN {line} ELSE {})
  /\ \A f \in Files : \A m \in Facts(run, f) : m < line

FilesAfter(run, files, to, g) ==
  \A f \in Files :
    /\ g[f].lines = files[f].lines /\ g[f].torn = files[f].torn /\ g[f].garbled = files[f].garbled
    /\ files[f].there = TRUE \/ (f \in to /\ run.open[f] = "closed") => g[f].there = TRUE

Extends(r, run, files, line, to, x, g) ==
  /\ Writing(x) /\ x.stream = run.stream /\ x.from <= x.at
  /\ x.open = OpenAfter(run, to) /\ x.buffer = BufferAfter(r, run, line, to)
  /\ FactsAfter(run, line, to, x) /\ FilesAfter(run, files, to, g)

LEMMA AppendedIsSound ==
  ASSUME NEW r \in Runs, NEW run \in RunState, NEW files, run.stage = "watching",
         Sound(r, run, files), NEW line \in Nat, NEW to \in SUBSET Files,
         NEW x \in RunState, NEW g, Extends(r, run, files, line, to, x, g)
  PROVE  Sound(r, x, g)
<1> USE DEF Extends, FactsAfter, FilesAfter, OpenAfter, BufferAfter
<1>1. \A f \in Files : FileSound(r, run, f, files[f])
  BY DEF Sound, Writing
<1>2. ASSUME NEW f \in Files PROVE FileSound(r, x, f, g[f])
  <2> DEFINE q == run.buffer[f]
             p == files[f].lines
             e == <<r, line>>
  <2>1. q \in Seq(Fact) /\ FileSound(r, run, f, files[f]) /\ g[f].lines = p
    BY <1>1 DEF RunState
  <2>2. run.open[f] \in {"closed", "held", "orphan"}
    BY DEF RunState
  <2>3. x.open[f] = (IF f \in to /\ run.open[f] = "closed" THEN "held" ELSE run.open[f])
    OBVIOUS
  <2>4. x.buffer[f] = (IF f \in to /\ run.open[f] # "orphan" THEN Append(q, e) ELSE q)
    OBVIOUS
  <2>5. /\ Numbers(Append(q, e), r) = Numbers(q, r) \cup {line}
        /\ OnlyOf(q, r) => OnlyOf(Append(q, e), r)
        /\ Rising(q, r) /\ (\A m \in Numbers(q, r) : m < line) => Rising(Append(q, e), r)
    BY <2>1, OneMoreFact
  <2>6. /\ OnlyOf(q, r) /\ (q # <<>> => run.open[f] = "held")
        /\ run.open[f] = "closed" => Numbers(p, r) = {} /\ Facts(run, f) = {}
        /\ run.open[f] = "held" =>
             /\ files[f].there = TRUE /\ Numbers(p, r) \cup Numbers(q, r) = Facts(run, f)
             /\ Rising(p, r) /\ Rising(q, r)
             /\ \A m \in Numbers(p, r), n \in Numbers(q, r) : m < n
    BY <2>1 DEF FileSound
  <2> HIDE DEF q, p, e
  <2>7. CASE f \notin to \/ run.open[f] = "orphan"
    <3>1. x.open[f] = run.open[f] /\ x.buffer[f] = q /\ (files[f].there = TRUE => g[f].there = TRUE)
      BY <2>3, <2>4, <2>7
    <3>2. run.open[f] # "orphan" => Facts(x, f) = Facts(run, f)
      BY <2>7
    <3> QED BY <2>1, <2>2, <2>6, <3>1, <3>2 DEF FileSound
  <2>8. CASE f \in to /\ run.open[f] = "closed"
    <3>1. x.open[f] = "held" /\ x.buffer[f] = Append(q, e) /\ g[f].there = TRUE
      BY <2>3, <2>4, <2>8
    <3>2. Facts(x, f) = {line} /\ Numbers(p, r) = {} /\ q = <<>>
      BY <2>6, <2>8
    <3>3. Numbers(q, r) = {} /\ Rising(q, r)
      BY <3>2, NothingSaid
    <3>4. Rising(p, r)
      <4>1. ASSUME NEW i \in DOMAIN p, p[i][1] = r PROVE FALSE
        <5>1. p[i][2] \in Numbers(p, r)
          BY <4>1 DEF Numbers
        <5> QED BY <3>2, <5>1
      <4> QED BY <4>1 DEF Rising
    <3>5. OnlyOf(Append(q, e), r) /\ Rising(Append(q, e), r) /\ Numbers(Append(q, e), r) = {line}
      BY <2>5, <2>6, <3>3
    <3> QED BY <2>1, <3>1, <3>2, <3>4, <3>5 DEF FileSound
  <2>9. CASE f \in to /\ run.open[f] = "held"
    <3>1. x.open[f] = "held" /\ x.buffer[f] = Append(q, e) /\ g[f].there = TRUE
      BY <2>3, <2>4, <2>6, <2>9
    <3>2. Facts(x, f) = Facts(run, f) \cup {line} /\ \A m \in Facts(run, f) : m < line
      BY <2>9
    <3>3. (\A m \in Numbers(q, r) : m < line) /\ (\A m \in Numbers(p, r) : m < line)
      BY <2>6, <2>9, <3>2
    <3>4. OnlyOf(Append(q, e), r) /\ Rising(Append(q, e), r)
          /\ Numbers(Append(q, e), r) = Numbers(q, r) \cup {line}
      BY <2>5, <2>6, <2>9, <3>3
    <3>5. Numbers(p, r) \cup Numbers(Append(q, e), r) = Facts(x, f)
      BY <2>6, <2>9, <3>2, <3>4
    <3>6. \A m \in Numbers(p, r), n \in Numbers(Append(q, e), r) : m < n
      BY <2>6, <2>9, <3>3, <3>4
    <3> QED BY <2>1, <2>6, <2>9, <3>1, <3>4, <3>5, <3>6 DEF FileSound
  <2> QED BY <2>2, <2>7, <2>8, <2>9
<1>3. x.stream \in Streams
  BY DEF Sound
<1>4. x.stage \notin {"opening", "removing"}
  BY DEF Writing
<1> QED BY <1>2, <1>3, <1>4 DEF Sound

LEMMA AppendKeeps ==
  ASSUME SessionsInv, NEW r \in Runs, runs[r].stage = "watching", NEW line \in Nat,
         NEW to \in SUBSET Files, NEW next \in RunState, Writing(next),
         next.stream = runs[r].stream, next.open = runs[r].open, next.buffer = runs[r].buffer,
         next.from <= next.at, Appended(r, line, to, next),
         \A f \in Files : Facts(next, f) = Facts(runs[r], f) \cup (IF f \in to THEN {line} ELSE {}),
         \A f \in Files : \A m \in Facts(runs[r], f) : m < line
  PROVE  SessionsInv'
<1> DEFINE s == runs[r].stream
           run == runs[r]
           fresh == {f \in to : run.open[f] = "closed"}
           g == [f \in Files |-> IF f \in fresh THEN [log[s][f] EXCEPT !.there = TRUE] ELSE log[s][f]]
           o == [f \in Files |-> IF f \in fresh THEN "held" ELSE next.open[f]]
           b == [f \in Files |-> IF f \in to /\ run.open[f] # "orphan"
                                 THEN Append(next.buffer[f], <<r, line>>) ELSE next.buffer[f]]
           x == [next EXCEPT !.open = o, !.buffer = b]
<1>1. run \in RunState /\ Sound(r, run, log[s]) /\ s \in Streams /\ log[s] \in [Files -> FileState]
  BY DEF SessionsInv, SessionsTyped, Sound
<1>2. log' = [log EXCEPT ![s] = g]
  BY DEF Appended
<1>3. runs' = [runs EXCEPT ![r] = x]
  BY DEF Appended, Step
<1>4. UNCHANGED source /\ UNCHANGED shared
  BY DEF Appended, SourcesStay
<1>5. o \in [Files -> {"closed", "held", "orphan"}]
  BY <1>1 DEF RunState
<1>6. b \in [Files -> Seq(Fact)]
  <2>1. \A f \in Files : Append(next.buffer[f], <<r, line>>) \in Seq(Fact) /\ next.buffer[f] \in Seq(Fact)
    BY OneMoreFact DEF RunState
  <2> QED BY <2>1
<1>7. \A f \in Files : /\ g[f].lines = log[s][f].lines /\ g[f].torn = log[s][f].torn
                       /\ g[f].garbled = log[s][f].garbled /\ g[f] \in FileState
                       /\ g[f].there \/ g[f] = log[s][f]
                       /\ log[s][f].there = TRUE \/ (f \in to /\ run.open[f] = "closed") => g[f].there = TRUE
  BY <1>1 DEF FileState
<1>8. o = OpenAfter(run, to)
  BY DEF OpenAfter
<1>9. b = BufferAfter(r, run, line, to)
  BY DEF BufferAfter
<1>10. g \in [Files -> FileState]
  BY <1>1 DEF FileState
<1> HIDE DEF g, o, b
<1>11. x \in RunState
  BY <1>5, <1>6 DEF RunState
<1>12. /\ x.stage = next.stage /\ x.stream = s /\ x.from = next.from /\ x.at = next.at
       /\ x.open = o /\ x.buffer = b
  BY DEF RunState
<1> HIDE DEF x
<1>13. Writing(x) /\ \A f \in Files : Facts(x, f) = Facts(next, f)
  BY <1>12 DEF Writing, Facts
<1>14. Sound(r, x, g)
  <2>1. /\ x.stream = run.stream /\ x.from <= x.at /\ run.stage = "watching"
        /\ x.open = OpenAfter(run, to) /\ x.buffer = BufferAfter(r, run, line, to)
    BY <1>8, <1>9, <1>12
  <2>2. FactsAfter(run, line, to, x)
    BY <1>13 DEF FactsAfter
  <2> DEFINE files == log[s]
  <2>3. Sound(r, run, files) /\ FilesAfter(run, files, to, g)
    BY <1>1, <1>7 DEF FilesAfter
  <2> HIDE DEF files, run
  <2>4. Extends(r, run, files, line, to, x, g)
    BY ONLY <1>13, <2>1, <2>2, <2>3 DEF Extends
  <2> QED BY <1>1, <1>11, <2>1, <2>3, <2>4, AppendedIsSound
<1>15. runs' \in [Runs -> RunState] /\ runs'[r] = x /\ \A q \in Runs \ {r} : runs'[q] = runs[q]
  BY <1>3, <1>11 DEF SessionsInv, SessionsTyped
<1>16. /\ log' \in [Streams -> [Files -> FileState]] /\ log'[s] = g
       /\ \A t \in Streams \ {s} : log'[t] = log[t]
  BY <1>1, <1>2, <1>10 DEF SessionsInv, SessionsTyped
<1>17. SessionsTyped'
  BY <1>4, <1>15, <1>16 DEF SessionsInv, SessionsTyped
<1>18. AbsentIsEmpty'
  <2> SUFFICES ASSUME NEW t \in Streams, NEW f \in Files, ~log'[t][f].there
               PROVE  log'[t][f] = NoFile
    BY DEF AbsentIsEmpty
  <2>1. CASE t = s
    BY <1>7, <1>16, <2>1 DEF SessionsInv, AbsentIsEmpty
  <2>2. CASE t # s
    BY <1>16, <2>2 DEF SessionsInv, AbsentIsEmpty
  <2> QED BY <2>1, <2>2
<1>19. ASSUME NEW q \in Runs PROVE Sound(q, runs'[q], log'[runs'[q].stream])
  <2>1. CASE q = r
    BY <1>12, <1>14, <1>15, <1>16, <2>1
  <2>2. CASE q # r
    <3>1. runs'[q] = runs[q] /\ Sound(q, runs[q], log[runs[q].stream])
      BY <1>15, <2>2 DEF SessionsInv
    <3>2. CASE runs[q].stream = s
      <4> DEFINE files == log[s]
      <4>1. \A f \in Files : g[f].lines = files[f].lines /\ (files[f].there = TRUE => g[f].there = TRUE)
        BY <1>7
      <4>2. Sound(q, runs'[q], files) /\ log'[runs'[q].stream] = g
        BY <1>16, <3>1, <3>2
      <4> HIDE DEF files
      <4> QED BY <4>1, <4>2, SoundElsewhere
    <3>3. CASE runs[q].stream # s
      <4>1. log'[runs[q].stream] = log[runs[q].stream]
        BY <1>2, <3>3 DEF SessionsInv, SessionsTyped
      <4> QED BY <3>1, <4>1
    <3> QED BY <3>2, <3>3
  <2> QED BY <2>1, <2>2
<1>20. ASSUME NEW t \in Streams \ shared' PROVE Alone(runs', log'[t], t)
  <2>1. Alone(runs, log[t], t)
    BY <1>4, <1>20 DEF SessionsInv
  <2>2. \A q \in Runs : NoNewHold(runs'[q], runs[q], t)
    <3>1. NoNewHold(x, run, t)
      BY <1>12, <1>13 DEF NoNewHold, Holds, Writing
    <3> QED BY <1>15, <3>1, SameHold
  <2>3. Alone(runs', log[t], t)
    BY <2>1, <2>2, AloneStays
  <2>4. \A f \in Files : /\ log'[t][f].lines = log[t][f].lines /\ log'[t][f].torn = log[t][f].torn
                        /\ log'[t][f].garbled = log[t][f].garbled
    BY <1>7, <1>16
  <2> QED BY <2>3, <2>4 DEF Alone, Blank, OwnedBy
<1> QED BY <1>17, <1>18, <1>19, <1>20 DEF SessionsInv

LEMMA TakeKeeps == ASSUME SessionsInv, NEW r \in Runs, Take(r) PROVE SessionsInv'
<1> DEFINE run == runs[r]
           n == run.at + 1
           next == [run EXCEPT !.at = n]
<1>1. run \in RunState /\ run.stage = "watching" /\ Sound(r, run, log[run.stream])
  BY DEF SessionsInv, SessionsTyped, Take
<1>2. run.stream \in Streams /\ run.from <= run.at
  BY <1>1 DEF Sound
<1>3. /\ run.at \in Nat /\ run.from \in Nat /\ source[run.stream] \in 0..MaxRecords
      /\ run.at < source[run.stream]
  BY <1>1, <1>2, SessionsConstants DEF SessionsInv, SessionsTyped, RunState, Take
<1>4. n \in 1..MaxRecords /\ n \in Nat
  BY <1>3, SessionsConstants
<1>5. RoutedTo[n] \in SUBSET Files
  BY <1>4, SessionsConstants DEF Files
<1>6. Appended(r, n, RoutedTo[n], next)
  BY DEF Take
<1> HIDE DEF n
<1>7. next \in RunState
  BY <1>1, <1>4 DEF RunState
<1>8. /\ next.stage = "watching" /\ next.stream = run.stream /\ next.open = run.open
      /\ next.buffer = run.buffer /\ next.from = run.from /\ next.at = n
  BY <1>1 DEF RunState
<1> HIDE DEF next
<1>9. Writing(next) /\ next.from <= next.at
  BY <1>2, <1>3, <1>8 DEF Writing, n
<1>10. ASSUME NEW f \in Files
       PROVE  Facts(next, f) = Facts(run, f) \cup (IF f \in RoutedTo[n] THEN {n} ELSE {})
  <2>1. Facts(run, f) = {k \in run.from + 1 .. run.at : f \in RoutedTo[k]}
    BY <1>1 DEF Facts
  <2>2. Facts(next, f) = {k \in run.from + 1 .. n : f \in RoutedTo[k]}
    BY <1>8 DEF Facts
  <2>3. run.from + 1 .. n = (run.from + 1 .. run.at) \cup {n}
    BY <1>2, <1>3 DEF n
  <2> QED BY <2>1, <2>2, <2>3
<1>11. ASSUME NEW f \in Files, NEW m \in Facts(run, f) PROVE m < n
  BY <1>1, <1>3 DEF Facts, n
<1> HIDE DEF run
<1>12. runs[r].stage = "watching"
  BY <1>1 DEF run
<1> QED BY <1>4, <1>5, <1>6, <1>7, <1>8, <1>9, <1>10, <1>11, <1>12, AppendKeeps DEF run

LEMMA FinishKeeps == ASSUME SessionsInv, NEW r \in Runs, Finish(r) PROVE SessionsInv'
<1> DEFINE run == runs[r]
           next == [run EXCEPT !.stage = "closing"]
<1>1. run \in RunState /\ run.stage = "watching" /\ Sound(r, run, log[run.stream])
  BY DEF SessionsInv, SessionsTyped, Finish
<1>2. run.from <= run.at
  BY <1>1 DEF Sound
<1>3. run.at \in 0..MaxRecords /\ run.from \in 0..MaxRecords
  BY <1>1 DEF RunState
<1>4. EndLine \in Nat /\ run.at < EndLine
  BY <1>3, SessionsConstants DEF EndLine
<1>5. Appended(r, EndLine, Files, next)
  BY DEF Finish
<1>6. next \in RunState
  BY <1>1 DEF RunState, Stages
<1>7. /\ next.stage = "closing" /\ next.stream = run.stream /\ next.open = run.open
      /\ next.buffer = run.buffer /\ next.from = run.from /\ next.at = run.at
  BY <1>1 DEF RunState
<1> HIDE DEF next
<1>8. Writing(next) /\ next.from <= next.at
  BY <1>2, <1>7 DEF Writing
<1>9. ASSUME NEW f \in Files
      PROVE  Facts(next, f) = Facts(run, f) \cup (IF f \in Files THEN {EndLine} ELSE {})
  BY <1>1, <1>7 DEF Facts
<1>10. ASSUME NEW f \in Files, NEW m \in Facts(run, f) PROVE m < EndLine
  <2>1. m \in run.from + 1 .. run.at
    BY <1>1, <1>10 DEF Facts
  <2> QED BY <1>3, <1>4, <2>1, SessionsConstants
<1> HIDE DEF run
<1>11. runs[r].stage = "watching" /\ Files \in SUBSET Files
  BY <1>1 DEF run
<1> QED BY <1>4, <1>5, <1>6, <1>7, <1>8, <1>9, <1>10, <1>11, AppendKeeps DEF run

-----------------------------------------------------------------------------
(* What is said in one part of a sequence and in the rest. *)
LEMMA SaidInParts ==
  ASSUME NEW p \in Seq(Fact), NEW q \in Seq(Fact), NEW r, OnlyOf(p \o q, r), Rising(p \o q, r)
  PROVE  /\ OnlyOf(p, r) /\ OnlyOf(q, r) /\ Rising(p, r) /\ Rising(q, r)
         /\ \A m \in Numbers(p, r), n \in Numbers(q, r) : m < n
<1> DEFINE x == p \o q
           a == Len(p)
           b == Len(q)
<1>1. a \in Nat /\ b \in Nat /\ DOMAIN p = 1..a /\ DOMAIN q = 1..b
  BY LenProperties
<1>2. /\ x \in Seq(Fact) /\ Len(x) = a + b
      /\ \A i \in 1..a + b : x[i] = IF i <= a THEN p[i] ELSE q[i - a]
  BY ConcatProperties
<1>3. DOMAIN x = 1..a + b
  BY <1>2, LenProperties
<1> HIDE DEF x, a, b
<1>4. \A i \in DOMAIN p : i \in DOMAIN x /\ x[i] = p[i] /\ i <= a /\ i \in Nat
  BY <1>1, <1>2, <1>3
<1>5. \A j \in DOMAIN q : a + j \in DOMAIN x /\ x[a + j] = q[j] /\ j \in Nat /\ j > 0
  <2> SUFFICES ASSUME NEW j \in 1..b PROVE a + j \in DOMAIN x /\ x[a + j] = q[j] /\ j \in Nat /\ j > 0
    BY <1>1
  <2>1. a + j \in 1..a + b /\ ~(a + j <= a) /\ (a + j) - a = j
    BY <1>1
  <2> QED BY <1>2, <1>3, <2>1
<1>6. OnlyOf(x, r) /\ Rising(x, r)
  BY DEF x
<1>7. OnlyOf(p, r) /\ OnlyOf(q, r)
  BY <1>4, <1>5, <1>6 DEF OnlyOf
<1>8. Rising(p, r)
  BY <1>4, <1>6 DEF Rising
<1>9. Rising(q, r)
  <2> SUFFICES ASSUME NEW i \in DOMAIN q, NEW j \in DOMAIN q, q[i][1] = r, q[j][1] = r, i < j
               PROVE  q[i][2] < q[j][2]
    BY DEF Rising
  <2>1. a + i < a + j
    BY <1>1, <1>5
  <2> QED BY <1>5, <1>6, <2>1 DEF Rising
<1>10. ASSUME NEW i \in DOMAIN p, NEW j \in DOMAIN q, p[i][1] = r, q[j][1] = r PROVE p[i][2] < q[j][2]
  <2>1. i < a + j
    BY <1>1, <1>4, <1>5
  <2> QED BY <1>4, <1>5, <1>6, <1>10, <2>1 DEF Rising
<1>11. \A m \in Numbers(p, r), n \in Numbers(q, r) : m < n
  BY <1>10 DEF Numbers
<1> QED BY <1>7, <1>8, <1>9, <1>11

(* What is buffered reaches the file, the first half of a line of what is  *)
(* left perhaps.                                                           *)
Pours(r, run, f, files, x, g, lines, half, left) ==
  /\ x.stage = run.stage /\ x.stream = run.stream /\ x.from = run.from /\ x.at = run.at
  /\ x.open = run.open /\ x.buffer = [run.buffer EXCEPT ![f] = left]
  /\ g = [files EXCEPT ![f] = Written(@, r, lines, half)]

Grown(file, r, lines, w) ==
  /\ w \in FileState /\ w.lines = file.lines \o lines /\ w.there = file.there
  /\ file.torn \subseteq {r} /\ file.garbled = FALSE => w.torn \subseteq {r} /\ w.garbled = FALSE

LEMMA WrittenIsFile ==
  ASSUME NEW r \in Runs, NEW file \in FileState, NEW lines \in Seq(Fact), NEW half
  PROVE  Grown(file, r, lines, Written(file, r, lines, half))
<1> DEFINE z == file.lines \o lines
           t == IF half THEN file.torn \cup {r} ELSE file.torn \ {r}
           d == file.garbled \/ file.torn \ {r} # {}
           w == [file EXCEPT !.lines = z, !.torn = t, !.garbled = d]
<1>1. Written(file, r, lines, half) = w
  BY DEF Written
<1>2. z \in Seq(Fact)
  BY SaidInBoth DEF FileState
<1>3. t \in SUBSET Runs
  BY DEF FileState
<1>4. d \in BOOLEAN
  OBVIOUS
<1>5. file.torn \subseteq {r} /\ file.garbled = FALSE => t \subseteq {r} /\ d = FALSE
  OBVIOUS
<1> HIDE DEF z, t, d
<1>6. w \in FileState /\ w.lines = z /\ w.there = file.there /\ w.torn = t /\ w.garbled = d
  BY <1>2, <1>3, <1>4 DEF FileState
<1> HIDE DEF w
<1>7. Grown(file, r, lines, w)
  BY <1>5, <1>6 DEF Grown, z
<1> QED BY <1>1, <1>7

LEMMA PouredIsSound ==
  ASSUME NEW r \in Runs, NEW run \in RunState, Writing(run), NEW files \in [Files -> FileState],
         Sound(r, run, files), NEW f \in Files, run.buffer[f] # <<>>, NEW lines \in Seq(Fact),
         NEW left \in Seq(Fact), NEW half, run.buffer[f] = lines \o left,
         NEW x \in RunState, NEW g, Pours(r, run, f, files, x, g, lines, half, left)
  PROVE  /\ Sound(r, x, g) /\ g \in [Files -> FileState] /\ g[f].there = TRUE
         /\ OwnedBy(files[f], r) => OwnedBy(g[f], r)
         /\ \A q \in Runs \ {r} : /\ Numbers(g[f].lines, q) = Numbers(files[f].lines, q)
                                  /\ Rising(files[f].lines, q) => Rising(g[f].lines, q)
<1> USE DEF Pours
<1> DEFINE p == files[f].lines
           b == run.buffer[f]
<1>1. p \in Seq(Fact) /\ b \in Seq(Fact) /\ files[f] \in FileState /\ b = lines \o left
  BY DEF RunState, FileState
<1>2. \A h \in Files : FileSound(r, run, h, files[h])
  BY DEF Sound
<1>3. /\ OnlyOf(b, r) /\ run.open[f] = "held" /\ files[f].there = TRUE
      /\ Numbers(p, r) \cup Numbers(b, r) = Facts(run, f)
      /\ Rising(p, r) /\ Rising(b, r)
      /\ \A m \in Numbers(p, r), n \in Numbers(b, r) : m < n
  BY <1>2 DEF FileSound
<1>4. /\ g \in [Files -> FileState] /\ g[f].lines = p \o lines /\ g[f].there = files[f].there
      /\ files[f].torn \subseteq {r} /\ files[f].garbled = FALSE =>
           g[f].torn \subseteq {r} /\ g[f].garbled = FALSE
      /\ \A h \in Files \ {f} : g[h] = files[h]
  <2> DEFINE w == Written(files[f], r, lines, half)
  <2>1. /\ w \in FileState /\ w.lines = p \o lines /\ w.there = files[f].there
        /\ files[f].torn \subseteq {r} /\ files[f].garbled = FALSE =>
             w.torn \subseteq {r} /\ w.garbled = FALSE
    <3>1. Grown(files[f], r, lines, w)
      BY <1>1, WrittenIsFile
    <3> HIDE DEF w
    <3> QED BY <3>1 DEF Grown
  <2>2. g = [files EXCEPT ![f] = w]
    OBVIOUS
  <2> HIDE DEF w
  <2>3. g \in [Files -> FileState] /\ g[f] = w /\ \A h \in Files \ {f} : g[h] = files[h]
    BY <2>1, <2>2
  <2> QED BY <2>1, <2>3
<1>5. \A h \in Files : Facts(x, h) = Facts(run, h)
  BY DEF Facts
<1>6. x.buffer[f] = left /\ \A h \in Files \ {f} : x.buffer[h] = run.buffer[h]
  BY DEF RunState
<1> HIDE DEF p, b
<1>7. /\ OnlyOf(lines, r) /\ OnlyOf(left, r) /\ Rising(lines, r) /\ Rising(left, r)
      /\ \A m \in Numbers(lines, r), n \in Numbers(left, r) : m < n
  BY <1>1, <1>3, SaidInParts
<1>8. Numbers(b, r) = Numbers(lines, r) \cup Numbers(left, r)
  BY <1>1, SaidInBoth
<1>9. \A m \in Numbers(p, r), n \in Numbers(lines, r) : m < n
  BY <1>3, <1>8
<1>10. /\ Numbers(p \o lines, r) = Numbers(p, r) \cup Numbers(lines, r) /\ Rising(p \o lines, r)
       /\ OnlyOf(p, r) => OnlyOf(p \o lines, r)
  BY <1>1, <1>3, <1>7, <1>9, SaidInBoth
<1>11. /\ Numbers(p \o lines, r) \cup Numbers(left, r) = Facts(run, f)
       /\ \A m \in Numbers(p \o lines, r), n \in Numbers(left, r) : m < n
  BY <1>3, <1>7, <1>8, <1>10
<1>12. FileSound(r, x, f, g[f])
  <2>1. x.open[f] = "held"
    BY <1>3
  <2> QED BY <1>3, <1>4, <1>5, <1>6, <1>7, <1>10, <1>11, <2>1 DEF FileSound
<1>13. \A h \in Files \ {f} : FileSound(r, x, h, g[h])
  BY <1>2, <1>4, <1>5, <1>6 DEF FileSound
<1>14. Sound(r, x, g)
  BY <1>12, <1>13 DEF Sound, Writing
<1>15. ASSUME NEW q \in Runs \ {r}
       PROVE  Numbers(p \o lines, q) = Numbers(p, q) /\ (Rising(p, q) => Rising(p \o lines, q))
  <2>1. Numbers(lines, q) = {} /\ Rising(lines, q)
    BY <1>7, SaidByAnother
  <2>2. Numbers(p \o lines, q) = Numbers(p, q) \cup Numbers(lines, q)
    BY <1>1, SaidInBoth
  <2>3. \A m \in Numbers(p, q), n \in Numbers(lines, q) : m < n
    BY <2>1
  <2>4. Rising(p, q) => Rising(p \o lines, q)
    BY <1>1, <2>1, <2>3, SaidInBoth
  <2> QED BY <2>1, <2>2, <2>4
<1>16. OwnedBy(files[f], r) => OwnedBy(g[f], r)
  BY <1>4, <1>10 DEF OwnedBy, p
<1> QED BY <1>3, <1>4, <1>14, <1>15, <1>16 DEF p

LEMMA PourKeeps ==
  ASSUME SessionsInv, NEW r \in Runs, NEW f \in Files, NEW lines \in Seq(Fact), NEW left \in Seq(Fact),
         NEW half, runs[r].buffer[f] # <<>>, runs[r].buffer[f] = lines \o left,
         Writes(r, f, lines, half, left)
  PROVE  SessionsInv'
<1> DEFINE run == runs[r]
           s == run.stream
           files == log[s]
           g == [files EXCEPT ![f] = Written(@, r, lines, half)]
           x == [run EXCEPT !.buffer[f] = left]
<1>1. run \in RunState /\ Writing(run) /\ Sound(r, run, files) /\ run.buffer[f] # <<>>
  BY DEF SessionsInv, SessionsTyped, Writes, Writing
<1>2. s \in Streams /\ files \in [Files -> FileState]
  BY <1>1 DEF Sound, Writing, SessionsInv, SessionsTyped
<1>3. runs' = [runs EXCEPT ![r] = x] /\ log' = [log EXCEPT ![s] = g]
  BY DEF Writes, Step
<1>4. UNCHANGED source /\ UNCHANGED shared
  BY DEF Writes, SourcesStay
<1>5. /\ x \in RunState /\ x.stage = run.stage /\ x.stream = s /\ x.from = run.from /\ x.at = run.at
      /\ x.open = run.open /\ x.buffer = [run.buffer EXCEPT ![f] = left] /\ x.pending = run.pending
  BY <1>1 DEF RunState
<1>6. /\ Sound(r, x, g) /\ g \in [Files -> FileState] /\ g[f].there = TRUE
      /\ OwnedBy(files[f], r) => OwnedBy(g[f], r)
      /\ \A q \in Runs \ {r} : /\ Numbers(g[f].lines, q) = Numbers(files[f].lines, q)
                               /\ Rising(files[f].lines, q) => Rising(g[f].lines, q)
  <2>1. Pours(r, run, f, files, x, g, lines, half, left)
    BY <1>5 DEF Pours
  <2>2. run.buffer[f] = lines \o left
    OBVIOUS
  <2> HIDE DEF run, files, x, g
  <2> QED BY <1>1, <1>2, <1>5, <2>1, <2>2, PouredIsSound
<1>7. \A h \in Files \ {f} : g[h] = files[h]
  BY <1>2
<1> HIDE DEF g, x, files
<1>8. runs' \in [Runs -> RunState] /\ runs'[r] = x /\ \A q \in Runs \ {r} : runs'[q] = runs[q]
  BY <1>3, <1>5 DEF SessionsInv, SessionsTyped
<1>9. /\ log' \in [Streams -> [Files -> FileState]] /\ log'[s] = g
      /\ \A t : t # s => log'[t] = log[t]
  BY <1>2, <1>3, <1>6 DEF SessionsInv, SessionsTyped
<1>10. SessionsTyped'
  BY <1>4, <1>8, <1>9 DEF SessionsInv, SessionsTyped
<1>11. AbsentIsEmpty'
  <2> SUFFICES ASSUME NEW t \in Streams, NEW h \in Files, ~log'[t][h].there
               PROVE  log'[t][h] = NoFile
    BY DEF AbsentIsEmpty
  <2>1. CASE t = s /\ h = f
    BY <1>6, <1>9, <2>1
  <2>2. CASE t = s /\ h # f
    BY <1>7, <1>9, <2>2 DEF SessionsInv, AbsentIsEmpty, files
  <2>3. CASE t # s
    BY <1>9, <2>3 DEF SessionsInv, AbsentIsEmpty
  <2> QED BY <2>1, <2>2, <2>3
<1>12. ASSUME NEW q \in Runs PROVE Sound(q, runs'[q], log'[runs'[q].stream])
  <2>1. CASE q = r
    BY <1>5, <1>6, <1>8, <1>9, <2>1
  <2>2. CASE q # r
    <3>1. runs'[q] = runs[q] /\ Sound(q, runs[q], log[runs[q].stream])
      BY <1>8, <2>2 DEF SessionsInv
    <3>2. CASE runs[q].stream = s
      <4>1. Sound(q, runs'[q], files) /\ log'[runs'[q].stream] = g
        BY <1>9, <3>1, <3>2 DEF files
      <4>2. \A h \in Files : /\ Numbers(g[h].lines, q) = Numbers(files[h].lines, q)
                             /\ Rising(files[h].lines, q) => Rising(g[h].lines, q)
                             /\ files[h].there = TRUE => g[h].there = TRUE
        BY <1>6, <1>7, <2>2
      <4> QED BY <4>1, <4>2, SoundElsewhere
    <3>3. CASE runs[q].stream # s
      BY <1>9, <3>1, <3>3
    <3> QED BY <3>2, <3>3
  <2> QED BY <2>1, <2>2
<1>13. ASSUME NEW t \in Streams \ shared' PROVE Alone(runs', log'[t], t)
  <2>1. Alone(runs, log[t], t)
    BY <1>4, <1>13 DEF SessionsInv
  <2>2. \A q \in Runs : NoNewHold(runs'[q], runs[q], t)
    <3>1. NoNewHold(x, run, t)
      BY <1>1, <1>5 DEF NoNewHold, Holds
    <3> QED BY <1>8, <3>1, SameHold
  <2>3. Alone(runs', log[t], t)
    BY <2>1, <2>2, AloneStays
  <2>4. CASE t # s
    BY <1>9, <2>3, <2>4
  <2>5. CASE t = s
    <3>1. Holds(runs'[r], s) /\ Writing(runs'[r]) /\ runs'[r].stage # "removing"
      BY <1>1, <1>5, <1>8 DEF Holds, Writing
    <3>2. Alone(runs', files, s) /\ log'[t] = g
      BY <1>9, <2>3, <2>5 DEF files
    <3>3. \A p, q \in Runs : Holds(runs'[p], s) /\ Holds(runs'[q], s) => p = q
      BY <3>2 DEF Alone
    <3>4. \A q \in Runs : Holds(runs'[q], s) => q = r
      BY <3>1, <3>3
    <3>5. PICK o \in Runs :
            /\ \A h \in Files : OwnedBy(files[h], o)
            /\ \A q \in Runs : Holds(runs'[q], s) /\ Writing(runs'[q]) => q = o
      BY <3>2 DEF Alone
    <3>6. o = r
      BY <3>1, <3>5
    <3>7. \A h \in Files : OwnedBy(g[h], r)
      BY <1>6, <1>7, <3>5, <3>6
    <3>8. \A q \in Runs : ~(Holds(runs'[q], s) /\ runs'[q].stage = "removing")
      BY <3>1, <3>4
    <3>9. Alone(runs', g, s)
      BY <3>3, <3>4, <3>7, <3>8 DEF Alone
    <3> QED BY <2>5, <3>2, <3>9
  <2> QED BY <2>4, <2>5
<1> QED BY <1>10, <1>11, <1>12, <1>13 DEF SessionsInv

LEMMA FrontAndLast ==
  ASSUME NEW q \in Seq(Fact), q # <<>>
  PROVE  Front(q) \in Seq(Fact) /\ <<Last(q)>> \in Seq(Fact) /\ Front(q) \o <<Last(q)>> = q
<1>1. Len(q) \in Nat \ {0} /\ q[Len(q)] \in Fact
  OBVIOUS
<1> DEFINE n == Len(q)
           p == SubSeq(q, 1, n - 1)
           e == q[n]
<1>2. Front(q) = p /\ Last(q) = e
  BY DEF Front, Last
<1>3. p \in Seq(Fact) /\ Len(p) = n - 1 /\ \A i \in 1..n - 1 : p[i] = q[i]
  <2> HIDE DEF n
  <2>1. n - 1 \in Nat /\ n - 1 <= n /\ \A i \in 1..n - 1 : q[i] \in Fact
    BY <1>1 DEF n
  <2>2. p = [i \in 1..n - 1 |-> q[i]]
    BY <2>1
  <2> QED BY <2>1, <2>2
<1>4. <<e>> \in Seq(Fact)
  BY <1>1
<1> HIDE DEF n, p, e
<1>5. p \o <<e>> = q
  BY <1>1, <1>3, <1>4 DEF n, e
<1> QED BY <1>2, <1>3, <1>4, <1>5

LEMMA FlushKeeps ==
  ASSUME SessionsInv, NEW r \in Runs, NEW f \in Files, FlushFile(r, f) \/ FillBuffer(r, f)
  PROVE  SessionsInv'
<1> DEFINE b == runs[r].buffer[f]
<1>1. b \in Seq(Fact) /\ b # <<>> /\ <<>> \in Seq(Fact)
  <2>1. runs[r] \in RunState
    BY DEF SessionsInv, SessionsTyped
  <2>2. b \in Seq(Fact)
    BY <2>1 DEF RunState
  <2>3. b # <<>>
    BY DEF FlushFile, FillBuffer
  <2> QED BY <2>2, <2>3
<1>2. CASE FlushFile(r, f)
  <2>1. Writes(r, f, b, FALSE, <<>>)
    BY <1>2 DEF FlushFile
  <2>2. b = b \o <<>>
    BY <1>1
  <2> QED BY <1>1, <2>1, <2>2, PourKeeps
<1>3. CASE FillBuffer(r, f)
  <2> DEFINE lines == Front(b)
             left == <<Last(b)>>
  <2>1. Writes(r, f, lines, TRUE, left)
    BY <1>3 DEF FillBuffer
  <2>2. lines \in Seq(Fact) /\ left \in Seq(Fact) /\ b = lines \o left
    BY <1>1, FrontAndLast
  <2> HIDE DEF lines, left
  <2> QED BY <1>1, <2>1, <2>2, PourKeeps
<1> QED BY <1>2, <1>3


-----------------------------------------------------------------------------
(* A file is removed under those who hold it. *)
LEMMA OrphanedIsSound ==
  ASSUME NEW q \in Runs, NEW run \in RunState, NEW s, run.stream = s, NEW files, Sound(q, run, files),
         NEW f, NEW g, \A h \in Files : g[h] = IF h = f THEN NoFile ELSE files[h]
  PROVE  Sound(q, Orphaned(run, s, f), g)
<1> DEFINE y == Orphaned(run, s, f)
<1>1. \A h \in Files : g[h].lines = IF h = f THEN <<>> ELSE files[h].lines
  BY DEF NoFile
<1>2. CASE ~Writing(run)
  <2>1. run.open = NothingOpen /\ run.buffer = NothingBuffered
    BY <1>2 DEF Sound
  <2>2. CASE f \in Files
    <3>1. run.open[f] = "closed"
      BY <2>1, <2>2 DEF NothingOpen
    <3>2. y = run
      BY <3>1 DEF Orphaned
    <3>3. \A h \in Files : Numbers(files[h].lines, q) = {} => Numbers(g[h].lines, q) = {}
      BY <1>1, NothingSaid
    <3> QED BY <1>2, <3>2, <3>3 DEF Sound
  <2>3. CASE f \notin Files
    <3>1. /\ y.stage = run.stage /\ y.stream = run.stream /\ y.from = run.from /\ y.at = run.at
          /\ y.pending = run.pending /\ y.open = run.open /\ y.buffer = run.buffer
      BY <2>3 DEF Orphaned, RunState
    <3>2. \A h \in Files : g[h] = files[h]
      BY <2>3
    <3> QED BY <1>2, <3>1, <3>2 DEF Sound, Writing
  <2> QED BY <2>2, <2>3
<1>3. CASE Writing(run)
  <2>1. /\ y.stage = run.stage /\ y.stream = run.stream /\ y.from = run.from /\ y.at = run.at
        /\ \A h \in Files \ {f} : y.open[h] = run.open[h] /\ y.buffer[h] = run.buffer[h]
    BY DEF Orphaned, RunState
  <2>2. Writing(y) /\ \A h \in Files : Facts(y, h) = Facts(run, h)
    BY <1>3, <2>1 DEF Writing, Facts
  <2>3. \A h \in Files : FileSound(q, run, h, files[h])
    BY <1>3 DEF Sound
  <2>4. ASSUME NEW h \in Files PROVE FileSound(q, y, h, g[h])
    <3>1. CASE h # f
      BY <2>1, <2>2, <2>3, <3>1 DEF FileSound
    <3>2. CASE h = f /\ run.open[h] = "held"
      <4>1. y.open[h] = "orphan" /\ y.buffer[h] = <<>>
        BY <3>2 DEF Orphaned, RunState
      <4> QED BY <4>1, NothingSaid DEF FileSound
    <3>3. CASE h = f /\ run.open[h] # "held"
      <4>1. y = run
        BY <3>3 DEF Orphaned
      <4>2. Numbers(g[h].lines, q) = {}
        BY <1>1, <3>3, NothingSaid
      <4> QED BY <2>2, <2>3, <3>3, <4>1, <4>2 DEF FileSound
    <3> QED BY <3>1, <3>2, <3>3
  <2> QED BY <1>3, <2>1, <2>2, <2>4 DEF Sound, Writing
<1> QED BY <1>2, <1>3

LEMMA OrphanedIsRun ==
  ASSUME NEW run \in RunState, NEW s, NEW f
  PROVE  /\ Orphaned(run, s, f) \in RunState
         /\ Orphaned(run, s, f).stage = run.stage /\ Orphaned(run, s, f).stream = run.stream
         /\ Orphaned(run, s, f).pending = run.pending
         /\ run.stream # s => Orphaned(run, s, f) = run
<1>1. CASE Orphaned(run, s, f) = run
  BY <1>1
<1>2. CASE Orphaned(run, s, f) = [run EXCEPT !.open[f] = "orphan", !.buffer[f] = <<>>] /\ run.stream = s
  <2>1. [run.open EXCEPT ![f] = "orphan"] \in [Files -> {"closed", "held", "orphan"}]
    BY DEF RunState
  <2>2. [run.buffer EXCEPT ![f] = <<>>] \in [Files -> Seq(Fact)]
    <3>1. <<>> \in Seq(Fact)
      OBVIOUS
    <3> QED BY <3>1 DEF RunState
  <2> DEFINE o == [run.open EXCEPT ![f] = "orphan"]
             b == [run.buffer EXCEPT ![f] = <<>>]
             y == [run EXCEPT !.open = o, !.buffer = b]
  <2>3. Orphaned(run, s, f) = y
    BY <1>2
  <2> HIDE DEF o, b
  <2>4. y \in RunState /\ y.stage = run.stage /\ y.stream = run.stream /\ y.pending = run.pending
    BY <2>1, <2>2 DEF RunState, o, b
  <2> QED BY <1>2, <2>3, <2>4
<1> QED BY <1>1, <1>2 DEF Orphaned

LEMMA RemoveKeeps == ASSUME SessionsInv, NEW r \in Runs, RemoveFile(r) PROVE SessionsInv'
<1> DEFINE run == runs[r]
           s == run.stream
           files == log[s]
           f == SelectSeq(EventFiles, LAMBDA g : g \in runs[r].pending)[1]
           rest == run.pending \ {f}
           g == [files EXCEPT ![f] = NoFile]
           x == IF rest = {} THEN [Opened(run) EXCEPT !.pending = {}] ELSE [run EXCEPT !.pending = rest]
<1>1. run \in RunState /\ Sound(r, run, files) /\ run.stage = "removing"
  BY DEF SessionsInv, SessionsTyped, RemoveFile
<1>2. /\ s \in Streams /\ files \in [Files -> FileState] /\ run.pending \subseteq Files
      /\ run.open = NothingOpen /\ run.buffer = NothingBuffered /\ run.at = run.from
      /\ \A h \in Files \ run.pending : Numbers(files[h].lines, r) = {}
  BY <1>1 DEF Sound, Writing, SessionsInv, SessionsTyped, RunState
<1>3. /\ log' = [log EXCEPT ![s] = g]
      /\ runs' = [q \in Runs |-> IF q # r THEN Orphaned(runs[q], s, f) ELSE x]
      /\ UNCHANGED source
      /\ shared' = IF HeldByAnother(r, s) \/ \E h \in Files \ {f} : ~Blank(log[s][h])
                   THEN shared ELSE shared \ {s}
  BY DEF RemoveFile, SourcesStay
<1> HIDE DEF f
<1>4. /\ g \in [Files -> FileState]
      /\ \A h \in Files : g[h] = IF h = f THEN NoFile ELSE files[h]
  <2>1. NoFile \in FileState
    BY DEF NoFile, FileState
  <2> QED BY <1>2, <2>1
<1>5. /\ \A h \in Files : g[h].lines = IF h = f THEN <<>> ELSE files[h].lines
      /\ \A h \in Files : g[h] = files[h] \/ Blank(g[h])
      /\ f \in Files => Blank(g[f])
  BY <1>4 DEF NoFile, Blank
<1>6. /\ x \in RunState /\ x.stream = s /\ x.from = run.from /\ x.at = run.at
      /\ x.open = run.open /\ x.buffer = run.buffer
      /\ rest = {} => x.stage = "watching"
      /\ rest # {} => x.stage = "removing" /\ x.pending = rest
  <2>1. CASE rest = {}
    <3>1. Opened(run) \in RunState
      BY <1>1 DEF Opened, RunState, Stages
    <3> DEFINE w == Opened(run)
               y == [w EXCEPT !.pending = {}]
    <3>2. /\ w.stage = "watching" /\ w.stream = s /\ w.from = run.from /\ w.at = run.at
          /\ w.open = run.open /\ w.buffer = run.buffer
      BY <1>1 DEF Opened, RunState
    <3>3. x = y
      BY <2>1
    <3> HIDE DEF w
    <3>4. {} \in SUBSET Files
      OBVIOUS
    <3>5. y \in RunState /\ y.stage = w.stage /\ y.stream = w.stream /\ y.from = w.from /\ y.at = w.at
          /\ y.open = w.open /\ y.buffer = w.buffer
      BY <3>1, <3>4 DEF RunState, w
    <3> HIDE DEF x, y, rest
    <3> QED BY <2>1, <3>2, <3>3, <3>5
  <2>2. CASE rest # {}
    <3>1. rest \in SUBSET Files
      BY <1>2
    <3> HIDE DEF rest
    <3> QED BY <1>1, <2>2, <3>1 DEF RunState
  <2> QED BY <2>1, <2>2
<1> HIDE DEF g, x
<1>7. Sound(r, x, g)
  <2>1. \A h \in Files \ rest : Numbers(g[h].lines, r) = {}
    BY <1>2, <1>5, NothingSaid
  <2>2. CASE rest = {}
    BY <1>1, <1>2, <1>6, <2>1, <2>2, OpenedIsSound
  <2>3. CASE rest # {}
    BY <1>1, <1>2, <1>6, <2>1, <2>3 DEF Sound, Writing
  <2> QED BY <2>2, <2>3
<1>8. /\ runs' \in [Runs -> RunState] /\ runs'[r] = x
      /\ \A q \in Runs \ {r} : runs'[q] = Orphaned(runs[q], s, f)
  <2>1. \A q \in Runs : Orphaned(runs[q], s, f) \in RunState
    BY OrphanedIsRun DEF SessionsInv, SessionsTyped
  <2> QED BY <1>3, <1>6, <2>1
<1>9. /\ log' \in [Streams -> [Files -> FileState]] /\ log'[s] = g
      /\ \A t : t # s => log'[t] = log[t]
  BY <1>2, <1>3, <1>4 DEF SessionsInv, SessionsTyped
<1>10. /\ shared' \subseteq Streams /\ \A t \in Streams \ {s} : t \in shared' <=> t \in shared
  BY <1>3 DEF SessionsInv, SessionsTyped
<1>11. SessionsTyped'
  BY <1>3, <1>8, <1>9, <1>10 DEF SessionsInv, SessionsTyped
<1>12. AbsentIsEmpty'
  <2> SUFFICES ASSUME NEW t \in Streams, NEW h \in Files, ~log'[t][h].there
               PROVE  log'[t][h] = NoFile
    BY DEF AbsentIsEmpty
  <2>1. CASE t = s /\ h = f
    BY <1>4, <1>9, <2>1
  <2>2. CASE t = s /\ h # f
    BY <1>4, <1>9, <2>2 DEF SessionsInv, AbsentIsEmpty
  <2>3. CASE t # s
    BY <1>9, <2>3 DEF SessionsInv, AbsentIsEmpty
  <2> QED BY <2>1, <2>2, <2>3
<1>13. \A q \in Runs \ {r} :
         /\ runs'[q].stage = runs[q].stage /\ runs'[q].stream = runs[q].stream
         /\ runs'[q].pending = runs[q].pending
         /\ runs[q].stream # s => runs'[q] = runs[q]
  BY <1>8, OrphanedIsRun DEF SessionsInv, SessionsTyped
<1>14. ASSUME NEW q \in Runs PROVE Sound(q, runs'[q], log'[runs'[q].stream])
  <2>1. CASE q = r
    BY <1>6, <1>7, <1>8, <1>9, <2>1
  <2>2. CASE q # r
    <3>1. runs[q] \in RunState /\ Sound(q, runs[q], log[runs[q].stream])
      BY DEF SessionsInv, SessionsTyped
    <3>2. CASE runs[q].stream = s
      <4>1. Sound(q, runs[q], files)
        BY <3>1, <3>2
      <4>2. Sound(q, runs'[q], g)
        <5> DEFINE one == runs[q]
                   z == s
        <5>1. one \in RunState /\ one.stream = z /\ Sound(q, one, files)
          BY <3>1, <3>2, <4>1
        <5>2. \A h \in Files : g[h] = IF h = f THEN NoFile ELSE files[h]
          BY <1>4
        <5>3. runs'[q] = Orphaned(one, z, f)
          BY <1>8, <2>2
        <5> HIDE DEF files, one, z
        <5>4. Sound(q, Orphaned(one, z, f), g)
          BY <5>1, <5>2, OrphanedIsSound
        <5> QED BY <5>3, <5>4
      <4>3. log'[runs'[q].stream] = g
        BY <1>9, <1>13, <2>2, <3>2
      <4> QED BY <4>2, <4>3
    <3>3. CASE runs[q].stream # s
      BY <1>9, <1>13, <2>2, <3>1, <3>3
    <3> QED BY <3>2, <3>3
  <2> QED BY <2>1, <2>2
<1>15. ASSUME NEW t \in Streams \ shared', t # s PROVE Alone(runs', log'[t], t)
  <2>1. Alone(runs, log[t], t) /\ log'[t] = log[t]
    BY <1>9, <1>10, <1>15 DEF SessionsInv
  <2>2. ASSUME NEW q \in Runs PROVE NoNewHold(runs'[q], runs[q], t)
    <3>1. CASE q = r
      BY <1>6, <1>8, <1>15, <3>1 DEF NoNewHold, Holds
    <3>2. CASE q # r
      BY <1>13, <3>2 DEF NoNewHold, Holds, Writing
    <3> QED BY <3>1, <3>2
  <2> QED BY <2>1, <2>2, AloneStays
<1>16. ASSUME s \notin shared' PROVE Alone(runs', g, s)
  <2>1. CASE s \in shared
    <3>1. ~HeldByAnother(r, s) /\ \A h \in Files \ {f} : Blank(files[h])
      BY <1>3, <1>16, <2>1
    <3>2. \A h \in Files : Blank(g[h])
      BY <1>4, <1>5, <3>1
    <3>3. \A q \in Runs \ {r} : ~Holds(runs[q], s)
      BY <3>1, NobodyElseHolds
    <3>4. \A q \in Runs \ {r} : ~Holds(runs'[q], s)
      BY <1>13, <3>3 DEF Holds
    <3> QED BY <3>2, <3>4, AloneAtFirst
  <2>2. CASE s \notin shared
    <3>1. Alone(runs, files, s)
      BY <1>2, <2>2 DEF SessionsInv
    <3>2. Holds(runs[r], s)
      BY <1>1 DEF Holds
    <3>3. \A q \in Runs \ {r} : ~Holds(runs[q], s)
      BY <3>1, <3>2 DEF Alone
    <3>4. \A q \in Runs \ {r} : ~Holds(runs'[q], s)
      BY <1>13, <3>3 DEF Holds
    <3>5. \A h \in Files \ run.pending : Blank(files[h])
      BY <1>1, <3>1, <3>2 DEF Alone
    <3>6. \A h \in Files \ rest : Blank(g[h])
      BY <1>4, <1>5, <3>5
    <3>7. CASE rest = {}
      BY <3>4, <3>6, <3>7, AloneAtFirst
    <3>8. CASE rest # {}
      <4>1. ~Writing(x) /\ x.pending = rest
        BY <1>6, <3>8 DEF Writing
      <4>2. PICK o \in Runs : \A h \in Files : OwnedBy(files[h], o)
        BY <3>1 DEF Alone
      <4>3. \A h \in Files : OwnedBy(g[h], o)
        BY <1>5, <4>2, BlankIsOwned
      <4>4. \A q \in Runs : Holds(runs'[q], s) => q = r /\ runs'[q] = x
        BY <1>8, <3>4
      <4> QED BY <3>6, <4>1, <4>3, <4>4 DEF Alone
    <3> QED BY <3>7, <3>8
  <2> QED BY <2>1, <2>2
<1>17. \A t \in Streams \ shared' : Alone(runs', log'[t], t)
  BY <1>9, <1>15, <1>16
<1> QED BY <1>11, <1>12, <1>14, <1>17 DEF SessionsInv

LEMMA SessionsInductive ==
  ASSUME SessionsInv, [SessionsNext]_sessionsVars
  PROVE  SessionsInv'
<1>1. CASE \E s \in Streams : AgentWrites(s)
  BY <1>1, SourcesKeep
<1>2. CASE \E p \in Panes : PaneTurns(p)
  BY <1>2, SourcesKeep
<1>3. ASSUME NEW r \in Runs, Start(r) \/ MonitorStep(r) \/ Interrupt(r) PROVE SessionsInv'
  BY <1>3, StartKeeps, SignalKeeps
<1>4. ASSUME NEW r \in Runs, RunStep(r) PROVE SessionsInv'
  <2>1. CASE ResolvePane(r)
    BY <2>1, ResolveKeeps
  <2>2. CASE GiveUpPane(r)
    BY <2>2, LeavingKeeps DEF GiveUpPane
  <2>3. CASE Open(r)
    BY <2>3, OpenKeeps
  <2>4. CASE RemoveFile(r)
    BY <2>4, RemoveKeeps
  <2>5. CASE Take(r)
    BY <2>5, TakeKeeps
  <2>6. CASE \E f \in Files : FlushFile(r, f) \/ FillBuffer(r, f)
    BY <2>6, FlushKeeps
  <2>7. CASE Finish(r)
    BY <2>7, FinishKeeps
  <2>8. CASE Close(r)
    BY <2>8, CloseKeeps
  <2> QED BY <1>4, <2>1, <2>2, <2>3, <2>4, <2>5, <2>6, <2>7, <2>8 DEF RunStep
<1>5. ASSUME NEW r \in Runs, Crash(r) PROVE SessionsInv'
  BY <1>5, LeavingKeeps DEF Crash
<1>6. CASE UNCHANGED sessionsVars
  BY <1>6 DEF sessionsVars, SessionsInv, SessionsTyped, AbsentIsEmpty
<1> QED BY <1>1, <1>2, <1>3, <1>4, <1>5, <1>6 DEF SessionsNext

(* Whatever runs are started, interrupted or killed, and whoever removes   *)
(* files under whom, a run finds in the files it still holds everything it *)
(* said, once and in order, and in a directory that no two runs had open   *)
(* together there is one replay (store/session.go, jsonl.go).              *)
THEOREM EventsAreOfOneRun == SessionsSpec => []EventsAreOneRunsReplay
<1>1. SessionsInit => SessionsInv
  BY SessionsInitially
<1>2. SessionsInv /\ [SessionsNext]_sessionsVars => SessionsInv'
  BY SessionsInductive
<1>3. SessionsInv => EventsAreOneRunsReplay
  BY SoundIsComplete, AloneIsOnce DEF EventsAreOneRunsReplay
<1> QED BY <1>1, <1>2, <1>3, PTL DEF SessionsSpec
=============================================================================
