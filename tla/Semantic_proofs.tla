---------------------------- MODULE Semantic_proofs ----------------------------
(***************************************************************************)
(* What holds of the semantic evidence for every source, every model,      *)
(* every set of observers and every replay of the session.                 *)
(*                                                                         *)
(* Two definitions of the model run over a sequence: the tiling of an      *)
(* answer's spans, and the projection of a replay.  Both are recursive     *)
(* functions of how far they have come; by induction on the numbers        *)
(* (NumbersAreReached) such a function exists, and what one step of it     *)
(* keeps holds at its end: a tiling covers the turn (TileCovers), and a    *)
(* projection classifies each record by what the evidence licenses         *)
(* (ProjectionProjects).  The invariant is what is known of the jobs and   *)
(* the completions these are made from (SemanticInv).                      *)
(***************************************************************************)
EXTENDS Semantic, FiniteSetTheorems, WellFoundedInduction, TLAPS

(* A sequence of whatever it holds. *)
IsSeq(q) == q \in Seq({q[i] : i \in DOMAIN q})

(* What appending to one makes of it. *)
Grown(q, e, r) ==
  /\ IsSeq(r) /\ Len(r) = Len(q) + 1 /\ Len(q) \in Nat
  /\ DOMAIN q = 1..Len(q) /\ DOMAIN r = 1..Len(q) + 1
  /\ r[Len(q) + 1] = e
  /\ \A i \in 1..Len(q) : r[i] = q[i]

LEMMA AppendKeeps ==
  ASSUME NEW q, IsSeq(q), NEW e, NEW r, r = Append(q, e)
  PROVE  Grown(q, e, r)
<1> DEFINE S == {q[i] : i \in DOMAIN q} \cup {e}
<1>1. q \in Seq(S) /\ e \in S
  BY DEF IsSeq
<1> HIDE DEF S
<1>2. r \in Seq(S) /\ Len(r) = Len(q) + 1 /\ Len(q) \in Nat /\ r[Len(q) + 1] = e
        /\ DOMAIN q = 1..Len(q) /\ DOMAIN r = 1..Len(q) + 1 /\ \A i \in 1..Len(q) : r[i] = q[i]
  BY <1>1
<1>3. IsSeq(r)
  BY <1>2 DEF IsSeq
<1> QED BY <1>2, <1>3 DEF Grown

LEMMA SeqIsSeq == ASSUME NEW S, NEW q \in Seq(S) PROVE IsSeq(q)
  BY DEF IsSeq

(* Induction on the numbers, for a set of them. *)
LEMMA NumbersAreReached ==
  ASSUME NEW S, 0 \in S, \A n \in Nat : n \in S => n + 1 \in S
  PROVE  \A n \in Nat : n \in S
<1> DEFINE T == {n \in Nat : n \notin S}
           R == OpToRel(<, Nat)
<1>1. IsWellFoundedOn(R, Nat)
  BY NatLessThanWellFounded
<1>2. SUFFICES ASSUME T # {} PROVE FALSE
  OBVIOUS
<1>3. T \subseteq Nat
  OBVIOUS
<1> HIDE DEF R, T
<1>4. PICK x \in T : \A y \in T : ~ (<<y, x>> \in R)
  BY <1>1, <1>2, <1>3, WFMin
<1>5. x \in Nat /\ x \notin S /\ x # 0
  BY <1>4 DEF T
<1>6. x - 1 \in Nat /\ x - 1 < x /\ (x - 1) + 1 = x
  BY <1>5
<1>7. x - 1 \in T
  BY <1>5, <1>6 DEF T
<1>8. <<x - 1, x>> \in R
  BY <1>5, <1>6 DEF R, OpToRel
<1> QED
  BY <1>4, <1>7, <1>8

(* A recursive definition over the numbers up to a bound denotes a         *)
(* function: tiling.                                                       *)
TilesUpTo(f, spans, k) ==
  f = [n \in 0..k |-> IF n = 0 THEN <<>> ELSE f[n - 1] \o Piece(spans, n)]

LEMMA TilingGoesOn ==
  ASSUME NEW spans, NEW k \in Nat, NEW f, TilesUpTo(f, spans, k)
  PROVE  \E g : TilesUpTo(g, spans, k + 1)
<1> DEFINE P(n) == Piece(spans, n)
           g == [n \in 0..k + 1 |-> IF n <= k THEN f[n] ELSE f[k] \o P(k + 1)]
<1> HIDE DEF P
<1>1. f = [n \in 0..k |-> IF n = 0 THEN <<>> ELSE f[n - 1] \o P(n)]
  BY DEF TilesUpTo, P
<1>2. \A n \in 0..k : f[n] = IF n = 0 THEN <<>> ELSE f[n - 1] \o P(n)
  BY <1>1
<1>3. ASSUME NEW n \in 0..k + 1
      PROVE  g[n] = IF n = 0 THEN <<>> ELSE g[n - 1] \o P(n)
  <2>1. CASE n <= k
    <3>1. n \in 0..k /\ g[n] = f[n]
      BY <2>1
    <3>2. f[n] = IF n = 0 THEN <<>> ELSE f[n - 1] \o P(n)
      BY <3>1, <1>2
    <3>3. CASE n = 0
      BY <3>1, <3>2, <3>3
    <3>4. CASE n # 0
      <4>1. n - 1 \in 0..k + 1 /\ n - 1 <= k
        BY <2>1, <3>4
      <4>2. g[n - 1] = f[n - 1]
        BY <4>1
      <4> HIDE DEF g
      <4>3. f[n] = f[n - 1] \o P(n)
        BY <3>2, <3>4, Zenon
      <4> QED BY <3>1, <3>4, <4>2, <4>3, Zenon
    <3> QED BY <3>3, <3>4
  <2>2. CASE n = k + 1
    <3>1. k + 1 \in 0..k + 1 /\ ~(k + 1 <= k) /\ k + 1 # 0
      OBVIOUS
    <3>2. g[k + 1] = f[k] \o P(k + 1)
      BY <3>1, Zenon
    <3>3. k \in 0..k + 1 /\ k <= k /\ n - 1 = k
      BY <2>2
    <3>4. g[k] = f[k]
      BY <3>3, Zenon
    <3> HIDE DEF g
    <3> QED BY <3>1, <3>2, <3>3, <3>4, <2>2, Zenon
  <2> QED BY <2>1, <2>2
<1>4. g = [n \in 0..k + 1 |-> g[n]]
  OBVIOUS
<1>5. g = [n \in 0..k + 1 |-> IF n = 0 THEN <<>> ELSE g[n - 1] \o P(n)]
  <2> HIDE DEF g
  <2> QED BY <1>3, <1>4, Zenon
<1> QED BY <1>5 DEF TilesUpTo, P

LEMMA TilingIsDefined ==
  ASSUME NEW spans, NEW N \in Nat
  PROVE  \E f : TilesUpTo(f, spans, N)
<1> DEFINE S == {k \in Nat : \E f : TilesUpTo(f, spans, k)}
<1>1. 0 \in S
  <2> DEFINE f0 == [n \in 0..0 |-> <<>>]
  <2>1. f0 = [n \in 0..0 |-> IF n = 0 THEN <<>> ELSE f0[n - 1] \o Piece(spans, n)]
    OBVIOUS
  <2> HIDE DEF f0
  <2>2. TilesUpTo(f0, spans, 0)
    BY <2>1 DEF TilesUpTo
  <2> QED BY <2>2
<1>2. ASSUME NEW n \in Nat, n \in S PROVE n + 1 \in S
  BY <1>2, TilingGoesOn
<1> HIDE DEF S
<1>3. N \in S
  BY <1>1, <1>2, NumbersAreReached
<1> QED BY <1>3 DEF S

LEMMA PiecesAre ==
  ASSUME NEW spans, Len(spans) \in Nat
  PROVE  \A n \in 0..Len(spans) : Pieces(spans)[n] =
           IF n = 0 THEN <<>> ELSE Pieces(spans)[n - 1] \o Piece(spans, n)
<1>1. Pieces(spans) = CHOOSE f : TilesUpTo(f, spans, Len(spans))
  BY DEF Pieces, TilesUpTo
<1>2. TilesUpTo(Pieces(spans), spans, Len(spans))
  BY <1>1, TilingIsDefined
<1> DEFINE f == Pieces(spans)
<1> HIDE DEF f
<1>3. f = [n \in 0..Len(spans) |-> IF n = 0 THEN <<>> ELSE f[n - 1] \o Piece(spans, n)]
  BY <1>2 DEF TilesUpTo, f
<1>4. \A n \in 0..Len(spans) : f[n] = IF n = 0 THEN <<>> ELSE f[n - 1] \o Piece(spans, n)
  BY <1>3
<1> QED BY <1>4 DEF f

-----------------------------------------------------------------------------
(* A sequence of spans covers the bytes up to e, each once.                *)
SpansOf(L) == [label : L, start : Nat, end : Nat]

Covers(q, e) ==
  /\ \A i \in DOMAIN q : q[i].start < q[i].end
  /\ \A i \in DOMAIN q : i > 1 => q[i].start = q[i - 1].end
  /\ e = 0 <=> q = <<>>
  /\ q # <<>> => q[1].start = 0 /\ q[Len(q)].end = e

LEMMA CoversOn ==
  ASSUME NEW L, NEW q \in Seq(SpansOf(L)), NEW a \in Nat, NEW b \in Nat, a <= b, Covers(q, a),
         NEW label \in L
  PROVE  q \o Span(label, a, b) \in Seq(SpansOf(L)) /\ Covers(q \o Span(label, a, b), b)
<1>1. CASE a = b
  <2>1. Span(label, a, b) = <<>>
    BY <1>1 DEF Span
  <2>2. q \o <<>> = q
    OBVIOUS
  <2> QED BY <1>1, <2>1, <2>2
<1>2. CASE a < b
  <2> DEFINE s == [label |-> label, start |-> a, end |-> b]
             r == q \o <<s>>
  <2>1. Span(label, a, b) = <<s>>
    BY <1>2 DEF Span
  <2>2. s \in SpansOf(L) /\ s.start = a /\ s.end = b
    BY DEF SpansOf
  <2> HIDE DEF s
  <2>3. r \in Seq(SpansOf(L)) /\ Len(r) = Len(q) + 1 /\ r[Len(q) + 1] = s
          /\ \A i \in 1..Len(q) : r[i] = q[i]
    BY <2>2
  <2> HIDE DEF r
  <2>4. DOMAIN r = 1..Len(q) + 1 /\ DOMAIN q = 1..Len(q) /\ Len(q) \in Nat /\ r # <<>>
    BY <2>3
  <2>5. \A i \in DOMAIN r : r[i].start < r[i].end
    <3> SUFFICES ASSUME NEW i \in DOMAIN r PROVE r[i].start < r[i].end
      OBVIOUS
    <3>1. CASE i = Len(q) + 1
      BY <3>1, <2>2, <2>3, <1>2
    <3>2. CASE i \in 1..Len(q)
      BY <3>2, <2>3, <2>4 DEF Covers
    <3> QED BY <3>1, <3>2, <2>4
  <2>6. q = <<>> <=> Len(q) = 0
    BY <2>4
  <2>7. \A i \in DOMAIN r : i > 1 => r[i].start = r[i - 1].end
    <3> SUFFICES ASSUME NEW i \in DOMAIN r, i > 1 PROVE r[i].start = r[i - 1].end
      OBVIOUS
    <3>1. CASE i = Len(q) + 1
      <4>1. q # <<>> /\ i - 1 = Len(q) /\ i - 1 \in 1..Len(q)
        BY <3>1, <2>4, <2>6
      <4>2. r[i - 1] = q[Len(q)]
        BY <4>1, <2>3
      <4>3. q[Len(q)].end = a
        BY <4>1 DEF Covers
      <4> QED BY <3>1, <4>2, <4>3, <2>2, <2>3
    <3>2. CASE i \in 1..Len(q)
      <4>1. i - 1 \in 1..Len(q)
        BY <3>2, <2>4
      <4>2. q[i].start = q[i - 1].end
        BY <3>2, <2>4 DEF Covers
      <4> QED BY <3>2, <4>1, <4>2, <2>3
    <3> QED BY <3>1, <3>2, <2>4
  <2>8. r[1].start = 0
    <3>1. CASE q = <<>>
      BY <3>1, <2>6, <2>3, <2>2 DEF Covers
    <3>2. CASE q # <<>>
      <4>1. r[1] = q[1]
        BY <3>2, <2>6, <2>4, <2>3
      <4> QED BY <3>2, <4>1 DEF Covers
    <3> QED BY <3>1, <3>2
  <2>9. r[Len(r)].end = b /\ b # 0
    BY <2>3, <2>2, <1>2
  <2>10. Covers(r, b)
    BY <2>4, <2>5, <2>7, <2>8, <2>9 DEF Covers
  <2> QED BY <2>1, <2>3, <2>10 DEF r
<1> QED BY <1>1, <1>2

LEMMA SpanIsSequence ==
  ASSUME NEW L, NEW label \in L, NEW a \in Nat, NEW b \in Nat
  PROVE  Span(label, a, b) \in Seq(SpansOf(L))
<1>1. [label |-> label, start |-> a, end |-> b] \in SpansOf(L)
  BY DEF SpansOf
<1> QED BY <1>1 DEF Span

(* tile: the spans of an answer that fit a turn, with what they leave out, *)
(* are the turn.                                                           *)
AnsweredSpans == [label : STRING, start : Int, end : Int]

EndAt(spans, n) == IF n = 0 THEN 0 ELSE spans[n].end

LEMMA TileCovers ==
  ASSUME NEW spans \in Seq(AnsweredSpans), NEW turn, turn.bytes \in Nat, SpansFit(spans, turn)
  PROVE  IsSeq(Tile(spans, turn)) /\ Covers(Tile(spans, turn), turn.bytes)
<1> DEFINE N == Len(spans)
           L == STRING \cup {"other"}
           Q == SpansOf(L)
           T == {n \in 0..N : /\ Pieces(spans)[n] \in Seq(Q)
                              /\ Covers(Pieces(spans)[n], EndAt(spans, n))}
           U == T \cup {n \in Nat : n > N}
<1>1. N \in Nat /\ DOMAIN spans = 1..N
  OBVIOUS
<1>2. \A n \in 1..N : /\ spans[n].label \in L /\ spans[n].start \in Nat /\ spans[n].end \in Nat
                      /\ EndAt(spans, n - 1) \in Nat /\ EndAt(spans, n - 1) <= spans[n].start
                      /\ spans[n].start <= spans[n].end /\ spans[n].end <= turn.bytes
  <2> SUFFICES ASSUME NEW n \in 1..N
               PROVE /\ spans[n].label \in L /\ spans[n].start \in Nat /\ spans[n].end \in Nat
                     /\ EndAt(spans, n - 1) \in Nat /\ EndAt(spans, n - 1) <= spans[n].start
                     /\ spans[n].start <= spans[n].end /\ spans[n].end <= turn.bytes
    OBVIOUS
  <2>1. \A i \in 1..N : spans[i] \in AnsweredSpans
    OBVIOUS
  <2>2. \A i \in 1..N : /\ spans[i].label \in L /\ spans[i].start \in Int /\ spans[i].end \in Int
                        /\ 0 <= spans[i].start /\ spans[i].start <= spans[i].end
                        /\ spans[i].end <= turn.bytes
                        /\ i > 1 => spans[i].start >= spans[i - 1].end
    BY <2>1, <1>1 DEF AnsweredSpans, SpansFit
  <2>3. CASE n = 1
    BY <2>2, <2>3 DEF EndAt
  <2>4. CASE n > 1
    <3>1. n - 1 \in 1..N /\ n - 1 # 0
      BY <2>4
    <3> QED BY <2>2, <2>4, <3>1, SMTT(30) DEF EndAt
  <2> QED BY <2>3, <2>4
<1>3. \A n \in 0..N : Pieces(spans)[n] =
        IF n = 0 THEN <<>> ELSE Pieces(spans)[n - 1] \o Piece(spans, n)
  BY <1>1, PiecesAre
<1>4. 0 \in T
  <2>1. Pieces(spans)[0] = <<>>
    BY <1>1, <1>3
  <2>2. Covers(<<>>, 0)
    BY DEF Covers
  <2>3. 0 \in 0..N /\ EndAt(spans, 0) = 0
    BY <1>1 DEF EndAt
  <2>4. Pieces(spans)[0] \in Seq(Q) /\ Covers(Pieces(spans)[0], EndAt(spans, 0))
    <3> HIDE DEF Q
    <3>1. <<>> \in Seq(Q)
      OBVIOUS
    <3> QED BY <2>1, <2>2, <2>3, <3>1
  <2> HIDE DEF Q, N
  <2> QED BY <2>3, <2>4
<1>5. ASSUME NEW n \in 0..N - 1, n \in T PROVE n + 1 \in T
  <2> DEFINE q == Pieces(spans)[n]
             a == EndAt(spans, n)
             b == spans[n + 1].start
             c == spans[n + 1].end
             l == spans[n + 1].label
             x == Span("other", a, b)
             y == Span(l, b, c)
  <2>0. "other" \in L
    OBVIOUS
  <2>1. n + 1 \in 1..N /\ n + 1 \in 0..N /\ n + 1 # 0 /\ (n + 1) - 1 = n
    BY <1>1
  <2>2. a \in Nat /\ b \in Nat /\ c \in Nat /\ l \in L /\ a <= b /\ b <= c
    BY <2>1, <1>2
  <2>3. q \in Seq(Q) /\ Covers(q, a)
    BY <1>5
  <2>4. Piece(spans, n + 1) = x \o y
    BY <2>1, <1>1 DEF Piece, EndAt
  <2>5. Pieces(spans)[n + 1] = q \o (x \o y)
    BY <2>1, <2>4, <1>3
  <2>6. EndAt(spans, n + 1) = c
    BY <2>1, <1>1 DEF EndAt
  <2> HIDE DEF q, a, b, c, l, Q, L
  <2>7. x \in Seq(Q) /\ y \in Seq(Q)
    BY <2>2, <2>0, SpanIsSequence DEF Q
  <2>8. q \o x \in Seq(Q) /\ Covers(q \o x, b)
    BY <2>0, <2>2, <2>3, CoversOn DEF Q
  <2>9. (q \o x) \o y \in Seq(Q) /\ Covers((q \o x) \o y, c)
    BY <2>2, <2>8, CoversOn DEF Q
  <2> HIDE DEF x, y
  <2>10. q \o (x \o y) = (q \o x) \o y
    BY <2>3, <2>7, SMTT(30)
  <2> QED BY <2>1, <2>5, <2>6, <2>9, <2>10 DEF Q
<1>6. N \in T
  <2>1. 0 \in U
    BY <1>4
  <2>2. ASSUME NEW n \in Nat, n \in U PROVE n + 1 \in U
    <3>1. CASE n + 1 > N
      BY <3>1
    <3>2. CASE n + 1 <= N
      <4>1. n \in 0..N - 1 /\ n \in T
        BY <2>2, <3>2, <1>1
      <4> HIDE DEF T
      <4> QED BY <4>1, <1>5
    <3> QED BY <3>1, <3>2, <1>1
  <2> HIDE DEF U
  <2>3. N \in U
    BY <1>1, <2>1, <2>2, NumbersAreReached
  <2> USE DEF U
  <2> HIDE DEF T
  <2> QED BY <2>3, <1>1
<1> DEFINE q == Pieces(spans)[N]
           a == EndAt(spans, N)
<1>7. q \in Seq(Q) /\ Covers(q, a)
  BY <1>6
<1>8. a \in Nat /\ a <= turn.bytes /\ a = EndOf(spans)
  <2>1. CASE N = 0
    BY <2>1, <1>1 DEF EndAt, EndOf
  <2>2. CASE N # 0
    BY <2>2, <1>1, <1>2 DEF EndAt, EndOf, Last
  <2> QED BY <2>1, <2>2
<1> HIDE DEF q, a, L
<1>9. q \o Span("other", a, turn.bytes) \in Seq(SpansOf(L))
        /\ Covers(q \o Span("other", a, turn.bytes), turn.bytes)
  <2>1. "other" \in L
    BY DEF L
  <2> QED BY <1>7, <1>8, <2>1, CoversOn
<1>10. Tile(spans, turn) = q \o Span("other", a, turn.bytes)
  BY <1>8 DEF Tile, q
<1>11. IsSeq(Tile(spans, turn))
  <2> DEFINE t == q \o Span("other", a, turn.bytes)
  <2>1. t \in Seq(SpansOf(L)) /\ Tile(spans, turn) = t
    BY <1>9, <1>10
  <2> HIDE DEF t
  <2> QED BY <2>1, SeqIsSeq
<1> QED BY <1>9, <1>10, <1>11

-----------------------------------------------------------------------------
(* The projection of a replay, record by record. *)
ProjectsUpTo(f, turns, evidence, stream, who, k) ==
  f = [n \in 0..k |-> IF n = 0 THEN EmptyReplay
                      ELSE Push(f[n - 1], turns[n], evidence, stream, who)]

LEMMA ProjectionGoesOn ==
  ASSUME NEW turns, NEW evidence, NEW stream, NEW who, NEW k \in Nat, NEW f,
         ProjectsUpTo(f, turns, evidence, stream, who, k)
  PROVE  \E g : ProjectsUpTo(g, turns, evidence, stream, who, k + 1)
<1> DEFINE P(p, n) == Push(p, turns[n], evidence, stream, who)
           g == [n \in 0..k + 1 |-> IF n <= k THEN f[n] ELSE P(f[k], k + 1)]
<1> HIDE DEF P
<1>1. f = [n \in 0..k |-> IF n = 0 THEN EmptyReplay ELSE P(f[n - 1], n)]
  BY DEF ProjectsUpTo, P
<1>2. \A n \in 0..k : f[n] = IF n = 0 THEN EmptyReplay ELSE P(f[n - 1], n)
  BY <1>1
<1>3. ASSUME NEW n \in 0..k + 1
      PROVE  g[n] = IF n = 0 THEN EmptyReplay ELSE P(g[n - 1], n)
  <2>1. CASE n <= k
    <3>1. n \in 0..k /\ g[n] = f[n]
      BY <2>1
    <3>2. f[n] = IF n = 0 THEN EmptyReplay ELSE P(f[n - 1], n)
      BY <3>1, <1>2
    <3>3. CASE n = 0
      BY <3>1, <3>2, <3>3
    <3>4. CASE n # 0
      <4>1. n - 1 \in 0..k + 1 /\ n - 1 <= k
        BY <2>1, <3>4
      <4>2. g[n - 1] = f[n - 1]
        BY <4>1
      <4> HIDE DEF g
      <4>3. f[n] = P(f[n - 1], n)
        BY <3>2, <3>4, Zenon
      <4> QED BY <3>1, <3>4, <4>2, <4>3, Zenon
    <3> QED BY <3>3, <3>4
  <2>2. CASE n = k + 1
    <3>1. k + 1 \in 0..k + 1 /\ ~(k + 1 <= k) /\ k + 1 # 0
      OBVIOUS
    <3>2. g[k + 1] = P(f[k], k + 1)
      BY <3>1, Zenon
    <3>3. k \in 0..k + 1 /\ k <= k /\ n - 1 = k
      BY <2>2
    <3>4. g[k] = f[k]
      BY <3>3, Zenon
    <3> HIDE DEF g
    <3> QED BY <3>1, <3>2, <3>3, <3>4, <2>2, Zenon
  <2> QED BY <2>1, <2>2
<1>4. g = [n \in 0..k + 1 |-> g[n]]
  OBVIOUS
<1>5. g = [n \in 0..k + 1 |-> IF n = 0 THEN EmptyReplay ELSE P(g[n - 1], n)]
  <2> HIDE DEF g
  <2> QED BY <1>3, <1>4, Zenon
<1> QED BY <1>5 DEF ProjectsUpTo, P

LEMMA ProjectionIsDefined ==
  ASSUME NEW turns, NEW evidence, NEW stream, NEW who, NEW N \in Nat
  PROVE  \E f : ProjectsUpTo(f, turns, evidence, stream, who, N)
<1> DEFINE S == {k \in Nat : \E f : ProjectsUpTo(f, turns, evidence, stream, who, k)}
<1>1. 0 \in S
  <2> DEFINE f0 == [n \in 0..0 |-> EmptyReplay]
  <2>1. f0 = [n \in 0..0 |-> IF n = 0 THEN EmptyReplay
                             ELSE Push(f0[n - 1], turns[n], evidence, stream, who)]
    OBVIOUS
  <2> HIDE DEF f0
  <2>2. ProjectsUpTo(f0, turns, evidence, stream, who, 0)
    BY <2>1 DEF ProjectsUpTo
  <2> QED BY <2>2
<1>2. ASSUME NEW n \in Nat, n \in S PROVE n + 1 \in S
  BY <1>2, ProjectionGoesOn
<1> HIDE DEF S
<1>3. N \in S
  BY <1>1, <1>2, NumbersAreReached
<1> QED BY <1>3 DEF S

LEMMA ProjectionsAre ==
  ASSUME NEW turns, Len(turns) \in Nat, NEW evidence, NEW stream, NEW who
  PROVE  \A n \in 0..Len(turns) : Projections(turns, evidence, stream, who)[n] =
           IF n = 0 THEN EmptyReplay
           ELSE Push(Projections(turns, evidence, stream, who)[n - 1], turns[n],
                     evidence, stream, who)
<1> DEFINE f == Projections(turns, evidence, stream, who)
<1>1. f = CHOOSE p : ProjectsUpTo(p, turns, evidence, stream, who, Len(turns))
  BY DEF Projections, ProjectsUpTo
<1>2. ProjectsUpTo(f, turns, evidence, stream, who, Len(turns))
  BY <1>1, ProjectionIsDefined
<1> HIDE DEF f
<1>3. f = [n \in 0..Len(turns) |-> IF n = 0 THEN EmptyReplay
                                   ELSE Push(f[n - 1], turns[n], evidence, stream, who)]
  BY <1>2 DEF ProjectsUpTo
<1>4. \A n \in 0..Len(turns) : f[n] = IF n = 0 THEN EmptyReplay
                                      ELSE Push(f[n - 1], turns[n], evidence, stream, who)
  BY <1>3
<1> QED BY <1>4 DEF f

-----------------------------------------------------------------------------
(* What a replay has made of the first n records: each was classified by   *)
(* what the evidence licenses, unless there is an issue it was licensed,   *)
(* and what an operator's turn states stands at the next record.           *)
ClassifiedBy(r, evidence, who) ==
  r.result = Classified(r.input, Matches(evidence, r.input, who), evidence)

LicensedBy(r, evidence, who) == Eligible(r.input) => Licenses(Matches(evidence, r.input, who))

StatedStands(r, outstanding) ==
  r.input.turn.speaker = "operator" => r.result.stated \subseteq outstanding

Projects(p, n, evidence, who) ==
  /\ IsSeq(p.results) /\ Len(p.results) = n
  /\ \A i \in 1..n : ClassifiedBy(p.results[i], evidence, who)
  /\ ~p.issue => \A i \in 1..n : LicensedBy(p.results[i], evidence, who)
  /\ \A i \in 1..n - 1 : StatedStands(p.results[i], p.results[i + 1].input.outstanding)
  /\ n > 0 => StatedStands(p.results[n], p.context.outstanding)

LEMMA PushProjects ==
  ASSUME NEW p, NEW n \in Nat, NEW evidence, NEW who, Projects(p, n, evidence, who),
         NEW turn, NEW stream
  PROVE  Projects(Push(p, turn, evidence, stream, who), n + 1, evidence, who)
<1> DEFINE in == InputOf(p.context, stream, turn)
           M == Matches(evidence, in, who)
           result == Classified(in, M, evidence)
           e == [input |-> in, result |-> result]
           c == Projected(p.context, turn, result, SemanticCaps)
           r == Append(p.results, e)
           q == Push(p, turn, evidence, stream, who)
           b == p.issue \/ (Eligible(in) /\ ~Licenses(M))
<1>1. q = [context |-> c, results |-> r, issue |-> b]
  BY DEF Push
<1>2. in.turn = turn /\ in.outstanding = p.context.outstanding
  BY DEF InputOf
<1>3. turn.speaker = "operator" => result.stated \subseteq c.outstanding
  <2> HIDE DEF result
  <2> QED BY DEF Projected
<1>4. e.input = in /\ e.result = result
  OBVIOUS
<1>5. ClassifiedBy(e, evidence, who)
  BY DEF ClassifiedBy
<1>6. ~b => ~p.issue /\ LicensedBy(e, evidence, who)
  <2> HIDE DEF in
  <2> QED BY DEF LicensedBy
<1>7. StatedStands(e, c.outstanding)
  <2> HIDE DEF in, result, c, e
  <2> QED BY <1>2, <1>3, <1>4 DEF StatedStands
<1>8. Len(p.results) = n /\ IsSeq(p.results)
  BY DEF Projects
<1>9. /\ IsSeq(r) /\ Len(r) = n + 1
      /\ r[n + 1] = e
      /\ \A i \in 1..n : r[i] = p.results[i]
  <2>1. r = Append(p.results, e)
    OBVIOUS
  <2> HIDE DEF e, r
  <2>2. Grown(p.results, e, r)
    BY <1>8, <2>1, AppendKeeps
  <2> QED BY <1>8, <2>2 DEF Grown
<1>10. q.context = c /\ q.results = r /\ q.issue = b
  <2> HIDE DEF c, r, b, q
  <2> QED BY <1>1
<1> HIDE DEF in, M, result, e, c, r, q, b
<1>11. \A i \in 1..n + 1 : ClassifiedBy(r[i], evidence, who)
  <2> SUFFICES ASSUME NEW i \in 1..n + 1 PROVE ClassifiedBy(r[i], evidence, who)
    OBVIOUS
  <2>1. CASE i \in 1..n
    BY <2>1, <1>9 DEF Projects
  <2>2. CASE i = n + 1
    BY <2>2, <1>9, <1>5
  <2> QED BY <2>1, <2>2
<1>12. ~b => \A i \in 1..n + 1 : LicensedBy(r[i], evidence, who)
  <2> SUFFICES ASSUME ~b, NEW i \in 1..n + 1 PROVE LicensedBy(r[i], evidence, who)
    OBVIOUS
  <2>1. CASE i \in 1..n
    BY <2>1, <1>9, <1>6 DEF Projects
  <2>2. CASE i = n + 1
    BY <2>2, <1>9, <1>6
  <2> QED BY <2>1, <2>2
<1>13. \A i \in 1..n : StatedStands(r[i], r[i + 1].input.outstanding)
  <2> SUFFICES ASSUME NEW i \in 1..n PROVE StatedStands(r[i], r[i + 1].input.outstanding)
    OBVIOUS
  <2>1. CASE i \in 1..n - 1
    <3>1. r[i] = p.results[i] /\ r[i + 1] = p.results[i + 1]
      BY <2>1, <1>9
    <3> QED BY <2>1, <3>1 DEF Projects
  <2>2. CASE i = n
    <3>1. StatedStands(p.results[n], p.context.outstanding)
      BY <2>2 DEF Projects
    <3> QED BY <2>2, <3>1, <1>9, <1>4, <1>2
  <2> QED BY <2>1, <2>2
<1>14. (n + 1) - 1 = n /\ n + 1 > 0
  OBVIOUS
<1>15. \A i \in 1..(n + 1) - 1 : StatedStands(r[i], r[i + 1].input.outstanding)
  BY <1>13, <1>14
<1>16. StatedStands(r[n + 1], c.outstanding)
  BY <1>7, <1>9
<1>17. ~q.issue => \A i \in 1..n + 1 : LicensedBy(q.results[i], evidence, who)
  BY <1>10, <1>12, Zenon
<1>18. IsSeq(q.results) /\ Len(q.results) = n + 1
  BY <1>9, <1>10
<1>19. \A i \in 1..n + 1 : ClassifiedBy(q.results[i], evidence, who)
  BY <1>10, <1>11, Zenon
<1>20. \A i \in 1..(n + 1) - 1 : StatedStands(q.results[i], q.results[i + 1].input.outstanding)
  BY <1>10, <1>15, Zenon
<1>21. n + 1 > 0 => StatedStands(q.results[n + 1], q.context.outstanding)
  BY <1>10, <1>16, Zenon
<1>22. Projects(q, n + 1, evidence, who)
  BY <1>17, <1>18, <1>19, <1>20, <1>21, Zenon DEF Projects
<1> QED BY <1>22 DEF q

LEMMA ProjectionProjects ==
  ASSUME NEW turns, Len(turns) \in Nat, NEW evidence, NEW stream, NEW who
  PROVE  Projects(Projection(turns, evidence, stream, who), Len(turns), evidence, who)
<1> DEFINE N == Len(turns)
           f == Projections(turns, evidence, stream, who)
           U == {n \in Nat : n > N \/ Projects(f[n], n, evidence, who)}
<1>1. \A n \in 0..N : f[n] = IF n = 0 THEN EmptyReplay
                             ELSE Push(f[n - 1], turns[n], evidence, stream, who)
  BY ProjectionsAre
<1> HIDE DEF f
<1>2. 0 \in U
  <2>1. f[0] = EmptyReplay
    BY <1>1
  <2>2. Projects(EmptyReplay, 0, evidence, who)
    <3>1. EmptyReplay.results = <<>>
      BY DEF EmptyReplay
    <3>2. IsSeq(<<>>) /\ Len(<<>>) = 0
      BY DEF IsSeq
    <3> QED BY <3>1, <3>2 DEF Projects
  <2> QED BY <2>1, <2>2
<1>3. ASSUME NEW n \in Nat, n \in U PROVE n + 1 \in U
  <2>1. CASE n + 1 > N
    BY <2>1
  <2>2. CASE n + 1 <= N
    <3>1. Projects(f[n], n, evidence, who)
      BY <1>3, <2>2
    <3>2. n + 1 \in 0..N /\ n + 1 # 0 /\ (n + 1) - 1 = n
      BY <2>2
    <3>3. f[n + 1] = Push(f[n], turns[n + 1], evidence, stream, who)
      BY <1>1, <3>2
    <3> QED BY <3>1, <3>3, PushProjects
  <2> QED BY <2>1, <2>2
<1> HIDE DEF U
<1>4. N \in U
  BY <1>2, <1>3, NumbersAreReached
<1>5. Projects(f[N], N, evidence, who)
  BY <1>4 DEF U
<1> QED BY <1>5 DEF Projection, f

-----------------------------------------------------------------------------
(* What the log and the replay are made of: each completion is of a job    *)
(* that was shown a turn of the source, covers it, and resolves only what  *)
(* stood.                                                                  *)
Shown(job) == job = Job(job.input, job.identity) /\ job.input.turn \in Turns

KeysOf(result) == {x.key : x \in result.resolved}

FitsItsJob(e) ==
  /\ Shown(e.job)
  /\ IsSeq(e.result.spans) /\ Covers(e.result.spans, e.job.input.turn.bytes)
  /\ KeysOf(e.result) \subseteq e.job.input.outstanding

SourceInv ==
  /\ source \in Seq(Turns)
  /\ DOMAIN context = Observers /\ \A o \in Observers : context[o].at \in Nat

JobsInv == DOMAIN jobs = Observers /\ \A o \in Observers : \A job \in jobs[o] : Shown(job)

LogInv == IsSeq(log) /\ \A i \in DOMAIN log : FitsItsJob(log[i])

ReplayFields == {"stage", "stream", "elsewhere", "identity", "source", "evidence", "results"}

ReplayInv == DOMAIN replay = ReplayFields /\ replay.source \in Seq(Turns)

SemanticInv == SourceInv /\ JobsInv /\ LogInv /\ ReplayInv

LEMMA SemanticInitially == SemanticInit => SemanticInv
<1> SUFFICES ASSUME SemanticInit PROVE SemanticInv
  OBVIOUS
<1>1. SourceInv
  BY DEF SemanticInit, SourceInv, Fresh
<1>2. JobsInv
  BY DEF SemanticInit, JobsInv
<1>3. LogInv
  BY DEF SemanticInit, LogInv, IsSeq
<1>4. ReplayInv
  BY DEF SemanticInit, ReplayInv, ReplayFields, NoReplay
<1> QED BY <1>1, <1>2, <1>3, <1>4 DEF SemanticInv

LEMMA AgentWritesKeeps ==
  ASSUME SemanticInv, NEW turn \in Turns, AgentWrites(turn)
  PROVE  SemanticInv'
<1>1. SourceInv'
  BY DEF SemanticInv, SourceInv, AgentWrites
<1> QED BY <1>1 DEF SemanticInv, JobsInv, LogInv, ReplayInv, AgentWrites

LEMMA ObserveKeeps ==
  ASSUME SemanticInv, NEW o \in Observers, Observe(o)
  PROVE  SemanticInv'
<1> DEFINE turn == source[context[o].at + 1]
           in == InputOf(context[o], Live, turn)
           d == Projected(context[o], turn, Markers(in), MarkerCaps)
           job == Job(in, identity[o])
<1>1. context[o].at \in Nat /\ context[o].at + 1 \in 1..Len(source) /\ turn \in Turns
  BY DEF SemanticInv, SourceInv, Observe
<1>2. context' = [context EXCEPT ![o] = d] /\ source' = source /\ log' = log /\ replay' = replay
  BY DEF Observe
<1>3. jobs' = [jobs EXCEPT ![o] = @ \cup {job}] \/ jobs' = jobs
  BY DEF Observe
<1>4. d.at \in Nat
  <2>1. CASE turn.speaker # "operator"
    <3>1. d = [context[o] EXCEPT !.at = @ + 1]
      BY <2>1 DEF Projected
    <3> HIDE DEF d, turn
    <3>2. CASE "at" \in DOMAIN context[o]
      BY <3>1, <3>2, <1>1
    <3>3. CASE "at" \notin DOMAIN context[o]
      BY <3>1, <3>3, <1>1
    <3> QED BY <3>2, <3>3
  <2>2. CASE turn.speaker = "operator"
    <3> HIDE DEF turn, in
    <3> QED BY <2>2, <1>1 DEF Projected
  <2> QED BY <2>1, <2>2
<1>5. Shown(job)
  <2>1. in.turn = turn
    BY DEF InputOf
  <2> HIDE DEF in
  <2>2. job.input = in /\ job.identity = identity[o]
    BY DEF Job
  <2> HIDE DEF job
  <2>3. job = Job(job.input, job.identity)
    BY <2>2 DEF job
  <2> QED BY <1>1, <2>1, <2>2, <2>3 DEF Shown
<1> HIDE DEF d, job, in, turn
<1>6. SourceInv'
  BY <1>2, <1>4 DEF SemanticInv, SourceInv
<1>7. JobsInv'
  BY <1>3, <1>5 DEF SemanticInv, JobsInv
<1> QED BY <1>2, <1>6, <1>7 DEF SemanticInv, LogInv, ReplayInv

LEMMA MarkersFit ==
  ASSUME SemanticConstants, ModelClientConstants, NEW job, Shown(job)
  PROVE  LET result == Markers(job.input)
         IN  /\ IsSeq(result.spans) /\ Covers(result.spans, job.input.turn.bytes)
             /\ KeysOf(result) \subseteq job.input.outstanding
<1> DEFINE in == job.input
           result == Markers(in)
           b == in.turn.bytes
           s == Span("marked", 0, b)
           L == {"marked"}
<1>1. b \in Nat
  BY DEF Shown, ModelClientConstants
<1>2. result.spans = s /\ result.resolved = [key : in.turn.released \cap in.outstanding, kind : {"released"}]
  BY DEF Markers
<1>3. IsSeq(s) /\ Covers(s, b)
  <2> DEFINE none == <<>>
  <2>1. Covers(none, 0) /\ none \in Seq(SpansOf(L)) /\ "marked" \in L
    BY DEF Covers
  <2>3. s \in Seq(SpansOf(L))
    BY <1>1, <2>1, SpanIsSequence
  <2> HIDE DEF b, L
  <2>4. none \o s = s
    <3> HIDE DEF s
    <3> QED BY <2>3
  <2> HIDE DEF none
  <2>2. Covers(none \o Span("marked", 0, b), b)
    BY <1>1, <2>1, CoversOn
  <2> HIDE DEF s
  <2>5. IsSeq(s)
    BY <2>3, SeqIsSeq
  <2> QED BY <2>2, <2>4, <2>5 DEF s
<1>4. KeysOf(result) \subseteq in.outstanding
  <2> HIDE DEF result, in
  <2> QED BY <1>2 DEF KeysOf
<1> HIDE DEF s
<1> QED BY <1>2, <1>3, <1>4

LEMMA FoldedFits ==
  ASSUME SemanticConstants, ModelClientConstants, NEW job, Shown(job), NEW out \in Answers,
         Valid(out, job.input)
  PROVE  LET result == Folded(out, job.input)
         IN  /\ IsSeq(result.spans) /\ Covers(result.spans, job.input.turn.bytes)
             /\ KeysOf(result) \subseteq job.input.outstanding
<1> DEFINE in == job.input
           result == Folded(out, in)
           kept == {[key |-> r.key, kind |-> r.kind] : r \in ToSet(out.resolved)}
<1>1. in.turn.bytes \in Nat
  BY DEF Shown, ModelClientConstants
<1>2. out.spans \in Seq(AnsweredSpans)
  BY DEF SemanticConstants, AnsweredSpans
<1>3. SpansFit(out.spans, in.turn) /\ ResolutionsFit(out.resolved, in.outstanding)
  BY DEF Valid
<1>4. result.spans = Tile(out.spans, in.turn)
        /\ result.resolved = IF out.resolved = <<>> THEN Markers(in).resolved ELSE kept
  BY DEF Folded
<1>5. KeysOf(result) \subseteq in.outstanding
  <2>1. CASE out.resolved = <<>>
    <3>1. KeysOf(Markers(in)) \subseteq in.outstanding
      BY MarkersFit
    <3>2. result.resolved = Markers(in).resolved
      BY <1>4, <2>1
    <3> HIDE DEF result, in
    <3> QED BY <3>1, <3>2 DEF KeysOf
  <2>2. CASE out.resolved # <<>>
    <3>1. result.resolved = kept
      BY <1>4, <2>2
    <3>2. \A i \in DOMAIN out.resolved : out.resolved[i].key \in in.outstanding
      BY <1>3 DEF ResolutionsFit
    <3>3. \A x \in kept : x.key \in in.outstanding
      BY <3>2 DEF ToSet
    <3> HIDE DEF result, in, kept
    <3> QED BY <3>1, <3>3 DEF KeysOf
  <2> QED BY <2>1, <2>2
<1> HIDE DEF result, in
<1>6. IsSeq(result.spans) /\ Covers(result.spans, in.turn.bytes)
  BY <1>1, <1>2, <1>3, <1>4, TileCovers
<1> QED BY <1>5, <1>6 DEF result, in

LEMMA CompleteKeeps ==
  ASSUME SemanticConstants, ModelClientConstants, SemanticInv,
         NEW o \in Observers, NEW job \in jobs[o], NEW out \in Answers, Complete(o, job, out)
  PROVE  SemanticInv'
<1> DEFINE ok == Valid(out, job.input)
           result == IF ok THEN Folded(out, job.input) ELSE Markers(job.input)
           e == [job |-> job, status |-> IF ok THEN "completed" ELSE "failed", result |-> result]
<1>1. Shown(job)
  BY DEF SemanticInv, JobsInv
<1>2. log' = Append(log, e) /\ jobs' = [jobs EXCEPT ![o] = @ \ {job}]
  BY DEF Complete
<1>3. IsSeq(result.spans) /\ Covers(result.spans, job.input.turn.bytes)
        /\ KeysOf(result) \subseteq job.input.outstanding
  BY <1>1, MarkersFit, FoldedFits
<1> HIDE DEF ok
<1>4. e.job = job /\ e.result = result
  OBVIOUS
<1> HIDE DEF result, e
<1>5. FitsItsJob(e)
  BY <1>1, <1>3, <1>4 DEF FitsItsJob
<1>6. LogInv'
  <2>1. Grown(log, e, log')
    BY <1>2, AppendKeeps DEF SemanticInv, LogInv
  <2>2. \A i \in DOMAIN log : FitsItsJob(log[i])
    BY DEF SemanticInv, LogInv
  <2>3. \A i \in DOMAIN log' : FitsItsJob(log'[i])
    BY <1>5, <2>1, <2>2 DEF Grown
  <2> QED BY <2>1, <2>3 DEF LogInv, Grown, FitsItsJob, Shown
<1>7. JobsInv'
  BY <1>2 DEF SemanticInv, JobsInv, Shown
<1> QED BY <1>6, <1>7 DEF SemanticInv, SourceInv, ReplayInv, Complete

LEMMA ReplayOpensKeeps ==
  ASSUME SemanticInv, NEW stream, NEW elsewhere, NEW who, ReplayOpens(stream, elsewhere, who)
  PROVE  SemanticInv' /\ replay'.stage = "opened" /\ replay'.results = <<>>
<1> DEFINE r == [NoReplay EXCEPT !.stage = "opened", !.stream = stream, !.elsewhere = elsewhere,
                                 !.identity = who, !.source = source]
<1>1. DOMAIN NoReplay = ReplayFields /\ NoReplay.results = <<>>
  BY DEF NoReplay, ReplayFields
<1>2. replay' = r /\ UNCHANGED <<source, identity, context, jobs, log>>
  BY DEF ReplayOpens
<1>3. DOMAIN r = ReplayFields
  BY <1>1
<1>4. r.source = source /\ r.stage = "opened" /\ r.results = <<>>
  BY <1>1 DEF ReplayFields
<1> HIDE DEF r
<1>5. ReplayInv'
  BY <1>2, <1>3, <1>4 DEF SemanticInv, SourceInv, ReplayInv
<1> QED BY <1>2, <1>4, <1>5 DEF SemanticInv, SourceInv, JobsInv, LogInv, FitsItsJob, Shown

(* What the step that writes or refuses a replay leaves in it. *)
LEMMA ReplayWritesMakes ==
  ASSUME SemanticInv, ReplayWrites
  PROVE  LET p == Projection(replay.source, log, replay.stream, replay.identity)
         IN  /\ DOMAIN replay' = ReplayFields /\ replay'.source = replay.source
             /\ replay'.identity = replay.identity
             /\ replay'.evidence = log /\ replay'.results = p.results
             /\ replay'.stage = "written" => ~p.issue
             /\ log' = log /\ UNCHANGED <<source, identity, context, jobs>>
<1> DEFINE p == Projection(replay.source, log, replay.stream, replay.identity)
           accepted == ~p.issue /\ ~SameSession
           stage == IF accepted THEN "written" ELSE "refused"
           r == [replay EXCEPT !.stage = stage, !.evidence = log, !.results = p.results]
<1>1. replay' = r /\ log' = log /\ UNCHANGED <<source, identity, context, jobs>>
  BY DEF ReplayWrites, SameSession
<1>2. stage = "written" => ~p.issue
  OBVIOUS
<1>3. DOMAIN replay = ReplayFields
  BY DEF SemanticInv, ReplayInv
<1> HIDE DEF p, stage
<1>4. DOMAIN r = ReplayFields /\ r.source = replay.source /\ r.identity = replay.identity
        /\ r.evidence = log /\ r.results = p.results /\ r.stage = stage
  BY <1>3 DEF ReplayFields
<1> HIDE DEF r
<1> QED BY <1>1, <1>2, <1>4 DEF p

LEMMA SemanticKeeps ==
  ASSUME SemanticConstants, ModelClientConstants, SemanticInv, [SemanticNext]_semanticVars
  PROVE  SemanticInv'
<1>1. CASE UNCHANGED semanticVars
  BY <1>1 DEF semanticVars, SemanticInv, SourceInv, JobsInv, LogInv, ReplayInv, FitsItsJob, Shown
<1>2. ASSUME NEW turn \in Turns, AgentWrites(turn) PROVE SemanticInv'
  BY <1>2, AgentWritesKeeps
<1>3. ASSUME NEW o \in Observers, Observe(o) PROVE SemanticInv'
  BY <1>3, ObserveKeeps
<1>4. ASSUME NEW o \in Observers, NEW job \in jobs[o], NEW out \in Answers, Complete(o, job, out)
      PROVE  SemanticInv'
  BY <1>4, CompleteKeeps
<1>5. ASSUME NEW stream, NEW elsewhere, NEW who, ReplayOpens(stream, elsewhere, who)
      PROVE  SemanticInv'
  BY <1>5, ReplayOpensKeeps
<1>6. ASSUME ReplayWrites PROVE SemanticInv'
  BY <1>6, ReplayWritesMakes
     DEF SemanticInv, SourceInv, JobsInv, LogInv, ReplayInv, FitsItsJob, Shown
<1> QED BY <1>1, <1>2, <1>3, <1>4, <1>5, <1>6 DEF SemanticNext

-----------------------------------------------------------------------------
LEMMA LogTiles ==
  SemanticInv => SpansTileTheTurn
<1> SUFFICES ASSUME SemanticInv, NEW i \in DOMAIN log
             PROVE  Tiles(log[i].result.spans, log[i].job.input.turn)
  BY DEF SpansTileTheTurn
<1> DEFINE q == log[i].result.spans
           turn == log[i].job.input.turn
<1>1. IsSeq(q) /\ Covers(q, turn.bytes)
  BY DEF SemanticInv, LogInv, FitsItsJob
<1> HIDE DEF q, turn
<1>2. q # <<>> => Head(q) = q[1] /\ Last(q) = q[Len(q)]
  BY <1>1 DEF IsSeq, Last
<1>3. Tiles(q, turn)
  BY <1>1, <1>2 DEF Tiles, Covers
<1> QED BY <1>3 DEF q, turn

(* Whatever the evidence licenses for an input resolves what stood. *)
LEMMA ClassifiedResolves ==
  ASSUME SemanticInv, NEW in, NEW who
  PROVE  KeysOf(Classified(in, Matches(log, in, who), log)) \subseteq in.outstanding
<1> DEFINE M == Matches(log, in, who)
           i == CHOOSE i \in M : TRUE
<1>1. CASE Eligible(in) /\ Licenses(M)
  <2>1. M # {}
    <3>1. Cardinality({}) = 0
      BY FS_EmptySet
    <3> QED BY <1>1, <3>1 DEF Licenses
  <2>2. i \in M
    BY <2>1
  <2>3. i \in DOMAIN log /\ log[i].job = Job(in, who)
    BY <2>2 DEF Matches
  <2>4. log[i].job.input = in
    BY <2>3 DEF Job
  <2>5. KeysOf(log[i].result) \subseteq log[i].job.input.outstanding
    BY <2>3 DEF SemanticInv, LogInv, FitsItsJob
  <2>6. Classified(in, M, log) = log[i].result
    BY <1>1 DEF Classified
  <2> HIDE DEF M, i
  <2> QED BY <2>4, <2>5, <2>6 DEF M
<1>2. CASE ~(Eligible(in) /\ Licenses(M))
  <2>1. Classified(in, M, log) = Markers(in)
    BY <1>2 DEF Classified
  <2>2. KeysOf(Markers(in)) \subseteq in.outstanding
    BY DEF KeysOf, Markers
  <2> QED BY <2>1, <2>2
<1> QED BY <1>1, <1>2

LEMMA RecordsResolve ==
  ASSUME SemanticInv, ReplayWrites
  PROVE  OnlyStandingIsResolved'
<1> DEFINE p == Projection(replay.source, log, replay.stream, replay.identity)
           q == p.results
           n == Len(replay.source)
<1>1. replay'.results = q
  BY ReplayWritesMakes
<1>2. n \in Nat
  BY DEF SemanticInv, ReplayInv
<1>3. Projects(p, n, log, replay.identity)
  BY <1>2, ProjectionProjects
<1> HIDE DEF p, n
<1>4. IsSeq(q) /\ Len(q) = n /\ DOMAIN q = 1..n
  BY <1>3 DEF Projects, IsSeq
<1>5. ASSUME NEW i \in 1..n PROVE KeysOf(q[i].result) \subseteq q[i].input.outstanding
  <2>1. ClassifiedBy(q[i], log, replay.identity)
    BY <1>3 DEF Projects
  <2> QED BY <2>1, ClassifiedResolves DEF ClassifiedBy
<1>6. ASSUME NEW i \in 1..n, i < n, q[i].input.turn.speaker = "operator"
      PROVE  q[i].result.stated \subseteq q[i + 1].input.outstanding
  BY <1>2, <1>3, <1>6 DEF Projects, StatedStands
<1> HIDE DEF q
<1> QED BY <1>1, <1>4, <1>5, <1>6 DEF OnlyStandingIsResolved, Standing, KeysOf

LEMMA RecordsRest ==
  ASSUME SemanticInv, ReplayWrites
  PROVE  ReplayRestsOnTheLog'
<1> DEFINE p == Projection(replay.source, log, replay.stream, replay.identity)
           q == p.results
           n == Len(replay.source)
           who == replay.identity
           answered(r) == {i \in DOMAIN log : /\ log[i].job.input = r.input
                                              /\ log[i].job.identity = who
                                              /\ log[i].status = "completed"}
<1>1. replay'.results = q /\ replay'.evidence = log /\ replay'.identity = who
        /\ (replay'.stage = "written" => ~p.issue)
  BY ReplayWritesMakes
<1>2. n \in Nat
  BY DEF SemanticInv, ReplayInv
<1>3. Projects(p, n, log, who)
  BY <1>2, ProjectionProjects
<1> HIDE DEF p, n
<1>4. IsSeq(q) /\ Len(q) = n /\ DOMAIN q = 1..n
  BY <1>3 DEF Projects, IsSeq
<1>5. ASSUME NEW r PROVE answered(r) = Matches(log, r.input, who)
  <2>1. \A i \in DOMAIN log : log[i].job = Job(log[i].job.input, log[i].job.identity)
    BY DEF SemanticInv, LogInv, FitsItsJob, Shown
  <2>2. \A i \in DOMAIN log : log[i].job = Job(r.input, who)
                                <=> log[i].job.input = r.input /\ log[i].job.identity = who
    BY <2>1 DEF Job
  <2> QED BY <2>2 DEF Matches
<1>6. ASSUME NEW i \in 1..n, ~p.issue, Eligible(q[i].input)
      PROVE  /\ Cardinality(answered(q[i])) = 1
             /\ \A j \in answered(q[i]) : q[i].result = log[j].result
  <2> DEFINE M == Matches(log, q[i].input, who)
  <2>1. Licenses(M)
    BY <1>3, <1>6 DEF Projects, LicensedBy
  <2>2. Cardinality(M) = 1
    BY <2>1 DEF Licenses
  <2>3. q[i].result = Classified(q[i].input, M, log)
    BY <1>3 DEF Projects, ClassifiedBy
  <2>4. IsFiniteSet(M)
    <3>1. IsFiniteSet(DOMAIN log)
      <4>1. DOMAIN log = 1..Len(log) /\ Len(log) \in Nat
        BY DEF SemanticInv, LogInv, IsSeq
      <4> QED BY <4>1, FS_Interval
    <3> QED BY <3>1, FS_Subset DEF Matches
  <2>5. PICK x : M = {x}
    BY <2>2, <2>4, FS_Singleton
  <2>6. (CHOOSE j \in M : TRUE) = x
    BY <2>5
  <2>7. q[i].result = log[x].result
    BY <2>1, <2>3, <2>6, <1>6 DEF Classified
  <2>8. answered(q[i]) = M
    BY <1>5
  <2> HIDE DEF M, answered
  <2> QED BY <2>2, <2>5, <2>7, <2>8
<1>7. ASSUME ~p.issue, NEW r \in ToSet(q), Eligible(r.input)
      PROVE  /\ Cardinality(answered(r)) = 1
             /\ \A j \in answered(r) : r.result = log[j].result
  <2>1. PICK i \in 1..n : r = q[i]
    <3> HIDE DEF q
    <3> QED BY <1>4, <1>7 DEF ToSet
  <2> HIDE DEF q, answered
  <2> QED BY <1>6, <1>7, <2>1
<1> HIDE DEF q
<1> QED BY <1>1, <1>7 DEF ReplayRestsOnTheLog

LEMMA AnswersFitStays ==
  ASSUME SemanticConstants, ModelClientConstants, SemanticInv, OnlyStandingIsResolved,
         [SemanticNext]_semanticVars
  PROVE  OnlyStandingIsResolved'
<1>1. CASE replay' = replay
  BY <1>1 DEF OnlyStandingIsResolved, Standing
<1>2. ASSUME NEW stream, NEW elsewhere, NEW who, ReplayOpens(stream, elsewhere, who)
      PROVE  OnlyStandingIsResolved'
  BY <1>2, ReplayOpensKeeps DEF OnlyStandingIsResolved
<1>3. CASE ReplayWrites
  BY <1>3, RecordsResolve
<1> QED BY <1>1, <1>2, <1>3
     DEF SemanticNext, semanticVars, AgentWrites, Observe, Complete

LEMMA ReplayRestsStays ==
  ASSUME SemanticInv, ReplayRestsOnTheLog, [SemanticNext]_semanticVars
  PROVE  ReplayRestsOnTheLog'
<1>1. CASE replay' = replay
  BY <1>1 DEF ReplayRestsOnTheLog
<1>2. ASSUME NEW stream, NEW elsewhere, NEW who, ReplayOpens(stream, elsewhere, who)
      PROVE  ReplayRestsOnTheLog'
  BY <1>2, ReplayOpensKeeps DEF ReplayRestsOnTheLog
<1>3. CASE ReplayWrites
  BY <1>3, RecordsRest
<1> QED BY <1>1, <1>2, <1>3
     DEF SemanticNext, semanticVars, AgentWrites, Observe, Complete

LEMMA ReplayInitially == SemanticInit => OnlyStandingIsResolved /\ ReplayRestsOnTheLog
  BY DEF SemanticInit, NoReplay, OnlyStandingIsResolved, ReplayRestsOnTheLog

-----------------------------------------------------------------------------
LEMMA PrefixOfItself == ASSUME NEW S, NEW q \in Seq(S) PROVE IsPrefix(q, q)
  BY DEF IsPrefix

LEMMA PrefixOfAppended == ASSUME NEW S, NEW q \in Seq(S), NEW e PROVE IsPrefix(q, Append(q, e))
<1>1. q \in Seq(S \cup {e}) /\ e \in S \cup {e}
  OBVIOUS
<1>2. Append(q, e) \in Seq(S \cup {e}) /\ Len(Append(q, e)) = Len(q) + 1
  BY <1>1
<1>3. \A i \in 1..Len(q) : Append(q, e)[i] = q[i]
  BY <1>1
<1>4. SubSeq(Append(q, e), 1, Len(q)) = SubSeq(q, 1, Len(q))
  BY <1>1, <1>2, <1>3
<1> QED BY <1>2, <1>4 DEF IsPrefix

(* What a step does to the log: nothing, or one completion at its end.     *)
LEMMA LogGrows ==
  ASSUME SemanticNext
  PROVE  log' = log \/ \E e : log' = Append(log, e)
<1>1. CASE \E turn \in Turns : AgentWrites(turn)
  BY <1>1 DEF AgentWrites
<1>2. CASE \E o \in Observers : Observe(o)
  BY <1>2 DEF Observe
<1>3. ASSUME NEW o \in Observers, NEW job \in jobs[o], NEW out \in Answers, Complete(o, job, out)
      PROVE  \E e : log' = Append(log, e)
  BY <1>3 DEF Complete
<1>4. CASE \E stream \in {Live, Other}, elsewhere \in BOOLEAN, who \in Identities :
             ReplayOpens(stream, elsewhere, who)
  BY <1>4 DEF ReplayOpens
<1>5. CASE ReplayWrites
  BY <1>5 DEF ReplayWrites, SameSession
<1> QED BY <1>1, <1>2, <1>3, <1>4, <1>5 DEF SemanticNext

LEMMA EvidenceStays ==
  ASSUME SemanticInv, [SemanticNext]_semanticVars
  PROVE  [IsPrefix(log, log')]_semanticVars
<1>1. log \in Seq({log[i] : i \in DOMAIN log})
  BY DEF SemanticInv, LogInv, IsSeq
<1>2. CASE log' = log
  BY <1>1, <1>2, PrefixOfItself
<1>3. CASE \E e : log' = Append(log, e)
  BY <1>1, <1>3, PrefixOfAppended
<1> QED BY <1>2, <1>3, LogGrows DEF semanticVars

-----------------------------------------------------------------------------
(* No replay, under whichever stream, directory or configuration, takes    *)
(* anything away from the completions of the session it reads (main.go:    *)
(* the output must not be the session the evidence is in).                 *)
THEOREM EvidenceIsKept == SemanticSpec => EvidenceSurvives
<1> QED BY SemanticConstants, ModelClientConstants, SemanticInitially, SemanticKeeps,
           EvidenceStays, PTL DEF SemanticSpec, EvidenceSurvives

(* Whatever the model answers, the spans of every completion cover its     *)
(* turn exactly once (openai.go: validate, tile), and a replay resolves    *)
(* only what stands and lets stand what a turn states.                     *)
THEOREM AnswersFit == SemanticSpec => []AnswersFitTheTurn
<1> QED BY SemanticConstants, ModelClientConstants, SemanticInitially, SemanticKeeps, LogTiles,
           ReplayInitially, AnswersFitStays, PTL DEF SemanticSpec, AnswersFitTheTurn

(* A replay that was written rests on the live session: each record worth  *)
(* a request was sent in the state the replay has reached, by the          *)
(* classifier it is configured with, was answered once, and that answer is *)
(* what was projected (persisted.go: Classify; main.go:                    *)
(* preflightPersistedReplay).                                              *)
THEOREM ReplayRests == SemanticSpec => []ReplayRestsOnTheLog
<1> QED BY SemanticConstants, ModelClientConstants, SemanticInitially, SemanticKeeps,
           ReplayInitially, ReplayRestsStays, PTL DEF SemanticSpec
=============================================================================
