---------------------------- MODULE ModelClient ----------------------------
(***************************************************************************)
(* What the semantic tier makes of one answer of the model                 *)
(* (internal/classify/openai.go): which records are worth a request, which *)
(* answers are accepted, and what an accepted answer becomes.              *)
(*                                                                         *)
(* A turn is its speaker, its length in bytes, the offsets a character     *)
(* starts at, and what the markers find in it.  An answer is the spans it  *)
(* labels, the requirements it states and resolves, whether it calls the   *)
(* turn a correction, and whether everything else of it is one JSON object *)
(* within the vocabulary of the schema.                                    *)
(***************************************************************************)
EXTENDS Integers, Sequences, SequencesExt

CONSTANTS
  Turns,      \* the turns a source may hold
  Keys,       \* the requirements
  MaxBytes    \* MaxTurnBytes

Speakers == {"operator", "agent", "tool"}

ASSUME ModelClientConstants ==
  /\ MaxBytes \in Nat
  /\ \A t \in Turns :
       /\ t.speaker \in Speakers /\ t.bytes \in Nat
       /\ t.starts \subseteq 0..(t.bytes - 1) /\ (t.bytes > 0 => 0 \in t.starts)
       /\ t.stated \subseteq Keys /\ t.released \subseteq Keys /\ t.corrects \in BOOLEAN

(* worthSending and the two guards beside it: an input is the turn with    *)
(* its stream and number, the earlier operator turns, the outstanding      *)
(* requirements, and the depth of the open repair, 0 when none is.         *)
WorthSending(in) ==
  \/ in.turn.speaker = "operator"
  \/ in.turn.speaker = "agent" /\ in.repair > 0

Eligible(in) == in.turn.bytes \in 1..MaxBytes /\ WorthSending(in)

-----------------------------------------------------------------------------
(* validate: the spans are in order, apart, inside the turn, and cut no    *)
(* character; what is stated is stated once; what is resolved was shown to *)
(* the model, is resolved once and says what established it.               *)
Boundary(turn, i) == i = turn.bytes \/ i \in turn.starts

(* Mutant: a span may begin inside the one before it. *)
SpansFit_Overlapping(spans, turn) ==
  \A i \in DOMAIN spans :
    /\ 0 <= spans[i].start /\ spans[i].start <= spans[i].end /\ spans[i].end <= turn.bytes
    /\ Boundary(turn, spans[i].start) /\ Boundary(turn, spans[i].end)

SpansFit(spans, turn) ==
  \A i \in DOMAIN spans :
    /\ 0 <= spans[i].start /\ spans[i].start <= spans[i].end /\ spans[i].end <= turn.bytes
    /\ i > 1 => spans[i].start >= spans[i - 1].end
    /\ Boundary(turn, spans[i].start) /\ Boundary(turn, spans[i].end)

ResolutionsFit(resolved, outstanding) ==
  /\ \A i \in DOMAIN resolved : resolved[i].key \in outstanding /\ resolved[i].evidence
  /\ \A i, j \in DOMAIN resolved : resolved[i].key = resolved[j].key => i = j

Valid(out, in) ==
  /\ out.wellFormed
  /\ SpansFit(out.spans, in.turn)
  /\ IsInjective(out.stated)
  /\ ResolutionsFit(out.resolved, in.outstanding)

-----------------------------------------------------------------------------
(* tile: every byte the model left uncovered is a span of its own. *)
Span(label, start, end) == IF start >= end THEN <<>>
                           ELSE <<[label |-> label, start |-> start, end |-> end]>>

EndOf(spans) == IF spans = <<>> THEN 0 ELSE Last(spans).end

Piece(spans, n) ==
  Span("other", IF n = 1 THEN 0 ELSE spans[n - 1].end, spans[n].start)
    \o Span(spans[n].label, spans[n].start, spans[n].end)

Pieces(spans) ==
  LET tiled[n \in 0..Len(spans)] == IF n = 0 THEN <<>> ELSE tiled[n - 1] \o Piece(spans, n)
  IN  tiled

Tile(spans, turn) == Pieces(spans)[Len(spans)] \o Span("other", EndOf(spans), turn.bytes)

(* Heuristic.Classify, as far as it is read here: it finds a release only  *)
(* of what is outstanding.                                                 *)
Markers(in) ==
  [spans    |-> Span("marked", 0, in.turn.bytes),
   stated   |-> in.turn.stated,
   resolved |-> [key : in.turn.released \cap in.outstanding, kind : {"released"}],
   corrects |-> in.turn.corrects]

(* Classify folds an accepted answer; the markers' releases stand when the *)
(* model resolved nothing.                                                 *)
Folded(out, in) ==
  [spans    |-> Tile(out.spans, in.turn),
   stated   |-> ToSet(out.stated),
   resolved |-> IF out.resolved = <<>> THEN Markers(in).resolved
                ELSE {[key |-> r.key, kind |-> r.kind] : r \in ToSet(out.resolved)},
   corrects |-> out.corrects]
=============================================================================
