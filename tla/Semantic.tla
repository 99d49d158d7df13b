------------------------------ MODULE Semantic ------------------------------
(***************************************************************************)
(* The semantic evidence of a live session and its strict replay           *)
(* (internal/classify/async.go: Hybrid; persisted.go; and main.go:         *)
(* classifierFor, readSemanticCompletions, preflightPersistedReplay,       *)
(* replay).                                                                *)
(*                                                                         *)
(* The live projector reads the markers; every eligible record also makes  *)
(* a job from the input the markers' state gave it, and what the model     *)
(* answers is appended to the log as a completion, whenever it comes.  A   *)
(* strict replay projects the source again and takes, for each eligible    *)
(* record, the one completion that was made from the very input the replay *)
(* has reached; it is refused before it writes when there is none or more. *)
(*                                                                         *)
(* The worker between job and completion is module Worker.  The sources    *)
(* hold one episode at most: every correction is about the same target and *)
(* no turn leaves it, so the open repair is its depth; and no turn resets  *)
(* (Episodes and Obligations model what is fixed here).                    *)
(***************************************************************************)
EXTENDS ModelClient, FiniteSets

CONSTANTS
  Answers,      \* what the model may answer
  Identities,   \* classifier identities: endpoint, model and prompt
  Observers,    \* the watches of the session that may be alive at once
  Live,         \* the stream of the observed session
  Other,        \* the stream a replay is given instead
  PriorTurns,   \* window.rolling_turns
  MaxRecords    \* bound on the records of the source

ASSUME SemanticConstants ==
  /\ Live # Other
  /\ PriorTurns \in Nat \ {0} /\ MaxRecords \in Nat
  /\ \A out \in Answers :
       /\ DOMAIN out = {"wellFormed", "spans", "stated", "resolved", "corrects"}
       /\ out.spans \in Seq([label : STRING, start : Int, end : Int])

VARIABLES
  source,     \* the records of the source
  identity,   \* the classifier identity each observer was configured with
  context,    \* each observer's projector, as far as an input reads it
  jobs,       \* the inputs each observer's worker holds
  log,        \* the completions in the session directory, oldest first
  replay      \* the strict replay

semanticVars == <<source, identity, context, jobs, log, replay>>

-----------------------------------------------------------------------------
(* The projector, as far as the next input depends on it: Push with its    *)
(* input, projectOperator, resolveObligations and Obligations.Apply.       *)
Fresh == [at |-> 0, prior |-> <<>>, outstanding |-> {}, repair |-> 0]

MarkerCaps == {"released"}
SemanticCaps == {"released", "superseded", "satisfied"}

InputOf(c, stream, turn) ==
  [stream |-> stream, seq |-> c.at + 1, turn |-> turn, prior |-> c.prior,
   outstanding |-> c.outstanding, repair |-> c.repair]

Latest(q) == IF Len(q) > PriorTurns THEN SubSeq(q, Len(q) - PriorTurns + 1, Len(q)) ELSE q

Projected(c, turn, result, caps) ==
  IF turn.speaker # "operator" THEN [c EXCEPT !.at = @ + 1]
  ELSE [at |-> c.at + 1,
        prior |-> Latest(Append(c.prior, turn)),
        outstanding |-> (c.outstanding \ {r.key : r \in {x \in result.resolved : x.kind \in caps}})
                          \cup result.stated,
        repair |-> IF result.corrects THEN c.repair + 1 ELSE c.repair]

-----------------------------------------------------------------------------
NoReplay == [stage |-> "idle", stream |-> Live, elsewhere |-> FALSE, identity |-> "none",
             source |-> <<>>, evidence |-> <<>>, results |-> <<>>]

SemanticInit ==
  /\ source = <<>>
  /\ identity \in [Observers -> Identities]
  /\ context = [o \in Observers |-> Fresh]
  /\ jobs = [o \in Observers |-> {}]
  /\ log = <<>>
  /\ replay = NoReplay

AgentWrites(turn) ==
  /\ Len(source) < MaxRecords
  /\ source' = Append(source, turn)
  /\ UNCHANGED <<identity, context, jobs, log, replay>>

(* An observer pushes the next record: the markers decide, and an eligible *)
(* record makes a job unless the queue is full.                            *)
Job(in, who) == [input |-> in, identity |-> who]

Observe(o) ==
  /\ context[o].at < Len(source)
  /\ LET turn == source[context[o].at + 1]
         in   == InputOf(context[o], Live, turn)
     IN  /\ context' = [context EXCEPT ![o] = Projected(@, turn, Markers(in), MarkerCaps)]
         /\ \/ Eligible(in) /\ jobs' = [jobs EXCEPT ![o] = @ \cup {Job(in, identity[o])}]
            \/ jobs' = jobs
  /\ UNCHANGED <<source, identity, log, replay>>

(* A request ends, and its completion is appended: with the result, or as  *)
(* the failure it was.                                                     *)
Complete(o, job, out) ==
  /\ job \in jobs[o]
  /\ jobs' = [jobs EXCEPT ![o] = @ \ {job}]
  /\ log' = Append(log, [job    |-> job,
                         status |-> IF Valid(out, job.input) THEN "completed" ELSE "failed",
                         result |-> IF Valid(out, job.input) THEN Folded(out, job.input)
                                    ELSE Markers(job.input)])
  /\ UNCHANGED <<source, identity, context, replay>>

-----------------------------------------------------------------------------
(* NewPersisted and Persisted.Classify: the completions of this classifier *)
(* that were made from this very input.                                    *)

(* Mutant: the input's context is not compared. *)
Matches_BySequence(evidence, in, who) ==
  {i \in DOMAIN evidence :
     /\ evidence[i].status = "completed" /\ evidence[i].job.identity = who
     /\ evidence[i].job.input.stream = in.stream /\ evidence[i].job.input.seq = in.seq}

Matches(evidence, in, who) ==
  {i \in DOMAIN evidence : evidence[i].status = "completed" /\ evidence[i].job = Job(in, who)}

(* None is missing evidence, several are ambiguous; either is an issue     *)
(* that refuses the replay, whatever is projected in its place.  A result  *)
(* of another provenance than its completion's is refused as well: the     *)
(* lane writes both from one classifier.                                   *)
Licenses(M) == Cardinality(M) = 1

Classified(in, M, evidence) ==
  IF Eligible(in) /\ Licenses(M) THEN evidence[CHOOSE i \in M : TRUE].result ELSE Markers(in)

(* preflightPersistedReplay, and the projection the replay writes: the     *)
(* same classifier over the same records, from an empty projector.  What   *)
(* the replay has of the first n records is given record by record.        *)
EmptyReplay == [context |-> Fresh, results |-> <<>>, issue |-> FALSE]

Push(p, turn, evidence, stream, who) ==
  LET in     == InputOf(p.context, stream, turn)
      M      == Matches(evidence, in, who)
      result == Classified(in, M, evidence)
  IN  [context |-> Projected(p.context, turn, result, SemanticCaps),
       results |-> Append(p.results, [input |-> in, result |-> result]),
       issue   |-> p.issue \/ (Eligible(in) /\ ~Licenses(M))]

Projections(turns, evidence, stream, who) ==
  LET p[n \in 0..Len(turns)] == IF n = 0 THEN EmptyReplay
                                ELSE Push(p[n - 1], turns[n], evidence, stream, who)
  IN  p

Projection(turns, evidence, stream, who) ==
  Projections(turns, evidence, stream, who)[Len(turns)]

-----------------------------------------------------------------------------
(* replay --semantic-session of the observed session: under its stream or  *)
(* another, with a directory of its own when the stream or the data        *)
(* directory is another, and under the configuration of the day.  The      *)
(* records are read first.                                                 *)
ReplayOpens(stream, elsewhere, who) ==
  /\ replay.stage = "idle"
  /\ source # <<>>
  /\ stream = Other => elsewhere
  /\ replay' = [NoReplay EXCEPT !.stage = "opened", !.stream = stream, !.elsewhere = elsewhere,
                                !.identity = who, !.source = source]
  /\ UNCHANGED <<source, identity, context, jobs, log>>

(* Mutant: the output may be the session the completions are in. *)
SameSession_Allowed == FALSE

(* The output directory is the one the completions were read from. *)
SameSession == ~replay.elsewhere

(* The completions are read and the preflight made; only a replay that is  *)
(* complete and has a directory of its own opens one, with --force, and    *)
(* so over whatever was there.                                             *)
ReplayWrites ==
  /\ replay.stage = "opened"
  /\ LET p == Projection(replay.source, log, replay.stream, replay.identity)
         accepted == ~p.issue /\ ~SameSession
     IN  /\ replay' = [replay EXCEPT !.stage = IF accepted THEN "written" ELSE "refused",
                                     !.evidence = log, !.results = p.results]
         /\ log' = IF accepted /\ ~replay.elsewhere THEN <<>> ELSE log
  /\ UNCHANGED <<source, identity, context, jobs>>

-----------------------------------------------------------------------------
SemanticNext ==
  \/ \E turn \in Turns : AgentWrites(turn)
  \/ \E o \in Observers : Observe(o) \/ \E job \in jobs[o], out \in Answers : Complete(o, job, out)
  \/ \E stream \in {Live, Other}, elsewhere \in BOOLEAN, who \in Identities :
       ReplayOpens(stream, elsewhere, who)
  \/ ReplayWrites

SemanticSpec == SemanticInit /\ [][SemanticNext]_semanticVars

-----------------------------------------------------------------------------
(* The spans of a completion cover its turn exactly once, whatever the     *)
(* model left out: no share is computed over a smaller denominator.        *)
Tiles(spans, turn) ==
  /\ \A i \in DOMAIN spans : spans[i].start < spans[i].end
  /\ \A i \in DOMAIN spans : i > 1 => spans[i].start = spans[i - 1].end
  /\ turn.bytes = 0 <=> spans = <<>>
  /\ spans # <<>> => Head(spans).start = 0 /\ Last(spans).end = turn.bytes

SpansTileTheTurn ==
  \A i \in DOMAIN log : Tiles(log[i].result.spans, log[i].job.input.turn)

(* What a replay drops from the inventory stood in it at that turn, and a  *)
(* requirement the turn states as well stands after it.                    *)
Standing(i) == IF i < Len(replay.results) THEN replay.results[i + 1].input.outstanding ELSE {}

OnlyStandingIsResolved ==
  \A i \in DOMAIN replay.results :
    LET r == replay.results[i]
    IN  /\ {x.key : x \in r.result.resolved} \subseteq r.input.outstanding
        /\ i < Len(replay.results) /\ r.input.turn.speaker = "operator"
             => r.result.stated \subseteq Standing(i)

(* What a model answered is taken only as far as it fits the turn.         *)
AnswersFitTheTurn == SpansTileTheTurn /\ OnlyStandingIsResolved

(* A replay that was written rests on the live session record by record:   *)
(* each eligible record was sent to the model in the state the replay has  *)
(* reached, by the classifier it is configured with, it was answered once, *)
(* and the answer is what was projected.                                   *)
ReplayRestsOnTheLog ==
  replay.stage = "written" =>
    \A r \in ToSet(replay.results) :
      Eligible(r.input) =>
        LET answered == {i \in DOMAIN replay.evidence :
                           /\ replay.evidence[i].job.input = r.input
                           /\ replay.evidence[i].job.identity = replay.identity
                           /\ replay.evidence[i].status = "completed"}
        IN  /\ Cardinality(answered) = 1
            /\ \A i \in answered : r.result = replay.evidence[i].result

(* The append-only evidence survives every replay. *)
EvidenceSurvives == [][IsPrefix(log, log')]_semanticVars

(* INFERENCE.md: a session's semantic reading can be projected again.  A   *)
(* session every record of which the configured classifier has answered    *)
(* once, replayed under another stream as the document shows, is written.  *)
AnsweredOnce(turns, who) ==
  \A i \in DOMAIN turns :
    Cardinality({j \in DOMAIN replay.evidence :
                   /\ replay.evidence[j].status = "completed"
                   /\ replay.evidence[j].job.identity = who
                   /\ replay.evidence[j].job.input.seq = i}) = 1

ReplaysUnderAnotherStream ==
  replay.stage = "refused" /\ replay.stream = Other
    => ~AnsweredOnce(replay.source, replay.identity)
=============================================================================
