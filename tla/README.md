# flow-indicator: TLA+ verification project

`flow-indicator` watches a transcript of an operator working with a coding
agent and projects it, record by record, onto three things: what the operator
has asked for and is still owed (the obligation surface), what is being
repaired (repair episodes), and how far a short reference reaches (the control
ratio).  From these it decides one regime per operator turn.  A second,
deferred lane sends some records to a language model without ever holding up
the first.  Around the projector are the commands that find a session, read it
while it is written, store what was observed, replay it with the model's
answers, and calibrate the markers against human labels.  This directory models
those parts in TLA+, checks them with TLC on small instances, and proves the
central invariants with TLAPS for every value of the constants.  Source paths
below are relative to the repository root.

## 1. Inventory

### Components, their state and their operations

| component | code | state | operations |
|---|---|---|---|
| Record clock | `internal/state/projector.go` | sequence, operator-turn ordinal, epoch | `Push`, `Finish` |
| Obligation surface | `internal/state/obligation.go`, `projectOperator` | status and repeat count of each obligation; two indexes (exact key, content tokens) | `Resolve`, `Apply`, `Violate`, `MarkUnknown` |
| Repair episodes, response cycle | `internal/state/repair.go`, `projector.go`, `metrics/pollution.go` | every episode, the open one, those awaiting durability; the current response cycle; the write sets of the two latest cycles | `projectRepair`, `retireActive`, `reopenClosing`, `settleDurability`, `settlePollution`, `observeWrites`, `openStructuralRepair`, `applyReset`, `Finish` |
| Compact references, control baseline | `projector.go` | pending references and their window, the outcome counters, the misses, the baseline, the pending clearing | `resolvePointers`, `addBaseline`, `clearRolling` |
| Trends | `internal/state/trend.go`, `metrics/band.go` | confirmed band, candidate, held count per metric | `observe` |
| Projector and regime | `projector.go`, `regime.go` | all of the above, the drift marks | `Push`, `Finish`, `decideRegime` |
| Marker classifier | `internal/classify/heuristic.go` | none | `Classify` |
| Deferred semantic lane | `internal/classify/async.go`, `cmd/flow-indicator/main.go` | job queue, results channel, counters under a mutex, a pool of goroutines | `Submit`, `run`, `record`, `Close`, `flushSemantic`, restart of a pane watch |
| Model client, strict replay | `internal/classify/openai.go`, `persisted.go`, `main.go` | the completions in a session directory; the context a replay has reached | `Classify`, `validate`, `tile`, `NewPersisted`, `preflightPersistedReplay`, `replay` |
| Live reading | `internal/stream/tail.go`, `main.go` | offset, partial line, channel to the loop | `Next`, `readLive`, `stopWatch` |
| Source adapters | `internal/adapter`, `internal/harness` | the call identifiers of one `Decode`; for Codex a decoder per session | `Decode`, `Open`, `Follow` |
| opencode follower | `internal/harness/opencode.go` | position in a list rebuilt from rows | `Next` |
| Session directory | `internal/store` | append-only event files, the handles of each process | `OpenSession`, `FileFor`, `Append`, `Flush`, `Close` |
| Session selection | `sessions.go`, `current.go`, `pane.go` | none | listing, handles, `resolveSession`, `selectCurrent`, `choosePane` |
| Pane watch | `pane.go`, `main.go` | the session a pane runs, a monitor goroutine | `paneSessionWait`, `watchPaneChange`, `watchPane` |
| Instance records | `instances.go` | one file per observer, a temporary file beside it | `Report`, `Close`, `liveInstances` |
| Sidebar reporter | `herdr.go` | a channel of one row, the last row drawn | `Report`, `run`, `Close` |
| Corpus and split | `corpus.go`, `calibrate/survey.go`, `manifest.go` | the manifest, the copies, transcripts of others | `corpus --build`, `Assign`, `Verify` |
| Calibration units and scores | `calibrate/units.go`, `run.go`, `internal/labels` | accumulators of a cycle, of a response | `EmitUnits`, `parse`, `Align`, `Evaluate` |
| Labelling passes | `internal/labeler`, `annotate.go` | one label file per pass | `Label`, `labelBatch` |
| Metrics, observation, rendering | `internal/metrics`, `internal/observe`, `internal/render`, `pkg/panel` | none that a rule reads back | |

### How they interact

The watch loop is one goroutine: it takes an arrival from the reader, decodes
it, and calls `Projector.Push`.  `Push` shows the classifier the state before
the record (the unresolved inventory, the open episode and the paths it named)
and then applies what the classifier reports, stage by stage, to the three
components in a fixed order; the regime is decided last from what the stages
left, and the trends read the snapshot after it.  The components never call
each other, but they share the record: the target key of a correction may name
an obligation (which is then violated), a reference (which is then missed) or a
file (whose episode it opens or deepens).

`Submit` hands a job to the semantic lane without blocking; the loop drains the
lane's results on a timer and after every arrival, and at its end closes the
lane, waits for the pool and drains the rest.  What comes out is appended to
the session directory as a completion; a strict replay, later and in a process
of its own, takes those completions in place of the model, as far as each was
made from the very input the replay has reached.  A pane watch runs the loop
again, once per session the pane shows, while a monitor polls which one that
is.

The processes share files and nothing else: the harness appends to a transcript
that the tail reads; several commands may open one session directory; every
observer writes an instance record that others list and expire; a corpus
references transcripts that go on changing.  The calibration commands hand each
other files: `corpus` a manifest, `label` units, `annotate` labels, `calibrate`
a score.

### What is hard here, and what makes each part correct

* *Long sequences of legal turns.*  A requirement is found by its exact key or
  by its content tokens; it can be resolved, restated, violated, revived and
  reset.  It must stay one obligation, stay findable while it stands, and every
  change must be explained by an event.
* *Order inside a turn.*  One turn can withdraw, restate, correct and reset.
* *State read before it is changed.*  The classifier sees the state before the
  record; `settlePollution` drops the cycle that a later stage of the same turn
  asks about; a reset clears the rolling state one turn late.
* *Two actors opening episodes.*  The operator by correcting, the agent by
  editing again what it just wrote.  At most one episode is open, outcomes are
  final, and a durable close means that nothing recurred.
* *Windows over ordinals.*  Three windows (durability, outcome, rolling) and a
  run length (trends), each off by one as soon as a comparison moves.
* *Concurrency.*  The pool, the goroutine that closes the results, the loop
  that submits, drains and stops, and selects with two ready cases: counters
  must add up, nothing may be sent on the closed channel, shutdown must end.
* *Files that grow while they are read.*  A chunk ends wherever the tail
  happened to stop, so what links one line to another may be cut; rows grow in
  place, so a position in a rebuilt list may pass something by.  Live reading
  must say what a replay says, or less, and never something else.
* *Several processes on one directory.*  A forced run removes event files that
  another holds open; a reader expires a record its owner is replacing; any of
  them may be killed between two steps.
* *Evidence that outlives its context.*  Two observers of one session log an
  answer each; a replay has another context as soon as one answer differed from
  the markers.  It must rest on exactly one answer that was made from the same
  input, or be refused.
* *Partial results.*  Batches are halved, retried and given up, a copy is cut
  short, a transcript changes between the check of its seal and its reading: a
  score must be of what it names.

`PROJECT.json` lists each hazard at its line with the properties that cover it.

## 2. Modules

| module | models | built on |
|---|---|---|
| `Exchange` | the clock every record moves, and the ways a projector stops | |
| `Obligations` | the obligation surface | `Exchange` |
| `ObligationLifecycle` | abstract: the life of a requirement | |
| `Episodes` | repair episodes and the response cycle | `Exchange` |
| `RepairLifecycle` | abstract: the life of episodes as METRICS.md promises it | |
| `Pointers` | compact references and the control baseline | `Exchange` |
| `Trends` | the bands read off each turn and the crossings that last | `Pointers` |
| `Projector` | the three components under one `Push`, drift marks, regime rules | instances of the three |
| `Worker` | the semantic lane with the loop that feeds, drains and stops it | |
| `Watch` | one live watch: the tail, the goroutine that reads it, the loop and its stop, the sidebar reporter | |
| `Decoding` | the decoders of the file-backed harnesses, chunk by chunk | |
| `OpenCode` | the opencode follower over rows that grow in place | |
| `Follow` | `harness.Follow`: one or the other | `Decoding`, `OpenCode` |
| `Instances` | the records of live observers and whoever lists them | |
| `Readers` | a behaviour of `Follow` or of `Instances` | `Follow`, `Instances` |
| `Selection` | listing, handles, and which session a command is about | |
| `Sessions` | session directories and the commands that open, write, replace and leave them; the watch of a pane | `Selection` |
| `ModelClient` | which records are sent, which answers are accepted, what they become | |
| `Semantic` | the completions of several observers and their strict replay | `ModelClient` |
| `Corpus` | building, sealing and verifying a corpus | |
| `Units` | `EmitUnits` | |
| `Labelling` | one pass of labels | |
| `Scoring` | label files, alignment, the counts of a score | |
| `Calibration` | a behaviour of one of the four commands | `Corpus`, `Units`, `Labelling`, `Scoring` |
| `Obligations_proofs`, `Episodes_proofs`, `Trends_proofs`, `Semantic_proofs` | theorems of these components | the component |
| `Projector_proofs` | theorems of the projector and its components | `Projector`, instances of `Obligations_proofs` and `Episodes_proofs` |
| `Observer_proofs` | theorems of the lane, of instance records, of the opencode follower, of the decoders and of the readers together | `Worker`, `Readers` |
| `Watch_proofs` | theorems of a watch, of handles and of session directories | `Watch`, `Sessions` |
| `Calibration_proofs` | theorems of the four calibration commands | `Calibration` |
| `MC*` | small instances for TLC | |

`Readers` and `Calibration` only choose which of their parts a behaviour is of:
the parts share no state in the code either, and hand each other finished
files.

`PROJECT.json` (`map`) gives the lines every definition stands for.  The
correspondence in outline:

**Obligations.**  An obligation is `<<epoch, key>>`, since a reset empties both
indexes and inside an epoch a key names one obligation.  `status`, `repeats`,
`byKey` and `byRepeat` are the fields and maps of the code.  `ObligationTurn` is
the whole of an operator turn: resolutions of any kinds, licensed by a
capability and a span of evidence, then the turn's candidates (`Introduced`, `Hits`, `Repeated`,
`Revived`; an exact repeat inside the turn is counted once, a rewording of a
candidate the same turn introduced is found in the index that candidate has
just entered), then the violation a correction names, then the reset.
`emitted` is what the record reports.

**Episodes.**  An episode is its index in `repairs`; `active` 0 is the nil
pointer.  The stages of a turn are functions from state to state, composed by
`TurnOutcome` in the order of `projectOperator`.  `EpisodeAgent` is an agent
record: the writes are counted into the cycle that is open *before* the record
may open a structural episode, as in `Push`.  Reads of the nil `priorWrites`
map find nothing, so nil is the empty set; `mapMade` keeps whether
`cycleWrites` was ever made, because a write into it before that panics.

**Pointers.**  A reference is the sequence number of the turn that carried it.
Its window is spent only by turns that could have answered it (`Answered`:
the agent acted in between).  Character counts are left out; the baseline keeps
which turns joined it.

**Trends.**  `trends` is the tracker, `ObserveTurn` its `observe` for one
snapshot.  Two of the banded metrics are tracked: the dereference reliability,
whose evidence only grows (the counters of `Pointers` decide its band), and the
serialization inflation, which is unmeasured while the baseline is short and so
again after every reset.  Its value depends on character counts and is any
band.  `bands` is a history the code does not keep; the properties read it.

**Projector.**  `O`, `E` and `P` are the component modules on shared variables;
`PushOperator` gives one turn its effect on all of them, with the target key
deciding which it names.  `Decide` is the order of the rules of `regime.go`;
the comparisons on character counts are one nondeterministic `weight`, plain
while the baseline is too short to be measured.

**Worker.**  `jobs` and `results` are the two channels; the results channel has
room for one outcome per goroutine.  A goroutine is in one of the places `pc`
names, which are the points of `run` where another goroutine can be scheduled
in between with an observable difference; `record` is one step because it holds
the mutex.  `End` is the first half of `Close` (mark and cancel) and `CloseEnd`
the second (the pool has gone, what is pending was canceled), with everything
else free in between, since `Close` releases the mutex to wait.  `Leave` is the
`ctx.Done` case of either select.  `Fail` is an error return, which closes the
lane and does not drain it.  `Restart` is the pane watch calling `watchFile`
again with the same classifier.

**Watch.**  The file is a number of bytes, two to a line, so that a line can be
seen half written; `FileGrows` and `Truncate` are the harness that writes it.
`offset` and `held` are `t.offset` and the length of `t.partial`; one action is
one turn of the loop in `Tail.Next` that does something, and every outcome of it
is offered on the unbuffered channel (`Offer`), where `Withdraw` is the other
case of `readLive`'s select.  A chunk the decoder refuses is a `Read` that
offers an error: the offset has moved all the same.  `Receive` projects an
arrival, `Draw` is the whole of `draw` as far as the row is concerned, `Stop`
the three ways to be told to stop, `Fail` the error returns, also in the middle
of an arrival, `RecordStop` is `stopWatch`, and `Return` the deferred `Close` of
the reporter.  `due` says whether the refresh interval is over.  The start
offset is 0, since only what comes after it is read.

**Decoding.**  A line is the fields its decoder reads, or one it refuses: the
scanner of Codex gives up on a line that is too long.  `DecodeChunk` is one
call of `Decode` on whatever whole lines the tail found; `carry` is what the
decoder keeps between two calls, which is nothing for Claude Code, Qwen and the
neutral format and the working directory for Codex.  `Replayed` is the same
lines in one call, as `Harness.Open` makes it.  `MarkFailed` is the error result
that is written back into the action of its call, and the maps of names and
sites are overridden by a repeated identifier, as the code's are.  A transcript
may be decoded from its end (`start`), where Codex reads its head for the
directory.

**OpenCode.**  `messages` are the rows; the operator's message is inserted
complete, the agent's is a row that gets its parts one by one.  `Poll` rebuilds
`Records` and hands out those behind `sent`, all but a trailing one of the
agent's.  The k-th record is the message that k - 1 others with something in
them come before.  `Queueing` is whether the operator may write while the agent does.

**Instances.**  `Report` is its file operations (`CreateTemp`, `WriteTemp`,
`Rename`, or a failure that removes the temporary file), with anything free in
between; a reader lists the directory once and then reads file by file,
whatever has become of each name.  The listing takes every name that ends in
`.json`, so the temporary files are among the entries.  A record is fresh, expired or stale;
`TakeNumber` is a process number that another process has taken.

**Selection and Sessions.**  An identifier is a sequence of naturals, so that
one can be the beginning of another.  A directory's files are `there` or not,
a process holds a file, holds an orphan (removed under its feet), or has not
opened it; a `buffer` per file stands for `bufio.Writer`, and `Crash` loses it.
`FlushFile` pushes it out after a chunk; `FillBuffer` is the buffer that is full
in the middle of a line, after which the file is `torn` until that run writes
the other half, and `garbled` when another run writes behind the first half.
`Open` asks whether there are events and decides, `RemoveFile` removes one file
at a time, in between which any other process acts.  `shared` is a history: the
directories with events of runs that had them open together.  `MonitorReads`
and `MonitorCancels` are the query of the monitor and its cancellation, which a
signal may precede; `Close` of a watch that its monitor ended resolves the pane
again.  Modification times are a free choice (`Chosen`).

**ModelClient and Semantic.**  A turn is its length in bytes, the offsets where
a character starts, and what the markers find.  `Valid` and `Tile` are
`validate` and `tile`; `Folded` is what `Classify` makes of an accepted answer.
`Projected` is the projector as far as the next input depends on it.  Every
observer has a projector and jobs of its own and appends completions to one
log.  `Projection` is the preflight and the projection of a replay; `Matches`
compares the whole input, as the code compares its fields and fingerprints.

**Corpus.**  Bytes are numbers and a hash is the number of what was hashed.
`build` is the command that is running: `Scan` looks for duplicates and deals
the split, then each session is sealed in a step of its own (`SealInPlace`,
`KeepCopy`, `SealCopy`), and `WriteManifest` comes last.  Transcripts may grow or
go in between; the command may stop anywhere (`StopBuild`), inside a copy
(`CutCopy`) or inside the manifest, which then is not `readable`.  The survey's
filters choose the candidates and are free.
`Verify` and `Predict` are the two passes of `calibrate.Run` over the selected
sessions, with other processes in between.

**Units, Labelling, Scoring.**  `Units` keeps the code's accumulators and lets a
text be the position of its record.  `Labelling` has the recursion of
`labelBatch` on an explicit stack, because a request may fail at any depth.
`Align` sorts by what `align.go` sorts by and takes greedily; what a build
predicts is any claim.

## 3. Runs

| run | what it asks |
|---|---|
| `obligations` | is the surface consistent, explained by its events, and an implementation of `ObligationLifecycle`? |
| `episodes` | do episodes open, deepen, recur, close and end as promised, one at a time; does what a response cycle claims rest on writes it saw; do they implement `RepairLifecycle`? |
| `pointers` | is every reference settled and counted once, by the right evidence; are the trends what the whole history of bands says, gaps included; does a reset clear what rolls? |
| `projector` | do the regime, the marks, the episodes and the surface agree, also across a reset? |
| `worker` | do the counters add up, is nothing sent after close, is loss bounded, does shutdown end and is every accepted job settled? |
| `watch` | is no line skipped, is every finished line projected, does a canceled watch return, and does the row catch up although offers are dropped? |
| `readers` | what does a reader make of a file that is being written: a transcript cut into chunks anywhere, rows that grow in place, records that are replaced and removed? |
| `sessions` | are events lost or doubled when replays and watches open, replace and leave directories together; do handles resolve; does a pane's watch follow it and end on a signal? |
| `semantic` | can a replay project an answer that was made from another state, by another classifier, or more than once; can it destroy its own evidence? |
| `calibration` | does each step of a calibration hand on what it says it does? |
| `semantic_other`, `calibration_duplicates` | two disagreements of section 6, each found as a counterexample |

**Bounds and why they are enough.**  `MaxRecords`, `MaxEpoch`, `MaxCandidates`,
`MaxJobs`, `MaxWatches`, `MaxLines`, `MaxMessages`, `MaxParts`, `MaxRuns`,
`MaxSession`, `MaxLabels`, `MaxPredictions` and the `MaxBytes` of `Corpus` bound
behaviours and appear only in guards (and some of them as the range of
identities and counts).  The `MaxBytes` of `ModelClient` is a constant of the
code.  Deadlock is not checked because a bounded source stops.

* `obligations`: three sentences, two of them rewordings of one another and one
  without content tokens, are all the relations two candidates can have; two
  candidates per turn reach the case of a sentence restated, or reworded, within
  the turn that introduced it.  Four records fit stating, withdrawing,
  restating or violating, and a reset.  The two rewordings are symmetric.
* `episodes`: a window of two turns makes "in the window", "on its edge" and
  "past it" different turns.  Six records fit correction, answer, provisional
  close, recurrence and a second close, or a lapse followed by another
  correction.  Target `f` reads the same in a turn and in a write; `g` can be
  named by a turn and never by a write.  Two episodes of one target that wait
  together need a window of three and are not in the run; section 4 says what an
  instance with that window showed.
* `pointers`: an outcome window of two, so a reference can be passed over once;
  a rolling window of two, so the baseline overflows; trends that must hold for
  two turns, so a run can be interrupted; five records fit a confirmed band, a
  gap or a reset, and a crossing.
* `projector`: one sentence that is a scope candidate, one file that is both a
  reference and a path, thresholds small enough that every regime rule fires.
  Four records let a correction be deepened to thrash or violate what was
  restated.
* `worker`: two goroutines and a queue of one with three jobs fill the queue,
  the pool and the results channel, and make `Submit` drop; two watches reach
  the closed lane.  The invariants of the counters hold for every bound (section
  5).
* `watch`: three lines are two in one arrival and one half written behind them;
  one truncation is enough, since the watch ends with it.
* `readers`: four lines fit a call, another record, its result and one more, with
  a cut in each place; the alphabets (`MCReaders`) hold one line per kind of
  evidence.  Four messages of at most two parts make the trailing answer grow,
  end and be followed.  Two owners of records, so that a listing goes on after
  one it removed.  `Queueing` is false: section 6 says what happens when it is
  not.
* `sessions`: two sessions whose identifiers share a beginning and that record
  one directory, one pane, two event files, one record that goes to the first of
  them and an end that goes to both, two commands (a replay, and a watch of
  either kind).  Two runs are every way two processes can meet on a directory;
  two files are what makes a removal and an opening come apart.  The record is one
  of `LongLines`, so its line may be torn between two writes; what ends a source
  is short.
* `semantic`: one requirement, two observers, two classifier identities, two
  records: the second one is judged in a context the first has changed.  Turns
  of three bytes with one character of two, so that a span can cut a character.
  Observers and identities are symmetric; no property with a liveness part is
  checked under symmetry.
* `calibration`: two sessions of one project (so that they are dealt to two
  sides) and two contents; six records fit two units and the cycles around them;
  four units in batches of three are halved unevenly and down to one; two labels
  and three predictions over spans that nest, cross and touch.

**Fairness.**  `worker`, `watch` and `sessions` have liveness.  In `worker`, a
goroutine that can run does run (the Go scheduler); `Classify` is among the
steps it takes because every request carries a deadline (`async.go` derives the
job context with the classifier's timeout) and so returns; the loop drains on a
timer (`flushSemantic` on the heartbeat) and finishes the `Close` it began.
Nothing is assumed to make the loop submit, stop, fail or follow another
session.  Weak fairness is enough everywhere: no step that must happen is
disabled again and again by another.  In `watch`, the tail polls, the loop takes
an arrival that is on offer and stops when it was told to (a Go select takes
each ready case in the end), a heartbeat comes after the refresh interval
(`herdrRefresh`), and the reporter's pushes end because each is killed after
`herdrTimeout`.  Nothing makes the file grow, the event log fail or a signal
come; an error that is on offer is taken.  In `sessions`, a process that can
take a step takes one (`RunStep`), and so does the monitor of a pane, whose
ticks come (`MonitorStep`); harnesses, panes, commands, signals and kills
promise nothing, and a run may be killed at any time, in which case nothing is
promised of it.

## 4. Properties worth a note

* `SurfaceMovesAsTold`: replaying the events of a record in the order they are
  emitted leads from the surface before to the surface after
  (`EventsExplainSurface`), and what a turn states stands after it
  (`StatedStands`).
* `EpisodesAgree`: at most one episode is open; the list of episodes awaiting
  durability is exactly the provisionally closed ones, they closed on different
  turns (so the first in the list is well defined) and none outlives its window;
  the cycle answers the open episode.
* `OutcomesStand`: outcomes are final, and an episode becomes durable only when
  its target was not corrected in its window.  The second part excludes episodes
  that the agent's re-edit opened.  Such an episode may wait together with
  another of the same target, and `reopenClosing` brings back only the first in
  the list, so the other becomes durable in spite of the correction.  With
  `Durability` 2 the two never wait together; with `Durability` 3 and eight
  records TLC shows it (section 6).
* `ReferencesAreSettledOnce`: the counters of outcomes are the references that
  left the pending list, each by evidence, by its window, by a reset or by the
  end of the source.
* `TrendsFollowTheHistory`: the confirmed band is the last band of the measured
  history that stood for the required turns, however gaps, returns and other
  bands interrupted it.  `CrossingsAreReportedOnce` is the event side of it.
* `RecoveryMeansOpenEpisode`: the regime says recovery or thrash exactly while an
  episode is open, except for one a re-edit opened after the turn was decided.
* `OneCorrectionMarkPerTurn`: two routes mark a correction, the operator's turn
  and the agent's re-edit; drift needs two of them, so neither may mark a turn
  the other has marked.
* `NothingOutlivesItsEpoch`: the one turn that ends an epoch settles every
  episode, reference and requirement of it, through four different code paths.
* `ClosingIsOrderly`: nothing is sent on the closed channel, and the counters and
  the session log may part by at most one outcome per goroutine, and only once
  the lane is canceled.
* `NoLineSkipped`: two goroutines and a file relate the tail's offset to what
  the projector has seen, through chunks that were refused, offers that were
  withdrawn and a stop in between.
* `RowCatchesUp`: the loop remembers a row it offered as shown, also when it was
  dropped; only the refresh makes it true.
* `LiveSpeaksAsReplay`, `FailureIsMissingNotMisreported`, `RolloutCutsDoNotShow`:
  how far a live watch may part from a replay of the same transcript, and on
  which side.  The only turn that changes its speaker is the operator's answer to
  a question, when a chunk ended between the two; a failure may be missing and
  is never invented; for the formats without links no cut shows at all.
* `AnswersAreWholeAndOnce`: a position in a rebuilt list neither repeats nor
  passes over a record, and freezes no answer before it is finished.
* `RecordIsWhole`: an observer's record is never half written, whoever removes
  it by name meanwhile.
* `EventsAreOneRunsReplay`: a run that still holds a file under its name finds in
  it what it wrote, once and in order, whatever other runs do; and in a
  directory that no two runs had open together every event is of one run.
* `PaneIsFollowed` (a pane that settles on a session is followed to it) and
  `InterruptEnds` (a signal ends a watch, whatever its pane does meanwhile).
* `ReplayRestsOnTheLog`: a replay that was written took for each eligible record
  the one completion of that input by that classifier.  `AnswersFitTheTurn`: the
  spans of every completion tile its turn, and a replay drops only what stood.
* `ScoresKeepTheirSubject`: a session that was scored keeps its side of the split
  however corpora are rebuilt, and one that was scored from a copy was read as
  it was sealed.
* `UnitsShowTheirCycle`, `ShortfallIsKnown`, `ScoreIsOfTheJudgements`: a unit
  carries exactly its cycle under any sample; no unit is labelled twice and what
  is announced as abandoned has no label; every judgement is counted in one cell,
  against a claim that fits it best.

Every property of a passing run has a mutant, an operator next to the
definition it replaces (`Name_How`), that breaks it the way a plausible edit of
the code would.

## 5. Proofs

Assumptions: those named next to the constants (`ExchangeBounds`,
`ObligationConstants`, `NowhereIsNoIdentity`, `WorkerConstants`,
`SemanticConstants`, `SelectionConstants`, `CorpusAssumption` and so on), which
TLC evaluates on every instance.  They say that bounds are naturals, that the
pool and the sets of sessions are finite and the queue has room for one job,
that an identifier is a sequence of naturals and no two sessions share one, that
at least one command is started, that the calls on a line of a transcript are a
list, that the place of a label in a file is a number, and that what stands for
"nothing" is no value of its kind.

Each theorem holds of its specification for every value of the constants.  The
names in parentheses are the properties of the runs that the theorems state.

`Obligations_proofs`, of `ObligationSpec`: `ObligationTypeCorrect`,
`IndexesAreSound`, `NoRequirementIsLost` (`InventoryReachable`),
`RewordingsAreOne` (`OneCandidatePerContent`), `ViolationNeedsRestatement`,
`SurfaceIsAsTold` (`SurfaceMovesAsTold`) and `RequirementsLiveAsTold`
(`FollowsLifecycle`, the refinement of `ObligationLifecycle`).

No invariant among them is inductive by itself.  `ObligationInv` adds
`EveryObligationFiled`: every obligation of the current epoch, settled or not,
is in the exact index under its own key, and its content tokens are in the
content-token index.  Without it a settled obligation could be missing from the
indexes, the next mention would be introduced anew, and two obligations would
share their content.  A turn is proved stage by stage: `ResolvingSettles` and
`TurnLeaves` say what status a turn can leave, `IntroducedIsNew` and
`IntroducedApart` that what is introduced was in no index and that two
introductions of one turn are not rewordings of one another, `HitIsFiled` that
what is hit is in the index, `IndexesAfter` what the indexes hold afterwards.
The action property and the refinement are shown one identity at a time
(`TurnStages`).

`Episodes_proofs`, of `EpisodeSpec`: `EpisodesAlwaysAgree` (`EpisodesAgree`),
`OutcomesAlwaysStand` (`OutcomesStand`), `EpisodesLiveAsPromised`
(`FollowsLifecycle`, the refinement of `RepairLifecycle`) and
`RepairsAreVerified` (`RepairIsVerifiedByWrites`).

A turn is a composition of stages from state to state, so the invariant `Sound`
is an operator on such a state and an ordinal, and there is one lemma per stage:
the assessment leaves everything but the verdict and the cycle, the durability
stage moves the clock and leaves every ordinal strictly in the past
(`DurabilityIsSound`), and ending, reopening, closing and opening an episode
each keep it.  It is stronger than what it is for in three places.
`AnswersAreRecorded`: a cycle that is still there after its assessment has seen
no answer; a provisional close leaves the cycle alone and would otherwise keep
one that belongs to no open episode.  `StandApart`: two episodes the operator
opened about one target never stand at once, because a correction looks among
those that wait before it opens another.  `NotTakenBack`: what
`DurableMeansNotCorrected` says, for the episodes that still wait as well.  That
at most `Durability` episodes wait follows because they closed on different
turns of the window (`WaitersAreFew`, an injection).  A cycle that holds a
repair has seen an answer (`RepairIsAnswered`), so it does not outlive the turn
at which the writes it rests on are forgotten.

`Trends_proofs`, of `PointerSpec`: `ReferencesSettle`
(`ReferencesAreSettledOnce`) and `ResetStartsAfresh` (`ResetClearsBaseline`); of
`TrendSpec`: `TrendsAreHistory` (`TrendsFollowTheHistory`) and
`CrossingsAreHistory` (`CrossingsAreReportedOnce`).

`PointersInv` adds that no reference is of a turn that has not come
(`NoneAhead`), that a reset leaves none pending, which is why nothing old joins
the baseline after it, and that the baseline holds settled turns, each once.
The tracker has no history, only a candidate and a count; `Runs` says what the
count means, that the history of measured bands ends with that many of the
candidate and no more, and with it a band crosses exactly when it stands in the
history (`CrossingStands`).

`Projector_proofs`, of `ProjectorSpec`: `ComponentsAreImplemented`,
`ReadingsFitTheEpisodes` (`RecoveryMeansOpenEpisode`),
`ViolationsOpenTheirEpisode` (`ViolationHasItsEpisode`),
`CorrectionsAreMarkedOnce` (`OneCorrectionMarkPerTurn`) and `EpochsAreClosed`
(`NothingOutlivesItsEpoch`).

Every behaviour of the projector is one of `ObligationSpec`, of `EpisodeSpec`
and of `PointerSpec`, on the shared variables.  A step is mapped record by
record (`TurnsMap`, `AgentsMap`, `PanicsMap`); the one fact about reachable
states it needs is `WritesHaveTheirMap`, that the write sets have been made once
an operator turn was seen, without which an agent record of the projector could
panic where `Episodes` would not.  So what is proved or checked of a component
alone holds of it inside the projector, and the theorems of the components are
used as they stand: the module instantiates their proof modules, and
`SameSurface` and `SameEpisodes` show that the operators of the two instances
are the same.  What relates the components rests on them.  `MarksInv` says that
a turn that was marked as a correction has left an episode open, so that a
re-edit, which opens one only when there is none, cannot mark it again; a
violation is looked for under the target of the correction, and what the exact
index holds under a sentence carries that sentence (`ViolationIsNamed`); an
episode that is neither pointed to nor waiting has its outcome (`ClosedIsOver`),
so a reset that empties both leaves none without one.

`Observer_proofs`, of `WorkerSpec`: `WorkerTypeCorrect`, `CountersAddUp`,
`PendingCountsWork` (`PendingIsWork`) and `LaneClosesOrderly`
(`ClosingIsOrderly`); of `InstancesSpec`: `RecordsAreWhole` (`RecordIsWhole`);
of `OpenCodeSpec` without `Queueing`: `AnswersAreHandedOutWhole`
(`AnswersAreWholeAndOnce`); of `DecodingSpec`:
`RolloutsAreReadAsReplayed` (`RolloutCutsDoNotShow`), `LiveSpeaks`
(`LiveSpeaksAsReplay`) and `FailuresAreOnlyMissing`
(`FailureIsMissingNotMisreported`).  `ReadersAreTheirModules`: every behaviour of
`ReadersSpec`, which the run checks, is one of each of the last three, so the
theorems hold of the readers together.

`WorkerInv` ties `pending` to the queue and to the goroutines between taking a
job and recording it, and says that after `Close` has returned every goroutine
is gone; the lemmas on `Unsettled` give the cardinality when one goroutine takes
or records.  It is what makes the guarded decrement in `record` exact: `pending`
is never zero there while the lane is open.  For the record of an observer the
invariant adds `EmptyWhileCreated`: a temporary file is empty only while its
writer has created it and not yet written it, also after a reader removed the
file under the writer's feet.  The follower of opencode keeps a count into a
list it rebuilds: `OpenCodeInv` says that what was handed out is a stretch of
that list of which every message is done, and a step of the store adds to the
list at its end only, because the one message that grows is the newest
(`OnlyLastGrows`, `TopComesLast`).  With `Queueing` it is not, and section 6
says what happens then.

A watch is compared with a replay by running the two decoders beside each other,
line by line (`LinesKeepAlike`, `ReadingKeepsAlike`).  The decoder of Codex or of
the neutral format differs from that of the replay only in what came before
(`Alike`), and agrees with it about the directory from the second line on; the
invariant is `LiveIsReplay`, that the replay is the replay of the skipped lines
followed by what the watch was given.  A Claude Code or Qwen decoder begins each
chunk afresh (`ReadAfresh`) and knows less than the replay: the calls of its own
chunk, at the same lines, while the replay knows the calls before it besides
(`Follows`).  So where the two differ, the replay was reminded of a line before
the chunk, and a chunk ended in between.  A record handed out keeps its meaning
although the replay goes on, because a later line can only mark a call as failed
that the watch left unmarked, and that line is the result of it (`Told`).

`Watch_proofs`, of `WatchSpec`: `WatchTypeCorrect`, `LinesAreNotSkipped`
(`NoLineSkipped`) and `RowIsCleared`; of `SessionsSpec`: `HandlesAreResolved`
(`HandlesResolve`) and `EventsAreOfOneRun` (`EventsAreOneRunsReplay`).

`NoLineSkipped` is an equation only while the watch goes on; after a refused
chunk, a withdrawn offer or a signal an inequality is left.  `WatchInv` adds it
for the arrival in hand (`GivenAway`), with the fact that nothing is projected
after a stop was recorded, and what was pushed at each place of the reporter
(`RowAtEnd`).  `HandlesResolve` is a fact about any set of identifiers: what two
of them share is a length at which they part (`Part`); what lies between two in
lexicographic order shares with either at least what they share with each other
(`BetweenSharesMore`), so no other session shares more with one than its two
neighbours do (`NearestSharesMost`), and a handle that goes past what these
share is of one session only (`HandlesAreOfOne`).

`EventsAreOneRunsReplay` speaks of the files a run holds under their names; the
invariant `SessionsInv` must also know the files it does not hold.  What a run
has removed, and what it has not opened yet since, has nothing from an earlier
life of that run (`Sound`), so that the first fact it says there is the first of
all; what it has flushed comes before what it still buffers.  A directory that
no two runs had open together has one holder at most, the files it has removed
are blank, and once it writes, every event of the directory is its own and so is
every half line (`Alone`, `OwnedBy`).  Each operation moves one run and the files of its stream, so the
steps rest on lemmas about that one run: it says nothing (`IdleMoves`), or its
file was opened, appended to or written, as a whole or up to half a line, or
another run removed the file from under it (`OpenedIsSound`, `AppendedIsSound`,
`PouredIsSound`, `OrphanedIsSound`).

`Calibration_proofs`: `ScoresAreOfTheirSubject` (`ScoresKeepTheirSubject`),
`UnitsCarryWhatHappened` (`UnitsShowTheirCycle`), `ScoresAreOfTheJudgements`
(`ScoreIsOfTheJudgements`) and `UnitsAreLabelledOnce` (`ShortfallIsKnown`) of
the four parts, and `CommandsAreTheirModules`: every behaviour of a calibration
is one of each of them.

`CorpusInv` adds that what a calibration has verified is still in the manifest
on the same side and, for a copy, still has the bytes of its seal
(`VerifiedStands`), and that the build that is running keeps the side of every
entry of the manifest (`BuildStands`).  `UnitsInv` says of the accumulators what the unit will say
of itself (`WindowIsRolled`) and that nothing of a response that is awaited was
lost (`OpenIsLatest`).  `MatchingExists` shows that the greedy matching is a set,
by induction on the place of a candidate in the order, and `ScoreCounts` what
its three counts add up to.  `LabellingInv` describes the calls of `labelBatch`
that have not returned: a chain, each on a half of the batch of the one before,
of halves that have no unit in common (`SplitApart`).

`Semantic_proofs`, of `SemanticSpec`: `AnswersFit` (`AnswersFitTheTurn`),
`ReplayRests` (`ReplayRestsOnTheLog`) and `EvidenceIsKept` (`EvidenceSurvives`).

`SemanticInv` is what is known of the jobs and the completions that answers are
made from.  A tiling covers the turn at every step of its recursion
(`TileCovers`), and a projection classifies each record by what the evidence
licenses (`ProjectionProjects`).

**Recursion and choice.**  The library's induction theorems cannot be used here,
since they take an operator for a parameter.  `NumbersAreReached` is induction
for a *set* of numbers, from the well-foundedness of the naturals.  With it a
recursive function is shown to exist up to every number, so that its definition
may be unfolded, and what one step of it keeps holds at its end.  Where the
model can say by a choice or by rank what the code computes in a loop, it does,
and one lemma shows that what is chosen exists: the matching of `Scoring`
(`Matched`), the order of a label file (`InFileOrder` of `Labelling`), the list
of `OpenCode` (`Records`).

**Only model-checked.**  Every safety property of the passing runs is stated by
a theorem, and the action properties with them.  What is left to TLC:

Liveness is out of the prover's reach: `WatchEnds`, `JobsAreSettled`,
`LinesAreProjected`, `CanceledWatchReturns`, `RowCatchesUp`, `PaneIsFollowed` and
`InterruptEnds`.  So are the violations of section 6, which TLC finds.

## 6. Where the code and what is said of it differ

Two runs end in a counterexample:

| run | what TLC finds |
|---|---|
| `semantic_other` | A session all of whose records were answered is refused when it is replayed under another stream, although INFERENCE.md shows exactly that: a completion matches only under its own stream. |
| `calibration_duplicates` | A copy of a transcript that is referenced by the corpus is sealed under a second identifier: duplicates are looked for in the corpus directory, where a referenced session has no file. |

These were met while modelling and are stated as properties of their modules,
without a run of their own:

* `ProvisionalCloseWasAnswered` (`Episodes`).  A cycle that saw only a tool
  result or an interruption is dropped before `cycleUnanswered` is asked, so an
  episode closes although the agent never answered.
* `WritesBeforeFirstTurnAreHarmless` (`Episodes`).  An agent write before the
  first operator turn assigns into a nil map.
* `EligibleRecordsAreQueued` (`Worker`).  After a pane watch has moved to a
  second session the lane is closed and refuses every eligible record.
* `StopIsWhereProjectionEnded` (`Watch`).  A signal that wins the select over an
  arrival leaves the arrival's lines unprojected, while the stop event and
  `source.json` carry the offset behind them.
* `ErrorsAreReturned` (`Watch`).  With a sidebar target, an error return waits
  for a reporter that only a canceled context ends: the error is not shown until
  a signal comes.
* `AnswersAreTheOperators` (`Decoding`).  `harness/claude.go:134` says that every
  fact a record needs is on that record, so the decoder carries no state between
  chunks; the operator's answer to a question needs the call, and becomes tool
  output when a chunk ended between the two.
* `EachRecordOnce` (`OpenCode`, with `Queueing` true).  When the operator writes
  while the agent does, the answer that grows is not the trailing record any
  more, so it is handed out unfinished, and one that gets its first part after a
  later record was handed out moves the positions: a record is handed out twice
  and another passed over.
* `NeverHalfWritten` (`Instances`).  INTEGRATIONS.md:95 says that a reader never
  sees a half-written record; the listing takes every name that ends in `.json`,
  the temporary file is `.instance-*.json`, and a reader that meets it empty
  fails as a whole.
* `ResponseIsTheCycleAfter` (`Units`).  `units.go:73` says that the response
  fields describe the cycle that followed the turn; with no unit open, the
  accumulator is not reset, so under a sample a unit shows what an earlier cycle
  left as well.
* `EveryShortfallIsAnnounced` (`Labelling`).  `labeler.go:85` says that a pass
  announces units that came back unlabeled; half of a halved batch may be given
  up inside a call that succeeds.

And these have no property:

* `licenseDurable` speaks of no correction of the same target inside the window.
  A correction that deepens an episode the agent's re-edit opened is never looked
  up among the episodes awaiting durability (`projectRepair`), and one that
  reopens one of two such episodes leaves the other (`reopenClosing` takes the
  first); either leaves an episode that becomes durable in spite of it.
* The write that opens a structural episode is counted before that episode's
  cycle exists (`Push` calls `observeWrites` first), so the assessment can say
  "the response cycle carried no observed write" of a cycle that began with one.
* The comment on `repeatMatch` says that classifier and projector cannot disagree
  about a repeat: a sentence and its rewording stated in one turn are a repeat
  for the projector only.
* METRICS.md says that an episode without closing evidence stops accruing after
  the window: one the agent never answers is not looked at.
* METRICS.md says that a band must hold for consecutive turns; a turn without a
  measurement in between neither counts nor ends the run.
* A `corpus --build` without `--copy` hashes the referenced files of earlier runs
  again and writes the new hashes, so a transcript that changed is sealed anew,
  where the comment (`corpus.go:124`) says that it is caught there.
* `copyFile` leaves what it wrote when a copy fails; the next build takes the
  partial file for the sealed one.
* `manifest.json` is written in place: a build that is killed while it writes
  leaves one that cannot be decoded, and every split it recorded is lost.
* The sessions are read after all seals were checked; a referenced transcript
  that grows in between is scored with bytes that were never sealed.
* `sessions --here` and `--adapter` compute handles that are unique within the
  listing, and resolving one looks at every session.
* `main.go:817` says that the session directory is rebuilt from the source every
  time; with `--tail-only` what is rebuilt begins at the end of it.
* The offset of a live watch has moved past a chunk its decoder refuses
  (`live.go:122`): the good records of that chunk are lost with the bad one.
* A reader removes a record that expired long ago by name (`instances.go:210`),
  also when its owner, late, has replaced it after it was read: a live observer is
  missing from the listing until it reports again.
* `OpenSession` asks whether there are events and decides later: two runs that
  open an empty directory together both go on, and every fact is there twice.
  Where the buffer of one is full in the middle of a line, what the other writes
  makes one illegible line of both.
* The Claude Code and Qwen decoders take the first directory of each chunk for
  the root of its targets, and number records without an identifier afresh.
* Labels and predictions are aligned by record and bytes; the session is in
  neither key, so records of two sessions with one identifier are one.

## 7. Not modelled

* What a sentence means: marker matching, normalization and tokenization are
  text processing; the models take any candidates, keys and paths.
* Character counts, ratios and the thresholds of most bands (`internal/metrics`,
  `internal/observe`): floating-point arithmetic without a protocol.  The regime
  rules see the answers of their comparisons; `Trends` sees two metrics.
* Latencies, wording, layout, identifiers, timestamps and source spans;
  `internal/render` and `pkg/panel` as a whole.
* The model client below its answers: the HTTP request, the prompt, the schema.
  That it returns with one of four outcomes is in `Worker`, that an answer may be
  anything in `ModelClient`.
* Kappa, the discriminators and the report of a calibration; the rubric prompts
  of the labelling passes.
* A completion whose result has another provenance (`persisted.go:42`): the lane
  writes both from one classifier, so only a log edited by hand has one.
* The survey's filters and the sampling of units are free choices.
* A file that is truncated and grows past the held offset between two polls: a
  line has no identity in `Watch`, so the new line in the old place is the same
  line.
* `replay-set`: it opens its sessions with force one after the other, which
  is the replay of `Sessions`.

## 8. Plan

1. `Watch` composed with `Worker` in place of the abstract submitter, so that
   the order of the deferred closes and the drain at the stop are checked
   together; a start offset inside a line.
2. `Sessions` with two panes and three runs, when a larger machine allows.
