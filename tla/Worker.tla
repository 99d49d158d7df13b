------------------------------- MODULE Worker -------------------------------
(***************************************************************************)
(* The deferred semantic lane (internal/classify/async.go) with the watch  *)
(* loop that feeds and drains it (cmd/flow-indicator/main.go: watchFile,   *)
(* appendSemanticCompletions, and the restart of a pane watch).            *)
(*                                                                         *)
(* A fixed pool of goroutines takes jobs from a bounded channel, runs the  *)
(* classifier, counts the outcome under the mutex and hands it on through  *)
(* a second bounded channel.  The watch loop submits without blocking,     *)
(* drains what has arrived, and at its end cancels the lane, waits for the *)
(* pool and drains the rest.  A select with two ready cases takes either.  *)
(*                                                                         *)
(* A job is the ordinal of the eligible record it was made from; latencies *)
(* and the content of results are left out.                                *)
(***************************************************************************)
EXTENDS Integers, Sequences, FiniteSets

CONSTANTS
  Workers,     \* the goroutines of the pool
  Queue,       \* classifier.max_queue: capacity of the job channel
  MaxJobs,     \* bound on the eligible records of a behaviour
  MaxWatches   \* bound on the sessions one pane watch follows

ASSUME WorkerConstants ==
  /\ IsFiniteSet(Workers)
  /\ Queue \in Nat \ {0}
  /\ MaxJobs \in Nat
  /\ MaxWatches \in Nat \ {0}

VARIABLES
  jobs,           \* w.jobs: the accepted jobs no goroutine has taken
  results,        \* w.results: outcomes on their way to the watch loop
  resultsClosed,  \* the results channel was closed
  canceled,       \* w.ctx is done
  closed,         \* w.closed
  requested,      \* w.stats.Requested
  dropped,        \* w.stats.Dropped
  pending,        \* w.stats.Pending
  counted,        \* w.stats.Completed, Failed, TimedOut and Canceled
  pc,             \* where each goroutine is in run
  held,           \* the job each goroutine took last
  verdict,        \* the status its classification came to
  watch,          \* where the watch loop is
  watches,        \* sessions followed so far
  submitted,      \* eligible records so far
  refused,        \* the jobs Submit refused with "submit after close"
  log             \* the completions appended to the session

countVars == <<requested, dropped, pending, counted>>
laneVars == <<jobs, results, resultsClosed, canceled, closed, countVars>>
poolVars == <<pc, held, verdict>>
watchVars == <<watch, watches, submitted, refused, log>>
workerVars == <<laneVars, poolVars, watchVars>>

Jobs == 1..MaxJobs
Outcomes == {"completed", "failed", "timedOut", "canceled"}
Completions == [job : Jobs, status : Outcomes]

Init ==
  /\ jobs = <<>>
  /\ results = <<>>
  /\ resultsClosed = FALSE
  /\ canceled = FALSE
  /\ closed = FALSE
  /\ requested = 0
  /\ dropped = 0
  /\ pending = 0
  /\ counted = [outcome \in Outcomes |-> 0]
  /\ pc = [w \in Workers |-> "select"]
  /\ held = [w \in Workers |-> 0]
  /\ verdict = [w \in Workers |-> "none"]
  /\ watch = "live"
  /\ watches = 1
  /\ submitted = 0
  /\ refused = {}
  /\ log = <<>>

-----------------------------------------------------------------------------
(* Submit, called by Hybrid.Classify for an eligible record the watch loop *)
(* pushed.  It never blocks.                                               *)
Eligible ==
  /\ watch = "live"
  /\ submitted < MaxJobs
  /\ submitted' = submitted + 1

SubmitAccepted ==
  /\ Eligible
  /\ ~closed
  /\ Len(jobs) < Queue
  /\ jobs' = Append(jobs, submitted')
  /\ requested' = requested + 1
  /\ pending' = pending + 1
  /\ UNCHANGED <<dropped, counted, results, resultsClosed, canceled, closed, poolVars, watch, watches, refused, log>>

SubmitDropped ==
  /\ Eligible
  /\ ~closed
  /\ Len(jobs) >= Queue
  /\ dropped' = dropped + 1
  /\ UNCHANGED <<requested, pending, counted, jobs, results, resultsClosed, canceled, closed, poolVars, watch, watches,
                 refused, log>>

SubmitRefused ==
  /\ Eligible
  /\ closed
  /\ refused' = refused \cup {submitted'}
  /\ UNCHANGED <<laneVars, poolVars, watch, watches, log>>

-----------------------------------------------------------------------------
(* run: one goroutine of the pool. *)
(* Mutant: a job leaves Pending when it is taken, not when it is recorded. *)
Take_Settled(w) ==
  /\ pc[w] = "select"
  /\ jobs # <<>>
  /\ held' = [held EXCEPT ![w] = Head(jobs)]
  /\ jobs' = Tail(jobs)
  /\ pc' = [pc EXCEPT ![w] = "classifying"]
  /\ pending' = pending - 1
  /\ counted' = [counted EXCEPT !["completed"] = @ + 1]
  /\ UNCHANGED <<results, resultsClosed, canceled, closed, requested, dropped, verdict, watchVars>>

Take(w) ==
  /\ pc[w] = "select"
  /\ jobs # <<>>
  /\ held' = [held EXCEPT ![w] = Head(jobs)]
  /\ jobs' = Tail(jobs)
  /\ pc' = [pc EXCEPT ![w] = "classifying"]
  /\ UNCHANGED <<results, resultsClosed, canceled, closed, countVars, verdict, watchVars>>

(* Mutant: a request ends only when the lane is canceled (no deadline). *)
Classify_NoDeadline(w, outcome) ==
  /\ pc[w] = "classifying"
  /\ outcome = "canceled"
  /\ canceled
  /\ verdict' = [verdict EXCEPT ![w] = outcome]
  /\ pc' = [pc EXCEPT ![w] = "recording"]
  /\ UNCHANGED <<laneVars, held, watchVars>>

(* The classifier returns.  The job context is canceled with the lane, but *)
(* an answer may have arrived all the same.                                *)
Classify(w, outcome) ==
  /\ pc[w] = "classifying"
  /\ outcome = "canceled" => canceled
  /\ verdict' = [verdict EXCEPT ![w] = outcome]
  /\ pc' = [pc EXCEPT ![w] = "recording"]
  /\ UNCHANGED <<laneVars, held, watchVars>>

(* record: the counters move under the mutex. *)
Record(w) ==
  /\ pc[w] = "recording"
  /\ counted' = [counted EXCEPT ![verdict[w]] = @ + 1]
  /\ pending' = IF pending > 0 THEN pending - 1 ELSE pending
  /\ pc' = [pc EXCEPT ![w] = "sending"]
  /\ UNCHANGED <<requested, dropped, jobs, results, resultsClosed, canceled, closed, held, verdict, watchVars>>

(* The results channel has room for one completion per goroutine. *)
Send(w) ==
  /\ pc[w] = "sending"
  /\ Len(results) < Cardinality(Workers)
  /\ results' = Append(results, [job |-> held[w], status |-> verdict[w]])
  /\ pc' = [pc EXCEPT ![w] = "select"]
  /\ UNCHANGED <<jobs, resultsClosed, canceled, closed, countVars, held, verdict, watchVars>>

(* Mutant: the send does not look at the canceled lane. *)
Leave_IdleOnly(w) ==
  /\ pc[w] = "select"
  /\ canceled
  /\ pc' = [pc EXCEPT ![w] = "gone"]
  /\ UNCHANGED <<laneVars, held, verdict, watchVars>>

(* Both selects also end the goroutine once the lane is canceled; at the   *)
(* second one the outcome it holds is lost.                                *)
Leave(w) ==
  /\ pc[w] \in {"select", "sending"}
  /\ canceled
  /\ pc' = [pc EXCEPT ![w] = "gone"]
  /\ UNCHANGED <<laneVars, held, verdict, watchVars>>

Gone == {w \in Workers : pc[w] = "gone"}

(* The goroutine that waits for the pool closes the results. *)
CloseResults ==
  /\ ~resultsClosed
  /\ Gone = Workers
  /\ resultsClosed' = TRUE
  /\ UNCHANGED <<jobs, results, canceled, closed, countVars, poolVars, watchVars>>

-----------------------------------------------------------------------------
(* Mutant: a completion is taken and not appended. *)
Drain_Unlogged ==
  /\ watch \in {"live", "draining"}
  /\ results # <<>>
  /\ results' = Tail(results)
  /\ UNCHANGED <<jobs, resultsClosed, canceled, closed, countVars, poolVars, watchVars>>

(* The watch loop.  flushSemantic(false) appends what has arrived; it runs *)
(* on every heartbeat and after every arrival.                             *)
Drain ==
  /\ watch \in {"live", "draining"}
  /\ results # <<>>
  /\ log' = Append(log, Head(results))
  /\ results' = Tail(results)
  /\ UNCHANGED <<jobs, resultsClosed, canceled, closed, countVars, poolVars, watch, watches,
                 submitted, refused>>

(* stop, or an early return: Close marks the lane closed and cancels it;   *)
(* a lane that is closed already is left alone.                            *)
End(how) ==
  /\ watch = "live"
  /\ watch' = IF ~closed THEN how ELSE IF how = "stopping" THEN "draining" ELSE "done"
  /\ closed' = TRUE
  /\ canceled' = TRUE
  /\ UNCHANGED <<jobs, results, resultsClosed, countVars, poolVars, watches, submitted,
                 refused, log>>

Stop == End("stopping")
Fail == End("failing")

(* The rest of Close: the pool has ended, what is left was never run. *)
CloseEnd ==
  /\ watch \in {"stopping", "failing"}
  /\ Gone = Workers
  /\ counted' = [counted EXCEPT !["canceled"] = @ + pending]
  /\ pending' = 0
  /\ watch' = IF watch = "stopping" THEN "draining" ELSE "done"
  /\ UNCHANGED <<requested, dropped, jobs, results, resultsClosed, canceled, closed, poolVars, watches,
                 submitted, refused, log>>

(* flushSemantic(true) ends when the results are closed and empty. *)
Drained ==
  /\ watch = "draining"
  /\ results = <<>>
  /\ resultsClosed
  /\ watch' = "done"
  /\ UNCHANGED <<laneVars, poolVars, watches, submitted, refused, log>>

(* watch --pane: the pane runs another session now; watchFile is called    *)
(* again with the classifier the first call was given.                     *)
Restart ==
  /\ watch = "done"
  /\ watches < MaxWatches
  /\ watches' = watches + 1
  /\ watch' = "live"
  /\ UNCHANGED <<laneVars, poolVars, submitted, refused, log>>

-----------------------------------------------------------------------------
Submit == SubmitAccepted \/ SubmitDropped \/ SubmitRefused

Step(w) ==
  \/ Take(w)
  \/ \E outcome \in Outcomes : Classify(w, outcome)
  \/ Record(w)
  \/ Send(w)
  \/ Leave(w)

Next ==
  \/ Submit
  \/ \E w \in Workers : Step(w)
  \/ CloseResults
  \/ Drain \/ Stop \/ Fail \/ CloseEnd \/ Drained
  \/ Restart

(* Goroutines that can run do run, and the classifier returns: every       *)
(* request has a deadline.  The watch loop drains on a timer and finishes  *)
(* what it began; nothing makes it submit, stop or follow another session. *)
Fairness ==
  /\ \A w \in Workers : WF_workerVars(Step(w))
  /\ WF_workerVars(CloseResults)
  /\ WF_workerVars(Drain)
  /\ WF_workerVars(CloseEnd \/ Drained)

WorkerSpec == Init /\ [][Next]_workerVars
FairWorkerSpec == WorkerSpec /\ Fairness

-----------------------------------------------------------------------------
LaneTypeOK ==
  /\ jobs \in Seq(Jobs)
  /\ results \in Seq(Completions)
  /\ resultsClosed \in BOOLEAN /\ canceled \in BOOLEAN /\ closed \in BOOLEAN
  /\ requested \in Nat /\ dropped \in Nat /\ pending \in Nat
  /\ counted \in [Outcomes -> Nat]

PoolTypeOK ==
  /\ pc \in [Workers -> {"select", "classifying", "recording", "sending", "gone"}]
  /\ held \in [Workers -> Jobs \cup {0}]
  /\ verdict \in [Workers -> Outcomes \cup {"none"}]

WatchTypeOK ==
  /\ watch \in {"live", "stopping", "failing", "draining", "done"}
  /\ watches \in 1..MaxWatches
  /\ submitted \in 0..MaxJobs
  /\ refused \subseteq Jobs
  /\ log \in Seq(Completions)

WorkerTypeOK == LaneTypeOK /\ PoolTypeOK /\ WatchTypeOK

(* The counters the live view shows add up at every moment the mutex is    *)
(* free: a requested job is pending or has exactly one outcome.            *)
Accounted ==
  requested = counted["completed"] + counted["failed"] + counted["timedOut"]
                + counted["canceled"] + pending

(* Pending is never a leftover: it counts the jobs in the queue and those  *)
(* in the hands of a goroutine, and nothing once Close has returned.       *)
Unsettled == {w \in Workers : pc[w] \in {"classifying", "recording"}}
CloseReturned == closed /\ watch \notin {"stopping", "failing"}

PendingIsWork ==
  pending = IF CloseReturned THEN 0 ELSE Len(jobs) + Cardinality(Unsettled)

(* Nothing is sent on the closed channel, which would panic. *)
NoSendAfterClose == resultsClosed => Gone = Workers

(* The counters and the session log may part only at the end: what was     *)
(* counted as completed is in the log, on its way to it, or was held by a  *)
(* goroutine the cancellation ended, one completion each.                  *)
Of(s, status) == Cardinality({i \in DOMAIN s : s[i].status = status})

LossIsBounded ==
  \A status \in {"completed", "failed", "timedOut"} :
    LET reached == Of(log, status) + Of(results, status)
                     + Cardinality({w \in Workers : pc[w] = "sending" /\ verdict[w] = status})
    IN  counted[status] - reached \in 0..Cardinality(Gone)

(* Closing the lane is orderly: no goroutine sends on the closed channel,  *)
(* and what is lost with it is one completion each.                        *)
ClosingIsOrderly == NoSendAfterClose /\ LossIsBounded

(* Shutdown ends: once the loop has begun to end, the pool, Close and the  *)
(* last drain all finish.                                                  *)
WatchEnds == watch \in {"stopping", "failing", "draining"} ~> watch = "done"

(* A job that was accepted is settled, whether the watch goes on or not.   *)
JobsAreSettled ==
  \A j \in Jobs :
    (\E i \in DOMAIN jobs : jobs[i] = j)
      ~> (\/ CloseReturned
          \/ /\ \A i \in DOMAIN jobs : jobs[i] # j
             /\ \A w \in Unsettled : held[w] # j)

-----------------------------------------------------------------------------
(* INFERENCE.md: eligible records also enter a bounded worker queue; a     *)
(* job is lost to a full queue at worst.                                   *)
EligibleRecordsAreQueued == refused = {}
=============================================================================
