--------------------------- MODULE Observer_proofs ---------------------------
(***************************************************************************)
(* What holds of a live observer: of the record it leaves in the instance  *)
(* directory, for every set of observers, of the accounting of its         *)
(* semantic lane, for every pool, queue and number of jobs, of what its    *)
(* follower hands out of a store another program writes, and of what its   *)
(* decoders say of a transcript they are handed in chunks.                 *)
(*                                                                         *)
(* RecordIsWhole is not inductive: the rename puts what is in the          *)
(* temporary file under the record's name, so it must be known that the    *)
(* file is empty only while its writer has yet to fill it, also after a    *)
(* reader removed it and after its writer died.                            *)
(*                                                                         *)
(* None of the properties of the lane is inductive alone.  Record lowers   *)
(* pending only when it is positive, so that the sum survives it rests on  *)
(* PendingIsWork: the goroutine that records is itself one of the jobs     *)
(* pending counts.  And PendingIsWork survives the end of Close because    *)
(* nothing runs any more.  ClosingIsOrderly rests on a bound of what may   *)
(* be lost by the goroutines that may still choose the cancellation.       *)
(*                                                                         *)
(* AnswersAreWholeAndOnce says what was handed out, not where it lies: the *)
(* follower keeps a count into a list it rebuilds.  OpenCodeInv says it is *)
(* a stretch of that list, that a step of the store only adds at its end   *)
(* (TopComesLast), and that all of the stretch is done.                    *)
(*                                                                         *)
(* That live and replay agree is proved by running the decoder of the      *)
(* chunk beside the decoder of a replay (Alike, Paired), line by line.     *)
(* For a decoder that carries its state the two differ in what was said    *)
(* before (LiveIsReplay).  For one that begins afresh the replay knows the *)
(* same calls at the same lines and earlier calls besides (Follows): what  *)
(* the watch misses is linked to a line before the chunk (ReadAfresh).     *)
(*                                                                         *)
(* A session is followed by its chunks or by polls, beside a listing of    *)
(* the records: each step is of one reader and leaves the others alone     *)
(* (ReadersAreTheirModules).                                               *)
(***************************************************************************)
EXTENDS Readers, Worker, FiniteSetTheorems, SequenceTheorems, WellFoundedInduction, TLAPS

-----------------------------------------------------------------------------
(* The record of an observer. *)
InstancesTypeOK ==
  /\ process \in [Owners -> {"observer", "none", "other"}]
  /\ writer \in [Owners -> {"idle", "created", "written"}]
  /\ record \in [Owners -> Contents]
  /\ temporary \in [Owners -> Contents]

EmptyWhileCreated == \A o \in Owners : temporary[o] = "empty" => writer[o] = "created"

InstancesInv == InstancesTypeOK /\ EmptyWhileCreated /\ RecordIsWhole

-----------------------------------------------------------------------------
LEMMA InstancesInitially == InstancesInit => InstancesInv
  BY DEF InstancesInit, InstancesInv, InstancesTypeOK, EmptyWhileCreated, RecordIsWhole,
         Contents, Ages

(* A file ages into a file of the same kind. *)
LEMMA AgeingKeepsContents ==
  ASSUME NEW age \in Contents
  PROVE  Older(age) \in Contents /\ (Older(age) = "empty" <=> age = "empty")
  BY DEF Older, Contents, Ages

LEMMA WritersKeep ==
  ASSUME InstancesInv, NEW o \in Owners,
         CreateTemp(o) \/ WriteTemp(o) \/ Rename(o) \/ ReportFails(o)
  PROVE  InstancesInv'
<1> USE DEF InstancesInv, InstancesTypeOK, EmptyWhileCreated, RecordIsWhole, Contents, Ages, Writing
<1>1. CASE CreateTemp(o)
  BY <1>1 DEF CreateTemp
<1>2. CASE WriteTemp(o)
  BY <1>2 DEF WriteTemp
<1>3. CASE Rename(o)
  BY <1>3 DEF Rename
<1>4. CASE ReportFails(o)
  BY <1>4 DEF ReportFails
<1> QED BY <1>1, <1>2, <1>3, <1>4

LEMMA OthersKeep ==
  ASSUME InstancesInv, NEW o \in Owners,
         CloseEmitter(o) \/ Die(o) \/ TakeNumber(o) \/ TimePasses(o)
  PROVE  InstancesInv'
<1> USE DEF InstancesInv, InstancesTypeOK, EmptyWhileCreated, RecordIsWhole
<1>1. CASE CloseEmitter(o)
  BY <1>1 DEF CloseEmitter, Contents
<1>2. CASE Die(o) \/ TakeNumber(o)
  BY <1>2 DEF Die, TakeNumber
<1>3. CASE TimePasses(o)
  <2>1. /\ record' = [record EXCEPT ![o] = Older(record[o])]
        /\ temporary' = [temporary EXCEPT ![o] = Older(temporary[o])]
        /\ UNCHANGED <<process, writer>>
    BY <1>3 DEF TimePasses
  <2>2. /\ Older(record[o]) \in Contents /\ Older(record[o]) # "empty"
        /\ Older(temporary[o]) \in Contents
        /\ Older(temporary[o]) = "empty" => temporary[o] = "empty"
    BY AgeingKeepsContents
  <2> QED BY <2>1, <2>2
<1> QED BY <1>1, <1>2, <1>3

(* A reader only ever takes a file away. *)
LEMMA ReadersKeep == ASSUME InstancesInv, ReaderStep PROVE InstancesInv'
<1> USE DEF InstancesInv, InstancesTypeOK, EmptyWhileCreated, RecordIsWhole
<1>1. CASE ReadDir \/ ReadEntry \/ Answer
  BY <1>1 DEF ReadDir, ReadEntry, Answer
<1>2. CASE RemoveStale
  BY <1>2 DEF RemoveStale, Contents
<1> QED BY <1>1, <1>2 DEF ReaderStep

LEMMA InstancesInductive == ASSUME InstancesInv, [InstancesNext]_instancesVars PROVE InstancesInv'
<1>1. CASE UNCHANGED instancesVars
  BY <1>1 DEF instancesVars, InstancesInv, InstancesTypeOK, EmptyWhileCreated, RecordIsWhole
<1>2. ASSUME NEW o \in Owners, OwnerStep(o) PROVE InstancesInv'
  BY <1>2, WritersKeep, OthersKeep DEF OwnerStep
<1> QED BY <1>1, <1>2, ReadersKeep DEF InstancesNext

-----------------------------------------------------------------------------
(* An observer's record is never half written, whoever dies, fails, reads  *)
(* or removes meanwhile (emitter.Report renames a finished file).          *)
THEOREM RecordsAreWhole == InstancesSpec => []RecordIsWhole
<1>1. InstancesInv => RecordIsWhole
  BY DEF InstancesInv
<1> QED BY <1>1, InstancesInitially, InstancesInductive, PTL DEF InstancesSpec

-----------------------------------------------------------------------------
(* The semantic lane. *)
Busy == {w \in Workers : pc[w] \in {"classifying", "recording", "sending"}}

(* A goroutine that holds an outcome has one, and a job it belongs to.     *)
HoldsAJob ==
  /\ \A w \in Busy : held[w] \in Jobs
  /\ \A w \in Workers : pc[w] \in {"recording", "sending"} => verdict[w] \in Outcomes

(* Close is over only when the pool is, and an open lane has a live watch. *)
Shutdown ==
  /\ ~closed => watch = "live"
  /\ CloseReturned => Gone = Workers

WorkerInv == WorkerTypeOK /\ HoldsAJob /\ Shutdown /\ PendingIsWork /\ Accounted

-----------------------------------------------------------------------------
(* The goroutines a step moves, as sets. *)
LEMMA UnsettledFinite == IsFiniteSet(Unsettled) /\ Cardinality(Unsettled) \in Nat
  BY WorkerConstants, FS_Subset, FS_CardinalityType DEF Unsettled

LEMMA UnsettledGrows ==
  ASSUME NEW w \in Workers, PoolTypeOK,
         pc[w] \notin {"classifying", "recording"},
         pc' = [pc EXCEPT ![w] = "classifying"]
  PROVE  Cardinality(Unsettled') = Cardinality(Unsettled) + 1
<1>1. Unsettled' = Unsettled \cup {w} /\ w \notin Unsettled
  BY DEF Unsettled, PoolTypeOK
<1> QED BY <1>1, UnsettledFinite, FS_AddElement

LEMMA UnsettledShrinks ==
  ASSUME NEW w \in Workers, PoolTypeOK,
         pc[w] = "recording", pc' = [pc EXCEPT ![w] = "sending"]
  PROVE  /\ Cardinality(Unsettled') = Cardinality(Unsettled) - 1
         /\ Cardinality(Unsettled) >= 1
<1>1. Unsettled' = Unsettled \ {w} /\ w \in Unsettled
  BY DEF Unsettled, PoolTypeOK
<1>2. Cardinality(Unsettled) # 0
  BY <1>1, UnsettledFinite, FS_EmptySet
<1>3. Cardinality(Unsettled \ {w}) = Cardinality(Unsettled) - 1
  BY <1>1, UnsettledFinite, FS_RemoveElement
<1> QED BY <1>1, <1>2, <1>3, UnsettledFinite

LEMMA UnsettledKept ==
  ASSUME NEW w \in Workers, NEW to, PoolTypeOK,
         pc[w] \in {"classifying", "recording"} <=> to \in {"classifying", "recording"},
         pc' = [pc EXCEPT ![w] = to]
  PROVE  Unsettled' = Unsettled
  BY DEF Unsettled, PoolTypeOK

LEMMA NobodyUnsettled ==
  ASSUME Gone = Workers
  PROVE  Cardinality(Unsettled) = 0
<1>1. Unsettled = {}
  BY DEF Gone, Unsettled
<1> QED BY <1>1, FS_EmptySet

-----------------------------------------------------------------------------
(* What the four outcomes come to. *)
LEMMA CountsAreNumbers ==
  ASSUME LaneTypeOK
  PROVE  /\ counted["completed"] \in Nat /\ counted["failed"] \in Nat
         /\ counted["timedOut"] \in Nat /\ counted["canceled"] \in Nat
         /\ requested \in Nat /\ pending \in Nat
  BY DEF LaneTypeOK, Outcomes

LEMMA WorkerInitially == Init => WorkerInv
<1> SUFFICES ASSUME Init PROVE WorkerInv
  OBVIOUS
<1>1. WorkerTypeOK
  <2>1. counted \in [Outcomes -> Nat]
    BY DEF Init
  <2>2. LaneTypeOK
    <3>1. jobs \in Seq(Jobs) /\ results \in Seq(Completions)
      BY DEF Init
    <3>2. /\ resultsClosed \in BOOLEAN /\ canceled \in BOOLEAN /\ closed \in BOOLEAN
          /\ requested \in Nat /\ dropped \in Nat /\ pending \in Nat
      BY DEF Init
    <3> QED BY <2>1, <3>1, <3>2 DEF LaneTypeOK
  <2>3. PoolTypeOK
    BY DEF Init, PoolTypeOK
  <2>4. WatchTypeOK
    BY WorkerConstants DEF Init, WatchTypeOK
  <2> QED BY <2>2, <2>3, <2>4 DEF WorkerTypeOK
<1>2. HoldsAJob /\ Shutdown
  BY DEF Init, HoldsAJob, Busy, Shutdown, CloseReturned
<1>3. Unsettled = {}
  BY DEF Init, Unsettled
<1>4. PendingIsWork
  BY <1>3, FS_EmptySet DEF Init, PendingIsWork, CloseReturned
<1>5. Accounted
  BY DEF Init, Accounted, Outcomes
<1> QED BY <1>1, <1>2, <1>4, <1>5 DEF WorkerInv

-----------------------------------------------------------------------------
(* One lemma per action, each with the conjuncts the action disturbs. *)
LEMMA SubmitKeeps == ASSUME WorkerInv, Submit PROVE WorkerInv'
<1> USE WorkerConstants DEF WorkerInv
<1>1. CASE SubmitAccepted
  <2>1. WorkerTypeOK'
    <3>1. jobs' \in Seq(Jobs)
      <4>1. submitted' \in Jobs
        BY <1>1 DEF SubmitAccepted, Eligible, Jobs, WorkerTypeOK, WatchTypeOK
      <4> QED BY <1>1, <4>1 DEF SubmitAccepted, WorkerTypeOK, LaneTypeOK
    <3>4. LaneTypeOK'
      BY <1>1, <3>1 DEF LaneTypeOK, WorkerTypeOK, SubmitAccepted
    <3>2. PoolTypeOK'
      BY <1>1 DEF PoolTypeOK, WorkerTypeOK, SubmitAccepted, Eligible, poolVars
    <3>3. WatchTypeOK'
      BY <1>1 DEF WatchTypeOK, WorkerTypeOK, SubmitAccepted, Eligible, poolVars, Jobs
    <3> QED BY <3>4, <3>2, <3>3 DEF WorkerTypeOK
  <2>2. HoldsAJob' /\ Shutdown'
    BY <1>1 DEF HoldsAJob, Busy, Shutdown, CloseReturned, Gone, SubmitAccepted, Eligible, poolVars
  <2>3. Unsettled' = Unsettled
    BY <1>1 DEF Unsettled, SubmitAccepted, poolVars
  <2>4. Len(jobs') = Len(jobs) + 1 /\ Len(jobs) \in Nat
    BY <1>1 DEF SubmitAccepted, WorkerTypeOK, LaneTypeOK
  <2>5. PendingIsWork'
    BY <1>1, <2>3, <2>4, UnsettledFinite
    DEF PendingIsWork, CloseReturned, SubmitAccepted, Eligible, WorkerTypeOK, LaneTypeOK
  <2>6. Accounted'
    <3>1. counted' = counted /\ requested' = requested + 1 /\ pending' = pending + 1
      BY <1>1 DEF SubmitAccepted
    <3> QED BY <3>1, CountsAreNumbers DEF Accounted, WorkerTypeOK
  <2> QED BY <2>1, <2>2, <2>5, <2>6
<1>2. CASE SubmitDropped
  <2>1. WorkerTypeOK'
    <3>1. LaneTypeOK'
      BY <1>2 DEF LaneTypeOK, WorkerTypeOK, SubmitDropped, Eligible, poolVars, Jobs
    <3>2. PoolTypeOK'
      BY <1>2 DEF PoolTypeOK, WorkerTypeOK, SubmitDropped, Eligible, poolVars
    <3>3. WatchTypeOK'
      BY <1>2 DEF WatchTypeOK, WorkerTypeOK, SubmitDropped, Eligible, poolVars, Jobs
    <3> QED BY <3>1, <3>2, <3>3 DEF WorkerTypeOK
  <2>2. HoldsAJob' /\ Shutdown'
    BY <1>2 DEF HoldsAJob, Busy, Shutdown, CloseReturned, Gone, SubmitDropped, Eligible, poolVars
  <2>3. PendingIsWork' /\ Accounted'
    BY <1>2 DEF PendingIsWork, Accounted, CloseReturned, Unsettled, SubmitDropped, Eligible,
                WorkerTypeOK, LaneTypeOK, poolVars
  <2> QED BY <2>1, <2>2, <2>3
<1>3. CASE SubmitRefused
  <2>1. WorkerTypeOK'
    <3>1. LaneTypeOK'
      BY <1>3 DEF LaneTypeOK, WorkerTypeOK, SubmitRefused, countVars, Eligible, poolVars, laneVars, Jobs
    <3>2. PoolTypeOK'
      BY <1>3 DEF PoolTypeOK, WorkerTypeOK, SubmitRefused, countVars, Eligible, poolVars, laneVars
    <3>3. WatchTypeOK'
      BY <1>3 DEF WatchTypeOK, WorkerTypeOK, SubmitRefused, countVars, Eligible, poolVars, laneVars, Jobs
    <3> QED BY <3>1, <3>2, <3>3 DEF WorkerTypeOK
  <2>2. HoldsAJob' /\ Shutdown' /\ PendingIsWork' /\ Accounted'
    BY <1>3 DEF HoldsAJob, Busy, Shutdown, CloseReturned, Gone, PendingIsWork, Accounted,
                Unsettled, SubmitRefused, countVars, Eligible, poolVars, laneVars
  <2> QED BY <2>1, <2>2
<1> QED BY <1>1, <1>2, <1>3 DEF Submit

LEMMA TakeKeeps == ASSUME WorkerInv, NEW w \in Workers, Take(w) PROVE WorkerInv'
<1> USE WorkerConstants DEF WorkerInv
<1>1. /\ Head(jobs) \in Jobs /\ Tail(jobs) \in Seq(Jobs)
      /\ Len(Tail(jobs)) = Len(jobs) - 1 /\ Len(jobs) \in Nat
  BY HeadTailProperties, LenProperties DEF Take, countVars, WorkerTypeOK, LaneTypeOK
<1>2. WorkerTypeOK'
  <2>1. LaneTypeOK'
    BY <1>1 DEF LaneTypeOK, WorkerTypeOK, Take, countVars, watchVars
  <2>2. PoolTypeOK'
    BY <1>1 DEF PoolTypeOK, WorkerTypeOK, Take, countVars, watchVars
  <2>3. WatchTypeOK'
    BY <1>1 DEF WatchTypeOK, WorkerTypeOK, Take, countVars, watchVars
  <2> QED BY <2>1, <2>2, <2>3 DEF WorkerTypeOK
<1>3. HoldsAJob'
  BY <1>1 DEF HoldsAJob, Busy, Take, countVars, WorkerTypeOK, PoolTypeOK
<1>4. ~CloseReturned /\ ~CloseReturned' /\ Shutdown'
  BY DEF Shutdown, CloseReturned, Gone, Take, countVars, watchVars
<1>5. Cardinality(Unsettled') = Cardinality(Unsettled) + 1
  BY UnsettledGrows DEF Take, countVars, WorkerTypeOK
<1>6. PendingIsWork' /\ Accounted'
  BY <1>1, <1>4, <1>5, UnsettledFinite DEF PendingIsWork, Accounted, Take, countVars
<1> QED BY <1>2, <1>3, <1>4, <1>6

LEMMA ClassifyKeeps ==
  ASSUME WorkerInv, NEW w \in Workers, NEW came \in Outcomes, Classify(w, came)
  PROVE  WorkerInv'
<1> USE WorkerConstants DEF WorkerInv
<1>1. WorkerTypeOK'
  <2>1. LaneTypeOK'
    BY DEF LaneTypeOK, WorkerTypeOK, Classify, countVars, laneVars, watchVars
  <2>2. PoolTypeOK'
    BY DEF PoolTypeOK, WorkerTypeOK, Classify, countVars, laneVars, watchVars
  <2>3. WatchTypeOK'
    BY DEF WatchTypeOK, WorkerTypeOK, Classify, countVars, laneVars, watchVars
  <2> QED BY <2>1, <2>2, <2>3 DEF WorkerTypeOK
<1>2. HoldsAJob'
  BY DEF HoldsAJob, Busy, Classify, countVars, WorkerTypeOK, PoolTypeOK
<1>3. Shutdown' /\ ~CloseReturned'
  BY DEF Shutdown, CloseReturned, Gone, Classify, countVars, laneVars, watchVars
<1>4. Unsettled' = Unsettled
  BY UnsettledKept DEF Classify, countVars, WorkerTypeOK
<1>5. PendingIsWork' /\ Accounted'
  BY <1>4 DEF PendingIsWork, Accounted, CloseReturned, Classify, countVars, laneVars, watchVars
<1> QED BY <1>1, <1>2, <1>3, <1>5

LEMMA RecordKeeps == ASSUME WorkerInv, NEW w \in Workers, Record(w) PROVE WorkerInv'
<1> USE WorkerConstants DEF WorkerInv
<1>1. verdict[w] \in Outcomes
  BY DEF HoldsAJob, Record
<1>2. ~CloseReturned /\ ~CloseReturned' /\ Shutdown'
  BY DEF Shutdown, CloseReturned, Gone, Record, watchVars
<1>3. /\ Cardinality(Unsettled') = Cardinality(Unsettled) - 1
      /\ Cardinality(Unsettled) >= 1
  BY UnsettledShrinks DEF Record, WorkerTypeOK
<1>4. Len(jobs) \in Nat
  BY LenProperties DEF WorkerTypeOK, LaneTypeOK
<1>5. pending > 0
  BY <1>2, <1>3, <1>4, UnsettledFinite DEF PendingIsWork
<1>6. pending' = pending - 1 /\ requested' = requested
  BY <1>5 DEF Record
<1>7. counted' \in [Outcomes -> Nat] /\ Accounted'
  <2>1. counted \in [Outcomes -> Nat]
    BY DEF WorkerTypeOK, LaneTypeOK
  <2>2. counted' = [counted EXCEPT ![verdict[w]] = counted[verdict[w]] + 1]
    BY DEF Record
  <2>3. \A s \in Outcomes :
          counted'[s] = IF s = verdict[w] THEN counted[s] + 1 ELSE counted[s]
    BY <2>1, <2>2
  <2>4. counted' \in [Outcomes -> Nat]
    BY <1>1, <2>1, <2>2
  <2>5. counted'["completed"] + counted'["failed"] + counted'["timedOut"] + counted'["canceled"]
          = counted["completed"] + counted["failed"] + counted["timedOut"] + counted["canceled"] + 1
    BY <1>1, <2>3, CountsAreNumbers DEF WorkerTypeOK, Outcomes
  <2> QED BY <1>6, <2>3, <2>4, <2>5, CountsAreNumbers DEF Accounted, WorkerTypeOK, Outcomes
<1>8. WorkerTypeOK'
  <2>1. LaneTypeOK'
    BY <1>5, <1>6, <1>7 DEF LaneTypeOK, WorkerTypeOK, Record, watchVars
  <2>2. PoolTypeOK'
    BY <1>7 DEF PoolTypeOK, WorkerTypeOK, Record, watchVars
  <2>3. WatchTypeOK'
    BY <1>7 DEF WatchTypeOK, WorkerTypeOK, Record, watchVars
  <2> QED BY <2>1, <2>2, <2>3 DEF WorkerTypeOK
<1>9. HoldsAJob'
  BY DEF HoldsAJob, Busy, Record, WorkerTypeOK, PoolTypeOK
<1>10. PendingIsWork'
  BY <1>2, <1>3, <1>4, <1>6, UnsettledFinite DEF PendingIsWork, Record
<1> QED BY <1>2, <1>7, <1>8, <1>9, <1>10

LEMMA SendKeeps == ASSUME WorkerInv, NEW w \in Workers, Send(w) PROVE WorkerInv'
<1> USE WorkerConstants DEF WorkerInv
<1>1. [job |-> held[w], status |-> verdict[w]] \in Completions
  BY DEF HoldsAJob, Busy, Send, countVars, Completions
<1>2. WorkerTypeOK'
  <2>1. LaneTypeOK'
    BY <1>1 DEF LaneTypeOK, WorkerTypeOK, Send, countVars, watchVars
  <2>2. PoolTypeOK'
    BY <1>1 DEF PoolTypeOK, WorkerTypeOK, Send, countVars, watchVars
  <2>3. WatchTypeOK'
    BY <1>1 DEF WatchTypeOK, WorkerTypeOK, Send, countVars, watchVars
  <2> QED BY <2>1, <2>2, <2>3 DEF WorkerTypeOK
<1>3. HoldsAJob'
  BY DEF HoldsAJob, Busy, Send, countVars, WorkerTypeOK, PoolTypeOK
<1>4. Shutdown'
  BY DEF Shutdown, CloseReturned, Gone, Send, countVars, watchVars
<1>5. Unsettled' = Unsettled
  BY UnsettledKept DEF Send, countVars, WorkerTypeOK
<1>6. PendingIsWork' /\ Accounted'
  BY <1>5 DEF PendingIsWork, Accounted, CloseReturned, Send, countVars, watchVars
<1> QED BY <1>2, <1>3, <1>4, <1>6

LEMMA LeaveKeeps == ASSUME WorkerInv, NEW w \in Workers, Leave(w) PROVE WorkerInv'
<1> USE WorkerConstants DEF WorkerInv
<1>1. WorkerTypeOK'
  <2>1. LaneTypeOK'
    BY DEF LaneTypeOK, WorkerTypeOK, Leave, countVars, laneVars, watchVars
  <2>2. PoolTypeOK'
    BY DEF PoolTypeOK, WorkerTypeOK, Leave, countVars, laneVars, watchVars
  <2>3. WatchTypeOK'
    BY DEF WatchTypeOK, WorkerTypeOK, Leave, countVars, laneVars, watchVars
  <2> QED BY <2>1, <2>2, <2>3 DEF WorkerTypeOK
<1>2. HoldsAJob'
  BY DEF HoldsAJob, Busy, Leave, countVars, WorkerTypeOK, PoolTypeOK
<1>3. Shutdown'
  BY DEF Shutdown, CloseReturned, Gone, Leave, countVars, laneVars, watchVars, WorkerTypeOK, PoolTypeOK
<1>4. Unsettled' = Unsettled
  BY UnsettledKept DEF Leave, countVars, WorkerTypeOK
<1>5. PendingIsWork' /\ Accounted'
  BY <1>4 DEF PendingIsWork, Accounted, CloseReturned, Leave, countVars, laneVars, watchVars
<1> QED BY <1>1, <1>2, <1>3, <1>5

LEMMA CloseResultsKeeps == ASSUME WorkerInv, CloseResults PROVE WorkerInv'
  BY WorkerConstants
  DEF WorkerInv, WorkerTypeOK, LaneTypeOK, PoolTypeOK, WatchTypeOK, HoldsAJob, Busy, Shutdown, CloseReturned, Gone,
      PendingIsWork, Accounted, Unsettled, CloseResults, countVars, poolVars, watchVars

LEMMA DrainKeeps == ASSUME WorkerInv, Drain PROVE WorkerInv'
<1> USE WorkerConstants DEF WorkerInv
<1>1. Head(results) \in Completions /\ Tail(results) \in Seq(Completions)
  BY HeadTailProperties DEF Drain, countVars, WorkerTypeOK, LaneTypeOK
<1>2. WorkerTypeOK'
  <2>1. LaneTypeOK'
    BY <1>1 DEF LaneTypeOK, WorkerTypeOK, Drain, countVars, poolVars
  <2>2. PoolTypeOK'
    BY <1>1 DEF PoolTypeOK, WorkerTypeOK, Drain, countVars, poolVars
  <2>3. WatchTypeOK'
    BY <1>1 DEF WatchTypeOK, WorkerTypeOK, Drain, countVars, poolVars
  <2> QED BY <2>1, <2>2, <2>3 DEF WorkerTypeOK
<1>3. HoldsAJob' /\ Shutdown' /\ PendingIsWork' /\ Accounted'
  BY DEF HoldsAJob, Busy, Shutdown, CloseReturned, Gone, PendingIsWork, Accounted, Unsettled,
         Drain, countVars, poolVars
<1> QED BY <1>2, <1>3

LEMMA EndKeeps ==
  ASSUME WorkerInv, NEW how \in {"stopping", "failing"}, End(how) PROVE WorkerInv'
<1> USE WorkerConstants DEF WorkerInv
<1>1. WorkerTypeOK'
  <2>1. LaneTypeOK'
    BY DEF LaneTypeOK, WorkerTypeOK, End, countVars, poolVars
  <2>2. PoolTypeOK'
    BY DEF PoolTypeOK, WorkerTypeOK, End, countVars, poolVars
  <2>3. WatchTypeOK'
    BY DEF WatchTypeOK, WorkerTypeOK, End, countVars, poolVars
  <2> QED BY <2>1, <2>2, <2>3 DEF WorkerTypeOK
<1>2. HoldsAJob' /\ Shutdown' /\ PendingIsWork' /\ Accounted'
  BY DEF HoldsAJob, Busy, Shutdown, CloseReturned, Gone, PendingIsWork, Accounted, Unsettled,
         End, countVars, poolVars
<1> QED BY <1>1, <1>2

LEMMA CloseEndKeeps == ASSUME WorkerInv, CloseEnd PROVE WorkerInv'
<1> USE WorkerConstants DEF WorkerInv
<1>0. /\ counted' = [counted EXCEPT !["canceled"] = counted["canceled"] + pending]
      /\ pending' = 0 /\ requested' = requested /\ "canceled" \in Outcomes
  BY DEF CloseEnd, Outcomes
<1>1. WorkerTypeOK'
  <2>1. counted' \in [Outcomes -> Nat]
    BY <1>0 DEF WorkerTypeOK, LaneTypeOK
  <2>4. LaneTypeOK'
    BY <2>1, <1>0 DEF LaneTypeOK, WorkerTypeOK, CloseEnd
  <2>2. PoolTypeOK'
    BY DEF PoolTypeOK, WorkerTypeOK, CloseEnd, poolVars
  <2>3. WatchTypeOK'
    BY DEF WatchTypeOK, WorkerTypeOK, CloseEnd, poolVars
  <2> QED BY <2>4, <2>2, <2>3 DEF WorkerTypeOK
<1>2. HoldsAJob' /\ Shutdown'
  BY DEF HoldsAJob, Busy, Shutdown, CloseReturned, Gone, CloseEnd, poolVars
<1>3. PendingIsWork'
  BY NobodyUnsettled DEF PendingIsWork, CloseReturned, Shutdown, CloseEnd, WorkerTypeOK, LaneTypeOK
<1>4. Accounted'
  <2>1. /\ counted'["canceled"] = counted["canceled"] + pending
        /\ counted'["completed"] = counted["completed"]
        /\ counted'["failed"] = counted["failed"]
        /\ counted'["timedOut"] = counted["timedOut"]
    BY <1>0 DEF WorkerTypeOK, LaneTypeOK, Outcomes
  <2>2. pending' = 0 /\ requested' = requested
    BY <1>0
  <2>3. /\ counted["completed"] \in Nat /\ counted["failed"] \in Nat
        /\ counted["timedOut"] \in Nat /\ counted["canceled"] \in Nat
        /\ requested \in Nat /\ pending \in Nat
    BY CountsAreNumbers DEF WorkerTypeOK
  <2> QED BY <2>1, <2>2, <2>3 DEF Accounted
<1> QED BY <1>1, <1>2, <1>3, <1>4

LEMMA WatchMovesKeep == ASSUME WorkerInv, Drained \/ Restart PROVE WorkerInv'
<1> USE WorkerConstants DEF WorkerInv
<1>1. WorkerTypeOK'
  <2>1. LaneTypeOK'
    BY DEF LaneTypeOK, WorkerTypeOK, Drained, countVars, Restart, laneVars, poolVars
  <2>2. PoolTypeOK'
    BY DEF PoolTypeOK, WorkerTypeOK, Drained, countVars, Restart, laneVars, poolVars
  <2>3. WatchTypeOK'
    BY DEF WatchTypeOK, WorkerTypeOK, Drained, countVars, Restart, laneVars, poolVars
  <2> QED BY <2>1, <2>2, <2>3 DEF WorkerTypeOK
<1>2. HoldsAJob' /\ Shutdown' /\ PendingIsWork' /\ Accounted'
  BY DEF HoldsAJob, Busy, Shutdown, CloseReturned, Gone, PendingIsWork, Accounted, Unsettled,
         Drained, countVars, Restart, laneVars, poolVars
<1> QED BY <1>1, <1>2

LEMMA StutterKeeps == ASSUME WorkerInv, UNCHANGED workerVars PROVE WorkerInv'
  BY DEF WorkerInv, WorkerTypeOK, LaneTypeOK, PoolTypeOK, WatchTypeOK, HoldsAJob, Busy, Shutdown, CloseReturned, Gone,
         PendingIsWork, Accounted, Unsettled, workerVars, laneVars, countVars, poolVars, watchVars

LEMMA WorkerInductive == ASSUME WorkerInv, [Next]_workerVars PROVE WorkerInv'
<1>1. ASSUME NEW w \in Workers, Step(w) PROVE WorkerInv'
  BY <1>1, TakeKeeps, ClassifyKeeps, RecordKeeps, SendKeeps, LeaveKeeps DEF Step
<1>2. CASE Stop \/ Fail
  BY <1>2, EndKeeps DEF Stop, Fail
<1> QED
  BY <1>1, <1>2, SubmitKeeps, CloseResultsKeeps, DrainKeeps, CloseEndKeeps, WatchMovesKeep,
     StutterKeeps DEF Next

-----------------------------------------------------------------------------
(* The lane never leaves the states its types describe. *)
THEOREM WorkerTypeCorrect == WorkerSpec => []WorkerTypeOK
<1>1. WorkerInv => WorkerTypeOK
  BY DEF WorkerInv
<1> QED BY <1>1, WorkerInitially, WorkerInductive, PTL DEF WorkerSpec

(* The counters add up, whatever the goroutines and the watch loop do. *)
THEOREM CountersAddUp == WorkerSpec => []Accounted
<1>1. WorkerInv => Accounted
  BY DEF WorkerInv
<1> QED BY <1>1, WorkerInitially, WorkerInductive, PTL DEF WorkerSpec

(* Pending counts the jobs that are in the queue or in hand, and nothing   *)
(* once Close has returned.                                                *)
THEOREM PendingCountsWork == WorkerSpec => []PendingIsWork
<1>1. WorkerInv => PendingIsWork
  BY DEF WorkerInv
<1> QED BY <1>1, WorkerInitially, WorkerInductive, PTL DEF WorkerSpec

-----------------------------------------------------------------------------
(* What is counted and what arrives.  LossIsBounded needs no strengthening *)
(* of its own: every step that moves an outcome moves it from one of its   *)
(* three places to the next, and only a goroutine that ends lets one go.   *)
Weight(c, status) == IF c.status = status THEN 1 ELSE 0

Places(s, status) == {i \in DOMAIN s : s[i].status = status}

LEMMA PlacesFinite ==
  ASSUME NEW s \in Seq(Completions), NEW status
  PROVE  IsFiniteSet(Places(s, status)) /\ Of(s, status) \in Nat
         /\ Of(s, status) = Cardinality(Places(s, status))
<1>1. DOMAIN s = 1..Len(s) /\ Len(s) \in Nat
  OBVIOUS
<1>2. IsFiniteSet(DOMAIN s)
  BY <1>1, FS_Interval
<1> QED BY <1>2, FS_Subset, FS_CardinalityType DEF Places, Of

LEMMA OfAppend ==
  ASSUME NEW s \in Seq(Completions), NEW c \in Completions, NEW status
  PROVE  Of(Append(s, c), status) = Of(s, status) + Weight(c, status)
<1> DEFINE t == Append(s, c)
           n == Len(s) + 1
<1>1. /\ t \in Seq(Completions) /\ Len(s) \in Nat
      /\ DOMAIN t = 1..n /\ DOMAIN s = 1..Len(s) /\ t[n] = c
      /\ \A i \in 1..Len(s) : t[i] = s[i]
  OBVIOUS
<1> HIDE DEF t
<1>2. 1..n = (1..Len(s)) \cup {n} /\ n \notin 1..Len(s)
  BY <1>1
<1>0. /\ Of(t, status) = Cardinality(Places(t, status))
      /\ Of(s, status) = Cardinality(Places(s, status))
      /\ IsFiniteSet(Places(s, status)) /\ Of(s, status) \in Nat
  BY <1>1, PlacesFinite
<1>3. CASE c.status = status
  <2>1. Places(t, status) = Places(s, status) \cup {n} /\ n \notin Places(s, status)
    BY <1>1, <1>2, <1>3 DEF Places
  <2>2. Cardinality(Places(t, status)) = Cardinality(Places(s, status)) + 1
    BY <1>0, <2>1, FS_AddElement
  <2> QED BY <1>0, <1>3, <2>2 DEF Weight, t
<1>4. CASE c.status # status
  <2>1. Places(t, status) = Places(s, status)
    BY <1>1, <1>2, <1>4 DEF Places
  <2> QED BY <1>0, <1>4, <2>1 DEF Weight, t
<1> QED BY <1>3, <1>4

LEMMA OfTail ==
  ASSUME NEW s \in Seq(Completions), s # <<>>, NEW status
  PROVE  Of(s, status) = Of(Tail(s), status) + Weight(Head(s), status)
<1> DEFINE t == Tail(s)
           A == Places(t, status)
           B == Places(s, status) \ {1}
           f == [i \in A |-> i + 1]
<1>1. /\ t \in Seq(Completions) /\ Len(t) = Len(s) - 1 /\ Len(s) \in Nat /\ Len(s) > 0
      /\ DOMAIN t = 1..Len(t) /\ DOMAIN s = 1..Len(s) /\ Head(s) = s[1]
      /\ \A i \in 1..Len(t) : t[i] = s[i + 1]
  BY HeadTailProperties, LenProperties, EmptySeq
<1> HIDE DEF t
<1>2. \A i \in A : i \in 1..Len(t) /\ i + 1 \in B
  BY <1>1 DEF Places
<1>3. \A k \in B : k - 1 \in A /\ k = (k - 1) + 1
  BY <1>1 DEF Places
<1>4. f \in Bijection(A, B)
  <2>1. f \in [A -> B]
    BY <1>2
  <2>2. \A i, k \in A : f[i] = f[k] => i = k
    BY <1>2
  <2>3. \A k \in B : \E i \in A : f[i] = k
    BY <1>3
  <2> HIDE DEF f, A, B
  <2> QED BY <2>1, <2>2, <2>3 DEF Bijection, Injection, Surjection, IsInjective
<1>5. Cardinality(A) = Cardinality(B) /\ IsFiniteSet(A)
  BY <1>1, <1>4, PlacesFinite, FS_Bijection DEF ExistsBijection
<1>6. Of(t, status) = Cardinality(B) /\ Of(s, status) = Cardinality(Places(s, status))
  BY <1>1, <1>5, PlacesFinite
<1>7. 1 \in Places(s, status) <=> Head(s).status = status
  BY <1>1 DEF Places
<1>8. Cardinality(B) = IF 1 \in Places(s, status) THEN Of(s, status) - 1 ELSE Of(s, status)
  BY PlacesFinite, FS_RemoveElement
<1> QED BY <1>6, <1>7, <1>8, PlacesFinite DEF Weight, t

Sending(status) == {w \in Workers : pc[w] = "sending" /\ verdict[w] = status}

LEMMA PoolSetsFinite ==
  ASSUME NEW status
  PROVE  /\ IsFiniteSet(Sending(status)) /\ Cardinality(Sending(status)) \in Nat
         /\ IsFiniteSet(Gone) /\ Cardinality(Gone) \in Nat
  BY WorkerConstants, FS_Subset, FS_CardinalityType DEF Sending, Gone

(* How far the counter of an outcome is ahead of the log. *)
Ahead(status) ==
  counted[status] - (Of(log, status) + Of(results, status) + Cardinality(Sending(status)))

Bounded == \A status \in Outcomes \ {"canceled"} : Ahead(status) \in 0..Cardinality(Gone)

LEMMA BoundedIsLossIsBounded == Bounded <=> LossIsBounded
<1>1. Outcomes \ {"canceled"} = {"completed", "failed", "timedOut"}
  BY DEF Outcomes
<1> QED BY <1>1 DEF Bounded, LossIsBounded, Ahead, Sending

(* A step that moves the parts of Ahead together, or lets one outcome go.  *)
LEMMA PartsAreNumbers ==
  ASSUME WorkerTypeOK, NEW status \in Outcomes
  PROVE  /\ counted[status] \in Nat /\ Of(log, status) \in Nat
         /\ Of(results, status) \in Nat /\ Cardinality(Sending(status)) \in Nat
         /\ Cardinality(Gone) \in Nat
  BY PlacesFinite, PoolSetsFinite DEF WorkerTypeOK, LaneTypeOK, WatchTypeOK

OrderlyInv == WorkerInv /\ ClosingIsOrderly

LEMMA AheadAfter ==
  ASSUME NEW status
  PROVE  Ahead(status)' = counted'[status] - (Of(log', status) + Of(results', status)
                                                + Cardinality(Sending(status)'))
  BY DEF Ahead, Of

LEMMA NothingArrives ==
  ASSUME OrderlyInv, WorkerTypeOK', NEW status \in Outcomes \ {"canceled"},
         counted'[status] = counted[status], log' = log, results' = results,
         Sending(status)' = Sending(status), Gone' = Gone
  PROVE  Ahead(status)' \in 0..Cardinality(Gone')
  BY BoundedIsLossIsBounded DEF OrderlyInv, ClosingIsOrderly, Bounded, Ahead, Of

(* The steps of a goroutine that neither record, send nor end. *)
LEMMA QuietStepsKeepBound ==
  ASSUME OrderlyInv, WorkerTypeOK', NEW status \in Outcomes \ {"canceled"},
         \/ Submit \/ CloseResults \/ Stop \/ Fail \/ CloseEnd \/ Drained \/ Restart
         \/ UNCHANGED workerVars
         \/ \E w \in Workers : Take(w) \/ \E came \in Outcomes : Classify(w, came)
  PROVE  Ahead(status)' \in 0..Cardinality(Gone')
<1>1. counted'[status] = counted[status] /\ log' = log /\ results' = results
  <2>1. CASE CloseEnd
    BY <2>1 DEF CloseEnd, OrderlyInv, WorkerInv, WorkerTypeOK, LaneTypeOK
  <2>2. CASE ~CloseEnd
    BY <2>2 DEF Submit, SubmitAccepted, SubmitDropped, SubmitRefused, CloseResults, Stop, Fail, End,
       Drained, Restart, Take, Classify, workerVars, laneVars, countVars, watchVars
  <2> QED BY <2>1, <2>2
<1>2. Sending(status)' = Sending(status) /\ Gone' = Gone
  <2>1. CASE \E w \in Workers : Take(w) \/ \E came \in Outcomes : Classify(w, came)
    <3>1. PICK w \in Workers : Take(w) \/ \E came \in Outcomes : Classify(w, came)
      BY <2>1
    <3>2. /\ pc[w] \in {"select", "classifying"} /\ pc'[w] \in {"classifying", "recording"}
          /\ \A v \in Workers : v # w => pc'[v] = pc[v] /\ verdict'[v] = verdict[v]
      BY <3>1 DEF Take, Classify, OrderlyInv, WorkerInv, WorkerTypeOK, PoolTypeOK
    <3> QED BY <3>2 DEF Sending, Gone
  <2>2. CASE UNCHANGED <<pc, verdict>>
    BY <2>2 DEF Sending, Gone
  <2> QED BY <2>1, <2>2 DEF Submit, SubmitAccepted, SubmitDropped, SubmitRefused, CloseResults,
       Stop, Fail, End, CloseEnd, Drained, Restart, workerVars, laneVars, poolVars
<1> QED BY <1>1, <1>2, NothingArrives

LEMMA RecordKeepsBound ==
  ASSUME OrderlyInv, WorkerTypeOK', NEW w \in Workers, Record(w),
         NEW status \in Outcomes \ {"canceled"}
  PROVE  Ahead(status)' \in 0..Cardinality(Gone')
<1>1. /\ pc \in [Workers -> {"select", "classifying", "recording", "sending", "gone"}]
      /\ pc' = [pc EXCEPT ![w] = "sending"] /\ pc[w] = "recording" /\ verdict' = verdict
      /\ log' = log /\ results' = results /\ counted \in [Outcomes -> Nat]
      /\ verdict[w] \in Outcomes
      /\ counted' = [counted EXCEPT ![verdict[w]] = counted[verdict[w]] + 1]
  BY DEF Record, watchVars, OrderlyInv, WorkerInv, WorkerTypeOK, PoolTypeOK, LaneTypeOK, HoldsAJob
<1>2. Gone' = Gone
  BY <1>1 DEF Gone
<1>3. CASE verdict[w] = status
  <2>1. Sending(status)' = Sending(status) \cup {w} /\ w \notin Sending(status)
    BY <1>1, <1>3 DEF Sending
  <2>2. Cardinality(Sending(status)') = Cardinality(Sending(status)) + 1
    BY <2>1, PoolSetsFinite, FS_AddElement
  <2>3. counted'[status] = counted[status] + 1
    BY <1>1, <1>3
  <2>4. Ahead(status)' = Ahead(status)
    BY <1>1, <2>2, <2>3, PartsAreNumbers DEF Ahead, Of, OrderlyInv, WorkerInv
  <2> QED BY <1>2, <2>4, BoundedIsLossIsBounded DEF OrderlyInv, ClosingIsOrderly, Bounded
<1>4. CASE verdict[w] # status
  <2>1. Sending(status)' = Sending(status) /\ counted'[status] = counted[status]
    BY <1>1, <1>4 DEF Sending
  <2> QED BY <1>1, <1>2, <2>1, NothingArrives
<1> QED BY <1>3, <1>4

LEMMA SendKeepsBound ==
  ASSUME OrderlyInv, WorkerTypeOK', NEW w \in Workers, Send(w),
         NEW status \in Outcomes \ {"canceled"}
  PROVE  Ahead(status)' \in 0..Cardinality(Gone')
<1> DEFINE c == [job |-> held[w], status |-> verdict[w]]
<1>1. /\ pc \in [Workers -> {"select", "classifying", "recording", "sending", "gone"}]
      /\ pc' = [pc EXCEPT ![w] = "select"] /\ pc[w] = "sending" /\ verdict' = verdict
      /\ log' = log /\ results' = Append(results, c) /\ counted' = counted
      /\ c \in Completions /\ c.status = verdict[w] /\ results \in Seq(Completions)
  BY DEF Send, countVars, watchVars, OrderlyInv, WorkerInv, WorkerTypeOK, PoolTypeOK, LaneTypeOK,
         HoldsAJob, Busy, Completions
<1> HIDE DEF c
<1>2. Gone' = Gone
  BY <1>1 DEF Gone
<1>3. Of(results', status) = Of(results, status) + Weight(c, status)
  BY <1>1, OfAppend
<1>4. /\ Cardinality(Sending(status)) = Cardinality(Sending(status)') + Weight(c, status)
      /\ Cardinality(Sending(status)') \in Nat
  <2>1. CASE verdict[w] = status
    <3>1. Sending(status)' = Sending(status) \ {w} /\ w \in Sending(status)
      BY <1>1, <2>1 DEF Sending
    <3>2. /\ Cardinality(Sending(status)') = Cardinality(Sending(status)) - 1
          /\ Cardinality(Sending(status)') \in Nat
      BY <3>1, PoolSetsFinite, FS_RemoveElement, FS_CardinalityType
    <3> QED BY <1>1, <2>1, <3>2, PoolSetsFinite DEF Weight
  <2>2. CASE verdict[w] # status
    <3>1. Sending(status)' = Sending(status)
      BY <1>1, <2>2 DEF Sending
    <3> QED BY <1>1, <2>2, <3>1, PoolSetsFinite DEF Weight
  <2> QED BY <2>1, <2>2
<1>5. Ahead(status)' = Ahead(status)
  <2>1. Weight(c, status) \in Nat
    BY DEF Weight
  <2>2. /\ counted[status] \in Nat /\ Of(log, status) \in Nat /\ Of(results, status) \in Nat
    BY PartsAreNumbers DEF OrderlyInv, WorkerInv
  <2>3. counted'[status] = counted[status] /\ Of(log', status) = Of(log, status)
    BY <1>1
  <2> QED BY <1>3, <1>4, <2>1, <2>2, <2>3, AheadAfter DEF Ahead
<1> QED BY <1>2, <1>5, BoundedIsLossIsBounded DEF OrderlyInv, ClosingIsOrderly, Bounded

LEMMA LeaveKeepsBound ==
  ASSUME OrderlyInv, WorkerTypeOK', NEW w \in Workers, Leave(w),
         NEW status \in Outcomes \ {"canceled"}
  PROVE  Ahead(status)' \in 0..Cardinality(Gone')
<1>1. /\ pc \in [Workers -> {"select", "classifying", "recording", "sending", "gone"}]
      /\ pc' = [pc EXCEPT ![w] = "gone"] /\ pc[w] \in {"select", "sending"}
      /\ verdict' = verdict /\ log' = log /\ results' = results /\ counted' = counted
  BY DEF Leave, laneVars, countVars, watchVars, OrderlyInv, WorkerInv, WorkerTypeOK, PoolTypeOK
<1>2. Cardinality(Gone') = Cardinality(Gone) + 1
  <2>1. Gone' = Gone \cup {w} /\ w \notin Gone
    BY <1>1 DEF Gone
  <2> QED BY <2>1, PoolSetsFinite, FS_AddElement
<1>3. Cardinality(Sending(status)') \in {Cardinality(Sending(status)), Cardinality(Sending(status)) - 1}
  <2>1. Sending(status)' = Sending(status) \ {w}
    BY <1>1 DEF Sending
  <2> QED BY <2>1, PoolSetsFinite, FS_RemoveElement
<1>4. Ahead(status)' \in {Ahead(status), Ahead(status) + 1}
  BY <1>1, <1>3, PartsAreNumbers DEF Ahead, Of, OrderlyInv, WorkerInv
<1>5. Ahead(status) \in 0..Cardinality(Gone)
  BY BoundedIsLossIsBounded DEF OrderlyInv, ClosingIsOrderly, Bounded
<1> QED BY <1>2, <1>4, <1>5, PoolSetsFinite

LEMMA DrainKeepsBound ==
  ASSUME OrderlyInv, WorkerTypeOK', Drain, NEW status \in Outcomes \ {"canceled"}
  PROVE  Ahead(status)' \in 0..Cardinality(Gone')
<1>1. /\ results \in Seq(Completions) /\ results # <<>> /\ log \in Seq(Completions)
      /\ log' = Append(log, Head(results)) /\ results' = Tail(results)
      /\ counted' = counted /\ pc' = pc /\ verdict' = verdict
  BY DEF Drain, countVars, poolVars, OrderlyInv, WorkerInv, WorkerTypeOK, LaneTypeOK, WatchTypeOK
<1>2. Gone' = Gone /\ Sending(status)' = Sending(status)
  BY <1>1 DEF Gone, Sending
<1>3. Head(results) \in Completions
  BY <1>1, HeadTailProperties
<1>4. /\ Of(log', status) = Of(log, status) + Weight(Head(results), status)
      /\ Of(results, status) = Of(results', status) + Weight(Head(results), status)
  BY <1>1, <1>3, OfAppend, OfTail
<1>5. Of(results', status) \in Nat
  BY PlacesFinite DEF WorkerTypeOK, LaneTypeOK
<1>6. Ahead(status)' = Ahead(status)
  <2>1. Weight(Head(results), status) \in Nat
    BY DEF Weight
  <2>2. /\ counted[status] \in Nat /\ Of(log, status) \in Nat
        /\ Cardinality(Sending(status)) \in Nat
    BY PartsAreNumbers DEF OrderlyInv, WorkerInv
  <2>3. counted'[status] = counted[status]
    BY <1>1
  <2> QED BY <1>2, <1>4, <1>5, <2>1, <2>2, <2>3, AheadAfter DEF Ahead
<1> QED BY <1>2, <1>6, BoundedIsLossIsBounded DEF OrderlyInv, ClosingIsOrderly, Bounded

(* A goroutine that ended does not come back. *)
LEMMA GoneStaysGone ==
  ASSUME OrderlyInv, [Next]_workerVars
  PROVE  NoSendAfterClose'
<1>1. ASSUME NEW w \in Workers, Step(w) PROVE Gone # Workers /\ resultsClosed' = resultsClosed
  BY <1>1 DEF Step, Take, Classify, Record, Send, Leave, Gone, laneVars
<1>2. CASE \E w \in Workers : Step(w)
  BY <1>1, <1>2 DEF OrderlyInv, ClosingIsOrderly, NoSendAfterClose
<1>3. CASE CloseResults
  BY <1>3 DEF CloseResults, NoSendAfterClose, Gone, poolVars
<1>4. CASE Submit \/ Drain \/ Stop \/ Fail \/ CloseEnd \/ Drained \/ Restart \/ UNCHANGED workerVars
  <2>1. resultsClosed' = resultsClosed /\ pc' = pc
    BY <1>4 DEF Submit, SubmitAccepted, SubmitDropped, SubmitRefused, Drain, Stop, Fail, End,
       CloseEnd, Drained, Restart, workerVars, laneVars, poolVars
  <2> QED BY <2>1 DEF OrderlyInv, ClosingIsOrderly, NoSendAfterClose, Gone
<1> QED BY <1>2, <1>3, <1>4 DEF Next

LEMMA OrderlyInductive == ASSUME OrderlyInv, [Next]_workerVars PROVE OrderlyInv'
<1>1. WorkerInv' /\ WorkerTypeOK'
  BY WorkerInductive DEF OrderlyInv, WorkerInv
<1>2. ASSUME NEW status \in Outcomes \ {"canceled"}
      PROVE  Ahead(status)' \in 0..Cardinality(Gone')
  <2>1. ASSUME NEW w \in Workers, Step(w) PROVE Ahead(status)' \in 0..Cardinality(Gone')
    BY <1>1, <2>1, QuietStepsKeepBound, RecordKeepsBound, SendKeepsBound, LeaveKeepsBound DEF Step
  <2> QED BY <1>1, <2>1, QuietStepsKeepBound, DrainKeepsBound DEF Next
<1>3. Bounded'
  BY <1>2 DEF Bounded
<1>4. Bounded' <=> LossIsBounded'
  BY BoundedIsLossIsBounded, PTL
<1> QED BY <1>1, <1>3, <1>4, GoneStaysGone DEF OrderlyInv, ClosingIsOrderly

(* Closing is orderly: no goroutine sends on the closed channel, and the   *)
(* counters are ahead of the log by at most one outcome per goroutine that *)
(* ended.                                                                  *)
THEOREM LaneClosesOrderly == WorkerSpec => []ClosingIsOrderly
<1>1. Init => OrderlyInv
  <2> SUFFICES ASSUME Init PROVE OrderlyInv
    OBVIOUS
  <2>1. WorkerInv
    BY WorkerInitially
  <2>2. \A status \in Outcomes : /\ counted[status] = 0 /\ Of(log, status) = 0
                                 /\ Of(results, status) = 0 /\ Cardinality(Sending(status)) = 0
    <3> SUFFICES ASSUME NEW status \in Outcomes
                 PROVE  /\ counted[status] = 0 /\ Of(log, status) = 0
                        /\ Of(results, status) = 0 /\ Cardinality(Sending(status)) = 0
      OBVIOUS
    <3>1. /\ Places(log, status) = {} /\ Places(results, status) = {} /\ Sending(status) = {}
      BY DEF Init, Places, Sending
    <3>2. Of(log, status) = 0 /\ Of(results, status) = 0
      BY <3>1, FS_EmptySet DEF Of, Places
    <3> QED BY <3>1, <3>2, FS_EmptySet DEF Init
  <2>3. Bounded
    BY <2>2, PoolSetsFinite DEF Bounded, Ahead
  <2>4. NoSendAfterClose
    BY DEF Init, NoSendAfterClose
  <2> QED BY <2>1, <2>3, <2>4, BoundedIsLossIsBounded DEF OrderlyInv, ClosingIsOrderly
<1>2. OrderlyInv => ClosingIsOrderly
  BY DEF OrderlyInv
<1> QED BY <1>1, <1>2, OrderlyInductive, PTL DEF WorkerSpec

-----------------------------------------------------------------------------
(* The opencode follower. *)
(* A set of numbers in ascending order. *)
Enumerates(R, q) ==
  /\ Cardinality(R) \in Nat /\ DOMAIN q = 1..Cardinality(R) /\ q \in [1..Cardinality(R) -> R]
  /\ \A k \in 1..Cardinality(R) : q[k] \in R /\ Cardinality({j \in R : j < q[k]}) = k - 1
  /\ \A k, l \in 1..Cardinality(R) : k < l => q[k] < q[l]
  /\ \A i \in R : \E k \in 1..Cardinality(R) : q[k] = i

LEMMA RanksEnumerate ==
  ASSUME NEW R, R \subseteq Nat, IsFiniteSet(R), NEW q,
         q = [k \in 1..Cardinality(R) |-> CHOOSE i \in R : Cardinality({j \in R : j < i}) = k - 1]
  PROVE  Enumerates(R, q)
<1> DEFINE n == Cardinality(R)
           B(i) == {j \in R : j < i}
           r == [i \in R |-> Cardinality(B(i))]
<1>0. \A i \in R : i \in Int
  OBVIOUS
<1>1. n \in Nat
  BY FS_CardinalityType
<1> HIDE DEF n
<1>2. ASSUME NEW i \in R
      PROVE  IsFiniteSet(B(i)) /\ Cardinality(B(i)) \in 0..n - 1
  <2>1. i \notin B(i) /\ B(i) \subseteq R
    OBVIOUS
  <2> HIDE DEF B
  <2>2. IsFiniteSet(B(i)) /\ Cardinality(B(i)) \in Nat
    BY <2>1, FS_Subset, FS_CardinalityType
  <2>3. Cardinality(B(i)) <= n /\ Cardinality(B(i)) # n
    BY <2>1, FS_Subset DEF n
  <2> QED BY <1>1, <2>2, <2>3
<1>3. ASSUME NEW i \in R, NEW j \in R, i < j
      PROVE  Cardinality(B(i)) < Cardinality(B(j))
  <2>1. i \notin B(i) /\ B(i) \cup {i} \subseteq B(j)
    <3>1. i \in Int /\ j \in Int /\ i < j /\ ~(i < i)
      BY <1>0, <1>3
    <3>2. \A m \in R : m < i => m < j
      BY <1>0, <3>1
    <3> QED BY <3>1, <3>2
  <2> HIDE DEF B
  <2>2. Cardinality(B(i) \cup {i}) = Cardinality(B(i)) + 1
    BY <1>2, <2>1, FS_AddElement
  <2>3. Cardinality(B(i) \cup {i}) <= Cardinality(B(j))
    BY <1>2, <2>1, FS_Subset
  <2>4. Cardinality(B(i)) \in Int /\ Cardinality(B(j)) \in Int
    BY <1>1, <1>2
  <2> QED BY <2>2, <2>3, <2>4
<1>4. \A i \in R : r[i] = Cardinality(B(i))
  OBVIOUS
<1>5. r \in [R -> 0..n - 1]
  BY <1>2
<1>6. \A k \in 1..n : q[k] = CHOOSE i \in R : Cardinality(B(i)) = k - 1
  BY DEF n
<1> HIDE DEF B, r
<1>7. r \in Injection(R, 0..n - 1)
  <2>1. ASSUME NEW i \in R, NEW j \in R, r[i] = r[j] PROVE i = j
    <3>1. Cardinality(B(i)) \in Int /\ Cardinality(B(i)) = Cardinality(B(j))
      BY <1>1, <1>2, <1>4, <2>1
    <3>2. ~(i < j) /\ ~(j < i)
      BY <1>3, <3>1
    <3> QED BY <1>0, <3>2
  <2> QED BY <1>5, <2>1 DEF Injection, IsInjective
<1>8. r \in Surjection(R, 0..n - 1)
  <2>1. IsFiniteSet(0..n - 1) /\ Cardinality(0..n - 1) = n
    BY <1>1, FS_Interval
  <2> QED BY <1>7, <2>1, FS_Injection DEF n
<1>9. ASSUME NEW k \in 1..n PROVE q[k] \in R /\ Cardinality(B(q[k])) = k - 1 /\ r[q[k]] = k - 1
  <2>1. \E i \in R : Cardinality(B(i)) = k - 1
    <3>1. k - 1 \in 0..n - 1
      BY <1>1
    <3> QED BY <3>1, <1>4, <1>8 DEF Surjection
  <2>2. q[k] \in R /\ Cardinality(B(q[k])) = k - 1
    BY <2>1, <1>6
  <2> QED BY <2>2, <1>4
<1>10. ASSUME NEW k \in 1..n, NEW l \in 1..n, k < l PROVE q[k] < q[l]
  <2>1. r[q[k]] = k - 1 /\ r[q[l]] = l - 1 /\ q[k] \in R /\ q[l] \in R
    BY <1>9
  <2>2. k - 1 < l - 1 /\ ~(l - 1 < k - 1) /\ k - 1 # l - 1
    BY <1>1, <1>10
  <2>3. q[k] # q[l]
    BY <2>1, <2>2
  <2>4. ~(q[l] < q[k])
    <3> SUFFICES ASSUME q[l] < q[k] PROVE FALSE
      OBVIOUS
    <3>1. \A i, j \in R : i < j => Cardinality(B(i)) < Cardinality(B(j))
      BY <1>3
    <3>2. Cardinality(B(q[l])) < Cardinality(B(q[k]))
      BY <2>1, <3>1
    <3>3. Cardinality(B(q[l])) = l - 1 /\ Cardinality(B(q[k])) = k - 1
      BY <1>9
    <3>4. l - 1 < k - 1
      BY <3>2, <3>3
    <3> QED BY <2>2, <3>4
  <2>5. q[k] \in Int /\ q[l] \in Int
    BY <2>1, <1>0
  <2> QED BY <2>3, <2>4, <2>5
<1>11. ASSUME NEW i \in R PROVE \E k \in 1..n : q[k] = i
  <2>1. r[i] \in 0..n - 1
    BY <1>5
  <2> DEFINE k == r[i] + 1
  <2>2. k \in 1..n /\ k - 1 = r[i]
    BY <1>1, <2>1
  <2> HIDE DEF k
  <2>3. q[k] \in R /\ r[q[k]] = r[i]
    BY <1>9, <2>2
  <2>4. q[k] = i
    BY <1>7, <2>3 DEF Injection, IsInjective
  <2> QED BY <2>2, <2>4
<1>12. DOMAIN q = 1..n /\ q \in [1..n -> R]
  <2> DEFINE f(k) == CHOOSE i \in R : Cardinality({j \in R : j < i}) = k - 1
  <2>1. q = [k \in 1..n |-> f(k)]
    BY DEF n
  <2> HIDE DEF f
  <2>2. \A k \in 1..n : q[k] = f(k)
    BY <2>1
  <2>3. \A k \in 1..n : f(k) \in R
    BY <1>9, <2>2
  <2> QED BY <2>1, <2>3
<1> QED BY <1>1, <1>9, <1>10, <1>11, <1>12 DEF Enumerates, n, B

LEMMA LenOfEnumeration ==
  ASSUME NEW R, NEW q, Enumerates(R, q)
  PROVE  Len(q) = Cardinality(R) /\ (q = <<>> <=> Cardinality(R) = 0)
<1> DEFINE n == Cardinality(R)
<1>1. n \in Nat /\ q \in [1..n -> R]
  BY DEF Enumerates
<1> HIDE DEF n
<1>2. q \in Seq(R)
  BY <1>1
<1>3. Len(q) = n
  BY <1>1, <1>2
<1>4. q = <<>> <=> Len(q) = 0
  BY <1>2
<1> QED BY <1>3, <1>4 DEF n

(* A number above all others comes last and moves none of them. *)
GrowsAtTheEnd(R, T, q, p) ==
  Cardinality(T) = Cardinality(R) + 1 /\ \A k \in 1..Cardinality(R) : p[k] = q[k]

LEMMA TopComesLast ==
  ASSUME NEW R, R \subseteq Nat, IsFiniteSet(R), NEW top \in Nat, \A i \in R : i < top,
         NEW q, Enumerates(R, q), NEW p, Enumerates(R \cup {top}, p)
  PROVE  GrowsAtTheEnd(R, R \cup {top}, q, p)
<1> DEFINE n == Cardinality(R)
           T == R \cup {top}
<1>1. Cardinality(T) = n + 1 /\ n \in Nat
  BY FS_AddElement, FS_CardinalityType
<1>2. ASSUME NEW k \in 1..n PROVE p[k] = q[k]
  <2>1. q[k] \in R /\ q[k] \in T /\ Cardinality({j \in R : j < q[k]}) = k - 1
    BY DEF Enumerates
  <2>2. {j \in R : j < q[k]} = {j \in T : j < q[k]}
    <3>1. q[k] < top /\ q[k] \in Nat
      BY <2>1
    <3>2. ~(top < q[k])
      BY <3>1
    <3> QED BY <3>2
  <2>3. PICK m \in 1..Cardinality(T) : p[m] = q[k]
    BY <2>1 DEF Enumerates
  <2>4. Cardinality({j \in T : j < p[m]}) = m - 1
    BY <2>3 DEF Enumerates
  <2>5. m - 1 = k - 1
    BY <2>1, <2>2, <2>3, <2>4
  <2> HIDE DEF T, n
  <2>6. m = k
    BY <1>1, <2>3, <2>5
  <2> QED BY <2>3, <2>6
<1> QED BY <1>1, <1>2 DEF GrowsAtTheEnd

-----------------------------------------------------------------------------
StoredMessages == Seq(Message)

LEMMA StoredMessagesAre == messages \in StoredMessages => \A i \in 1..Len(messages) : messages[i] \in Message /\ messages[i].parts \in Nat
<1> SUFFICES ASSUME messages \in StoredMessages, NEW i \in 1..Len(messages)
             PROVE  messages[i] \in Message /\ messages[i].parts \in Nat
  OBVIOUS
<1>1. messages[i] \in Message
  BY ElementOfSeq DEF StoredMessages
<1> QED BY <1>1 DEF Message

OpenCodeTypeOK ==
  /\ messages \in StoredMessages
  /\ opened \in BOOLEAN /\ skipped \in Nat /\ sent \in Nat
  /\ given \in Seq([message : Nat, parts : Nat])

(* Only the newest message grows. *)
OnlyLastGrows ==
  \A i \in DOMAIN messages : ~messages[i].done => i = Len(messages) /\ messages[i].role # "user"

(* What was handed out is a stretch of the records, each of a message that *)
(* is done.                                                                *)
GivenIsAStretch ==
  /\ skipped + Len(given) = sent /\ sent <= Cardinality(Recorded)
  /\ ~opened => given = <<>>
  /\ \A k \in 1..Len(given) :
       /\ given[k].message = Records[skipped + k]
       /\ messages[given[k].message].done
       /\ given[k].parts = messages[given[k].message].parts

OpenCodeInv == OpenCodeTypeOK /\ OnlyLastGrows /\ GivenIsAStretch

(* The records list the messages with something in them. *)
RecordsList ==
  /\ Enumerates(Recorded, Records) /\ IsFiniteSet(Recorded)
  /\ Recorded \subseteq 1..Len(messages) /\ Recorded \subseteq Nat
  /\ Len(Records) = Cardinality(Recorded) /\ (Records = <<>> <=> Cardinality(Recorded) = 0)

LEMMA RecordsEnumerate == messages \in StoredMessages => RecordsList
<1> SUFFICES ASSUME messages \in StoredMessages PROVE RecordsList
  OBVIOUS
<1>1. Len(messages) \in Nat /\ DOMAIN messages = 1..Len(messages)
  BY DEF StoredMessages
<1>2. Recorded \subseteq 1..Len(messages) /\ Recorded \subseteq Nat
  BY <1>1 DEF Recorded
<1>3. IsFiniteSet(Recorded)
  <2> DEFINE D == 1..Len(messages)
  <2>1. IsFiniteSet(D) /\ Recorded \subseteq D
    BY <1>1, <1>2, FS_Interval
  <2> HIDE DEF D
  <2> QED BY <2>1, FS_Subset
<1>4. Enumerates(Recorded, Records)
  BY <1>2, <1>3, RanksEnumerate DEF Records
<1>5. Len(Records) = Cardinality(Recorded) /\ (Records = <<>> <=> Cardinality(Recorded) = 0)
  BY <1>4, LenOfEnumeration
<1> QED BY <1>2, <1>3, <1>4, <1>5 DEF RecordsList

(* A step of the store: the records are the same, or there is one more at  *)
(* the end, and a message that is done stays what it is.                   *)
StoreMoves ==
  /\ messages' \in StoredMessages /\ OnlyLastGrows'
  /\ Recorded' = Recorded \/ \E top \in Nat : Recorded' = Recorded \cup {top} /\ \A i \in Recorded : i < top
  /\ \A i \in Recorded : messages[i].done => messages'[i].done /\ messages'[i].parts = messages[i].parts
  /\ UNCHANGED <<opened, skipped, sent, given>>

LEMMA MovingKeeps == OpenCodeInv /\ StoreMoves => OpenCodeInv'
<1> SUFFICES ASSUME OpenCodeInv, StoreMoves PROVE OpenCodeInv'
  OBVIOUS
<1> DEFINE n == Cardinality(Recorded)
<1>1. OpenCodeTypeOK /\ GivenIsAStretch
  BY DEF OpenCodeInv
<1>2. Enumerates(Recorded, Records) /\ IsFiniteSet(Recorded) /\ Recorded \subseteq Nat
  BY <1>1, RecordsEnumerate DEF OpenCodeTypeOK, RecordsList
<1>3. Enumerates(Recorded', Records')
  <2>1. messages' \in StoredMessages
    BY DEF StoreMoves
  <2>2. IsFiniteSet(Recorded') /\ Recorded' \subseteq Nat
    <3>1. Len(messages') \in Nat /\ DOMAIN messages' = 1..Len(messages')
      BY <2>1 DEF StoredMessages
    <3>2. Recorded' \subseteq 1..Len(messages') /\ Recorded' \subseteq Nat
      BY <3>1 DEF Recorded
    <3> DEFINE D == 1..Len(messages')
    <3>3. IsFiniteSet(D) /\ Recorded' \subseteq D
      BY <3>1, <3>2, FS_Interval
    <3> HIDE DEF D
    <3> QED BY <3>2, <3>3, FS_Subset
  <2> QED BY <2>2, RanksEnumerate DEF Records
<1>4. n \in Nat /\ Cardinality(Recorded') \in Nat /\ n <= Cardinality(Recorded')
      /\ \A k \in 1..n : Records'[k] = Records[k]
  <2>1. CASE Recorded' = Recorded
    <3>1. Records' = Records
      BY <2>1 DEF Records
    <3> QED BY <1>2, <2>1, <3>1 DEF Enumerates
  <2>2. CASE \E top \in Nat : Recorded' = Recorded \cup {top} /\ \A i \in Recorded : i < top
    <3>1. PICK top \in Nat : Recorded' = Recorded \cup {top} /\ \A i \in Recorded : i < top
      BY <2>2
    <3>2. Enumerates(Recorded \cup {top}, Records')
      BY <1>3, <3>1
    <3>0. GrowsAtTheEnd(Recorded, Recorded \cup {top}, Records, Records')
      BY <1>2, <3>1, <3>2, TopComesLast
    <3>3. Cardinality(Recorded') = n + 1 /\ \A k \in 1..n : Records'[k] = Records[k]
      BY <3>0, <3>1 DEF GrowsAtTheEnd
    <3>4. n \in Nat
      BY <1>2 DEF Enumerates
    <3> QED BY <3>3, <3>4
  <2> QED BY <2>1, <2>2 DEF StoreMoves
<1>5. given \in Seq([message : Nat, parts : Nat]) /\ Len(given) \in Nat /\ skipped \in Nat /\ sent \in Nat
  BY <1>1 DEF OpenCodeTypeOK
<1>6. ASSUME NEW k \in 1..Len(given)
      PROVE  /\ given[k].message = Records'[skipped + k]
             /\ messages'[given[k].message].done
             /\ given[k].parts = messages'[given[k].message].parts
  <2>1. skipped + k \in 1..n
    BY <1>1, <1>4, <1>5 DEF GivenIsAStretch
  <2>2. /\ given[k].message = Records[skipped + k] /\ messages[given[k].message].done
        /\ given[k].parts = messages[given[k].message].parts
    BY <1>1 DEF GivenIsAStretch
  <2>3. given[k].message \in Recorded
    BY <1>2, <2>1, <2>2 DEF Enumerates
  <2> QED BY <1>4, <2>1, <2>2, <2>3 DEF StoreMoves
<1>7. GivenIsAStretch'
  BY <1>1, <1>4, <1>5, <1>6 DEF GivenIsAStretch, StoreMoves
<1> QED BY <1>1, <1>7 DEF OpenCodeInv, OpenCodeTypeOK, StoreMoves

-----------------------------------------------------------------------------
(* The steps of the store. *)
LEMMA TurnMoves == Queueing = FALSE /\ OpenCodeInv /\ InsertTurn => StoreMoves
<1> SUFFICES ASSUME Queueing = FALSE, OpenCodeInv, InsertTurn PROVE StoreMoves
  OBVIOUS
<1> DEFINE n == Len(messages)
           m == [role |-> "user", parts |-> 1, done |-> TRUE]
<1>1. /\ messages' = Append(messages, m) /\ ~AgentWriting
      /\ UNCHANGED <<opened, skipped, sent, given>>
  BY DEF InsertTurn
<1>2. messages \in StoredMessages /\ OnlyLastGrows
  BY DEF OpenCodeInv, OpenCodeTypeOK
<1>3. m \in Message /\ m.parts > 0 /\ m.done
  BY DEF Message
<1> HIDE DEF m
<1>4. /\ n \in Nat /\ DOMAIN messages = 1..n /\ messages' \in StoredMessages
      /\ DOMAIN messages' = 1..n + 1 /\ Len(messages') = n + 1 /\ messages'[n + 1] = m
      /\ \A i \in 1..n : messages'[i] = messages[i]
  BY <1>1, <1>2, <1>3 DEF StoredMessages
<1> HIDE DEF n
<1>5. \A i \in 1..n + 1 : i \in 1..n \/ i = n + 1
  BY <1>4
<1>6. \A i \in 1..n + 1 : messages'[i].done
  <2>1. \A i \in 1..n : messages[i].done
    BY <1>1, <1>4 DEF AgentWriting
  <2> QED BY <1>3, <1>4, <1>5, <2>1
<1>7. OnlyLastGrows'
  BY <1>4, <1>6 DEF OnlyLastGrows
<1>8. Recorded' = Recorded \cup {n + 1}
  <2>1. Recorded' = {i \in 1..n + 1 : messages'[i].parts > 0} /\ Recorded = {i \in 1..n : messages[i].parts > 0}
    BY <1>4 DEF Recorded
  <2>2. \A i \in 1..n : i \in 1..n + 1
    BY <1>4
  <2>3. n + 1 \in 1..n + 1
    BY <1>4
  <2> QED BY <1>3, <1>4, <1>5, <2>1, <2>2, <2>3
<1>9. n + 1 \in Nat /\ \A i \in Recorded : i < n + 1 /\ i \in 1..n
  BY <1>4 DEF Recorded
<1> QED BY <1>1, <1>4, <1>7, <1>8, <1>9 DEF StoreMoves

LEMMA AnswerMoves == OpenCodeInv /\ InsertAnswer => StoreMoves
<1> SUFFICES ASSUME OpenCodeInv, InsertAnswer PROVE StoreMoves
  OBVIOUS
<1> DEFINE n == Len(messages)
           m == [role |-> "assistant", parts |-> 0, done |-> FALSE]
<1>1. /\ messages' = Append(messages, m) /\ ~AgentWriting
      /\ UNCHANGED <<opened, skipped, sent, given>>
  BY DEF InsertAnswer
<1>2. messages \in StoredMessages
  BY DEF OpenCodeInv, OpenCodeTypeOK
<1>3. m \in Message /\ ~(m.parts > 0) /\ m.role # "user"
  BY DEF Message
<1> HIDE DEF m
<1>4. /\ n \in Nat /\ DOMAIN messages = 1..n /\ messages' \in StoredMessages
      /\ DOMAIN messages' = 1..n + 1 /\ Len(messages') = n + 1 /\ messages'[n + 1] = m
      /\ \A i \in 1..n : messages'[i] = messages[i]
  BY <1>1, <1>2, <1>3 DEF StoredMessages
<1> HIDE DEF n
<1>5. \A i \in 1..n + 1 : i \in 1..n \/ i = n + 1
  BY <1>4
<1>6. \A i \in 1..n : messages'[i].done
  BY <1>1, <1>4 DEF AgentWriting
<1>7. OnlyLastGrows'
  BY <1>3, <1>4, <1>5, <1>6 DEF OnlyLastGrows
<1>8. Recorded' = Recorded
  <2>1. Recorded' = {i \in 1..n + 1 : messages'[i].parts > 0} /\ Recorded = {i \in 1..n : messages[i].parts > 0}
    BY <1>4 DEF Recorded
  <2>2. \A i \in 1..n : i \in 1..n + 1
    BY <1>4
  <2> QED BY <1>3, <1>4, <1>5, <2>1, <2>2
<1>9. \A i \in Recorded : i \in 1..n
  BY <1>4 DEF Recorded
<1> QED BY <1>1, <1>4, <1>7, <1>8, <1>9 DEF StoreMoves

LEMMA GrowthMoves == OpenCodeInv /\ GrowAnswer => StoreMoves
<1> SUFFICES ASSUME OpenCodeInv, GrowAnswer PROVE StoreMoves
  OBVIOUS
<1> DEFINE n == Len(messages)
<1>1. UNCHANGED <<opened, skipped, sent, given>>
  BY DEF GrowAnswer
<1>2. messages \in StoredMessages /\ OnlyLastGrows
  BY DEF OpenCodeInv, OpenCodeTypeOK
<1>3. n \in Nat /\ DOMAIN messages = 1..n
  BY <1>2 DEF StoredMessages
<1> HIDE DEF n
<1>4. PICK g \in DOMAIN messages :
        /\ ~messages[g].done
        /\ \/ messages' = [messages EXCEPT ![g].parts = @ + 1]
           \/ messages' = [messages EXCEPT ![g].done = TRUE]
  BY DEF GrowAnswer
<1> DEFINE old == messages[g]
           new == messages'[g]
<1>5. g = n /\ old.role # "user"
  <2>1. ~messages[g].done /\ g \in DOMAIN messages
    BY <1>4
  <2>2. g = Len(messages) /\ messages[g].role # "user"
    BY <1>2, <2>1, Zenon DEF OnlyLastGrows
  <2> QED BY <2>2 DEF n
<1>6. \A i \in 1..n : messages[i] \in Message
  BY <1>2, StoredMessagesAre DEF n
<1>7. old \in Message
  BY <1>3, <1>4, <1>6
<1>8. /\ messages' = [messages EXCEPT ![g] = new] /\ new.role = old.role
      /\ new \in Message
      /\ new.parts = old.parts \/ new.parts = old.parts + 1
  <2>1. CASE messages' = [messages EXCEPT ![g].parts = @ + 1]
    <3>1. new = [old EXCEPT !.parts = @ + 1] /\ messages' = [messages EXCEPT ![g] = new]
      BY <1>4, <2>1
    <3> HIDE DEF old, new
    <3> QED BY <1>7, <3>1 DEF Message
  <2>2. CASE messages' = [messages EXCEPT ![g].done = TRUE]
    <3>1. new = [old EXCEPT !.done = TRUE] /\ messages' = [messages EXCEPT ![g] = new]
      BY <1>4, <2>2
    <3> HIDE DEF old, new
    <3> QED BY <1>7, <3>1 DEF Message
  <2> QED BY <1>4, <2>1, <2>2
<1> HIDE DEF new
<1>9. /\ DOMAIN messages' = 1..n /\ messages' \in StoredMessages /\ Len(messages') = n
      /\ messages'[g] = new /\ \A i \in 1..n : i # g => messages'[i] = messages[i]
  <2>1. messages' \in StoredMessages /\ Len(messages') = n
    BY <1>2, <1>4, <1>8 DEF StoredMessages, n
  <2>2. DOMAIN messages' = 1..n /\ messages'[g] = new /\ \A i \in 1..n : i # g => messages'[i] = messages[i]
    BY <1>3, <1>4, <1>8
  <2> QED BY <2>1, <2>2
<1>10. OnlyLastGrows'
  <2> SUFFICES ASSUME NEW i \in 1..n, ~messages'[i].done PROVE i = n /\ messages'[i].role # "user"
    BY <1>9 DEF OnlyLastGrows
  <2>1. CASE i = g
    BY <2>1, <1>5, <1>8, <1>9, SMTT(30)
  <2>2. CASE i # g
    <3>1. ~messages[i].done /\ messages'[i] = messages[i]
      BY <2>2, <1>9
    <3> QED BY <3>1, <1>2, <1>3 DEF OnlyLastGrows, n
  <2> QED BY <2>1, <2>2
<1>11. Recorded' = {i \in 1..n : messages'[i].parts > 0} /\ Recorded = {i \in 1..n : messages[i].parts > 0}
  BY <1>3, <1>9 DEF Recorded
<1>12. \A i \in 1..n : i # g => (i \in Recorded' <=> i \in Recorded)
  BY <1>9, <1>11
<1>13. g \in Recorded => g \in Recorded'
  <2>1. old.parts \in Nat /\ new.parts \in Nat /\ (old.parts > 0 => new.parts > 0)
    BY <1>7, <1>8 DEF Message
  <2>2. messages[g] = old /\ messages'[g] = new /\ g \in 1..n
    BY <1>3, <1>4, <1>9
  <2> HIDE DEF old
  <2> QED BY <1>11, <2>1, <2>2
<1>14. Recorded' = Recorded \/ (Recorded' = Recorded \cup {g} /\ g \notin Recorded)
  <2>1. Recorded' \subseteq 1..n /\ Recorded \subseteq 1..n /\ g \in 1..n
    BY <1>3, <1>4, <1>11
  <2>2. CASE g \in Recorded' /\ g \notin Recorded
    <3>1. Recorded' = Recorded \cup {g}
      BY <1>12, <2>1, <2>2, Zenon
    <3> QED BY <2>2, <3>1
  <2>3. CASE ~(g \in Recorded' /\ g \notin Recorded)
    <3>1. \A i \in 1..n : i \in Recorded' <=> i \in Recorded
      BY <1>12, <1>13, <2>3
    <3> QED BY <2>1, <3>1
  <2> QED BY <2>2, <2>3
<1>15. g \in Nat /\ \A i \in Recorded : i # g => i < g
  BY <1>3, <1>4, <1>5, <1>11
<1>16. Recorded' = Recorded \/ \E top \in Nat : Recorded' = Recorded \cup {top} /\ \A i \in Recorded : i < top
  BY <1>14, <1>15
<1>17. \A i \in Recorded : messages[i].done => messages'[i].done /\ messages'[i].parts = messages[i].parts
  <2> SUFFICES ASSUME NEW i \in Recorded, messages[i].done
               PROVE  messages'[i].done /\ messages'[i].parts = messages[i].parts
    OBVIOUS
  <2>1. i # g /\ i \in 1..n
    BY <1>4, <1>11
  <2> QED BY <1>9, <2>1
<1> QED BY <1>1, <1>9, <1>10, <1>16, <1>17 DEF StoreMoves

-----------------------------------------------------------------------------
(* The steps of the follower. *)
LEMMA FollowingKeeps == OpenCodeInv /\ FollowStore => OpenCodeInv'
<1> SUFFICES ASSUME OpenCodeInv, FollowStore PROVE OpenCodeInv'
  OBVIOUS
<1>1. /\ ~opened /\ opened' = TRUE /\ skipped' \in {0, Len(Records)} /\ sent' = skipped'
      /\ UNCHANGED <<messages, given>>
  BY DEF FollowStore
<1>2. OpenCodeTypeOK /\ OnlyLastGrows /\ GivenIsAStretch
  BY DEF OpenCodeInv
<1>3. messages \in StoredMessages
  BY <1>2 DEF OpenCodeTypeOK
<1>4. Len(Records) = Cardinality(Recorded) /\ Cardinality(Recorded) \in Nat
  BY <1>3, RecordsEnumerate DEF RecordsList, Enumerates
<1>5. given = <<>> /\ Len(given) = 0
  BY <1>1, <1>2 DEF GivenIsAStretch
<1>6. Recorded' = Recorded /\ OnlyLastGrows'
  <2>1. messages' = messages
    BY <1>1
  <2>2. Recorded' = Recorded
    BY <2>1 DEF Recorded
  <2>3. OnlyLastGrows'
    BY <1>2, <2>1 DEF OnlyLastGrows
  <2> QED BY <2>2, <2>3
<1>7. skipped' \in Nat /\ sent' <= Cardinality(Recorded) /\ skipped' + 0 = sent'
  <2>1. skipped' = 0 \/ skipped' = Cardinality(Recorded)
    BY <1>1, <1>4
  <2> DEFINE c == Cardinality(Recorded)
  <2>2. c \in Nat /\ (skipped' = 0 \/ skipped' = c) /\ sent' = skipped'
    BY <1>1, <1>4, <2>1
  <2> HIDE DEF c
  <2>3. skipped' \in Nat /\ sent' <= c /\ skipped' + 0 = sent'
    BY <2>2
  <2> QED BY <2>3 DEF c
<1>8. GivenIsAStretch'
  <2>1. /\ skipped' + Len(given') = sent' /\ sent' <= Cardinality(Recorded') /\ opened' = TRUE
    BY <1>1, <1>5, <1>6, <1>7
  <2>2. \A k \in 1..Len(given') : FALSE
    BY <1>1, <1>5
  <2> QED BY <2>1, <2>2 DEF GivenIsAStretch
<1> QED BY <1>1, <1>2, <1>6, <1>7, <1>8 DEF OpenCodeInv, OpenCodeTypeOK

LEMMA PollKeeps == OpenCodeInv /\ Poll => OpenCodeInv'
<1> SUFFICES ASSUME OpenCodeInv, Poll PROVE OpenCodeInv'
  OBVIOUS
<1> DEFINE n == Cardinality(Recorded)
           m == Len(given)
           d == Ready - sent
           more == [k \in 1..d |-> [message |-> Records[sent + k], parts |-> messages[Records[sent + k]].parts]]
<1>1. opened /\ Ready > sent /\ given' = given \o more /\ sent' = Ready /\ UNCHANGED <<messages, opened, skipped>>
  BY DEF Poll
<1>2. OpenCodeTypeOK /\ OnlyLastGrows /\ GivenIsAStretch
  BY DEF OpenCodeInv
<1>3. /\ messages \in StoredMessages /\ skipped \in Nat /\ sent \in Nat
      /\ given \in Seq([message : Nat, parts : Nat])
  BY <1>2 DEF OpenCodeTypeOK
<1>4. Enumerates(Recorded, Records) /\ Recorded \subseteq 1..Len(messages) /\ Recorded \subseteq Nat
  BY <1>3, RecordsEnumerate DEF RecordsList
<1>5. n \in Nat /\ Len(Records) = n /\ DOMAIN Records = 1..n /\ (Records = <<>> <=> n = 0)
  BY <1>3, RecordsEnumerate DEF RecordsList, Enumerates
<1>6. Ready \in Nat /\ Ready <= n /\ (Ready = n => n = 0 \/ messages[Records[n]].role = "user")
  <2>1. Last(Records) = Records[n]
    BY <1>5 DEF Last
  <2> HIDE DEF n
  <2>2. CASE Records # <<>> /\ messages[Last(Records)].role # "user"
    <3>1. Ready = n - 1 /\ n # 0
      BY <1>5, <2>2 DEF Ready
    <3> QED BY <3>1, <1>5
  <2>3. CASE ~(Records # <<>> /\ messages[Last(Records)].role # "user")
    <3>1. Ready = n
      BY <1>5, <2>3 DEF Ready
    <3> QED BY <3>1, <1>5, <2>1, <2>3
  <2> QED BY <2>2, <2>3
<1> HIDE DEF n
<1>7. \A k \in 1..Ready : k \in 1..n /\ Records[k] \in Recorded /\ Records[k] \in Nat
  <2>1. \A k \in 1..n : Records[k] \in Recorded /\ Records[k] \in Nat
    BY <1>4 DEF Enumerates, n
  <2>2. \A k \in 1..Ready : k \in 1..n
    BY <1>5, <1>6
  <2> QED BY <2>1, <2>2
<1>8. ASSUME NEW k \in 1..Ready PROVE messages[Records[k]].done
  <2> SUFFICES ASSUME ~messages[Records[k]].done PROVE FALSE
    OBVIOUS
  <2>1. Records[k] \in 1..Len(messages) /\ DOMAIN messages = 1..Len(messages) /\ Len(messages) \in Nat
    BY <1>3, <1>4, <1>7 DEF StoredMessages
  <2>2. Records[k] = Len(messages) /\ messages[Records[k]].role # "user"
    BY <1>2, <2>1 DEF OnlyLastGrows
  <2>3. k # n
    BY <1>5, <1>6, <1>7, <2>2
  <2>4. k < n /\ n \in 1..n /\ k \in 1..n
    BY <1>5, <1>6, <1>7, <2>3
  <2>5. Records[k] < Records[n] /\ Records[n] \in 1..Len(messages)
    BY <1>4, <2>4 DEF Enumerates, n
  <2> QED BY <2>1, <2>2, <2>5
<1>9. d \in Nat /\ sent + d = Ready /\ \A k \in 1..d : sent + k \in 1..Ready
  BY <1>1, <1>3, <1>6
<1> HIDE DEF d
<1>10. ASSUME NEW k \in 1..d
       PROVE  /\ more[k] \in [message : Nat, parts : Nat] /\ more[k].message = Records[sent + k]
              /\ more[k].parts = messages[Records[sent + k]].parts
  <2>1. more[k] = [message |-> Records[sent + k], parts |-> messages[Records[sent + k]].parts]
    OBVIOUS
  <2>2. Records[sent + k] \in Nat /\ Records[sent + k] \in 1..Len(messages)
    <3>1. Records[sent + k] \in Recorded
      BY <1>7, <1>9
    <3> QED BY <1>4, <3>1
  <2>3. \A i \in 1..Len(messages) : messages[i].parts \in Nat
    BY <1>3, StoredMessagesAre
  <2> HIDE DEF more
  <2> QED BY <2>1, <2>2, <2>3
<1>11. more \in Seq([message : Nat, parts : Nat]) /\ Len(more) = d
  <2> DEFINE S == [message : Nat, parts : Nat]
  <2>1. more \in [1..d -> S]
    BY <1>10
  <2> HIDE DEF more, S
  <2>2. more \in Seq(S)
    BY <1>9, <2>1
  <2>3. Len(more) = d
    BY <1>9, <2>1, <2>2
  <2> QED BY <2>2, <2>3 DEF S
<1> HIDE DEF more
<1>12. /\ given' \in Seq([message : Nat, parts : Nat]) /\ m \in Nat /\ Len(given') = m + d
       /\ (\A k \in 1..m : given'[k] = given[k])
       /\ (\A k \in m + 1..m + d : given'[k] = more[k - m])
  BY <1>1, <1>3, <1>9, <1>11
<1>13. skipped + m = sent /\ \A k \in 1..m : /\ given[k].message = Records[skipped + k]
                                             /\ messages[given[k].message].done
                                             /\ given[k].parts = messages[given[k].message].parts
  BY <1>2 DEF GivenIsAStretch
<1> HIDE DEF m
<1>14. ASSUME NEW k \in 1..m + d
       PROVE  /\ given'[k].message = Records[skipped + k]
              /\ messages[given'[k].message].done
              /\ given'[k].parts = messages[given'[k].message].parts
  <2>1. CASE k \in 1..m
    BY <2>1, <1>12, <1>13
  <2>2. CASE k \in m + 1..m + d
    <3>1. k - m \in 1..d /\ sent + (k - m) = skipped + k
      BY <2>2, <1>3, <1>9, <1>12, <1>13
    <3>2. given'[k] = more[k - m] /\ sent + (k - m) \in 1..Ready
      BY <2>2, <3>1, <1>9, <1>12
    <3>3. given'[k].message = Records[skipped + k] /\ given'[k].parts = messages[Records[skipped + k]].parts
      BY <1>10, <3>1, <3>2
    <3>4. messages[Records[skipped + k]].done
      BY <1>8, <3>1, <3>2
    <3> QED BY <3>3, <3>4
  <2> QED BY <2>1, <2>2, <1>9, <1>12
<1>15. Recorded' = Recorded /\ Records' = Records /\ OnlyLastGrows'
  <2>1. messages' = messages
    BY <1>1
  <2>2. Recorded' = Recorded
    BY <2>1 DEF Recorded
  <2>3. Records' = Records
    BY <2>2 DEF Records
  <2>4. OnlyLastGrows'
    BY <1>2, <2>1 DEF OnlyLastGrows
  <2> QED BY <2>2, <2>3, <2>4
<1>16. skipped + (m + d) = Ready
  <2>1. \A a, b, c \in Nat : a + (b + c) = (a + b) + c
    OBVIOUS
  <2> QED BY <1>3, <1>9, <1>12, <1>13, <2>1
<1>17. GivenIsAStretch'
  BY <1>1, <1>6, <1>12, <1>14, <1>15, <1>16 DEF GivenIsAStretch, n
<1> QED BY <1>1, <1>2, <1>6, <1>12, <1>15, <1>17 DEF OpenCodeInv, OpenCodeTypeOK

-----------------------------------------------------------------------------
LEMMA StretchIsWhole == OpenCodeInv => AnswersAreWholeAndOnce
<1> SUFFICES ASSUME OpenCodeInv PROVE AnswersAreWholeAndOnce
  OBVIOUS
<1> DEFINE n == Cardinality(Recorded)
           m == Len(given)
<1>1. /\ messages \in StoredMessages /\ skipped \in Nat /\ sent \in Nat
      /\ given \in Seq([message : Nat, parts : Nat])
  BY DEF OpenCodeInv, OpenCodeTypeOK
<1>2. Enumerates(Recorded, Records) /\ Recorded \subseteq Nat
  BY <1>1, RecordsEnumerate DEF RecordsList
<1>3. n \in Nat /\ m \in Nat /\ DOMAIN given = 1..m
  BY <1>1, <1>2 DEF Enumerates
<1>4. /\ skipped + m = sent /\ sent <= n
      /\ \A k \in 1..m : given[k].message = Records[skipped + k] /\ given[k].parts = messages[given[k].message].parts
  BY DEF OpenCodeInv, GivenIsAStretch
<1> HIDE DEF n, m
<1>5. \A k \in 1..m : skipped + k \in 1..n
  BY <1>1, <1>3, <1>4
<1>6. \A k, l \in 1..n : k < l => Records[k] < Records[l]
  BY <1>2 DEF Enumerates, n
<1>7. \A k \in 1..n : Records[k] \in Nat
  BY <1>2 DEF Enumerates, n
<1>8. ASSUME NEW k \in 1..m, NEW l \in 1..m, k < l PROVE given[k].message < given[l].message
  <2>1. skipped + k < skipped + l
    BY <1>1, <1>8
  <2> QED BY <1>4, <1>5, <1>6, <2>1
<1>9. ASSUME NEW k \in 1..m, NEW i \in DOMAIN messages, given[1].message < i, i < given[k].message,
             messages[i].parts > 0
      PROVE  \E l \in 1..m : given[l].message = i
  <2>1. i \in Recorded
    BY <1>9 DEF Recorded
  <2>2. PICK j \in 1..n : Records[j] = i
    BY <1>2, <2>1 DEF Enumerates, n
  <2>3. 1 \in 1..m
    BY <1>3
  <2>4. Records[skipped + 1] < Records[j] /\ Records[j] < Records[skipped + k]
    BY <1>4, <1>9, <2>2, <2>3
  <2>5. /\ ~(Records[j] < Records[skipped + 1]) /\ Records[j] # Records[skipped + 1]
        /\ ~(Records[skipped + k] < Records[j]) /\ Records[j] # Records[skipped + k]
    BY <1>5, <1>7, <2>3, <2>4
  <2>6. ~(j < skipped + 1) /\ ~(skipped + k < j)
    BY <1>5, <1>6, <2>3, <2>5
  <2>7. j - skipped \in 1..m /\ skipped + (j - skipped) = j
    BY <1>1, <1>3, <2>2, <2>6
  <2> QED BY <1>4, <2>2, <2>7
<1>10. EachRecordOnce
  BY <1>3, <1>8, <1>9 DEF EachRecordOnce
<1> QED BY <1>3, <1>4, <1>10 DEF AnswersAreWholeAndOnce

(* While the operator waits for the agent, however often the store is      *)
(* polled while an answer grows, no answer is handed out before it is      *)
(* done, none twice, and none is passed over (opencode.go:358).            *)
THEOREM AnswersAreHandedOutWhole == Queueing = FALSE /\ OpenCodeSpec => []AnswersAreWholeAndOnce
<1> SUFFICES ASSUME Queueing = FALSE PROVE OpenCodeSpec => []AnswersAreWholeAndOnce
  OBVIOUS
<1>1. OpenCodeInit => OpenCodeInv
  <2> SUFFICES ASSUME OpenCodeInit PROVE OpenCodeInv
    OBVIOUS
  <2>1. messages = <<>> /\ opened = FALSE /\ skipped = 0 /\ sent = 0 /\ given = <<>>
    BY DEF OpenCodeInit
  <2>2. OpenCodeTypeOK
    <3>1. messages \in StoredMessages /\ given \in Seq([message : Nat, parts : Nat])
      BY <2>1 DEF StoredMessages
    <3> QED BY <2>1, <3>1 DEF OpenCodeTypeOK
  <2>5. OnlyLastGrows
    BY <2>1 DEF OnlyLastGrows
  <2>3. Cardinality(Recorded) \in Nat
    BY <2>2, RecordsEnumerate DEF OpenCodeTypeOK, RecordsList, Enumerates
  <2>4. GivenIsAStretch
    BY <2>1, <2>3 DEF GivenIsAStretch
  <2> QED BY <2>2, <2>4, <2>5 DEF OpenCodeInv
<1>2. OpenCodeInv /\ [OpenCodeNext]_openCodeVars => OpenCodeInv'
  <2> SUFFICES ASSUME OpenCodeInv, [OpenCodeNext]_openCodeVars PROVE OpenCodeInv'
    OBVIOUS
  <2>1. CASE InsertTurn
    BY <2>1, TurnMoves, MovingKeeps
  <2>2. CASE InsertAnswer
    BY <2>2, AnswerMoves, MovingKeeps
  <2>3. CASE GrowAnswer
    BY <2>3, GrowthMoves, MovingKeeps
  <2>4. CASE FollowStore
    BY <2>4, FollowingKeeps
  <2>5. CASE Poll
    BY <2>5, PollKeeps
  <2>6. CASE UNCHANGED openCodeVars
    <3>1. Recorded' = Recorded /\ Records' = Records
      BY <2>6 DEF openCodeVars, Recorded, Records
    <3> QED BY <2>6, <3>1 DEF openCodeVars, OpenCodeInv, OpenCodeTypeOK, OnlyLastGrows, GivenIsAStretch
  <2> QED BY <2>1, <2>2, <2>3, <2>4, <2>5, <2>6 DEF OpenCodeNext
<1> QED BY <1>1, <1>2, StretchIsWhole, PTL DEF OpenCodeSpec

-----------------------------------------------------------------------------
(* What a watch is told of a transcript that is read chunk by chunk.       *)
(* A sequence of whatever it holds. *)
IsSeq(q) == q \in Seq({q[i] : i \in DOMAIN q})

(* Induction on the numbers, for a set of them. *)
LEMMA NumbersAreReached ==
  ASSUME NEW S, 0 \in S, \A n \in Nat : n \in S => n + 1 \in S
  PROVE  \A n \in Nat : n \in S
<1> DEFINE T == {n \in Nat : n \notin S}
           R == OpToRel(<, Nat)
<1>1. IsWellFoundedOn(R, Nat)
  BY NatLessThanWellFounded
<1>2. SUFFICES ASSUME T # {} PROVE FALSE
  OBVIOUS
<1>3. T \subseteq Nat
  OBVIOUS
<1> HIDE DEF R, T
<1>4. PICK x \in T : \A y \in T : ~ (<<y, x>> \in R)
  BY <1>1, <1>2, <1>3, WFMin
<1>5. x \in Nat /\ x \notin S /\ x # 0
  BY <1>4 DEF T
<1>6. x - 1 \in Nat /\ x - 1 < x /\ (x - 1) + 1 = x
  BY <1>5
<1>7. x - 1 \in T
  BY <1>5, <1>6 DEF T
<1>8. <<x - 1, x>> \in R
  BY <1>5, <1>6 DEF R, OpToRel
<1> QED
  BY <1>4, <1>7, <1>8

LEMMA PartOfASequence ==
  ASSUME NEW S, NEW s \in Seq(S), NEW i \in Nat \ {0}, NEW j \in Nat, i <= j + 1, j <= Len(s),
         NEW x, x = SubSeq(s, i, j)
  PROVE  /\ x \in Seq(S) /\ Len(x) = j - i + 1 /\ DOMAIN x = 1..j - i + 1
         /\ \A k \in 1..j - i + 1 : x[k] = s[i + k - 1]
<1>1. \A k \in i..j : s[k] \in S
  <2>1. Len(s) \in Nat /\ \A k \in 1..Len(s) : s[k] \in S
    OBVIOUS
  <2> QED BY <2>1
<1>2. /\ x \in Seq(S) /\ Len(x) = (IF i <= j THEN j - i + 1 ELSE 0)
      /\ \A k \in 1..j - i + 1 : x[k] = s[i + k - 1]
  BY <1>1, SubSeqProperties
<1>3. Len(x) = j - i + 1
  BY <1>2
<1>4. DOMAIN x = 1..Len(x)
  BY <1>2
<1> QED BY <1>2, <1>3, <1>4

(* A call of Decode is a recursive function of how far it has come. *)
DecodesUpTo(f, h, lines, acc, k) ==
  f = [n \in 0..k |-> IF n = 0 THEN acc ELSE DecodeLine(h, f[n - 1], lines[n])]

LEMMA DecodingGoesOn ==
  ASSUME NEW h, NEW lines, NEW acc, NEW k \in Nat, NEW f, DecodesUpTo(f, h, lines, acc, k)
  PROVE  \E g : DecodesUpTo(g, h, lines, acc, k + 1)
<1> DEFINE P(a, n) == DecodeLine(h, a, lines[n])
           g == [n \in 0..k + 1 |-> IF n <= k THEN f[n] ELSE P(f[k], k + 1)]
<1> HIDE DEF P
<1>1. f = [n \in 0..k |-> IF n = 0 THEN acc ELSE P(f[n - 1], n)]
  BY DEF DecodesUpTo, P
<1>2. \A n \in 0..k : f[n] = IF n = 0 THEN acc ELSE P(f[n - 1], n)
  BY <1>1
<1>3. ASSUME NEW n \in 0..k + 1
      PROVE  g[n] = IF n = 0 THEN acc ELSE P(g[n - 1], n)
  <2>1. CASE n <= k
    <3>1. n \in 0..k /\ g[n] = f[n]
      BY <2>1
    <3>2. f[n] = IF n = 0 THEN acc ELSE P(f[n - 1], n)
      BY <3>1, <1>2
    <3>3. CASE n = 0
      BY <3>1, <3>2, <3>3
    <3>4. CASE n # 0
      <4>1. n - 1 \in 0..k + 1 /\ n - 1 <= k
        BY <2>1, <3>4
      <4>2. g[n - 1] = f[n - 1]
        BY <4>1
      <4> HIDE DEF g
      <4>3. f[n] = P(f[n - 1], n)
        BY <3>2, <3>4, Zenon
      <4> QED BY <3>1, <3>4, <4>2, <4>3, Zenon
    <3> QED BY <3>3, <3>4
  <2>2. CASE n = k + 1
    <3>1. k + 1 \in 0..k + 1 /\ ~(k + 1 <= k) /\ k + 1 # 0
      OBVIOUS
    <3>2. g[k + 1] = P(f[k], k + 1)
      BY <3>1, Zenon
    <3>3. k \in 0..k + 1 /\ k <= k /\ n - 1 = k
      BY <2>2
    <3>4. g[k] = f[k]
      BY <3>3, Zenon
    <3> HIDE DEF g
    <3> QED BY <3>1, <3>2, <3>3, <3>4, <2>2, Zenon
  <2> QED BY <2>1, <2>2
<1>4. g = [n \in 0..k + 1 |-> g[n]]
  OBVIOUS
<1>5. g = [n \in 0..k + 1 |-> IF n = 0 THEN acc ELSE P(g[n - 1], n)]
  <2> HIDE DEF g
  <2> QED BY <1>3, <1>4, Zenon
<1> QED BY <1>5 DEF DecodesUpTo, P

LEMMA DecodingIsDefined ==
  ASSUME NEW h, NEW lines, NEW acc, NEW N \in Nat
  PROVE  \E f : DecodesUpTo(f, h, lines, acc, N)
<1> DEFINE S == {k \in Nat : \E f : DecodesUpTo(f, h, lines, acc, k)}
<1>1. 0 \in S
  <2> DEFINE f0 == [n \in 0..0 |-> acc]
  <2>1. f0 = [n \in 0..0 |-> IF n = 0 THEN acc ELSE DecodeLine(h, f0[n - 1], lines[n])]
    OBVIOUS
  <2> HIDE DEF f0
  <2>2. DecodesUpTo(f0, h, lines, acc, 0)
    BY <2>1 DEF DecodesUpTo
  <2> QED BY <2>2
<1>2. ASSUME NEW n \in Nat, n \in S PROVE n + 1 \in S
  BY <1>2, DecodingGoesOn
<1> HIDE DEF S
<1>3. N \in S
  BY <1>1, <1>2, NumbersAreReached
<1> QED BY <1>3 DEF S

LEMMA DecodersAre ==
  ASSUME NEW h, NEW lines, NEW acc, Len(lines) \in Nat
  PROVE  \A n \in 0..Len(lines) : Decoders(h, lines, acc)[n] =
           IF n = 0 THEN acc ELSE DecodeLine(h, Decoders(h, lines, acc)[n - 1], lines[n])
<1>1. Decoders(h, lines, acc) = CHOOSE f : DecodesUpTo(f, h, lines, acc, Len(lines))
  BY DEF Decoders, DecodesUpTo
<1>2. DecodesUpTo(Decoders(h, lines, acc), h, lines, acc, Len(lines))
  BY <1>1, DecodingIsDefined
<1> DEFINE f == Decoders(h, lines, acc)
<1> HIDE DEF f
<1>3. f = [n \in 0..Len(lines) |-> IF n = 0 THEN acc ELSE DecodeLine(h, f[n - 1], lines[n])]
  BY <1>2 DEF DecodesUpTo, f
<1>4. \A n \in 0..Len(lines) : f[n] = IF n = 0 THEN acc ELSE DecodeLine(h, f[n - 1], lines[n])
  BY <1>3
<1> QED BY <1>4 DEF f

(* What a decoder holds that has read the lines behind p up to n. *)
Read(h, src, p, n, acc) == Decode(h, SubSeq(src, p + 1, n), acc)

LEMMA ReadNothing ==
  ASSUME NEW S, NEW src \in Seq(S), NEW h, NEW acc, NEW p \in 0..Len(src)
  PROVE  Read(h, src, p, p, acc) = acc
<1> DEFINE lines == SubSeq(src, p + 1, p)
<1>1. Len(src) \in Nat /\ p \in Nat /\ p + 1 \in Nat \ {0} /\ p + 1 <= p + 1 /\ p <= Len(src)
  OBVIOUS
<1>2. Len(lines) = p - (p + 1) + 1
  BY <1>1, PartOfASequence
<1>3. Len(lines) = 0
  BY <1>1, <1>2
<1> HIDE DEF lines
<1>4. Decoders(h, lines, acc)[0] = acc
  BY <1>3, DecodersAre
<1> QED BY <1>3, <1>4 DEF Read, Decode, lines

LEMMA ReadOneMore ==
  ASSUME NEW S, NEW src \in Seq(S), NEW h, NEW acc, NEW p \in Nat, NEW n \in Nat, p <= n, n + 1 <= Len(src)
  PROVE  Read(h, src, p, n + 1, acc) = DecodeLine(h, Read(h, src, p, n, acc), src[n + 1])
<1> DEFINE a == SubSeq(src, p + 1, n)
           b == SubSeq(src, p + 1, n + 1)
           d == n - p
           f == Decoders(h, a, acc)
           g == Decoders(h, b, acc)
<1>1. Len(src) \in Nat /\ p + 1 \in Nat \ {0} /\ p + 1 <= n + 1 /\ n <= Len(src) /\ p + 1 <= (n + 1) + 1
  OBVIOUS
<1>2. Len(a) = n - (p + 1) + 1 /\ \A k \in 1..n - (p + 1) + 1 : a[k] = src[(p + 1) + k - 1]
  BY <1>1, PartOfASequence
<1>3. Len(b) = (n + 1) - (p + 1) + 1 /\ \A k \in 1..(n + 1) - (p + 1) + 1 : b[k] = src[(p + 1) + k - 1]
  BY <1>1, PartOfASequence
<1> HIDE DEF a, b
<1>4. d \in Nat /\ Len(a) = d /\ Len(b) = d + 1
  BY <1>1, <1>2, <1>3
<1>5. n - (p + 1) + 1 = d /\ (n + 1) - (p + 1) + 1 = d + 1 /\ (p + 1) + (d + 1) - 1 = n + 1
  BY <1>1
<1> HIDE DEF d
<1>6. (\A k \in 1..d : a[k] = b[k]) /\ b[d + 1] = src[n + 1]
  <2>1. \A k \in 1..d : k \in 1..d + 1
    BY <1>4
  <2>2. d + 1 \in 1..d + 1
    BY <1>4
  <2> QED BY <1>2, <1>3, <1>5, <2>1, <2>2
<1>7. \A k \in 0..d : f[k] = IF k = 0 THEN acc ELSE DecodeLine(h, f[k - 1], a[k])
  BY <1>4, DecodersAre
<1>8. \A k \in 0..d + 1 : g[k] = IF k = 0 THEN acc ELSE DecodeLine(h, g[k - 1], b[k])
  BY <1>4, DecodersAre
<1> HIDE DEF f, g
<1> DEFINE M == {k \in Nat : k <= d => f[k] = g[k]}
<1>9. 0 \in M
  <2>1. 0 \in 0..d /\ 0 \in 0..d + 1
    BY <1>4
  <2> QED BY <1>7, <1>8, <2>1
<1>10. ASSUME NEW k \in Nat, k \in M PROVE k + 1 \in M
  <2> SUFFICES ASSUME k + 1 <= d PROVE f[k + 1] = g[k + 1]
    OBVIOUS
  <2>1. k + 1 \in 0..d /\ k + 1 \in 0..d + 1 /\ k + 1 # 0 /\ (k + 1) - 1 = k /\ k + 1 \in 1..d /\ k <= d
    BY <1>4
  <2>2. f[k] = g[k]
    BY <1>10, <2>1
  <2>3. f[k + 1] = DecodeLine(h, f[k], a[k + 1])
    BY <1>7, <2>1
  <2>4. g[k + 1] = DecodeLine(h, g[k], b[k + 1])
    BY <1>8, <2>1
  <2> QED BY <1>6, <2>1, <2>2, <2>3, <2>4
<1>11. d \in M
  <2> HIDE DEF M
  <2> QED BY <1>4, <1>9, <1>10, NumbersAreReached
<1>12. f[d] = g[d]
  BY <1>4, <1>11
<1>13. g[d + 1] = DecodeLine(h, g[d], b[d + 1])
  <2>1. d + 1 \in 0..d + 1 /\ d + 1 # 0 /\ (d + 1) - 1 = d
    BY <1>4
  <2> QED BY <1>8, <2>1
<1> QED BY <1>4, <1>6, <1>12, <1>13 DEF Read, Decode, f, g, a, b

-----------------------------------------------------------------------------
(* Sequences of whatever they hold. *)
LEMMA JoinApart ==
  ASSUME NEW p, IsSeq(p), NEW q, IsSeq(q), NEW r, IsSeq(r)
  PROVE  /\ (p \o q) \o r = p \o (q \o r)
         /\ IsSeq(p \o q) /\ IsSeq(q \o r)
<1> DEFINE S == {p[i] : i \in DOMAIN p} \cup {q[i] : i \in DOMAIN q} \cup {r[i] : i \in DOMAIN r}
<1>1. p \in Seq(S) /\ q \in Seq(S) /\ r \in Seq(S)
  BY DEF IsSeq
<1> HIDE DEF S
<1>2. p \o q \in Seq(S) /\ q \o r \in Seq(S)
  BY <1>1
<1>3. \A s \in Seq(S) : IsSeq(s)
  BY DEF IsSeq
<1>4. (p \o q) \o r = p \o (q \o r)
  BY <1>1, ConcatAssociative
<1> QED BY <1>2, <1>3, <1>4

LEMMA AppendJoins ==
  ASSUME NEW q, IsSeq(q), NEW e
  PROVE  Append(q, e) = q \o <<e>> /\ IsSeq(<<e>>)
<1> DEFINE S == {q[i] : i \in DOMAIN q} \cup {e}
<1>1. q \in Seq(S) /\ e \in S
  BY DEF IsSeq
<1>2. \A x \in S : <<x>> \in Seq(S)
  OBVIOUS
<1> HIDE DEF S
<1>3. \A s \in Seq(S) : IsSeq(s)
  BY DEF IsSeq
<1>4. <<e>> \in Seq(S)
  BY <1>1, <1>2
<1>5. Append(q, e) = q \o <<e>>
  BY <1>1, AppendIsConcat
<1> QED BY <1>3, <1>4, <1>5

LEMMA NothingIsSeq == IsSeq(<<>>) /\ \A q : IsSeq(q) => q \o <<>> = q /\ <<>> \o q = q
<1>1. IsSeq(<<>>)
  BY DEF IsSeq
<1>2. ASSUME NEW q, IsSeq(q) PROVE q \o <<>> = q /\ <<>> \o q = q
  <2> DEFINE S == {q[i] : i \in DOMAIN q}
  <2>1. q \in Seq(S)
    BY <1>2 DEF IsSeq
  <2> HIDE DEF S
  <2> QED BY <2>1, ConcatEmptySeq
<1> QED BY <1>1, <1>2

-----------------------------------------------------------------------------
(* Two decoders at one place of a transcript, the second of which said pre *)
(* before.  A rollout names its directory in its first line; who read the  *)
(* head knows it before.                                                   *)
IsAcc(x) == x = [at |-> x.at, out |-> x.out, names |-> x.names, sites |-> x.sites, root |-> x.root]

RootsAgree(src, m, x, y) ==
  x = y \/ (m = 0 /\ y = NoRoot /\ src # <<>> /\ src[1].type = "session_meta" /\ x = src[1].cwd)

Alike(h, src, pre, m, a, b) ==
  /\ IsAcc(a) /\ IsAcc(b) /\ a.at = m /\ b.at = m
  /\ IsSeq(a.out) /\ b.out = pre \o a.out
  /\ (h = "codex" => RootsAgree(src, m, a.root, b.root))

LEMMA RecordsAreOneOrNone == \A line, at, root : IsSeq(CodexRecord(line, at, root))
<1> SUFFICES ASSUME NEW line, NEW at, NEW root PROVE IsSeq(CodexRecord(line, at, root))
  OBVIOUS
<1>1. \A x : IsSeq(<<x>>)
  <2> SUFFICES ASSUME NEW x PROVE IsSeq(<<x>>)
    OBVIOUS
  <2> QED BY NothingIsSeq, AppendJoins
<1>2. CodexRecord(line, at, root) = <<>> \/ \E x : CodexRecord(line, at, root) = <<x>>
  BY Zenon DEF CodexRecord
<1> QED BY <1>1, <1>2, NothingIsSeq

LEMMA LinesKeepAlike ==
  ASSUME NEW h, h \in {"codex", "generic"}, NEW src, NEW pre, IsSeq(pre), NEW m \in Nat, NEW a, NEW b,
         Alike(h, src, pre, m, a, b)
  PROVE  Alike(h, src, pre, m + 1, DecodeLine(h, a, src[m + 1]), DecodeLine(h, b, src[m + 1]))
<1> DEFINE line == src[m + 1]
           x == DecodeLine(h, a, line)
           y == DecodeLine(h, b, line)
<1>1. /\ IsAcc(a) /\ IsAcc(b) /\ a.at = m /\ b.at = m /\ IsSeq(a.out) /\ b.out = pre \o a.out
      /\ (h = "codex" => RootsAgree(src, m, a.root, b.root))
  BY DEF Alike
<1>2. CASE h = "generic"
  <2> DEFINE r == Rec(m + 1, GenericSpeaker(line.speaker), "", line.side,
                    [k \in DOMAIN line.actions |->
                        Action(VerbOf(line.actions[k].verb), line.cwd, line.actions[k].failed)])
  <2>1. x = [a EXCEPT !.at = m + 1, !.out = Append(a.out, r)] /\ y = [b EXCEPT !.at = m + 1, !.out = Append(b.out, r)]
    BY <1>1, <1>2 DEF DecodeLine, GenericLine
  <2> HIDE DEF r, x, y
  <2>2. /\ x = [at |-> m + 1, out |-> Append(a.out, r), names |-> a.names, sites |-> a.sites, root |-> a.root]
        /\ y = [at |-> m + 1, out |-> Append(b.out, r), names |-> b.names, sites |-> b.sites, root |-> b.root]
    BY <1>1, <2>1 DEF IsAcc
  <2>3. IsAcc(x) /\ IsAcc(y) /\ x.at = m + 1 /\ y.at = m + 1 /\ x.out = Append(a.out, r) /\ y.out = Append(b.out, r)
    BY <2>2 DEF IsAcc
  <2>4. x.out = a.out \o <<r>> /\ y.out = (pre \o a.out) \o <<r>> /\ IsSeq(<<r>>)
    BY <1>1, <2>3, AppendJoins, JoinApart
  <2>5. IsSeq(x.out) /\ y.out = pre \o x.out
    <3>1. IsSeq(a.out) /\ IsSeq(pre)
      BY <1>1
    <3> DEFINE q == a.out
               z == <<r>>
               u == x.out
               v == y.out
    <3>2. IsSeq(pre) /\ IsSeq(q) /\ IsSeq(z) /\ u = q \o z /\ v = (pre \o q) \o z
      BY <2>4, <3>1
    <3> HIDE DEF q, z, u, v
    <3>4. IsSeq(pre) /\ IsSeq(q) /\ IsSeq(z)
      BY <3>2
    <3>5. IsSeq(q \o z)
      BY <3>4, JoinApart
    <3>6. (pre \o q) \o z = pre \o (q \o z)
      BY <3>4, JoinApart
    <3>3. IsSeq(u) /\ v = pre \o u
      BY <3>2, <3>5, <3>6, Zenon
    <3> QED BY <3>3 DEF u, v
  <2> QED BY <1>2, <2>3, <2>5 DEF Alike, x, y
<1>3. CASE h = "codex"
  <2>1. x = CodexLine(a, line) /\ y = CodexLine(b, line)
    BY <1>3 DEF DecodeLine
  <2>2. RootsAgree(src, m, a.root, b.root)
    BY <1>1, <1>3
  <2>3. CASE line.type = "session_meta"
    <3>1. /\ x = [a EXCEPT !.at = m + 1, !.root = IF a.root = NoRoot THEN line.cwd ELSE a.root]
          /\ y = [b EXCEPT !.at = m + 1, !.root = IF b.root = NoRoot THEN line.cwd ELSE b.root]
      BY <1>1, <2>1, <2>3 DEF CodexLine
    <3> HIDE DEF x, y
    <3>2. /\ x = [at |-> m + 1, out |-> a.out, names |-> a.names, sites |-> a.sites,
                  root |-> IF a.root = NoRoot THEN line.cwd ELSE a.root]
          /\ y = [at |-> m + 1, out |-> b.out, names |-> b.names, sites |-> b.sites,
                  root |-> IF b.root = NoRoot THEN line.cwd ELSE b.root]
      BY <1>1, <3>1 DEF IsAcc
    <3>3. /\ IsAcc(x) /\ IsAcc(y) /\ x.at = m + 1 /\ y.at = m + 1 /\ x.out = a.out /\ y.out = b.out
          /\ x.root = (IF a.root = NoRoot THEN line.cwd ELSE a.root)
          /\ y.root = (IF b.root = NoRoot THEN line.cwd ELSE b.root)
      BY <3>2 DEF IsAcc
    <3>4. x.root = y.root
      <4>1. CASE a.root = b.root
        BY <3>3, <4>1
      <4>2. CASE m = 0 /\ b.root = NoRoot /\ a.root = src[1].cwd
        <5>1. line = src[1]
          BY <4>2
        <5> QED BY <3>3, <4>2, <5>1
      <4> QED BY <2>2, <4>1, <4>2 DEF RootsAgree
    <3> QED BY <1>1, <3>3, <3>4 DEF Alike, RootsAgree, x, y
  <2>4. CASE line.type # "session_meta"
    <3>1. a.root = b.root
      <4>1. m = 0 => line = src[1]
        OBVIOUS
      <4> QED BY <2>2, <2>4, <4>1 DEF RootsAgree
    <3> DEFINE new == IF line.type = "event_msg" THEN CodexRecord(line, m + 1, a.root) ELSE <<>>
    <3>2. IsSeq(new)
      BY RecordsAreOneOrNone, NothingIsSeq
    <3>3. x = [a EXCEPT !.at = m + 1, !.out = a.out \o new] /\ y = [b EXCEPT !.at = m + 1, !.out = b.out \o new]
      <4>1. CASE line.type = "event_msg"
        BY <1>1, <2>1, <3>1, <4>1 DEF CodexLine
      <4>2. CASE line.type # "event_msg"
        <5>1. x = [a EXCEPT !.at = m + 1] /\ y = [b EXCEPT !.at = m + 1] /\ new = <<>>
          BY <1>1, <2>1, <2>4, <4>2 DEF CodexLine
        <5>2. a.out \o new = a.out /\ b.out \o new = b.out
          <6>1. IsSeq(b.out)
            BY <1>1, JoinApart, NothingIsSeq
          <6> QED BY <1>1, <5>1, <6>1, NothingIsSeq
        <5> HIDE DEF new, x, y
        <5> QED BY <1>1, <5>1, <5>2 DEF IsAcc
      <4> QED BY <4>1, <4>2
    <3> HIDE DEF new, x, y
    <3>4. /\ x = [at |-> m + 1, out |-> a.out \o new, names |-> a.names, sites |-> a.sites, root |-> a.root]
          /\ y = [at |-> m + 1, out |-> b.out \o new, names |-> b.names, sites |-> b.sites, root |-> b.root]
      BY <1>1, <3>3 DEF IsAcc
    <3>5. /\ IsAcc(x) /\ IsAcc(y) /\ x.at = m + 1 /\ y.at = m + 1 /\ x.out = a.out \o new
          /\ y.out = (pre \o a.out) \o new /\ x.root = y.root
      BY <1>1, <3>1, <3>4 DEF IsAcc
    <3>6. IsSeq(x.out) /\ y.out = pre \o x.out
      <4>1. IsSeq(a.out) /\ IsSeq(pre) /\ x.out = a.out \o new /\ y.out = (pre \o a.out) \o new
        BY <1>1, <3>5
      <4> DEFINE q == a.out
                 u == x.out
                 v == y.out
      <4>2. IsSeq(pre) /\ IsSeq(q) /\ IsSeq(new) /\ u = q \o new /\ v = (pre \o q) \o new
        BY <3>2, <4>1
      <4> HIDE DEF q, u, v
      <4>3. IsSeq(pre) /\ IsSeq(q) /\ IsSeq(new)
        BY <4>2
      <4>4. IsSeq(q \o new)
        BY <4>3, JoinApart
      <4>5. (pre \o q) \o new = pre \o (q \o new)
        BY <4>3, JoinApart
      <4>6. IsSeq(u) /\ v = pre \o u
        BY <4>2, <4>4, <4>5, Zenon
      <4> QED BY <4>6 DEF u, v
    <3> QED BY <3>5, <3>6 DEF Alike, RootsAgree, x, y
  <2> QED BY <2>3, <2>4
<1> QED BY <1>2, <1>3

(* However far they read. *)
LEMMA ReadingKeepsAlike ==
  ASSUME NEW h, h \in {"codex", "generic"}, NEW S, NEW src \in Seq(S), NEW pre, IsSeq(pre),
         NEW p \in Nat, NEW q \in Nat, q <= p, p <= Len(src), NEW a, NEW b,
         Alike(h, src, pre, p, a, Read(h, src, q, p, b)), NEW n \in p..Len(src)
  PROVE  Alike(h, src, pre, n, Read(h, src, p, n, a), Read(h, src, q, n, b))
<1> DEFINE M == {d \in Nat : p + d <= Len(src) =>
                   Alike(h, src, pre, p + d, Read(h, src, p, p + d, a), Read(h, src, q, p + d, b))}
<1>1. Len(src) \in Nat
  OBVIOUS
<1>2. 0 \in M
  <2>1. Read(h, src, p, p, a) = a
    BY <1>1, ReadNothing
  <2>2. p + 0 = p
    OBVIOUS
  <2> QED BY <2>1, <2>2
<1>3. ASSUME NEW d \in Nat, d \in M PROVE d + 1 \in M
  <2> SUFFICES ASSUME p + (d + 1) <= Len(src)
               PROVE  Alike(h, src, pre, p + (d + 1), Read(h, src, p, p + (d + 1), a), Read(h, src, q, p + (d + 1), b))
    OBVIOUS
  <2> DEFINE m == p + d
  <2>1. m \in Nat /\ p + (d + 1) = m + 1 /\ m + 1 <= Len(src) /\ m <= Len(src) /\ p <= m /\ q <= m
    BY <1>1
  <2>2. Alike(h, src, pre, m, Read(h, src, p, m, a), Read(h, src, q, m, b))
    BY <1>3, <2>1
  <2> HIDE DEF m
  <2>3. Alike(h, src, pre, m + 1, DecodeLine(h, Read(h, src, p, m, a), src[m + 1]),
                                  DecodeLine(h, Read(h, src, q, m, b), src[m + 1]))
    BY <2>1, <2>2, LinesKeepAlike
  <2>4. /\ Read(h, src, p, m + 1, a) = DecodeLine(h, Read(h, src, p, m, a), src[m + 1])
        /\ Read(h, src, q, m + 1, b) = DecodeLine(h, Read(h, src, q, m, b), src[m + 1])
    BY <2>1, ReadOneMore
  <2> QED BY <2>1, <2>3, <2>4
<1>4. n - p \in Nat /\ p + (n - p) = n /\ n <= Len(src)
  BY <1>1
<1> HIDE DEF M
<1>5. n - p \in M
  BY <1>2, <1>3, <1>4, NumbersAreReached
<1> QED BY <1>4, <1>5 DEF M

(* Every line counts, whatever is on it. *)
LEMMA LineCounts ==
  ASSUME NEW h, NEW a, IsAcc(a), NEW line, NEW x, x = DecodeLine(h, a, line)
  PROVE  IsAcc(x) /\ x.at = a.at + 1
<1>1. CASE h = "codex"
  <2>1. x = CodexLine(a, line)
    BY <1>1 DEF DecodeLine
  <2>2. \E out, root : x = [a EXCEPT !.at = a.at + 1, !.out = out, !.root = root]
    <3>1. CASE line.type = "session_meta"
      <4>1. x = [a EXCEPT !.at = a.at + 1, !.root = IF a.root = NoRoot THEN line.cwd ELSE a.root]
        BY <2>1, <3>1 DEF CodexLine
      <4>2. x = [a EXCEPT !.at = a.at + 1, !.out = a.out, !.root = IF a.root = NoRoot THEN line.cwd ELSE a.root]
        BY <4>1 DEF IsAcc
      <4> QED BY <4>2
    <3>2. CASE line.type = "event_msg"
      <4>1. x = [a EXCEPT !.at = a.at + 1, !.out = a.out \o CodexRecord(line, a.at + 1, a.root)]
        BY <2>1, <3>2 DEF CodexLine
      <4> DEFINE new == a.out \o CodexRecord(line, a.at + 1, a.root)
      <4> HIDE DEF new
      <4>2. x = [a EXCEPT !.at = a.at + 1, !.out = new]
        BY <4>1 DEF new
      <4>3. x = [a EXCEPT !.at = a.at + 1, !.out = new, !.root = a.root]
        BY <4>2 DEF IsAcc
      <4> QED BY <4>3
    <3>3. CASE line.type \notin {"session_meta", "event_msg"}
      <4>1. x = [a EXCEPT !.at = a.at + 1]
        BY <2>1, <3>3 DEF CodexLine
      <4>2. x = [a EXCEPT !.at = a.at + 1, !.out = a.out, !.root = a.root]
        BY <4>1 DEF IsAcc
      <4> QED BY <4>2
    <3> QED BY <3>1, <3>2, <3>3
  <2> QED BY <2>2 DEF IsAcc
<1>2. CASE h = "generic"
  <2>1. x = GenericLine(a, line)
    BY <1>2 DEF DecodeLine
  <2>2. PICK out : x = [a EXCEPT !.at = a.at + 1, !.out = out]
    BY <2>1, Zenon DEF GenericLine
  <2> QED BY <2>2 DEF IsAcc
<1>3. CASE h \notin {"codex", "generic"}
  <2>1. x = CallLine(h, a, line)
    BY <1>3 DEF DecodeLine
  <2>2. PICK out, names, sites, root :
          x = [at |-> a.at + 1, out |-> out, names |-> names, sites |-> sites, root |-> root]
    BY <2>1, Zenon DEF CallLine
  <2> QED BY <2>2 DEF IsAcc
<1> QED BY <1>1, <1>2, <1>3

LEMMA ReadingCounts ==
  ASSUME NEW h, NEW S, NEW src \in Seq(S), NEW p \in Nat, p <= Len(src), NEW a, IsAcc(a), a.at = p,
         NEW n \in p..Len(src), NEW x, x = Read(h, src, p, n, a)
  PROVE  IsAcc(x) /\ x.at = n
<1> DEFINE Good(y, m) == IsAcc(y) /\ y.at = m
           M == {d \in Nat : p + d <= Len(src) => Good(Read(h, src, p, p + d, a), p + d)}
<1>1. Len(src) \in Nat
  OBVIOUS
<1>2. 0 \in M
  <2>1. Read(h, src, p, p, a) = a /\ p + 0 = p
    BY <1>1, ReadNothing
  <2> QED BY <2>1
<1>3. ASSUME NEW d \in Nat, d \in M PROVE d + 1 \in M
  <2> SUFFICES ASSUME p + (d + 1) <= Len(src)
               PROVE  Good(Read(h, src, p, p + (d + 1), a), p + (d + 1))
    OBVIOUS
  <2> DEFINE m == p + d
             y == Read(h, src, p, m, a)
  <2>1. m \in Nat /\ p + (d + 1) = m + 1 /\ m + 1 <= Len(src) /\ m <= Len(src) /\ p <= m
    BY <1>1
  <2>2. IsAcc(y) /\ y.at = m
    BY <1>3, <2>1
  <2> HIDE DEF m
  <2>3. Read(h, src, p, m + 1, a) = DecodeLine(h, y, src[m + 1])
    BY <2>1, ReadOneMore
  <2> HIDE DEF y
  <2>4. Good(Read(h, src, p, m + 1, a), m + 1)
    BY <2>2, <2>3, LineCounts
  <2> QED BY <2>1, <2>4
<1>4. n - p \in Nat /\ p + (n - p) = n /\ n <= Len(src)
  BY <1>1
<1> HIDE DEF M
<1>5. n - p \in M
  BY <1>2, <1>3, <1>4, NumbersAreReached
<1> QED BY <1>4, <1>5 DEF M

(* What was read does not change when the transcript grows. *)
LEMMA ReadStays ==
  ASSUME NEW S, NEW src \in Seq(S), NEW line \in S, NEW h, NEW acc, NEW p \in Nat, NEW n \in Nat,
         p <= n, n <= Len(src)
  PROVE  Read(h, Append(src, line), p, n, acc) = Read(h, src, p, n, acc)
<1> DEFINE more == Append(src, line)
           a == SubSeq(src, p + 1, n)
           b == SubSeq(more, p + 1, n)
<1>1. /\ more \in Seq(S) /\ Len(more) = Len(src) + 1 /\ Len(src) \in Nat
      /\ \A i \in 1..Len(src) : more[i] = src[i]
  OBVIOUS
<1> HIDE DEF more
<1>2. p + 1 \in Nat \ {0} /\ p + 1 <= n + 1 /\ n <= Len(more)
  BY <1>1
<1>3. /\ a \in Seq(S) /\ Len(a) = n - (p + 1) + 1
      /\ \A k \in 1..n - (p + 1) + 1 : a[k] = src[(p + 1) + k - 1]
  BY <1>2, PartOfASequence
<1>4. /\ b \in Seq(S) /\ Len(b) = n - (p + 1) + 1
      /\ \A k \in 1..n - (p + 1) + 1 : b[k] = more[(p + 1) + k - 1]
  BY <1>1, <1>2, PartOfASequence
<1>5. \A k \in 1..n - (p + 1) + 1 : (p + 1) + k - 1 \in 1..Len(src)
  BY <1>1
<1> HIDE DEF a, b
<1>6. \A k \in 1..Len(a) : a[k] = b[k]
  BY <1>1, <1>3, <1>4, <1>5
<1>7. a = b
  BY <1>3, <1>4, <1>6, SeqEqual
<1> QED BY <1>7 DEF Read, a, b, more

-----------------------------------------------------------------------------
(* The replay of the first n lines, as Harness.Open would make it.         *)
ReplayOf(n) == Read(harness, source, 0, n, Fresh(0))

DecodingTypes ==
  /\ harness \in FileHarnesses
  /\ source \in Seq(SourceLines[harness])
  /\ start \in Nat /\ handed \in Nat /\ carry.at \in Nat
  /\ start <= carry.at /\ carry.at <= handed /\ handed <= Len(source)
  /\ ended \in BOOLEAN
  /\ ~ended => carry.at = handed
  /\ IsAcc(carry)

(* A decoder that carries its state is where the replay is.                *)
LiveIsReplay ==
  harness \in {"codex", "generic"} =>
    /\ IsSeq(live) /\ IsSeq(ReplayOf(start).out)
    /\ ReplayOf(carry.at).out = ReplayOf(start).out \o live
    /\ carry.out = <<>>
    /\ Alike(harness, source, ReplayOf(carry.at).out, carry.at, carry, ReplayOf(carry.at))

RolloutInv == DecodingTypes /\ LiveIsReplay

LEMMA FreshIs ==
  \A n : /\ IsAcc(Fresh(n)) /\ Fresh(n).at = n /\ Fresh(n).out = <<>> /\ Fresh(n).root = NoRoot
         /\ Fresh(n).names = <<>> /\ Fresh(n).sites = <<>>
BY DEF Fresh, IsAcc

LEMMA HeadOfOne ==
  /\ HeadRoot(<<>>) = NoRoot
  /\ \A l : HeadRoot(<<l>>) = IF l.type = "session_meta" THEN l.cwd ELSE NoRoot
<1>1. HeadRoot(<<>>) = NoRoot
  <2>1. {i \in 1..0 : <<>>[i].type = "session_meta"} = {}
    OBVIOUS
  <2> QED BY <2>1 DEF HeadRoot, SelectInSeq
<1>2. ASSUME NEW l PROVE HeadRoot(<<l>>) = IF l.type = "session_meta" THEN l.cwd ELSE NoRoot
  <2> DEFINE I == {i \in 1..Len(<<l>>) : <<l>>[i].type = "session_meta"}
  <2>1. I = IF l.type = "session_meta" THEN {1} ELSE {}
    OBVIOUS
  <2>2. SelectInSeq(<<l>>, LAMBDA x : x.type = "session_meta") = IF l.type = "session_meta" THEN 1 ELSE 0
    <3>1. CASE l.type = "session_meta"
      <4>1. I = {1}
        BY <2>1, <3>1
      <4> HIDE DEF I
      <4>2. (CHOOSE x \in {1} : \A y \in {1} : x <= y) = 1
        OBVIOUS
      <4> QED BY <3>1, <4>1, <4>2 DEF SelectInSeq, I, Min
    <3>2. CASE l.type # "session_meta"
      BY <2>1, <3>2 DEF SelectInSeq
    <3> QED BY <3>1, <3>2
  <2> QED BY <2>2 DEF HeadRoot
<1> QED BY <1>1, <1>2

LEMMA RolloutInitially == DecodingInit => RolloutInv
<1> SUFFICES ASSUME DecodingInit PROVE RolloutInv
  OBVIOUS
<1> DEFINE S == SourceLines[harness]
<1>1. /\ harness \in FileHarnesses /\ handed = start /\ live = <<>> /\ ended = FALSE
      /\ carry = OpenDecoder(harness, source, start)
      /\ start \in {0, Len(source)}
      /\ source = <<>> \/ \E l \in S : source = <<l>>
  BY DEF DecodingInit
<1>2. source \in Seq(S) /\ Len(source) \in Nat
  <2> HIDE DEF S
  <2>1. \A l \in S : <<l>> \in Seq(S)
    OBVIOUS
  <2>2. <<>> \in Seq(S) /\ \A x \in Seq(S) : Len(x) \in Nat
    OBVIOUS
  <2>3. source \in Seq(S)
    BY <1>1, <2>1, <2>2, Zenon
  <2> QED BY <2>2, <2>3
<1>3. carry = [Fresh(start) EXCEPT !.root = carry.root] /\ (harness = "codex" => carry.root = HeadRoot(source))
  BY <1>1, FreshIs DEF OpenDecoder, Fresh
<1>4. IsAcc(carry) /\ carry.at = start /\ carry.out = <<>>
  BY <1>3 DEF IsAcc, Fresh
<1>5. DecodingTypes
  <2> HIDE DEF S
  <2>1. start \in Nat /\ start <= Len(source) /\ start <= start
    BY <1>1, <1>2
  <2>2. source \in Seq(SourceLines[harness])
    BY <1>2 DEF S
  <2> QED BY <1>1, <1>4, <2>1, <2>2 DEF DecodingTypes
<1>6. ASSUME harness \in {"codex", "generic"} PROVE LiveIsReplay
  <2> DEFINE b == ReplayOf(start)
  <2>1. start \in Nat /\ 0 \in 0..Len(source) /\ Fresh(0).at = 0
    BY <1>1, <1>2, FreshIs
  <2>2. start = 0 => b = Fresh(0)
    BY <1>2, <2>1, ReadNothing DEF ReplayOf
  <2>3. start # 0 => start = 1 /\ b = DecodeLine(harness, Fresh(0), source[1]) /\ source = <<source[1]>>
    <3> SUFFICES ASSUME start # 0
                 PROVE  start = 1 /\ b = DecodeLine(harness, Fresh(0), source[1]) /\ source = <<source[1]>>
      OBVIOUS
    <3>1. Len(source) = 1 /\ start = 1 /\ source = <<source[1]>>
      <4>1. \A l : Len(<<l>>) = 1 /\ <<l>>[1] = l
        OBVIOUS
      <4>2. Len(<<>>) = 0
        OBVIOUS
      <4> HIDE DEF S
      <4> QED BY <1>1, <4>1, <4>2
    <3>2. 0 <= 0 /\ 0 + 1 = 1 /\ 0 + 1 <= Len(source)
      BY <3>1
    <3> HIDE DEF S
    <3> DEFINE z == 0
    <3>5. z \in Nat /\ z <= z /\ z + 1 <= Len(source)
      BY <3>2
    <3> HIDE DEF z
    <3>6. Read(harness, source, z, z + 1, Fresh(0)) =
            DecodeLine(harness, Read(harness, source, z, z, Fresh(0)), source[z + 1])
      BY <1>2, <3>5, ReadOneMore
    <3>3. Read(harness, source, 0, 1, Fresh(0)) =
            DecodeLine(harness, Read(harness, source, 0, 0, Fresh(0)), source[1])
      BY <3>6 DEF z
    <3>4. Read(harness, source, 0, 0, Fresh(0)) = Fresh(0)
      BY <1>2, <2>1, ReadNothing
    <3> QED BY <3>1, <3>2, <3>3, <3>4 DEF ReplayOf
  <2> HIDE DEF b, S
  <2>4. /\ IsAcc(b) /\ b.at = start /\ IsSeq(b.out)
        /\ b.root = IF start # 0 /\ harness = "codex" THEN HeadRoot(source) ELSE NoRoot
    <3>1. CASE start = 0
      BY <2>2, <3>1, FreshIs, NothingIsSeq
    <3>2. CASE start # 0 /\ harness = "generic"
      <4> DEFINE line == source[1]
                 r == Rec(1, GenericSpeaker(line.speaker), "", line.side,
                        [k \in DOMAIN line.actions |->
                           Action(VerbOf(line.actions[k].verb), line.cwd, line.actions[k].failed)])
      <4>1. b = [Fresh(0) EXCEPT !.at = 1, !.out = Append(<<>>, r)]
        <5> DEFINE f == Fresh(0)
        <5>1. f.at = 0 /\ f.out = <<>> /\ f.at + 1 = 1
          BY FreshIs
        <5>2. b = GenericLine(f, line)
          BY <2>3, <3>2 DEF DecodeLine
        <5> HIDE DEF f, line
        <5> QED BY <5>1, <5>2, Zenon DEF GenericLine, f
      <4> HIDE DEF r
      <4>2. IsSeq(Append(<<>>, r))
        <5>1. Append(<<>>, r) = <<>> \o <<r>> /\ IsSeq(<<r>>)
          BY NothingIsSeq, AppendJoins
        <5> QED BY <5>1, NothingIsSeq
      <4> QED BY <2>3, <3>2, <4>1, <4>2 DEF Fresh, IsAcc
    <3>3. CASE start # 0 /\ harness = "codex"
      <4> DEFINE line == source[1]
                 new == CodexRecord(line, 1, NoRoot)
      <4>1. b = CodexLine(Fresh(0), line) /\ start = 1 /\ source = <<line>>
        BY <2>3, <3>3 DEF DecodeLine
      <4>2. HeadRoot(source) = IF line.type = "session_meta" THEN line.cwd ELSE NoRoot
        <5> HIDE DEF line
        <5> QED BY <4>1, HeadOfOne
      <4>3. IsSeq(new) /\ <<>> \o new = new
        BY RecordsAreOneOrNone, NothingIsSeq
      <4> DEFINE f == Fresh(0)
      <4>8. f.at = 0 /\ f.out = <<>> /\ f.at + 1 = 1 /\ f.root = NoRoot /\ b = CodexLine(f, line)
        BY <4>1, FreshIs
      <4> HIDE DEF f
      <4>4. CASE line.type = "session_meta"
        <5>1. b = [Fresh(0) EXCEPT !.at = 1, !.root = line.cwd]
          BY <4>4, <4>8 DEF CodexLine, f
        <5> QED BY <3>3, <4>1, <4>2, <4>4, <5>1, NothingIsSeq DEF Fresh, IsAcc
      <4>5. CASE line.type = "event_msg"
        <5>1. b = [Fresh(0) EXCEPT !.at = 1, !.out = <<>> \o new]
          <6>1. b = [f EXCEPT !.at = f.at + 1, !.out = f.out \o CodexRecord(line, f.at + 1, f.root)]
            BY <4>5, <4>8 DEF CodexLine
          <6> QED BY <4>8, <6>1, Zenon DEF f
        <5> HIDE DEF new
        <5> QED BY <3>3, <4>1, <4>2, <4>3, <4>5, <5>1 DEF Fresh, IsAcc
      <4>6. CASE line.type \notin {"session_meta", "event_msg"}
        <5>1. b = [Fresh(0) EXCEPT !.at = 1]
          BY <4>6, <4>8 DEF CodexLine, f
        <5> QED BY <3>3, <4>1, <4>2, <4>6, <5>1, NothingIsSeq DEF Fresh, IsAcc
      <4> QED BY <4>4, <4>5, <4>6
    <3> QED BY <1>6, <3>1, <3>2, <3>3
  <2>5. IsSeq(live) /\ b.out = b.out \o live /\ b.out = b.out \o carry.out
    BY <1>1, <1>4, <2>4, NothingIsSeq
  <2>6. harness = "codex" => RootsAgree(source, carry.at, carry.root, b.root)
    <3> SUFFICES ASSUME harness = "codex" PROVE RootsAgree(source, carry.at, carry.root, b.root)
      OBVIOUS
    <3>1. CASE start # 0
      BY <1>3, <2>4, <3>1 DEF RootsAgree
    <3>2. CASE start = 0
      <4>1. carry.root = HeadRoot(source) /\ b.root = NoRoot /\ carry.at = 0
        BY <1>3, <1>4, <2>4, <3>2
      <4>2. CASE source = <<>>
        BY <4>1, <4>2, HeadOfOne DEF RootsAgree
      <4>3. ASSUME NEW l \in S, source = <<l>> PROVE RootsAgree(source, carry.at, carry.root, b.root)
        <5>1. source # <<>> /\ source[1] = l
          BY <4>3
        <5> QED BY <4>1, <4>3, <5>1, HeadOfOne DEF RootsAgree
      <4> QED BY <1>1, <4>2, <4>3
    <3> QED BY <3>1, <3>2
  <2> QED BY <1>4, <2>4, <2>5, <2>6, NothingIsSeq DEF LiveIsReplay, Alike, b
<1>7. LiveIsReplay
  BY <1>6 DEF LiveIsReplay
<1> QED BY <1>5, <1>7 DEF RolloutInv

(* What the transcript is read into does not depend on what is written.    *)
LEMMA WritingKeeps ==
  ASSUME RolloutInv, Write
  PROVE  RolloutInv'
<1> DEFINE S == SourceLines[harness]
<1>1. PICK line \in S : source' = Append(source, line)
  BY DEF Write
<1>2. UNCHANGED <<harness, start, handed, cuts, carry, live, ended>>
  BY DEF Write
<1>3. /\ source \in Seq(S) /\ start \in Nat /\ carry.at \in Nat /\ handed \in Nat
      /\ start <= carry.at /\ carry.at <= handed /\ handed <= Len(source)
  BY DEF RolloutInv, DecodingTypes
<1> HIDE DEF S
<1>4. source' \in Seq(S) /\ Len(source') = Len(source) + 1 /\ Len(source) \in Nat
  BY <1>1, <1>3
<1>5. DecodingTypes'
  <2>1. handed <= Len(source')
    BY <1>3, <1>4
  <2> QED BY <1>2, <1>4, <2>1 DEF RolloutInv, DecodingTypes, S
<1>6. ASSUME NEW n \in Nat, n <= Len(source)
      PROVE  ReplayOf(n)' = ReplayOf(n)
  <2> DEFINE z == 0
  <2>1. z \in Nat /\ z <= n
    OBVIOUS
  <2> HIDE DEF z
  <2>2. Read(harness, Append(source, line), z, n, Fresh(0)) = Read(harness, source, z, n, Fresh(0))
    BY <1>3, <1>6, <2>1, ReadStays
  <2> QED BY <1>1, <1>2, <2>2 DEF ReplayOf, z
<1>7. ReplayOf(start)' = ReplayOf(start) /\ ReplayOf(carry.at)' = ReplayOf(carry.at)
  <2>1. start <= Len(source) /\ carry.at <= Len(source)
    BY <1>3, <1>4
  <2>2. ReplayOf(carry.at)' = Read(harness', source', 0, carry'.at, Fresh(0)')
    BY DEF ReplayOf
  <2>3. ReplayOf(start)' = Read(harness', source', 0, start', Fresh(0)')
    BY DEF ReplayOf
  <2> QED BY <1>2, <1>3, <1>6, <2>1
<1>8. \A x, y : RootsAgree(source, carry.at, x, y) => RootsAgree(source', carry.at, x, y)
  <2>1. source # <<>> => source' # <<>> /\ source'[1] = source[1]
    BY <1>1, <1>3, <1>4
  <2> QED BY <2>1 DEF RootsAgree
<1>9. LiveIsReplay'
  BY <1>2, <1>7, <1>8 DEF RolloutInv, LiveIsReplay, Alike
<1> QED BY <1>5, <1>9 DEF RolloutInv

LEMMA DecodingKeeps ==
  ASSUME RolloutInv, DecodeChunk
  PROVE  RolloutInv'
<1> DEFINE S == SourceLines[harness]
<1>1. PICK n \in handed + 1 .. Len(source) :
         /\ handed' = n
         /\ \/ /\ live' = live \o Decode(harness, SubSeq(source, handed + 1, n), carry).out
               /\ carry' = NextDecoder(harness, Decode(harness, SubSeq(source, handed + 1, n), carry))
               /\ ended' = ended
            \/ /\ ended' = TRUE
               /\ UNCHANGED <<live, carry>>
  BY DEF DecodeChunk
<1>2. ~ended /\ UNCHANGED <<harness, source, start>>
  BY DEF DecodeChunk
<1>3. /\ source \in Seq(S) /\ start \in Nat /\ carry.at = handed /\ handed \in Nat
      /\ start <= handed /\ handed <= Len(source)
  BY <1>2 DEF RolloutInv, DecodingTypes
<1> HIDE DEF S
<1>4. n \in Nat /\ handed <= n /\ n <= Len(source) /\ n \in handed..Len(source) /\ Len(source) \in Nat /\ start <= n
  BY <1>3
<1> DEFINE acc == Read(harness, source, handed, n, carry)
<1>5. CASE ended' = TRUE /\ UNCHANGED <<live, carry>>
  <2>1. DecodingTypes'
    <3>1. carry'.at = handed
      BY <1>3, <1>5
    <3> QED BY <1>1, <1>2, <1>3, <1>4, <1>5, <3>1 DEF RolloutInv, DecodingTypes, S
  <2>2. LiveIsReplay'
    BY <1>2, <1>5 DEF RolloutInv, LiveIsReplay, ReplayOf
  <2> QED BY <2>1, <2>2 DEF RolloutInv
<1>6. CASE live' = live \o acc.out /\ carry' = NextDecoder(harness, acc) /\ ended' = ended
  <2>1. acc.at = n /\ IsAcc(acc)
    <3>1. IsAcc(carry)
      BY DEF RolloutInv, DecodingTypes
    <3> QED BY <1>3, <1>4, <3>1, ReadingCounts
  <2>2. carry'.at = n /\ IsAcc(carry') /\ carry'.out = <<>> /\ (harness = "codex" => carry'.root = acc.root)
    <3> HIDE DEF acc
    <3> QED BY <1>6, <2>1 DEF NextDecoder, Fresh, IsAcc
  <2>3. DecodingTypes'
    <3>1. handed' = n
      BY <1>1
    <3>2. harness \in FileHarnesses /\ ended \in BOOLEAN
      BY DEF RolloutInv, DecodingTypes
    <3> HIDE DEF acc
    <3> QED BY <1>2, <1>3, <1>4, <1>6, <2>2, <3>1, <3>2 DEF DecodingTypes, S
  <2>4. ASSUME harness \in {"codex", "generic"} PROVE LiveIsReplay'
    <3> DEFINE b == ReplayOf(handed)
               c == ReplayOf(n)
               first == ReplayOf(start).out
    <3>1. /\ IsSeq(live) /\ IsSeq(first) /\ b.out = first \o live /\ carry.out = <<>>
          /\ Alike(harness, source, b.out, handed, carry, b)
      BY <1>3, <2>4 DEF RolloutInv, LiveIsReplay
    <3>2. IsSeq(b.out)
      BY <3>1, JoinApart
    <3>3. Alike(harness, source, b.out, n, acc, c)
      <4> DEFINE z == 0
                 pre == b.out
      <4>1. z \in Nat /\ z <= handed /\ IsSeq(pre)
        BY <1>3, <3>2
      <4>2. Alike(harness, source, pre, handed, carry, Read(harness, source, z, handed, Fresh(0)))
        BY <3>1 DEF ReplayOf
      <4> HIDE DEF z, pre
      <4>3. Alike(harness, source, pre, n, Read(harness, source, handed, n, carry), Read(harness, source, z, n, Fresh(0)))
        BY <1>3, <1>4, <2>4, <4>1, <4>2, ReadingKeepsAlike
      <4> QED BY <4>3 DEF z, pre, ReplayOf
    <3> HIDE DEF acc, b, c, first
    <3>4. IsSeq(acc.out) /\ c.out = b.out \o acc.out /\ IsAcc(c) /\ c.at = n
      BY <3>3 DEF Alike
    <3>5. IsSeq(live \o acc.out) /\ (first \o live) \o acc.out = first \o (live \o acc.out)
      <4> DEFINE new == acc.out
      <4>1. IsSeq(first) /\ IsSeq(live) /\ IsSeq(new)
        BY <3>1, <3>4
      <4> HIDE DEF new
      <4>2. IsSeq(live \o new)
        BY <4>1, JoinApart
      <4>3. (first \o live) \o new = first \o (live \o new)
        BY <4>1, JoinApart
      <4> QED BY <4>2, <4>3 DEF new
    <3>6. c.out = first \o live'
      BY <1>6, <3>1, <3>4, <3>5
    <3>7. IsSeq(c.out)
      BY <3>2, <3>4, JoinApart
    <3>8. harness = "codex" => RootsAgree(source, n, carry'.root, c.root)
      BY <2>2, <3>3 DEF Alike
    <3>9. ReplayOf(start)'.out = first /\ ReplayOf(carry.at)' = c
      BY <1>2, <2>2 DEF ReplayOf, c, first
    <3>10. Alike(harness, source, c.out, n, carry', c)
      BY <2>2, <3>4, <3>7, <3>8, NothingIsSeq DEF Alike
    <3> QED BY <1>2, <1>6, <2>2, <3>1, <3>5, <3>6, <3>9, <3>10 DEF LiveIsReplay
  <2> QED BY <1>2, <2>3, <2>4 DEF RolloutInv, LiveIsReplay
<1> QED BY <1>1, <1>5, <1>6 DEF Read

LEMMA RolloutStepKeeps ==
  ASSUME RolloutInv, [DecodingNext]_decodingVars
  PROVE  RolloutInv'
<1>1. CASE Write
  BY <1>1, WritingKeeps
<1>2. CASE DecodeChunk
  BY <1>2, DecodingKeeps
<1>3. CASE UNCHANGED decodingVars
  BY <1>3 DEF decodingVars, RolloutInv, DecodingTypes, LiveIsReplay, ReplayOf
<1> QED BY <1>1, <1>2, <1>3 DEF DecodingNext

(* However a rollout is cut into chunks and wherever its watch begins, the *)
(* records of the watch are those of a replay: one decoder serves all      *)
(* chunks, and the head of the rollout is read also by who starts behind   *)
(* it (codexTail and the neutral adapter under fileTail.Next).             *)
THEOREM RolloutsAreReadAsReplayed == DecodingSpec => []RolloutCutsDoNotShow
<1>1. DecodingInit => RolloutInv
  BY RolloutInitially
<1>2. RolloutInv /\ [DecodingNext]_decodingVars => RolloutInv'
  BY RolloutStepKeeps
<1>3. RolloutInv => RolloutCutsDoNotShow
  BY DEF RolloutInv, LiveIsReplay, RolloutCutsDoNotShow, ReplayOf, Read, Replayed
<1> QED BY <1>1, <1>2, <1>3, PTL DEF DecodingSpec

-----------------------------------------------------------------------------
(* Decoders that begin afresh with every chunk.                            *)

LEMMA LargestOne ==
  ASSUME NEW N \in Nat, NEW I, I \subseteq 1..N, I # {}
  PROVE  \E x \in I : \A y \in I : y <= x
<1> DEFINE T == {N - i : i \in I}
           R == OpToRel(<, Nat)
<1>1. T \subseteq Nat /\ T # {}
  <2>1. \A i \in I : N - i \in Nat
    OBVIOUS
  <2>2. PICK i \in I : TRUE
    OBVIOUS
  <2>3. N - i \in T
    OBVIOUS
  <2> QED BY <2>1, <2>3
<1>2. IsWellFoundedOn(R, Nat)
  BY NatLessThanWellFounded
<1> HIDE DEF T, R
<1>3. PICK t \in T : \A y \in T : ~ (<<y, t>> \in R)
  BY <1>1, <1>2, WFMin
<1>4. PICK x \in I : t = N - x
  BY <1>3 DEF T
<1>5. ASSUME NEW y \in I, x < y PROVE FALSE
  <2>1. N - y \in T
    BY DEF T
  <2>2. N - y \in Nat /\ N - x \in Nat /\ N - y < N - x
    BY <1>5
  <2>3. <<N - y, t>> \in R
    BY <1>4, <2>2 DEF R, OpToRel
  <2> QED BY <1>3, <2>1, <2>3
<1> QED BY <1>4, <1>5

(* The place of a call on its line. *)
LEMMA CallIsThere ==
  ASSUME NEW line, IsSeq(line.calls), NEW id \in CallIds(line)
  PROVE  CallAt(line, id) \in DOMAIN line.calls /\ line.calls[CallAt(line, id)].id = id
<1> DEFINE calls == line.calls
           I == {k \in 1..Len(calls) : calls[k].id = id}
<1>1. Len(calls) \in Nat /\ DOMAIN calls = 1..Len(calls)
  BY DEF IsSeq
<1>2. PICK k \in DOMAIN calls : calls[k].id = id
  BY DEF CallIds
<1>3. I # {} /\ I \subseteq 1..Len(calls)
  BY <1>1, <1>2
<1>4. CallAt(line, id) = CHOOSE x \in I : \A y \in I : x >= y
  BY <1>3 DEF CallAt, SelectLastInSeq, Max
<1> HIDE DEF I
<1>5. PICK x \in I : \A y \in I : y <= x
  BY <1>1, <1>3, LargestOne
<1>6. \E z \in I : \A y \in I : z >= y
  <2>1. \A y \in I : x >= y
    BY <1>1, <1>3, <1>5
  <2> QED BY <2>1
<1>7. CallAt(line, id) \in I
  BY <1>4, <1>6
<1> QED BY <1>1, <1>7 DEF I

(* A record and the actions of it.                                         *)
IsAction(a) == a = Action(a.verb, a.root, a.failed) /\ a.failed \in BOOLEAN
IsRec(r) ==
  /\ r = Rec(r.at, r.class, r.mode, r.side, r.actions)
  /\ r.actions = [k \in DOMAIN r.actions |-> r.actions[k]]
  /\ \A k \in DOMAIN r.actions : IsAction(r.actions[k])

(* The result of a call at place <<i, k>> is among those that failed.      *)
Hit(sites, ids, i, k) == \E id \in ids \cap DOMAIN sites : sites[id] = <<i, k>>

(* The record t is r, and what the hits name has failed. *)
FailedIn(t, r, sites, ids, i) ==
  /\ IsRec(t)
  /\ t.at = r.at /\ t.class = r.class /\ t.mode = r.mode /\ t.side = r.side
  /\ DOMAIN t.actions = DOMAIN r.actions
  /\ \A k \in DOMAIN r.actions :
       /\ t.actions[k].verb = r.actions[k].verb
       /\ t.actions[k].failed = (r.actions[k].failed \/ Hit(sites, ids, i, k))

LEMMA MarkingIs ==
  ASSUME NEW out, IsSeq(out), \A i \in 1..Len(out) : IsRec(out[i]), NEW sites, NEW ids,
         NEW x, x = MarkFailed(out, sites, ids)
  PROVE  IsSeq(x) /\ Len(x) = Len(out) /\ \A i \in 1..Len(out) : FailedIn(x[i], out[i], sites, ids, i)
<1>1. Len(out) \in Nat /\ DOMAIN out = 1..Len(out)
  BY DEF IsSeq
<1> DEFINE Marked(i) == [out[i] EXCEPT !.actions = [j \in DOMAIN @ |->
                       IF Hit(sites, ids, i, j) THEN [@[j] EXCEPT !.failed = TRUE] ELSE @[j]]]
<1>2. x = [i \in 1..Len(out) |-> Marked(i)]
  BY <1>1 DEF MarkFailed, Hit
<1>3. ASSUME NEW i \in 1..Len(out) PROVE FailedIn(Marked(i), out[i], sites, ids, i)
  <2> DEFINE r == out[i]
             Each(j) == IF Hit(sites, ids, i, j) THEN [r.actions[j] EXCEPT !.failed = TRUE] ELSE r.actions[j]
             acts == [j \in DOMAIN r.actions |-> Each(j)]
             t == Marked(i)
  <2>1. IsRec(r)
    OBVIOUS
  <2>2. t = [r EXCEPT !.actions = acts]
    OBVIOUS
  <2> HIDE DEF acts, t, r
  <2>3. t = Rec(r.at, r.class, r.mode, r.side, acts)
    BY <2>1, <2>2 DEF IsRec, Rec
  <2>4. t.at = r.at /\ t.class = r.class /\ t.mode = r.mode /\ t.side = r.side /\ t.actions = acts
    BY <2>3 DEF Rec
  <2>5. DOMAIN acts = DOMAIN r.actions /\ acts = [k \in DOMAIN acts |-> acts[k]]
        /\ \A k \in DOMAIN r.actions : acts[k] = Each(k)
    BY DEF acts
  <2>6. ASSUME NEW k \in DOMAIN r.actions
        PROVE  /\ IsAction(Each(k)) /\ Each(k).verb = r.actions[k].verb
               /\ Each(k).failed = (r.actions[k].failed \/ Hit(sites, ids, i, k))
    <3>1. IsAction(r.actions[k])
      BY <2>1 DEF IsRec
    <3> DEFINE a == r.actions[k]
    <3> HIDE DEF a
    <3>2. a = [verb |-> a.verb, root |-> a.root, failed |-> a.failed] /\ a.failed \in BOOLEAN
      BY <3>1 DEF a, IsAction, Action
    <3>3. CASE Hit(sites, ids, i, k)
      <4>1. Each(k) = [verb |-> a.verb, root |-> a.root, failed |-> TRUE]
        BY <3>2, <3>3 DEF a
      <4> QED BY <3>2, <3>3, <4>1 DEF IsAction, Action, a
    <3>4. CASE ~Hit(sites, ids, i, k)
      <4>1. Each(k) = a
        BY <3>4 DEF a
      <4>2. a.failed = (a.failed \/ Hit(sites, ids, i, k))
        BY <3>2, <3>4
      <4> QED BY <3>1, <4>1, <4>2 DEF a
    <3> QED BY <3>3, <3>4
  <2> HIDE DEF Each
  <2>7. FailedIn(t, r, sites, ids, i)
    BY <2>3, <2>4, <2>5, <2>6 DEF FailedIn, IsRec
  <2> QED BY <2>7 DEF t, r
<1> HIDE DEF Marked
<1>4. Len(x) = Len(out) /\ IsSeq(x) /\ \A i \in 1..Len(out) : x[i] = Marked(i)
  BY <1>1, <1>2 DEF IsSeq
<1> QED BY <1>3, <1>4

-----------------------------------------------------------------------------
(* Who speaks on a line, by the calls its decoder remembers.               *)
Who(h, line, names) == IF h = "claude-code" THEN ClaudeSpeaker(line, names) ELSE QwenSpeaker(line)

RecsOnly(q) == IsSeq(q) /\ \A i \in 1..Len(q) : IsRec(q[i])

(* The decoder a has read one line more and is x.                          *)
OutGrows(h, a, line, x) ==
  /\ IsAcc(x) /\ x.at = a.at + 1 /\ IsSeq(x.out) /\ Len(x.out) = Len(a.out) + 1
  /\ \A i \in 1..Len(a.out) : FailedIn(x.out[i], a.out[i], a.sites, Failures(line), i)
  /\ \E r : /\ x.out[Len(a.out) + 1] = r /\ IsRec(r)
            /\ r.at = a.at + 1 /\ r.class = Who(h, line, x.names)[1]
            /\ r.mode = Who(h, line, x.names)[2] /\ r.side = line.side
            /\ DOMAIN r.actions = DOMAIN line.calls
            /\ \A k \in DOMAIN line.calls :
                 r.actions[k].verb = VerbOf(line.calls[k].tool) /\ r.actions[k].failed = FALSE

NamesGrow(a, line, x) ==
  /\ DOMAIN x.names = CallIds(line) \cup DOMAIN a.names
  /\ \A id \in CallIds(line) : x.names[id] = line.calls[CallAt(line, id)].tool
  /\ \A id \in DOMAIN a.names \ CallIds(line) : x.names[id] = a.names[id]

SitesGrow(a, line, x) ==
  /\ DOMAIN x.sites = CallIds(line) \cup DOMAIN a.sites
  /\ \A id \in CallIds(line) : x.sites[id] = <<Len(a.out) + 1, CallAt(line, id)>>
  /\ \A id \in DOMAIN a.sites \ CallIds(line) : x.sites[id] = a.sites[id]

(* One line of such a harness.                                             *)
LEMMA CallLineIs ==
  ASSUME NEW h, h \notin {"codex", "generic"}, NEW a, NEW line, IsSeq(line.calls), RecsOnly(a.out),
         NEW x, x = DecodeLine(h, a, line)
  PROVE  OutGrows(h, a, line, x) /\ NamesGrow(a, line, x) /\ SitesGrow(a, line, x)
<1>0. IsSeq(a.out) /\ \A i \in 1..Len(a.out) : IsRec(a.out[i])
  BY DEF RecsOnly
<1> DEFINE root == IF a.root = NoRoot THEN line.cwd ELSE a.root
           place == Len(a.out) + 1
           Tool(id) == line.calls[CallAt(line, id)].tool
           Site(id) == <<place, CallAt(line, id)>>
           names == [id \in CallIds(line) \cup DOMAIN a.names |->
                       IF id \in CallIds(line) THEN Tool(id) ELSE a.names[id]]
           sites == [id \in CallIds(line) \cup DOMAIN a.sites |->
                       IF id \in CallIds(line) THEN Site(id) ELSE a.sites[id]]
           marked == MarkFailed(a.out, a.sites, Failures(line))
           who == Who(h, line, names)
           r == Rec(a.at + 1, who[1], who[2], line.side, CallActions(line, root))
<1>1. x = [at |-> a.at + 1, out |-> Append(marked, r), names |-> names, sites |-> sites, root |-> root]
  BY DEF DecodeLine, CallLine, Renewed, Who
<1>2. /\ DOMAIN names = CallIds(line) \cup DOMAIN a.names
      /\ \A id \in CallIds(line) : names[id] = Tool(id)
      /\ \A id \in DOMAIN a.names \ CallIds(line) : names[id] = a.names[id]
  OBVIOUS
<1>3. /\ DOMAIN sites = CallIds(line) \cup DOMAIN a.sites
      /\ \A id \in CallIds(line) : sites[id] = Site(id)
      /\ \A id \in DOMAIN a.sites \ CallIds(line) : sites[id] = a.sites[id]
  OBVIOUS
<1>4. /\ IsSeq(marked) /\ Len(marked) = Len(a.out) /\ Len(a.out) \in Nat
      /\ \A i \in 1..Len(a.out) : FailedIn(marked[i], a.out[i], a.sites, Failures(line), i)
  <2>1. Len(a.out) \in Nat
    BY <1>0 DEF IsSeq
  <2> QED BY <1>0, <2>1, MarkingIs
<1>5. /\ IsRec(r) /\ r.at = a.at + 1 /\ r.class = who[1] /\ r.mode = who[2] /\ r.side = line.side
      /\ DOMAIN r.actions = DOMAIN line.calls
      /\ \A k \in DOMAIN line.calls :
           r.actions[k].verb = VerbOf(line.calls[k].tool) /\ r.actions[k].failed = FALSE
  <2> DEFINE acts == CallActions(line, root)
  <2>1. acts = [k \in DOMAIN line.calls |-> Action(VerbOf(line.calls[k].tool), root, FALSE)]
    BY DEF CallActions
  <2>2. DOMAIN acts = DOMAIN line.calls /\ acts = [k \in DOMAIN acts |-> acts[k]]
    BY <2>1
  <2>3. ASSUME NEW k \in DOMAIN line.calls
        PROVE  IsAction(acts[k]) /\ acts[k].verb = VerbOf(line.calls[k].tool) /\ acts[k].failed = FALSE
    <3>1. acts[k] = Action(VerbOf(line.calls[k].tool), root, FALSE)
      BY <2>1
    <3> HIDE DEF acts
    <3> QED BY <3>1 DEF IsAction, Action
  <2> HIDE DEF acts, who
  <2>4. r.at = a.at + 1 /\ r.class = who[1] /\ r.mode = who[2] /\ r.side = line.side /\ r.actions = acts
    BY DEF Rec, acts
  <2> QED BY <2>2, <2>3, <2>4 DEF IsRec, acts
<1> HIDE DEF names, sites, marked, r, root
<1>6. /\ IsSeq(Append(marked, r)) /\ Len(Append(marked, r)) = Len(a.out) + 1
      /\ Append(marked, r)[Len(a.out) + 1] = r
      /\ \A i \in 1..Len(a.out) : Append(marked, r)[i] = marked[i]
  <2> DEFINE S == {marked[i] : i \in DOMAIN marked} \cup {r}
  <2>1. marked \in Seq(S) /\ r \in S
    BY <1>4 DEF IsSeq
  <2>2. \A s \in Seq(S) : IsSeq(s)
    BY DEF IsSeq
  <2> HIDE DEF S
  <2>3. Append(marked, r) \in Seq(S)
    BY <2>1
  <2>4. Len(Append(marked, r)) = Len(marked) + 1 /\ \A i \in 1..Len(marked) : Append(marked, r)[i] = marked[i]
    BY <2>1
  <2>5. Append(marked, r)[Len(marked) + 1] = r
    BY <2>1
  <2> QED BY <1>4, <2>2, <2>3, <2>4, <2>5
<1> DEFINE longer == Append(marked, r)
<1> HIDE DEF longer
<1>7. x.at = a.at + 1 /\ x.out = longer /\ x.names = names /\ x.sites = sites /\ IsAcc(x)
  BY <1>1 DEF IsAcc, longer
<1>8. IsSeq(longer) /\ Len(longer) = Len(a.out) + 1 /\ longer[Len(a.out) + 1] = r
      /\ \A i \in 1..Len(a.out) : longer[i] = marked[i]
  BY <1>6 DEF longer
<1>9. NamesGrow(a, line, x)
  BY <1>2, <1>7 DEF NamesGrow
<1>10. SitesGrow(a, line, x)
  BY <1>3, <1>7 DEF SitesGrow
<1>11. OutGrows(h, a, line, x)
  BY <1>4, <1>5, <1>7, <1>8 DEF OutGrows
<1> QED BY <1>9, <1>10, <1>11

-----------------------------------------------------------------------------
(* Line b holds the result of a call of line i.                            *)
Linked(src, i, b) == \E r \in src[b].results : \E k \in DOMAIN src[i].calls : src[i].calls[k].id = r.id

(* The call id stands at the place a decoder that began behind line p      *)
(* remembers of it.                                                        *)
Located(src, p, m, id, site) ==
  \E i \in 1..m - p : \E k \in DOMAIN src[p + i].calls :
    src[p + i].calls[k].id = id /\ site = <<i, k>>

(* What a decoder that began behind line p holds behind line m.            *)
Keeps(src, p, m, x) ==
  /\ IsAcc(x) /\ x.at = m /\ IsSeq(x.out) /\ Len(x.out) = m - p
  /\ \A i \in 1..m - p : IsRec(x.out[i]) /\ x.out[i].at = p + i
  /\ \A id \in DOMAIN x.names : \E i \in 1..m - p : id \in CallIds(src[p + i])
  /\ \A id \in DOMAIN x.sites : Located(src, p, m, id, x.sites[id])

(* The record r, read behind line p, says of its line what s says of it.   *)
SpokenAs(src, p, r, s) ==
  /\ r.at = s.at /\ r.side = s.side
  /\ \/ r.class = s.class /\ r.mode = s.mode
     \/ /\ s.mode = "structured_answer" /\ r.class = "tool"
        /\ \E i \in 1..p : Linked(src, i, r.at)
  /\ DOMAIN r.actions = DOMAIN s.actions
  /\ \A k \in DOMAIN s.actions : r.actions[k].verb = s.actions[k].verb

FailedAlike(r, s) == \A k \in DOMAIN s.actions : r.actions[k].failed = s.actions[k].failed

NamesFollow(src, p, a, b) ==
  /\ \A id \in DOMAIN a.names : id \in DOMAIN b.names /\ b.names[id] = a.names[id]
  /\ \A id \in DOMAIN b.names \ DOMAIN a.names : \E i \in 1..p : id \in CallIds(src[i])

SitesFollow(p, a, b) ==
  /\ \A id \in DOMAIN a.sites :
       id \in DOMAIN b.sites /\ b.sites[id] = <<p + a.sites[id][1], a.sites[id][2]>>
  /\ \A id \in DOMAIN b.sites \ DOMAIN a.sites : b.sites[id][1] <= p

(* The decoder b, which read from the first line, knows what a knows that  *)
(* began behind line p, and of earlier lines besides.                      *)
Follows(src, p, m, a, b) ==
  /\ NamesFollow(src, p, a, b) /\ SitesFollow(p, a, b)
  /\ \A i \in 1..m - p : SpokenAs(src, p, a.out[i], b.out[p + i]) /\ FailedAlike(a.out[i], b.out[p + i])

LEMMA KeepsOn ==
  ASSUME NEW h, h \notin {"codex", "generic"}, NEW src, NEW p \in Nat, NEW m \in Nat, p <= m,
         NEW a, Keeps(src, p, m, a), IsSeq(src[m + 1].calls),
         NEW x, x = DecodeLine(h, a, src[m + 1])
  PROVE  Keeps(src, p, m + 1, x)
<1> DEFINE line == src[m + 1]
           n == m - p
<1>1. n \in Nat /\ (m + 1) - p = n + 1 /\ p + (n + 1) = m + 1
  OBVIOUS
<1>2. IsAcc(a) /\ a.at = m /\ IsSeq(a.out) /\ Len(a.out) = n
  BY DEF Keeps
<1>3. \A i \in 1..n : IsRec(a.out[i]) /\ a.out[i].at = p + i
  BY DEF Keeps
<1>4. \A id \in DOMAIN a.sites : Located(src, p, m, id, a.sites[id])
  BY DEF Keeps
<1> HIDE DEF n, line
<1>5. IsSeq(line.calls) /\ x = DecodeLine(h, a, line)
  BY DEF line
<1>12. OutGrows(h, a, line, x) /\ NamesGrow(a, line, x) /\ SitesGrow(a, line, x)
  <2>1. RecsOnly(a.out)
    BY <1>2, <1>3 DEF RecsOnly
  <2> QED BY <1>5, <2>1, CallLineIs
<1>6. /\ IsAcc(x) /\ x.at = a.at + 1 /\ IsSeq(x.out) /\ Len(x.out) = Len(a.out) + 1
      /\ \A i \in 1..Len(a.out) : FailedIn(x.out[i], a.out[i], a.sites, Failures(line), i)
  BY <1>12 DEF OutGrows
<1>7. IsRec(x.out[n + 1]) /\ x.out[n + 1].at = m + 1
  <2>1. PICK r : x.out[Len(a.out) + 1] = r /\ IsRec(r) /\ r.at = a.at + 1
    BY <1>12 DEF OutGrows
  <2> QED BY <1>2, <2>1
<1>8. /\ DOMAIN x.sites = CallIds(line) \cup DOMAIN a.sites
      /\ \A id \in CallIds(line) : x.sites[id] = <<Len(a.out) + 1, CallAt(line, id)>>
      /\ \A id \in DOMAIN a.sites \ CallIds(line) : x.sites[id] = a.sites[id]
  BY <1>12 DEF SitesGrow
<1>9. \A i \in 1..n + 1 : IsRec(x.out[i]) /\ x.out[i].at = p + i
  <2> SUFFICES ASSUME NEW i \in 1..n + 1 PROVE IsRec(x.out[i]) /\ x.out[i].at = p + i
    OBVIOUS
  <2>1. CASE i = n + 1
    BY <1>1, <1>7, <2>1
  <2>2. CASE i # n + 1
    <3>1. i \in 1..n
      BY <1>1, <2>2
    <3> QED BY <1>2, <1>3, <1>6, <3>1 DEF FailedIn
  <2> QED BY <2>1, <2>2
<1>10. ASSUME NEW id \in DOMAIN x.sites PROVE Located(src, p, m + 1, id, x.sites[id])
  <2>1. CASE id \in CallIds(line)
    <3> DEFINE k == CallAt(line, id)
    <3>1. k \in DOMAIN line.calls /\ line.calls[k].id = id
      BY <1>5, <2>1, CallIsThere
    <3> HIDE DEF k
    <3>2. x.sites[id] = <<n + 1, k>>
      BY <1>2, <1>8, <2>1 DEF k
    <3>3. n + 1 \in 1..(m + 1) - p /\ src[p + (n + 1)] = line
      BY <1>1 DEF line
    <3> QED BY <3>1, <3>2, <3>3 DEF Located
  <2>2. CASE id \notin CallIds(line)
    <3>1. id \in DOMAIN a.sites /\ x.sites[id] = a.sites[id]
      BY <1>8, <2>2
    <3>2. 1..m - p \subseteq 1..(m + 1) - p
      OBVIOUS
    <3>3. Located(src, p, m, id, x.sites[id])
      BY <1>4, <3>1
    <3> QED BY <3>2, <3>3 DEF Located
  <2> QED BY <2>1, <2>2
<1>11. Len(x.out) = (m + 1) - p /\ x.at = m + 1
  BY <1>1, <1>2, <1>6
<1>13. ASSUME NEW id \in DOMAIN x.names PROVE \E i \in 1..(m + 1) - p : id \in CallIds(src[p + i])
  <2>1. DOMAIN x.names = CallIds(line) \cup DOMAIN a.names
    BY <1>12 DEF NamesGrow
  <2>2. CASE id \in CallIds(line)
    <3>1. n + 1 \in 1..(m + 1) - p /\ src[p + (n + 1)] = line
      BY <1>1 DEF line
    <3> QED BY <2>2, <3>1
  <2>3. CASE id \in DOMAIN a.names
    <3>1. PICK i \in 1..m - p : id \in CallIds(src[p + i])
      BY <2>3 DEF Keeps
    <3>2. i \in 1..(m + 1) - p
      OBVIOUS
    <3> QED BY <3>1, <3>2
  <2> QED BY <2>1, <2>2, <2>3
<1> QED BY <1>1, <1>6, <1>9, <1>10, <1>11, <1>13 DEF Keeps

(* Whose line it is differs only for an answer whose call was not seen.    *)
AgreesOnWho(src, p, m, u, v) ==
  u = v \/ (v[2] = "structured_answer" /\ u[1] = "tool" /\ \E i \in 1..p : Linked(src, i, m))

LEMMA WhoFollows ==
  ASSUME NEW h, NEW src, NEW p \in Nat, NEW m \in Nat, NEW a, NEW b, NamesFollow(src, p, a, b)
  PROVE  AgreesOnWho(src, p, m, Who(h, src[m], a.names), Who(h, src[m], b.names))
<1> DEFINE line == src[m]
           u == Who(h, line, a.names)
           v == Who(h, line, b.names)
<1> SUFFICES u = v \/ (v[2] = "structured_answer" /\ u[1] = "tool" /\ \E i \in 1..p : Linked(src, i, m))
  BY DEF AgreesOnWho
<1>1. CASE h # "claude-code"
  BY <1>1 DEF Who
<1>2. CASE h = "claude-code" /\ line.type # "user"
  BY <1>2 DEF Who, ClaudeSpeaker
<1>3. CASE h = "claude-code" /\ line.type = "user"
  <2>1. u = ClaudeUser(line, a.names) /\ v = ClaudeUser(line, b.names)
    BY <1>3 DEF Who, ClaudeSpeaker
  <2> HIDE DEF u, v
  <2>2. OperatorAnswers(line, a.names) => OperatorAnswers(line, b.names)
    BY DEF OperatorAnswers, LinkedTo, NamesFollow
  <2>3. OperatorAnswers(line, b.names) /\ ~OperatorAnswers(line, a.names) =>
          line.raw = "answers" /\ \E i \in 1..p : Linked(src, i, m)
    <3> SUFFICES ASSUME OperatorAnswers(line, b.names), ~OperatorAnswers(line, a.names)
                 PROVE  line.raw = "answers" /\ \E i \in 1..p : Linked(src, i, m)
      OBVIOUS
    <3>1. PICK r \in line.results : r.id \in DOMAIN b.names /\ b.names[r.id] = "AskUserQuestion"
      BY DEF OperatorAnswers, LinkedTo
    <3>2. line.raw = "answers" /\ r.id \notin DOMAIN a.names
      BY <3>1 DEF OperatorAnswers, LinkedTo, NamesFollow
    <3>3. PICK i \in 1..p : r.id \in CallIds(src[i])
      BY <3>1, <3>2 DEF NamesFollow
    <3> QED BY <3>1, <3>2, <3>3 DEF Linked, CallIds
  <2>4. CASE OperatorAnswers(line, a.names) <=> OperatorAnswers(line, b.names)
    BY <2>1, <2>4 DEF ClaudeUser
  <2>5. CASE OperatorAnswers(line, b.names) /\ ~OperatorAnswers(line, a.names)
    <3>1. CASE line.meta \/ line.compact
      BY <2>1, <3>1 DEF ClaudeUser
    <3>2. CASE ~(line.meta \/ line.compact)
      <4>1. v = <<"human", "structured_answer">> /\ u = <<"tool", "">>
        <5>1. line.raw # "none"
          BY <2>3, <2>5
        <5>2. v = ClaudeUser(line, b.names) /\ u = ClaudeUser(line, a.names)
          BY <2>1
        <5>3. /\ ~line.meta /\ ~line.compact
              /\ OperatorAnswers(line, b.names) /\ ~OperatorAnswers(line, a.names)
          BY <2>5, <3>2
        <5> HIDE DEF line
        <5>4. v = <<"human", "structured_answer">>
          BY <5>2, <5>3, Zenon DEF ClaudeUser
        <5>5. u = <<"tool", "">>
          BY <5>1, <5>2, <5>3, Zenon DEF ClaudeUser
        <5> QED BY <5>4, <5>5
      <4>2. v[2] = "structured_answer" /\ u[1] = "tool"
        <5> HIDE DEF line
        <5>1. \A y, z : <<y, z>>[1] = y /\ <<y, z>>[2] = z
          OBVIOUS
        <5> QED BY <4>1, <5>1, Zenon
      <4>3. \E i \in 1..p : Linked(src, i, m)
        BY <2>3, <2>5
      <4> QED BY <4>2, <4>3, Zenon
    <3> QED BY <3>1, <3>2
  <2> QED BY <2>2, <2>4, <2>5
<1> QED BY <1>1, <1>2, <1>3

(* What is marked says what it said. *)
LEMMA MarkedSpeaksAlike ==
  ASSUME NEW src, NEW p, NEW r, NEW s, SpokenAs(src, p, r, s), NEW sites, NEW ids, NEW i, NEW t,
         FailedIn(t, s, sites, ids, i)
  PROVE  SpokenAs(src, p, r, t)
BY DEF SpokenAs, FailedIn

LEMMA BothMarkedSpeakAlike ==
  ASSUME NEW src, NEW p, NEW r, NEW s, SpokenAs(src, p, r, s), NEW ids, NEW sites1, NEW i, NEW t,
         FailedIn(t, r, sites1, ids, i), NEW sites2, NEW j, NEW u, FailedIn(u, s, sites2, ids, j)
  PROVE  SpokenAs(src, p, t, u)
BY DEF SpokenAs, FailedIn

(* A failure finds a call that both remember at the same line for both.    *)
LEMMA HitsFollow ==
  ASSUME NEW src, NEW p \in Nat, NEW m \in Nat, p <= m, NEW a, NEW b, Keeps(src, p, m, a), Keeps(src, 0, m, b),
         SitesFollow(p, a, b), NEW ids, NEW i \in 1..m - p, NEW k
  PROVE  Hit(a.sites, ids, i, k) <=> Hit(b.sites, ids, p + i, k)
<1>1. ASSUME Hit(a.sites, ids, i, k) PROVE Hit(b.sites, ids, p + i, k)
  <2>1. PICK id \in ids \cap DOMAIN a.sites : a.sites[id] = <<i, k>>
    BY <1>1 DEF Hit
  <2>2. id \in DOMAIN b.sites /\ b.sites[id] = <<p + a.sites[id][1], a.sites[id][2]>>
    BY DEF SitesFollow
  <2>3. b.sites[id] = <<p + i, k>>
    BY <2>1, <2>2
  <2> QED BY <2>1, <2>2, <2>3 DEF Hit
<1>2. ASSUME Hit(b.sites, ids, p + i, k) PROVE Hit(a.sites, ids, i, k)
  <2>1. PICK id \in ids \cap DOMAIN b.sites : b.sites[id] = <<p + i, k>>
    BY <1>2 DEF Hit
  <2>2. id \in DOMAIN a.sites
    <3>1. b.sites[id][1] = p + i /\ ~(p + i <= p)
      BY <2>1
    <3>2. id \in DOMAIN b.sites \ DOMAIN a.sites => b.sites[id][1] <= p
      BY DEF SitesFollow
    <3> QED BY <2>1, <3>1, <3>2
  <2>3. PICK j \in 1..m - p : \E l \in DOMAIN src[p + j].calls : a.sites[id] = <<j, l>>
    BY <2>2 DEF Keeps, Located
  <2>6. PICK l \in DOMAIN src[p + j].calls : a.sites[id] = <<j, l>>
    BY <2>3
  <2>4. b.sites[id] = <<p + j, l>>
    <3>1. b.sites[id] = <<p + a.sites[id][1], a.sites[id][2]>>
      BY <2>2 DEF SitesFollow
    <3> QED BY <2>6, <3>1
  <2>5. j = i /\ l = k
    <3>1. p + j = p + i /\ l = k
      BY <2>1, <2>4
    <3> QED BY <3>1
  <2> QED BY <2>1, <2>2, <2>6, <2>5 DEF Hit
<1> QED BY <1>1, <1>2

LEMMA FollowsOn ==
  ASSUME NEW h, h \notin {"codex", "generic"}, NEW src, NEW p \in Nat, NEW m \in Nat, p <= m,
         NEW a, NEW b, Keeps(src, p, m, a), Keeps(src, 0, m, b), Follows(src, p, m, a, b),
         IsSeq(src[m + 1].calls),
         NEW x, x = DecodeLine(h, a, src[m + 1]), NEW y, y = DecodeLine(h, b, src[m + 1])
  PROVE  Follows(src, p, m + 1, x, y)
<1> DEFINE line == src[m + 1]
           n == m - p
<1>1. n \in Nat /\ (m + 1) - p = n + 1 /\ p + (n + 1) = m + 1 /\ p + n = m /\ m - 0 = m
  OBVIOUS
<1>2. IsSeq(a.out) /\ Len(a.out) = n /\ a.at = m /\ \A i \in 1..n : IsRec(a.out[i])
  BY DEF Keeps
<1>3. IsSeq(b.out) /\ Len(b.out) = m /\ b.at = m /\ \A i \in 1..m : IsRec(b.out[i])
  BY <1>1 DEF Keeps
<1> HIDE DEF n, line
<1>4. IsSeq(line.calls) /\ x = DecodeLine(h, a, line) /\ y = DecodeLine(h, b, line)
  BY DEF line
<1>5. OutGrows(h, a, line, x) /\ NamesGrow(a, line, x) /\ SitesGrow(a, line, x)
  <2>1. RecsOnly(a.out)
    BY <1>2 DEF RecsOnly
  <2> QED BY <1>4, <2>1, CallLineIs
<1>6. OutGrows(h, b, line, y) /\ NamesGrow(b, line, y) /\ SitesGrow(b, line, y)
  <2>1. RecsOnly(b.out)
    BY <1>3 DEF RecsOnly
  <2> QED BY <1>4, <2>1, CallLineIs
<1>7. NamesFollow(src, p, x, y)
  <2>1. NamesFollow(src, p, a, b)
    BY DEF Follows
  <2> QED BY <1>5, <1>6, <2>1 DEF NamesFollow, NamesGrow
<1>8. SitesFollow(p, x, y)
  <2>1. SitesFollow(p, a, b)
    BY DEF Follows
  <2>2. ASSUME NEW id \in DOMAIN x.sites
        PROVE  id \in DOMAIN y.sites /\ y.sites[id] = <<p + x.sites[id][1], x.sites[id][2]>>
    <3>1. CASE id \in CallIds(line)
      <4>1. x.sites[id] = <<n + 1, CallAt(line, id)>> /\ y.sites[id] = <<m + 1, CallAt(line, id)>>
        BY <1>2, <1>3, <1>5, <1>6, <3>1 DEF SitesGrow
      <4>2. id \in DOMAIN y.sites
        BY <1>6, <3>1 DEF SitesGrow
      <4>3. x.sites[id][1] = n + 1 /\ x.sites[id][2] = CallAt(line, id)
        BY <4>1
      <4> QED BY <1>1, <4>1, <4>2, <4>3
    <3>2. CASE id \notin CallIds(line)
      <4>1. id \in DOMAIN a.sites /\ x.sites[id] = a.sites[id]
        BY <1>5, <3>2 DEF SitesGrow
      <4>2. id \in DOMAIN b.sites /\ b.sites[id] = <<p + a.sites[id][1], a.sites[id][2]>>
        BY <2>1, <4>1 DEF SitesFollow
      <4>3. id \in DOMAIN y.sites /\ y.sites[id] = b.sites[id]
        BY <1>6, <3>2, <4>2 DEF SitesGrow
      <4> QED BY <4>1, <4>2, <4>3
    <3> QED BY <3>1, <3>2
  <2>3. ASSUME NEW id \in DOMAIN y.sites \ DOMAIN x.sites
        PROVE  y.sites[id][1] <= p
    <3>1. id \in DOMAIN b.sites \ DOMAIN a.sites /\ y.sites[id] = b.sites[id]
      BY <1>5, <1>6, <2>3 DEF SitesGrow
    <3> QED BY <2>1, <3>1 DEF SitesFollow
  <2> QED BY <2>2, <2>3 DEF SitesFollow
<1>9. ASSUME NEW i \in 1..n
      PROVE  SpokenAs(src, p, x.out[i], y.out[p + i]) /\ FailedAlike(x.out[i], y.out[p + i])
  <2> DEFINE ids == Failures(line)
             r == a.out[i]
             s == b.out[p + i]
             t == x.out[i]
             u == y.out[p + i]
  <2>1. i \in 1..m - p /\ p + i \in 1..m
    BY <1>1 DEF n
  <2>2. SpokenAs(src, p, r, s) /\ FailedAlike(r, s)
    BY <2>1 DEF Follows
  <2>3. FailedIn(t, r, a.sites, ids, i)
    BY <1>2, <1>5 DEF OutGrows
  <2>4. FailedIn(u, s, b.sites, ids, p + i)
    BY <1>3, <1>6, <2>1 DEF OutGrows
  <2>5. \A k : Hit(a.sites, ids, i, k) <=> Hit(b.sites, ids, p + i, k)
    <3>1. SitesFollow(p, a, b)
      BY DEF Follows
    <3> QED BY <2>1, <3>1, HitsFollow
  <2> HIDE DEF r, s, t, u, ids
  <2>6. SpokenAs(src, p, t, u)
    BY <2>2, <2>3, <2>4, BothMarkedSpeakAlike
  <2>7. FailedAlike(t, u)
    <3> SUFFICES ASSUME NEW k \in DOMAIN u.actions PROVE t.actions[k].failed = u.actions[k].failed
      BY DEF FailedAlike
    <3>1. k \in DOMAIN s.actions /\ k \in DOMAIN r.actions
      BY <2>2, <2>4 DEF FailedIn, SpokenAs
    <3>2. t.actions[k].failed = (r.actions[k].failed \/ Hit(a.sites, ids, i, k))
      BY <2>3, <3>1 DEF FailedIn
    <3>3. u.actions[k].failed = (s.actions[k].failed \/ Hit(b.sites, ids, p + i, k))
      BY <2>4, <3>1 DEF FailedIn
    <3>4. r.actions[k].failed = s.actions[k].failed
      BY <2>2, <3>1 DEF FailedAlike
    <3> QED BY <2>5, <3>2, <3>3, <3>4, Zenon
  <2> QED BY <2>6, <2>7 DEF t, u
<1>10. SpokenAs(src, p, x.out[n + 1], y.out[m + 1]) /\ FailedAlike(x.out[n + 1], y.out[m + 1])
  <2>1. PICK r : /\ x.out[n + 1] = r /\ r.at = m + 1 /\ r.class = Who(h, line, x.names)[1]
                 /\ r.mode = Who(h, line, x.names)[2] /\ r.side = line.side
                 /\ DOMAIN r.actions = DOMAIN line.calls
                 /\ \A k \in DOMAIN line.calls :
                      r.actions[k].verb = VerbOf(line.calls[k].tool) /\ r.actions[k].failed = FALSE
    BY <1>2, <1>5 DEF OutGrows
  <2>2. PICK s : /\ y.out[m + 1] = s /\ s.at = m + 1 /\ s.class = Who(h, line, y.names)[1]
                 /\ s.mode = Who(h, line, y.names)[2] /\ s.side = line.side
                 /\ DOMAIN s.actions = DOMAIN line.calls
                 /\ \A k \in DOMAIN line.calls :
                      s.actions[k].verb = VerbOf(line.calls[k].tool) /\ s.actions[k].failed = FALSE
    BY <1>3, <1>6 DEF OutGrows
  <2> DEFINE u == Who(h, line, x.names)
             v == Who(h, line, y.names)
  <2>3. u = v \/ (v[2] = "structured_answer" /\ u[1] = "tool" /\ \E i \in 1..p : Linked(src, i, m + 1))
    <3> DEFINE l == m + 1
    <3>1. l \in Nat
      OBVIOUS
    <3>2. src[l] = line
      BY DEF line
    <3> HIDE DEF l
    <3>3. AgreesOnWho(src, p, l, Who(h, src[l], x.names), Who(h, src[l], y.names))
      BY <1>7, <3>1, WhoFollows
    <3> QED BY <3>2, <3>3 DEF l, AgreesOnWho
  <2> HIDE DEF u, v
  <2>4. r.class = u[1] /\ r.mode = u[2] /\ s.class = v[1] /\ s.mode = v[2]
    BY <2>1, <2>2 DEF u, v
  <2>5. SpokenAs(src, p, r, s)
    BY <2>1, <2>2, <2>3, <2>4 DEF SpokenAs
  <2>6. FailedAlike(r, s)
    BY <2>1, <2>2, ZenonT(60) DEF FailedAlike
  <2> QED BY <2>1, <2>2, <2>5, <2>6
<1>11. ASSUME NEW i \in 1..(m + 1) - p
       PROVE  SpokenAs(src, p, x.out[i], y.out[p + i]) /\ FailedAlike(x.out[i], y.out[p + i])
  <2>1. i \in 1..n \/ (i = n + 1 /\ p + i = m + 1)
    BY <1>1
  <2> QED BY <1>9, <1>10, <2>1
<1> QED BY <1>7, <1>8, <1>11 DEF Follows

-----------------------------------------------------------------------------
(* What the watch was told, beside the replay.                             *)
Missed(src, C, m, r, s, k) ==
  \/ r.actions[k].failed = s.actions[k].failed
  \/ /\ r.actions[k].failed = FALSE /\ s.actions[k].failed = TRUE
     /\ \E b \in r.at + 1 .. m : Linked(src, r.at, b) /\ \E c \in C : r.at <= c /\ c < b

Told(src, C, m, r, s) ==
  /\ IsRec(r)
  /\ \E c \in C : c < r.at /\ SpokenAs(src, c, r, s)
  /\ \A k \in DOMAIN s.actions : Missed(src, C, m, r, s, k)

AllTold(src, C, m, st, said, out) ==
  \A i \in 1..Len(said) : said[i].at = st + i /\ Told(src, C, m, said[i], out[st + i])

LEMMA ToldOn ==
  ASSUME NEW src, NEW p \in Nat, NEW m \in Nat, p <= m, NEW C, C \subseteq Nat, p \in C,
         NEW b, Keeps(src, 0, m, b), NEW j \in 1..p, NEW r, r.at = j, NEW s, Told(src, C, m, r, s),
         NEW t, FailedIn(t, s, b.sites, Failures(src[m + 1]), j)
  PROVE  Told(src, C, m + 1, r, t)
<1> DEFINE ids == Failures(src[m + 1])
<1>1. IsRec(r)
  BY DEF Told
<1>2. \E c \in C : c < r.at /\ SpokenAs(src, c, r, t)
  <2>1. PICK c \in C : c < r.at /\ SpokenAs(src, c, r, s)
    BY DEF Told
  <2>2. SpokenAs(src, c, r, t)
    BY <2>1, MarkedSpeaksAlike
  <2> QED BY <2>1, <2>2
<1>3. ASSUME NEW k \in DOMAIN t.actions PROVE Missed(src, C, m + 1, r, t, k)
  <2>1. k \in DOMAIN s.actions /\ t.actions[k].failed = (s.actions[k].failed \/ Hit(b.sites, ids, j, k))
    BY DEF FailedIn
  <2>2. k \in DOMAIN r.actions
    BY <2>1 DEF Told, SpokenAs
  <2>3. r.actions[k].failed \in BOOLEAN
    BY <1>1, <2>2 DEF IsRec, IsAction
  <2>4. Missed(src, C, m, r, s, k)
    BY <2>1 DEF Told
  <2> HIDE DEF ids
  <2>5. CASE r.actions[k].failed = FALSE /\ s.actions[k].failed = TRUE
             /\ \E l \in r.at + 1 .. m : Linked(src, r.at, l) /\ \E c \in C : r.at <= c /\ c < l
    <3>1. t.actions[k].failed = TRUE
      BY <2>1, <2>5, Zenon
    <3>2. PICK l \in r.at + 1 .. m : Linked(src, r.at, l) /\ \E c \in C : r.at <= c /\ c < l
      BY <2>5
    <3>3. l \in r.at + 1 .. m + 1
      BY <3>2
    <3> QED BY <2>5, <3>1, <3>2, <3>3 DEF Missed
  <2>6. CASE r.actions[k].failed = s.actions[k].failed
    <3>1. CASE ~Hit(b.sites, ids, j, k)
      <4>1. t.actions[k].failed = r.actions[k].failed
        BY <2>1, <2>3, <2>6, <3>1, Zenon
      <4> QED BY <4>1 DEF Missed
    <3>2. CASE Hit(b.sites, ids, j, k)
      <4>1. t.actions[k].failed = TRUE
        BY <2>1, <3>2, Zenon
      <4>2. PICK id \in ids \cap DOMAIN b.sites : b.sites[id] = <<j, k>>
        BY <3>2 DEF Hit
      <4>3. PICK q \in src[m + 1].results : q.id = id
        BY <4>2 DEF ids, Failures
      <4>4. PICK i \in 1..m - 0 : \E l \in DOMAIN src[0 + i].calls :
              src[0 + i].calls[l].id = id /\ b.sites[id] = <<i, l>>
        BY <4>2 DEF Keeps, Located
      <4>5. PICK l \in DOMAIN src[i].calls : src[i].calls[l].id = id /\ b.sites[id] = <<i, l>>
        <5>1. 0 + i = i
          OBVIOUS
        <5> QED BY <4>4, <5>1
      <4>6. i = j
        BY <4>2, <4>5
      <4>7. Linked(src, j, m + 1)
        BY <4>3, <4>5, <4>6 DEF Linked
      <4>8. m + 1 \in r.at + 1 .. m + 1 /\ r.at <= p /\ p < m + 1
        OBVIOUS
      <4>9. CASE r.actions[k].failed = TRUE
        BY <4>1, <4>9 DEF Missed
      <4>10. CASE r.actions[k].failed = FALSE
        BY <4>1, <4>7, <4>8, <4>10 DEF Missed
      <4> QED BY <2>3, <4>9, <4>10
    <3> QED BY <3>1, <3>2
  <2> QED BY <2>4, <2>5, <2>6 DEF Missed
<1> QED BY <1>1, <1>2, <1>3 DEF Told

(* The decoder of a chunk that began behind line p, beside the replay.     *)
Paired(src, p, m, C, st, said, a, b) ==
  /\ Keeps(src, p, m, a) /\ Keeps(src, 0, m, b) /\ Follows(src, p, m, a, b)
  /\ AllTold(src, C, m, st, said, b.out)

LEMMA PairedOn ==
  ASSUME NEW h, h \notin {"codex", "generic"}, NEW src, NEW p \in Nat, NEW m \in Nat, p <= m,
         NEW C, C \subseteq Nat, p \in C, NEW st \in Nat, NEW said, st <= p, Len(said) = p - st,
         NEW a, NEW b, Paired(src, p, m, C, st, said, a, b), IsSeq(src[m + 1].calls)
  PROVE  Paired(src, p, m + 1, C, st, said, DecodeLine(h, a, src[m + 1]), DecodeLine(h, b, src[m + 1]))
<1> DEFINE line == src[m + 1]
           x == DecodeLine(h, a, line)
           y == DecodeLine(h, b, line)
<1>1. Keeps(src, p, m, a) /\ Keeps(src, 0, m, b) /\ Follows(src, p, m, a, b) /\ AllTold(src, C, m, st, said, b.out)
  BY DEF Paired
<1>2. Keeps(src, p, m + 1, x)
  BY <1>1, KeepsOn
<1>3. Keeps(src, 0, m + 1, y)
  <2> DEFINE z == 0
  <2>1. z \in Nat /\ z <= m /\ Keeps(src, z, m, b)
    BY <1>1
  <2> HIDE DEF z
  <2>2. Keeps(src, z, m + 1, y)
    BY <2>1, KeepsOn
  <2> QED BY <2>2 DEF z
<1>4. Follows(src, p, m + 1, x, y)
  BY <1>1, FollowsOn
<1>5. ASSUME NEW i \in 1..Len(said)
      PROVE  said[i].at = st + i /\ Told(src, C, m + 1, said[i], y.out[st + i])
  <2>1. said[i].at = st + i /\ Told(src, C, m, said[i], b.out[st + i])
    BY <1>1 DEF AllTold
  <2>2. st + i \in 1..p /\ st + i \in 1..m /\ m - 0 = m
    OBVIOUS
  <2>3. IsSeq(b.out) /\ Len(b.out) = m /\ \A k \in 1..m : IsRec(b.out[k])
    BY <1>1, <2>2 DEF Keeps
  <2>4. OutGrows(h, b, line, y)
    <3>1. RecsOnly(b.out)
      BY <2>3 DEF RecsOnly
    <3> HIDE DEF y
    <3>2. y = DecodeLine(h, b, line) /\ IsSeq(line.calls)
      BY DEF y
    <3> HIDE DEF line
    <3> QED BY <3>1, <3>2, CallLineIs
  <2>5. FailedIn(y.out[st + i], b.out[st + i], b.sites, Failures(line), st + i)
    BY <2>2, <2>3, <2>4 DEF OutGrows
  <2> DEFINE j == st + i
             r == said[i]
             s == b.out[j]
             t == y.out[j]
  <2>6. j \in 1..p /\ r.at = j /\ Told(src, C, m, r, s) /\ FailedIn(t, s, b.sites, Failures(src[m + 1]), j)
    BY <2>1, <2>2, <2>5
  <2> HIDE DEF j, r, s, t
  <2>7. Told(src, C, m + 1, r, t)
    BY <1>1, <2>6, ToldOn
  <2> QED BY <2>1, <2>7 DEF j, r, s, t
<1> QED BY <1>2, <1>3, <1>4, <1>5 DEF Paired, AllTold

LEMMA ReadingPairs ==
  ASSUME NEW h, h \notin {"codex", "generic"}, NEW S, NEW src \in Seq(S), \A l \in S : IsSeq(l.calls),
         NEW p \in Nat, p <= Len(src), NEW C, C \subseteq Nat, p \in C,
         NEW st \in Nat, NEW said, st <= p, Len(said) = p - st,
         NEW a, NEW b, Paired(src, p, p, C, st, said, a, Read(h, src, 0, p, b)), NEW n \in p..Len(src)
  PROVE  Paired(src, p, n, C, st, said, Read(h, src, p, n, a), Read(h, src, 0, n, b))
<1> DEFINE z == 0
           Good(m) == Paired(src, p, m, C, st, said, Read(h, src, p, m, a), Read(h, src, z, m, b))
           M == {d \in Nat : p + d <= Len(src) => Good(p + d)}
<1>1. Len(src) \in Nat /\ z \in Nat
  OBVIOUS
<1>0. Paired(src, p, p, C, st, said, a, Read(h, src, z, p, b))
  OBVIOUS
<1> HIDE DEF z
<1>2. 0 \in M
  <2>1. Read(h, src, p, p, a) = a
    BY <1>1, ReadNothing
  <2>2. p + 0 = p
    OBVIOUS
  <2> QED BY <1>0, <2>1, <2>2
<1>3. ASSUME NEW d \in Nat, d \in M PROVE d + 1 \in M
  <2> SUFFICES ASSUME p + (d + 1) <= Len(src)
               PROVE  Good(p + (d + 1))
    OBVIOUS
  <2> DEFINE m == p + d
             x == Read(h, src, p, m, a)
             y == Read(h, src, z, m, b)
  <2>1. m \in Nat /\ p + (d + 1) = m + 1 /\ m + 1 <= Len(src) /\ m <= Len(src) /\ p <= m /\ z <= m
    BY <1>1 DEF z
  <2>2. Paired(src, p, m, C, st, said, x, y)
    BY <1>3, <2>1
  <2> HIDE DEF m
  <2>3. src[m + 1] \in S
    BY <2>1
  <2>4. /\ Read(h, src, p, m + 1, a) = DecodeLine(h, x, src[m + 1])
        /\ Read(h, src, z, m + 1, b) = DecodeLine(h, y, src[m + 1])
    BY <1>1, <2>1, ReadOneMore
  <2> HIDE DEF x, y
  <2>5. IsSeq(src[m + 1].calls)
    BY <2>3
  <2>6. Paired(src, p, m + 1, C, st, said, DecodeLine(h, x, src[m + 1]), DecodeLine(h, y, src[m + 1]))
    BY <2>1, <2>2, <2>5, PairedOn
  <2> QED BY <2>1, <2>4, <2>6
<1>4. n - p \in Nat /\ p + (n - p) = n /\ n <= Len(src)
  BY <1>1
<1> HIDE DEF M
<1>5. n - p \in M
  BY <1>2, <1>3, <1>4, NumbersAreReached
<1> HIDE DEF Good
<1>6. Good(n)
  BY <1>4, <1>5 DEF M
<1> QED BY <1>6 DEF Good, z

(* A chunk begins with nothing remembered.                                 *)
LEMMA ChunkBegins ==
  ASSUME NEW src, NEW p \in Nat, NEW C, NEW st, NEW said, NEW b, Keeps(src, 0, p, b),
         AllTold(src, C, p, st, said, b.out)
  PROVE  Paired(src, p, p, C, st, said, Fresh(p), b)
<1> DEFINE a == Fresh(p)
<1>1. /\ IsAcc(a) /\ a.at = p /\ a.out = <<>> /\ a.names = <<>> /\ a.sites = <<>>
  BY FreshIs
<1> HIDE DEF a
<1>2. p - p = 0 /\ 1..0 = {} /\ DOMAIN <<>> = {} /\ Len(<<>>) = 0 /\ p - 0 = p
  OBVIOUS
<1>3. Keeps(src, p, p, a)
  BY <1>1, <1>2, NothingIsSeq DEF Keeps
<1>4. NamesFollow(src, p, a, b)
  <2>1. \A id \in DOMAIN b.names : \E i \in 1..p : id \in CallIds(src[i])
    <3>1. \A i \in 1..p : 0 + i = i
      OBVIOUS
    <3>2. \A id \in DOMAIN b.names : \E i \in 1..p : id \in CallIds(src[0 + i])
      BY <1>2 DEF Keeps
    <3> QED BY <3>1, <3>2
  <2> QED BY <1>1, <1>2, <2>1 DEF NamesFollow
<1>5. SitesFollow(p, a, b)
  <2>1. ASSUME NEW id \in DOMAIN b.sites PROVE b.sites[id][1] <= p
    <3>1. PICK i \in 1..p - 0 : \E k \in DOMAIN src[0 + i].calls : b.sites[id] = <<i, k>>
      BY DEF Keeps, Located
    <3>2. b.sites[id][1] = i
      BY <3>1
    <3> QED BY <1>2, <3>1, <3>2
  <2> QED BY <1>1, <1>2, <2>1 DEF SitesFollow
<1>6. Follows(src, p, p, a, b)
  BY <1>2, <1>4, <1>5 DEF Follows
<1> QED BY <1>3, <1>6 DEF Paired, a

ToldSoFar(src, C, n, st, said, out) ==
  IsSeq(said) /\ Len(said) = n - st /\ AllTold(src, C, n, st, said, out)

(* At its end the watch is told what the chunk holds.                      *)
LEMMA ChunkEnds ==
  ASSUME NEW src, NEW p \in Nat, NEW n \in Nat, p < n, NEW C, C \subseteq Nat, p \in C,
         NEW st \in Nat, NEW said, st <= p, IsSeq(said), Len(said) = p - st,
         NEW a, NEW b, Paired(src, p, n, C, st, said, a, b)
  PROVE  ToldSoFar(src, C \cup {n}, n, st, said \o a.out, b.out)
<1> DEFINE D == C \cup {n}
           new == a.out
           all == said \o new
<1>1. IsSeq(new) /\ Len(new) = n - p /\ Keeps(src, p, n, a) /\ Follows(src, p, n, a, b)
      /\ AllTold(src, C, n, st, said, b.out)
  BY DEF Paired, Keeps
<1>2. \A i \in 1..n - p : IsRec(new[i]) /\ new[i].at = p + i
  BY <1>1 DEF Keeps
<1>3. \A i \in 1..n - p : SpokenAs(src, p, new[i], b.out[p + i]) /\ FailedAlike(new[i], b.out[p + i])
  BY <1>1 DEF Follows
<1> HIDE DEF new
<1>4. /\ IsSeq(all) /\ Len(all) = Len(said) + Len(new)
      /\ \A i \in 1..Len(all) : all[i] = IF i <= Len(said) THEN said[i] ELSE new[i - Len(said)]
  <2> DEFINE S == {said[i] : i \in DOMAIN said} \cup {new[i] : i \in DOMAIN new}
  <2>1. said \in Seq(S) /\ new \in Seq(S)
    BY <1>1 DEF IsSeq
  <2>2. \A q \in Seq(S) : IsSeq(q)
    BY DEF IsSeq
  <2> HIDE DEF S
  <2>3. said \o new \in Seq(S) /\ Len(said \o new) = Len(said) + Len(new)
        /\ \A i \in 1..Len(said) + Len(new) :
             (said \o new)[i] = IF i <= Len(said) THEN said[i] ELSE new[i - Len(said)]
    BY <2>1, ConcatProperties
  <2> QED BY <2>2, <2>3
<1> HIDE DEF all
<1>5. Len(all) = n - st
  BY <1>1, <1>4
<1>6. ASSUME NEW i \in 1..Len(all) PROVE all[i].at = st + i /\ Told(src, D, n, all[i], b.out[st + i])
  <2>1. CASE i <= Len(said)
    <3>1. i \in 1..Len(said) /\ all[i] = said[i]
      BY <1>1, <1>4, <2>1
    <3>2. said[i].at = st + i /\ Told(src, C, n, said[i], b.out[st + i])
      BY <1>1, <3>1 DEF AllTold
    <3>3. Told(src, D, n, said[i], b.out[st + i])
      BY <3>2 DEF Told, Missed
    <3> QED BY <3>1, <3>2, <3>3
  <2>2. CASE ~(i <= Len(said))
    <3> DEFINE j == i - Len(said)
               r == new[j]
               s == b.out[st + i]
    <3>1. j \in 1..n - p /\ p + j = st + i /\ p < st + i
      BY <1>1, <1>5, <2>2
    <3>2. all[i] = r
      BY <1>4, <2>2
    <3>3. IsRec(r) /\ r.at = st + i /\ SpokenAs(src, p, r, s) /\ FailedAlike(r, s)
      BY <1>2, <1>3, <3>1
    <3> HIDE DEF j, r, s
    <3>4. p \in D /\ p < r.at
      BY <3>1, <3>3
    <3>5. Told(src, D, n, r, s)
      BY <3>3, <3>4 DEF Told, Missed, FailedAlike
    <3> QED BY <3>2, <3>3, <3>5 DEF s
  <2> QED BY <2>1, <2>2
<1>7. ToldSoFar(src, D, n, st, all, b.out)
  BY <1>4, <1>5, <1>6 DEF AllTold, ToldSoFar
<1> QED BY <1>7 DEF all, new

(* What was said of lines that are there does not change with more of them.*)
LEMMA ToldStays ==
  ASSUME NEW src, NEW more, NEW m \in Nat, \A i \in 1..m : more[i] = src[i],
         NEW C, C \subseteq Nat, NEW r, NEW s, r.at \in 1..m, Told(src, C, m, r, s)
  PROVE  Told(more, C, m, r, s)
<1>1. \A i, b \in 1..m : Linked(src, i, b) => Linked(more, i, b)
  BY DEF Linked
<1>2. \E c \in C : c < r.at /\ SpokenAs(more, c, r, s)
  <2>1. PICK c \in C : c < r.at /\ SpokenAs(src, c, r, s)
    BY DEF Told
  <2>4. c \in Nat /\ r.at \in Nat /\ r.at <= m /\ c < r.at
    BY ONLY <2>1, C \subseteq Nat, r.at \in 1..m, m \in Nat
  <2>2. \A i \in 1..c : i \in 1..m
    BY ONLY <2>4, m \in Nat
  <2>3. SpokenAs(more, c, r, s)
    BY <1>1, <2>1, <2>2 DEF SpokenAs
  <2> QED BY <2>1, <2>3
<1>3. ASSUME NEW k \in DOMAIN s.actions PROVE Missed(more, C, m, r, s, k)
  <2>1. Missed(src, C, m, r, s, k)
    BY DEF Told
  <2>2. \A b \in r.at + 1 .. m : b \in 1..m
    OBVIOUS
  <2> QED BY <1>1, <2>1, <2>2 DEF Missed
<1> QED BY <1>2, <1>3 DEF Told

LEMMA KeepsStays ==
  ASSUME NEW src, NEW more, NEW m \in Nat, \A i \in 1..m : more[i] = src[i], NEW x, Keeps(src, 0, m, x)
  PROVE  Keeps(more, 0, m, x)
<1>1. \A i \in 1..m - 0 : more[0 + i] = src[0 + i]
  OBVIOUS
<1> QED BY <1>1 DEF Keeps, Located

-----------------------------------------------------------------------------
(* A watch whose decoder begins afresh with every chunk.                   *)
ReadAfresh ==
  harness \notin {"codex", "generic"} =>
    /\ carry = Fresh(carry.at)
    /\ IsSeq(live) /\ Len(live) = carry.at - start
    /\ Keeps(source, 0, carry.at, ReplayOf(carry.at))
    /\ AllTold(source, cuts \cup {start}, carry.at, start, live, ReplayOf(carry.at).out)

ChunksInv ==
  /\ DecodingTypes /\ cuts \subseteq Nat /\ carry.at \in cuts \cup {start}
  /\ ReadAfresh

LEMMA CallsAreSeqs ==
  ASSUME NEW h \in FileHarnesses, h \notin {"codex", "generic"}, NEW line \in SourceLines[h]
  PROVE  IsSeq(line.calls)
BY DecodingConstants DEF IsSeq

LEMMA ReplayBegins ==
  ASSUME NEW src
  PROVE  Keeps(src, 0, 0, Fresh(0))
<1> DEFINE a == Fresh(0)
<1>1. /\ IsAcc(a) /\ a.at = 0 /\ a.out = <<>> /\ a.names = <<>> /\ a.sites = <<>>
  BY FreshIs
<1> HIDE DEF a
<1>2. 0 - 0 = 0 /\ 1..0 = {} /\ DOMAIN <<>> = {} /\ Len(<<>>) = 0
  OBVIOUS
<1>3. Keeps(src, 0, 0, a)
  BY <1>1, <1>2, NothingIsSeq DEF Keeps
<1> QED BY <1>3 DEF a

LEMMA ChunksInitially == DecodingInit => ChunksInv
<1> SUFFICES ASSUME DecodingInit PROVE ChunksInv
  OBVIOUS
<1> DEFINE S == SourceLines[harness]
<1>1. /\ harness \in FileHarnesses /\ live = <<>> /\ cuts = {}
      /\ carry = OpenDecoder(harness, source, start)
      /\ start \in {0, Len(source)}
      /\ source = <<>> \/ \E l \in S : source = <<l>>
  BY DEF DecodingInit
<1>2. DecodingTypes
  BY RolloutInitially DEF RolloutInv
<1>3. source \in Seq(S) /\ start \in Nat /\ start <= Len(source)
  BY <1>2 DEF DecodingTypes
<1>4. carry.at = start
  BY <1>1 DEF OpenDecoder, Fresh
<1>5. ASSUME harness \notin {"codex", "generic"} PROVE ReadAfresh
  <2>1. carry = Fresh(start)
    BY <1>1, <1>5 DEF OpenDecoder
  <2>2. IsSeq(live) /\ Len(live) = start - start
    BY <1>1, <1>3, NothingIsSeq
  <2>3. Keeps(source, 0, start, ReplayOf(start))
    <3> HIDE DEF S
    <3>1. CASE start = 0
      <4>1. 0 \in 0..Len(source)
        BY <1>3
      <4>2. ReplayOf(0) = Fresh(0)
        BY <1>3, <4>1, ReadNothing DEF ReplayOf
      <4> QED BY <3>1, <4>2, ReplayBegins
    <3>2. CASE start # 0
      <4>1. Len(source) = 1 /\ start = 1
        <5>1. \A l : Len(<<l>>) = 1
          OBVIOUS
        <5>2. Len(<<>>) = 0
          OBVIOUS
        <5> QED BY <1>1, <3>2, <5>1, <5>2
      <4> DEFINE z == 0
      <4>2. z \in Nat /\ z <= z /\ z + 1 <= Len(source) /\ z + 1 = 1 /\ z \in 0..Len(source)
        BY <4>1
      <4>3. source[z + 1] \in S
        BY <1>3, <4>2
      <4>4. Keeps(source, z, z, Fresh(z))
        BY ReplayBegins
      <4> HIDE DEF z
      <4>5. IsSeq(source[z + 1].calls)
        BY <1>1, <1>5, <4>3, CallsAreSeqs DEF S
      <4>6. Keeps(source, z, z + 1, DecodeLine(harness, Fresh(z), source[z + 1]))
        BY <1>5, <4>2, <4>4, <4>5, KeepsOn
      <4>7. Read(harness, source, z, z + 1, Fresh(z)) = DecodeLine(harness, Read(harness, source, z, z, Fresh(z)), source[z + 1])
        BY <1>3, <4>2, ReadOneMore
      <4>8. Read(harness, source, z, z, Fresh(z)) = Fresh(z)
        BY <1>3, <4>2, ReadNothing
      <4>9. Keeps(source, z, z + 1, Read(harness, source, z, z + 1, Fresh(z)))
        BY <4>6, <4>7, <4>8
      <4> QED BY <4>1, <4>2, <4>9 DEF ReplayOf, z
    <3> QED BY <3>1, <3>2
  <2>4. AllTold(source, cuts \cup {start}, start, start, live, ReplayOf(start).out)
    <3>1. 1..Len(live) = {}
      BY <1>1
    <3> QED BY <3>1 DEF AllTold
  <2> QED BY <1>4, <2>1, <2>2, <2>3, <2>4 DEF ReadAfresh
<1>6. ReadAfresh
  BY <1>5 DEF ReadAfresh
<1> QED BY <1>1, <1>2, <1>4, <1>6 DEF ChunksInv

LEMMA TypesStay == RolloutInv /\ [DecodingNext]_decodingVars => DecodingTypes'
  BY RolloutStepKeeps DEF RolloutInv

LEMMA ChunksWrite ==
  ASSUME RolloutInv, ChunksInv, Write
  PROVE  ChunksInv'
<1> DEFINE S == SourceLines[harness]
<1>1. PICK line \in S : source' = Append(source, line)
  BY DEF Write
<1>2. UNCHANGED <<harness, start, handed, cuts, carry, live, ended>>
  BY DEF Write
<1>3. source \in Seq(S) /\ carry.at \in Nat /\ start \in Nat /\ carry.at <= Len(source) /\ Len(source) \in Nat
  BY DEF ChunksInv, DecodingTypes
<1>4. DecodingTypes'
  BY TypesStay DEF DecodingNext
<1>5. ReplayOf(carry.at)' = ReplayOf(carry.at)
  <2> HIDE DEF S
  <2> DEFINE z == 0
             n == carry.at
  <2>1. z \in Nat /\ n \in Nat /\ z <= n /\ n <= Len(source)
    BY <1>3
  <2> HIDE DEF z, n
  <2>2. Read(harness, Append(source, line), z, n, Fresh(0)) = Read(harness, source, z, n, Fresh(0))
    BY <1>1, <1>3, <2>1, ReadStays
  <2> QED BY <1>1, <1>2, <2>2 DEF ReplayOf, z, n
<1>6. ASSUME harness \notin {"codex", "generic"} PROVE ReadAfresh'
  <2> DEFINE m == carry.at
             b == ReplayOf(m)
             C == cuts \cup {start}
  <2>1. /\ carry = Fresh(m) /\ IsSeq(live) /\ Len(live) = m - start /\ Keeps(source, 0, m, b)
        /\ AllTold(source, C, m, start, live, b.out)
    BY <1>6 DEF ChunksInv, ReadAfresh
  <2>2. \A i \in 1..m : source'[i] = source[i]
    <3> HIDE DEF S
    <3> QED BY <1>1, <1>3
  <2>3. C \subseteq Nat /\ m \in Nat /\ start <= m
    BY <1>3 DEF ChunksInv, DecodingTypes
  <2> HIDE DEF m, b, C
  <2>4. Keeps(source', 0, m, b)
    BY <2>1, <2>2, <2>3, KeepsStays
  <2>5. AllTold(source', C, m, start, live, b.out)
    <3> SUFFICES ASSUME NEW i \in 1..Len(live)
                 PROVE  live[i].at = start + i /\ Told(source', C, m, live[i], b.out[start + i])
      BY DEF AllTold
    <3>1. live[i].at = start + i /\ Told(source, C, m, live[i], b.out[start + i])
      BY <2>1 DEF AllTold
    <3>2. start + i \in 1..m
      BY <1>3, <2>1, <2>3
    <3>3. live[i].at \in 1..m
      BY <3>1, <3>2
    <3> DEFINE r == live[i]
               s == b.out[start + i]
    <3> HIDE DEF r, s
    <3>4. r.at \in 1..m /\ Told(source, C, m, r, s)
      BY <3>1, <3>3 DEF r, s
    <3>5. Told(source', C, m, r, s)
      BY <2>2, <2>3, <3>4, ToldStays
    <3> QED BY <3>1, <3>5 DEF r, s
  <2> QED BY <1>2, <1>5, <2>1, <2>4, <2>5 DEF ReadAfresh, m, b, C
<1>7. ReadAfresh'
  BY <1>2, <1>6 DEF ReadAfresh
<1> QED BY <1>2, <1>4, <1>7 DEF ChunksInv

LEMMA MoreCutsTell ==
  ASSUME NEW src, NEW C, NEW D, C \subseteq D, NEW m, NEW st, NEW said, NEW out, AllTold(src, C, m, st, said, out)
  PROVE  AllTold(src, D, m, st, said, out)
BY DEF AllTold, Told, Missed

LEMMA ChunksDecode ==
  ASSUME RolloutInv, ChunksInv, DecodeChunk
  PROVE  ChunksInv'
<1> DEFINE S == SourceLines[harness]
           C == cuts \cup {start}
<1>1. PICK n \in handed + 1 .. Len(source) :
         /\ handed' = n /\ cuts' = cuts \cup {n}
         /\ \/ /\ live' = live \o Decode(harness, SubSeq(source, handed + 1, n), carry).out
               /\ carry' = NextDecoder(harness, Decode(harness, SubSeq(source, handed + 1, n), carry))
            \/ UNCHANGED <<live, carry>>
  BY DEF DecodeChunk
<1>2. ~ended /\ UNCHANGED <<harness, source, start>>
  BY DEF DecodeChunk
<1>3. /\ harness \in FileHarnesses /\ source \in Seq(S) /\ start \in Nat /\ carry.at = handed /\ handed \in Nat
      /\ start <= handed /\ handed <= Len(source) /\ IsAcc(carry) /\ C \subseteq Nat /\ handed \in C
  BY <1>2 DEF ChunksInv, DecodingTypes
<1>4. DecodingTypes'
  BY TypesStay DEF DecodingNext
<1> HIDE DEF S, C
<1>5. n \in Nat /\ handed < n /\ handed <= n /\ n <= Len(source) /\ n \in handed..Len(source) /\ Len(source) \in Nat
  BY <1>3
<1>6. (cuts \cup {start})' = C \cup {n} /\ cuts' \subseteq Nat
  BY <1>1, <1>2, <1>3, <1>5 DEF C
<1> DEFINE acc == Read(harness, source, handed, n, carry)
<1>7. CASE UNCHANGED <<live, carry>>
  <2>1. ASSUME harness \notin {"codex", "generic"} PROVE ReadAfresh'
    <3>1. /\ carry = Fresh(carry.at) /\ IsSeq(live) /\ Len(live) = carry.at - start
          /\ Keeps(source, 0, carry.at, ReplayOf(carry.at))
          /\ AllTold(source, C, carry.at, start, live, ReplayOf(carry.at).out)
      BY <2>1 DEF ChunksInv, ReadAfresh, C
    <3>2. C \subseteq C \cup {n}
      OBVIOUS
    <3>3. AllTold(source, C \cup {n}, carry.at, start, live, ReplayOf(carry.at).out)
      BY <3>1, <3>2, MoreCutsTell
    <3>4. ReplayOf(carry.at)' = ReplayOf(carry.at)
      BY <1>2, <1>7 DEF ReplayOf
    <3> QED BY <1>2, <1>6, <1>7, <3>1, <3>3, <3>4 DEF ReadAfresh
  <2>2. ReadAfresh'
    BY <1>2, <2>1 DEF ReadAfresh
  <2>3. carry'.at \in C \cup {n}
    BY <1>3, <1>7
  <2> QED BY <1>4, <1>6, <2>2, <2>3 DEF ChunksInv
<1>8. CASE live' = live \o acc.out /\ carry' = NextDecoder(harness, acc)
  <2>1. acc.at = n /\ IsAcc(acc)
    BY <1>3, <1>5, ReadingCounts
  <2>2. carry'.at = n
    <3> HIDE DEF acc
    <3> QED BY <1>8, <2>1 DEF NextDecoder, Fresh, IsAcc
  <2>3. ASSUME harness \notin {"codex", "generic"} PROVE ReadAfresh'
    <3> DEFINE p == handed
               c == ReplayOf(n)
    <3>1. /\ carry = Fresh(p) /\ IsSeq(live) /\ Len(live) = p - start
          /\ Keeps(source, 0, p, ReplayOf(p))
          /\ AllTold(source, C, p, start, live, ReplayOf(p).out)
      BY <1>3, <2>3 DEF ChunksInv, ReadAfresh, C
    <3>2. Paired(source, p, p, C, start, live, Fresh(p), ReplayOf(p))
      <4> DEFINE b == ReplayOf(p)
      <4>1. p \in Nat /\ Keeps(source, 0, p, b) /\ AllTold(source, C, p, start, live, b.out)
        BY <1>3, <3>1
      <4> HIDE DEF b, p
      <4>2. Paired(source, p, p, C, start, live, Fresh(p), b)
        BY <4>1, ChunkBegins
      <4> QED BY <4>2 DEF b
    <3>3. Paired(source, p, p, C, start, live, carry, Read(harness, source, 0, p, Fresh(0)))
      BY <3>1, <3>2 DEF ReplayOf
    <3>4. p \in Nat /\ p <= Len(source) /\ p \in C /\ start <= p /\ n \in p..Len(source) /\ p < n
      BY <1>3, <1>5
    <3>5. \A l \in S : IsSeq(l.calls)
      BY <1>3, <2>3, CallsAreSeqs DEF S
    <3> HIDE DEF p, acc, c
    <3>6. Paired(source, p, n, C, start, live, Read(harness, source, p, n, carry), Read(harness, source, 0, n, Fresh(0)))
      BY <1>3, <2>3, <3>1, <3>3, <3>4, <3>5, ReadingPairs
    <3>7. Paired(source, p, n, C, start, live, acc, c)
      BY <3>6 DEF acc, c, p, ReplayOf
    <3>8. ToldSoFar(source, C \cup {n}, n, start, live \o acc.out, c.out)
      BY <1>3, <1>5, <3>1, <3>4, <3>7, ChunkEnds
    <3>9. /\ IsSeq(live \o acc.out) /\ Len(live \o acc.out) = n - start
          /\ AllTold(source, C \cup {n}, n, start, live \o acc.out, c.out)
      BY <3>8 DEF ToldSoFar
    <3>10. Keeps(source, 0, n, c)
      BY <3>7 DEF Paired
    <3>11. carry' = Fresh(n)
      BY <1>8, <2>1, <2>3 DEF NextDecoder
    <3>12. ReplayOf(carry.at)' = c
      BY <1>2, <2>2 DEF ReplayOf, c
    <3> QED BY <1>2, <1>6, <1>8, <2>2, <3>9, <3>10, <3>11, <3>12 DEF ReadAfresh
  <2>4. ReadAfresh'
    BY <1>2, <2>3 DEF ReadAfresh
  <2> QED BY <1>4, <1>6, <2>2, <2>4 DEF ChunksInv
<1> QED BY <1>1, <1>7, <1>8 DEF Read

LEMMA ChunksStepKeeps ==
  ASSUME RolloutInv, ChunksInv, [DecodingNext]_decodingVars
  PROVE  ChunksInv'
<1>1. CASE Write
  BY <1>1, ChunksWrite
<1>2. CASE DecodeChunk
  BY <1>2, ChunksDecode
<1>3. CASE UNCHANGED decodingVars
  BY <1>3 DEF decodingVars, ChunksInv, DecodingTypes, ReadAfresh, ReplayOf
<1> QED BY <1>1, <1>2, <1>3 DEF DecodingNext

LEMMA ReplayedIs == Replayed = ReplayOf(carry.at).out
BY DEF Replayed, ReplayOf, Read

(* A decoder of calls says something of every line.                        *)
LEMMA FoundInReplay ==
  ASSUME ChunksInv, harness \notin {"codex", "generic"}, NEW i \in DOMAIN live
  PROVE  /\ i \in Nat \ {0} /\ live[i].at = start + i /\ live[i].at \in 1..carry.at
         /\ Told(source, cuts \cup {start}, carry.at, live[i], InReplay(live[i]))
<1> DEFINE m == carry.at
           out == ReplayOf(m).out
           j == start + i
<1>1. /\ IsSeq(live) /\ Len(live) = m - start /\ Keeps(source, 0, m, ReplayOf(m))
      /\ AllTold(source, cuts \cup {start}, m, start, live, out)
  BY DEF ChunksInv, ReadAfresh
<1>2. m \in Nat /\ start \in Nat /\ start <= m
  BY DEF ChunksInv, DecodingTypes
<1>3. IsSeq(out) /\ Len(out) = m - 0 /\ \A k \in 1..m - 0 : out[k].at = 0 + k
  BY <1>1 DEF Keeps
<1>4. DOMAIN live = 1..Len(live) /\ DOMAIN out = 1..Len(out)
  BY <1>1, <1>3 DEF IsSeq
<1> HIDE DEF m, out
<1>5. i \in 1..Len(live) /\ j \in 1..m
  BY <1>1, <1>2, <1>4
<1>6. live[i].at = j /\ Told(source, cuts \cup {start}, m, live[i], out[j])
  BY <1>1, <1>5 DEF AllTold
<1>7. DOMAIN out = 1..m /\ \A k \in 1..m : out[k].at = k
  BY <1>2, <1>3, <1>4
<1> HIDE DEF j
<1>8. InReplay(live[i]) = out[j]
  <2>1. ToSet(Replayed) = {out[k] : k \in 1..m}
    BY <1>7, ReplayedIs DEF ToSet, out, m
  <2>2. InReplay(live[i]) = CHOOSE s \in {out[k] : k \in 1..m} : s.at = j
    BY <1>6, <2>1 DEF InReplay
  <2>3. out[j] \in {out[k] : k \in 1..m} /\ out[j].at = j
    BY <1>5, <1>7
  <2>4. \A s \in {out[k] : k \in 1..m} : s.at = j => s = out[j]
    BY <1>7
  <2> QED BY <2>2, <2>3, <2>4
<1>9. i \in Nat \ {0}
  BY <1>1, <1>2, <1>5
<1> QED BY <1>5, <1>6, <1>8, <1>9 DEF m, j

-----------------------------------------------------------------------------
(* A decoder that carries its state says one thing of a line, or nothing.  *)
Once(m, x) ==
  /\ IsSeq(x.out)
  /\ \A i \in DOMAIN x.out : x.out[i].at \in 1..m
  /\ \A i, j \in DOMAIN x.out : x.out[i].at = x.out[j].at => i = j

LEMMA LineSaysOnce ==
  ASSUME NEW h, h \in {"codex", "generic"}, NEW a, IsAcc(a), IsSeq(a.out), NEW line
  PROVE  \/ DecodeLine(h, a, line).out = a.out
         \/ \E r : r.at = a.at + 1 /\ DecodeLine(h, a, line).out = Append(a.out, r)
<1> DEFINE x == DecodeLine(h, a, line)
           now == a.at + 1
<1>1. CASE h = "generic"
  <2>1. x = GenericLine(a, line)
    BY <1>1 DEF DecodeLine
  <2>2. PICK class, acts : x = [a EXCEPT !.at = now, !.out = Append(a.out, Rec(now, class, "", line.side, acts))]
    BY <2>1, Zenon DEF GenericLine
  <2> DEFINE r == Rec(now, class, "", line.side, acts)
  <2>3. r.at = now
    BY DEF Rec
  <2> HIDE DEF r
  <2>4. x = [a EXCEPT !.at = now, !.out = Append(a.out, r)]
    BY <2>2 DEF r
  <2>5. x.out = Append(a.out, r)
    <3> HIDE DEF x
    <3> QED BY <2>4 DEF IsAcc
  <2> QED BY <2>3, <2>5
<1>2. CASE h = "codex"
  <2>1. x = CodexLine(a, line)
    BY <1>2 DEF DecodeLine
  <2>2. CASE line.type = "event_msg"
    <3> DEFINE new == CodexRecord(line, now, a.root)
    <3>1. x = [a EXCEPT !.at = now, !.out = a.out \o new]
      BY <2>1, <2>2 DEF CodexLine
    <3>2. new = <<>> \/ \E class, mode, acts : new = <<Rec(now, class, mode, FALSE, acts)>>
      BY Zenon DEF CodexRecord
    <3>3. x.out = a.out \o new
      <4> HIDE DEF new, x
      <4> QED BY <3>1 DEF IsAcc
    <3> HIDE DEF new
    <3>4. CASE new = <<>>
      BY <3>3, <3>4, NothingIsSeq
    <3>5. CASE \E class, mode, acts : new = <<Rec(now, class, mode, FALSE, acts)>>
      <4>1. PICK class, mode, acts : new = <<Rec(now, class, mode, FALSE, acts)>>
        BY <3>5
      <4> DEFINE r == Rec(now, class, mode, FALSE, acts)
      <4>2. r.at = now
        BY DEF Rec
      <4> HIDE DEF r
      <4>3. new = <<r>>
        BY <4>1 DEF r
      <4>4. Append(a.out, r) = a.out \o <<r>>
        BY AppendJoins
      <4> QED BY <3>3, <4>2, <4>3, <4>4
    <3> QED BY <3>2, <3>4, <3>5
  <2>3. CASE line.type # "event_msg"
    <3>1. \E root : x = [a EXCEPT !.at = now, !.root = root]
      <4>1. CASE line.type = "session_meta"
        BY <2>1, <4>1 DEF CodexLine
      <4>2. CASE line.type # "session_meta"
        <5>1. x = [a EXCEPT !.at = now]
          BY <2>1, <2>3, <4>2 DEF CodexLine
        <5>2. x = [a EXCEPT !.at = now, !.root = a.root]
          <6> HIDE DEF x
          <6> QED BY <5>1 DEF IsAcc
        <5> QED BY <5>2
      <4> QED BY <4>1, <4>2
    <3> HIDE DEF x
    <3>2. x.out = a.out
      BY <3>1 DEF IsAcc
    <3> QED BY <3>2 DEF x
  <2> QED BY <2>2, <2>3
<1> QED BY <1>1, <1>2

LEMMA OnceMore ==
  ASSUME NEW h, h \in {"codex", "generic"}, NEW m \in Nat, NEW a, IsAcc(a), a.at = m, Once(m, a), NEW line
  PROVE  Once(m + 1, DecodeLine(h, a, line))
<1> DEFINE x == DecodeLine(h, a, line)
           q == a.out
<1>1. /\ IsSeq(q) /\ \A i \in DOMAIN q : q[i].at \in 1..m
      /\ \A i, j \in DOMAIN q : q[i].at = q[j].at => i = j
  BY DEF Once
<1>2. x.out = q \/ \E r : r.at = m + 1 /\ x.out = Append(q, r)
  BY <1>1, LineSaysOnce
<1> HIDE DEF x, q
<1>3. CASE x.out = q
  BY <1>1, <1>3 DEF Once, x
<1>4. ASSUME NEW r, r.at = m + 1, x.out = Append(q, r) PROVE Once(m + 1, x)
  <2> DEFINE S == {q[i] : i \in DOMAIN q} \cup {r}
             n == Len(q)
             more == x.out
  <2>1. q \in Seq(S) /\ r \in S
    BY <1>1 DEF IsSeq
  <2>2. \A s \in Seq(S) : IsSeq(s)
    BY DEF IsSeq
  <2> HIDE DEF S
  <2>3. /\ Append(q, r) \in Seq(S) /\ Len(Append(q, r)) = n + 1 /\ n \in Nat
        /\ DOMAIN q = 1..n /\ DOMAIN Append(q, r) = 1..n + 1
        /\ \A i \in 1..n : Append(q, r)[i] = q[i]
        /\ Append(q, r)[n + 1] = r
    BY <2>1
  <2>4. /\ IsSeq(more) /\ DOMAIN more = 1..n + 1 /\ more[n + 1] = r /\ \A i \in 1..n : more[i] = q[i]
    BY <1>4, <2>2, <2>3
  <2> HIDE DEF more, n
  <2>5. \A i \in 1..n + 1 : i \in 1..n \/ i = n + 1
    BY <2>3
  <2>6. \A i \in 1..n : more[i].at \in 1..m
    BY <1>1, <2>3, <2>4
  <2>7. \A i \in 1..n + 1 : more[i].at \in 1..m + 1
    BY <1>4, <2>4, <2>5, <2>6
  <2>8. ASSUME NEW i \in 1..n + 1, NEW j \in 1..n + 1, more[i].at = more[j].at PROVE i = j
    <3>1. \A k \in 1..n : more[k].at # m + 1
      BY <2>6
    <3>2. more[n + 1].at = m + 1
      BY <1>4, <2>4
    <3>3. CASE i \in 1..n /\ j \in 1..n
      BY <1>1, <2>3, <2>4, <2>8, <3>3
    <3> QED BY <2>5, <2>8, <3>1, <3>2, <3>3
  <2> QED BY <2>4, <2>7, <2>8 DEF Once, more
<1> QED BY <1>2, <1>3, <1>4 DEF x

LEMMA ReplaySaysOnce ==
  ASSUME NEW h, h \in {"codex", "generic"}, NEW S, NEW src \in Seq(S), NEW n \in 0..Len(src)
  PROVE  Once(n, Read(h, src, 0, n, Fresh(0)))
<1> DEFINE z == 0
           at(m) == Read(h, src, z, m, Fresh(0))
           M == {d \in Nat : d <= Len(src) => Once(d, at(d)) /\ IsAcc(at(d)) /\ at(d).at = d}
<1>1. Len(src) \in Nat /\ z \in Nat /\ z \in 0..Len(src)
  OBVIOUS
<1>2. 0 \in M
  <2>1. Read(h, src, 0, 0, Fresh(0)) = Fresh(0)
    BY <1>1, ReadNothing
  <2>2. at(0) = Fresh(0)
    BY <2>1
  <2>3. DOMAIN <<>> = {}
    OBVIOUS
  <2>4. Once(0, Fresh(0))
    BY <2>3, FreshIs, NothingIsSeq DEF Once
  <2> HIDE DEF at
  <2> QED BY <2>2, <2>4, FreshIs
<1> HIDE DEF z
<1>3. ASSUME NEW d \in Nat, d \in M PROVE d + 1 \in M
  <2> SUFFICES ASSUME d + 1 <= Len(src)
               PROVE  Once(d + 1, at(d + 1)) /\ IsAcc(at(d + 1)) /\ at(d + 1).at = d + 1
    OBVIOUS
  <2> DEFINE x == at(d)
             y == at(d + 1)
  <2>1. d <= Len(src) /\ z <= d
    BY <1>1 DEF z
  <2>2. Once(d, x) /\ IsAcc(x) /\ x.at = d
    BY <1>3, <2>1
  <2>3. y = DecodeLine(h, x, src[d + 1])
    BY <1>1, <2>1, ReadOneMore
  <2> HIDE DEF x, y
  <2>4. Once(d + 1, y)
    BY <2>2, <2>3, OnceMore
  <2>5. IsAcc(y) /\ y.at = d + 1
    BY <2>2, <2>3, LineCounts
  <2> QED BY <2>4, <2>5 DEF y
<1>4. n \in Nat /\ n <= Len(src)
  BY <1>1
<1> HIDE DEF M
<1>5. n \in M
  BY <1>2, <1>3, <1>4, NumbersAreReached
<1>6. Once(n, at(n))
  BY <1>4, <1>5 DEF M
<1> QED BY <1>6 DEF z

LEMMA ReplayIsLive ==
  ASSUME RolloutInv, harness \in {"codex", "generic"}, NEW i \in DOMAIN live
  PROVE  InReplay(live[i]) = live[i]
<1> DEFINE out == ReplayOf(carry.at).out
           first == ReplayOf(start).out
           S == {first[k] : k \in DOMAIN first} \cup {live[k] : k \in DOMAIN live}
<1>1. IsSeq(live) /\ IsSeq(first) /\ out = first \o live
  BY DEF RolloutInv, LiveIsReplay
<1>2. Once(carry.at, ReplayOf(carry.at))
  <2>1. source \in Seq(SourceLines[harness]) /\ carry.at \in 0..Len(source)
    BY DEF RolloutInv, DecodingTypes
  <2> DEFINE T == SourceLines[harness]
             n == carry.at
  <2>2. source \in Seq(T) /\ n \in 0..Len(source)
    BY <2>1
  <2> HIDE DEF T, n
  <2>3. Once(n, Read(harness, source, 0, n, Fresh(0)))
    BY <2>2, ReplaySaysOnce
  <2> QED BY <2>3 DEF n, ReplayOf
<1>3. \A k, l \in DOMAIN out : out[k].at = out[l].at => k = l
  BY <1>2 DEF Once
<1> HIDE DEF out, first
<1>4. live \in Seq(S) /\ first \in Seq(S)
  BY <1>1 DEF IsSeq
<1> HIDE DEF S
<1>5. /\ DOMAIN out = 1..Len(first) + Len(live) /\ DOMAIN live = 1..Len(live) /\ Len(first) \in Nat /\ Len(live) \in Nat
      /\ \A k \in 1..Len(live) : out[Len(first) + k] = live[k]
  BY <1>1, <1>4
<1> DEFINE j == Len(first) + i
<1>6. j \in DOMAIN out /\ out[j] = live[i]
  BY <1>5
<1> HIDE DEF j
<1>7. ToSet(Replayed) = {out[k] : k \in DOMAIN out}
  BY ReplayedIs DEF ToSet, out
<1>8. InReplay(live[i]) = CHOOSE s \in {out[k] : k \in DOMAIN out} : s.at = live[i].at
  BY <1>7 DEF InReplay
<1>9. live[i] \in {out[k] : k \in DOMAIN out}
  BY <1>6
<1>10. \A s \in {out[k] : k \in DOMAIN out} : s.at = live[i].at => s = live[i]
  BY <1>3, <1>6
<1> QED BY <1>8, <1>9, <1>10

-----------------------------------------------------------------------------
LEMMA SpeechIsReplayed ==
  ASSUME RolloutInv, ChunksInv
  PROVE  LiveSpeaksAsReplay
<1> SUFFICES ASSUME NEW i \in DOMAIN live
             PROVE  LET r == live[i] IN LET s == InReplay(r) IN
                      /\ \/ <<r.class, r.mode, r.side>> = <<s.class, s.mode, s.side>>
                         \/ /\ s.mode = "structured_answer" /\ r.class = "tool"
                            /\ \E a \in 1 .. r.at - 1 : r.at \in ResultLines(a) /\ CutBetween(a, r.at)
                      /\ [k \in DOMAIN r.actions |-> r.actions[k].verb]
                           = [k \in DOMAIN s.actions |-> s.actions[k].verb]
  BY DEF LiveSpeaksAsReplay
<1>1. CASE harness \in {"codex", "generic"}
  BY <1>1, ReplayIsLive
<1>2. CASE harness \notin {"codex", "generic"}
  <2> DEFINE r == live[i]
             s == InReplay(r)
             C == cuts \cup {start}
  <2>1. r.at \in 1..carry.at /\ Told(source, C, carry.at, r, s)
    BY <1>2, FoundInReplay
  <2>2. carry.at \in Nat /\ C \subseteq Nat
    BY DEF ChunksInv, DecodingTypes
  <2> HIDE DEF r, s, C
  <2>3. PICK c \in C : c < r.at /\ SpokenAs(source, c, r, s)
    BY <2>1 DEF Told
  <2>4. [k \in DOMAIN r.actions |-> r.actions[k].verb] = [k \in DOMAIN s.actions |-> s.actions[k].verb]
    BY <2>3 DEF SpokenAs
  <2>5. \/ <<r.class, r.mode, r.side>> = <<s.class, s.mode, s.side>>
        \/ /\ s.mode = "structured_answer" /\ r.class = "tool"
           /\ \E a \in 1 .. r.at - 1 : r.at \in ResultLines(a) /\ CutBetween(a, r.at)
    <3>1. CASE r.class = s.class /\ r.mode = s.mode
      BY <2>3, <3>1 DEF SpokenAs
    <3>2. ASSUME NEW a \in 1..c, Linked(source, a, r.at)
          PROVE  a \in 1 .. r.at - 1 /\ r.at \in ResultLines(a) /\ CutBetween(a, r.at)
      <4>1. a \in 1..r.at - 1 /\ r.at \in a + 1 .. carry.at /\ a <= c
        BY <2>1, <2>2, <2>3
      <4>2. r.at \in ResultLines(a)
        BY <3>2, <4>1 DEF ResultLines, Linked
      <4>3. CutBetween(a, r.at)
        BY <2>3, <4>1 DEF CutBetween, C
      <4> QED BY <4>1, <4>2, <4>3
    <3>3. CASE s.mode = "structured_answer" /\ r.class = "tool" /\ \E a \in 1..c : Linked(source, a, r.at)
      BY <3>2, <3>3
    <3> QED BY <2>3, <3>1, <3>3 DEF SpokenAs
  <2> QED BY <2>4, <2>5 DEF r, s
<1> QED BY <1>1, <1>2

LEMMA FailuresAreReplayed ==
  ASSUME RolloutInv, ChunksInv
  PROVE  FailureIsMissingNotMisreported
<1> SUFFICES ASSUME NEW i \in DOMAIN live, NEW k \in DOMAIN live[i].actions,
                    live[i].actions[k].failed # InReplay(live[i]).actions[k].failed
             PROVE  /\ LinksAreChunkScoped(harness)
                    /\ InReplay(live[i]).actions[k].failed
                    /\ \E b \in ResultLines(live[i].at) : CutBetween(live[i].at, b)
  BY DEF FailureIsMissingNotMisreported
<1> DEFINE r == live[i]
           s == InReplay(r)
           C == cuts \cup {start}
<1>1. harness \notin {"codex", "generic"}
  BY ReplayIsLive
<1>2. LinksAreChunkScoped(harness)
  <2>1. harness \in FileHarnesses
    BY DEF ChunksInv, DecodingTypes
  <2> QED BY <1>1, <2>1, DecodingConstants DEF LinksAreChunkScoped
<1>3. r.at \in 1..carry.at /\ Told(source, C, carry.at, r, s)
  BY <1>1, FoundInReplay
<1>4. carry.at \in Nat /\ k \in DOMAIN r.actions /\ r.actions[k].failed # s.actions[k].failed
  BY DEF ChunksInv, DecodingTypes
<1> HIDE DEF r, s, C
<1>5. k \in DOMAIN s.actions
  <2>1. DOMAIN r.actions = DOMAIN s.actions
    BY <1>3 DEF Told, SpokenAs
  <2> QED BY <1>4, <2>1
<1>6. Missed(source, C, carry.at, r, s, k)
  BY <1>3, <1>5 DEF Told
<1>7. /\ s.actions[k].failed = TRUE
      /\ \E b \in r.at + 1 .. carry.at : Linked(source, r.at, b) /\ \E c \in C : r.at <= c /\ c < b
  BY <1>4, <1>6 DEF Missed
<1>8. PICK b \in r.at + 1 .. carry.at : Linked(source, r.at, b) /\ \E c \in C : r.at <= c /\ c < b
  BY <1>7
<1>9. b \in ResultLines(r.at) /\ CutBetween(r.at, b)
  BY <1>8 DEF ResultLines, Linked, CutBetween, C
<1> QED BY <1>2, <1>7, <1>9 DEF r, s

(* A watch says of a line what a replay says of it.  It parts from it only *)
(* on the operator's answer to a question of the agent, which becomes tool *)
(* output where a chunk ended between the two: the adapters without state  *)
(* link an answer to a call of the same chunk (adapter.Decode under        *)
(* fileTail.Next).                                                         *)
THEOREM LiveSpeaks == DecodingSpec => []LiveSpeaksAsReplay
<1>1. DecodingInit => RolloutInv /\ ChunksInv
  BY RolloutInitially, ChunksInitially
<1>2. RolloutInv /\ ChunksInv /\ [DecodingNext]_decodingVars => (RolloutInv /\ ChunksInv)'
  BY RolloutStepKeeps, ChunksStepKeeps
<1>3. RolloutInv /\ ChunksInv => LiveSpeaksAsReplay
  BY SpeechIsReplayed
<1> QED BY <1>1, <1>2, <1>3, PTL DEF DecodingSpec

(* A failure is missing, never misreported: live and replay part on one    *)
(* only if its result came in a later chunk, and then the watch says that  *)
(* the call did not fail (markFailures over the records of one chunk).     *)
THEOREM FailuresAreOnlyMissing == DecodingSpec => []FailureIsMissingNotMisreported
<1>1. DecodingInit => RolloutInv /\ ChunksInv
  BY RolloutInitially, ChunksInitially
<1>2. RolloutInv /\ ChunksInv /\ [DecodingNext]_decodingVars => (RolloutInv /\ ChunksInv)'
  BY RolloutStepKeeps, ChunksStepKeeps
<1>3. RolloutInv /\ ChunksInv => FailureIsMissingNotMisreported
  BY FailuresAreReplayed
<1> QED BY <1>1, <1>2, <1>3, PTL DEF DecodingSpec

-----------------------------------------------------------------------------
(* harness.Follow reads a session through its file or through the          *)
(* harness's own follower (live.go), and liveInstances reads the records:  *)
(* whichever reads behaves as its module says and the others do not move,  *)
(* so what is proved of each of them holds of the readers together.        *)
THEOREM ReadersAreTheirModules == ReadersSpec => DecodingSpec /\ OpenCodeSpec /\ InstancesSpec
<1>1. ReadersInit => DecodingInit /\ OpenCodeInit /\ InstancesInit
  BY DEF ReadersInit, FollowInit
<1>2. [ReadersNext]_readersVars => [DecodingNext]_decodingVars
  BY DEF ReadersNext, readersVars, FollowNext, followVars
<1>3. [ReadersNext]_readersVars => [OpenCodeNext]_openCodeVars
  BY DEF ReadersNext, readersVars, FollowNext, followVars
<1>4. [ReadersNext]_readersVars => [InstancesNext]_instancesVars
  BY DEF ReadersNext, readersVars
<1> QED
  BY <1>1, <1>2, <1>3, <1>4, PTL DEF ReadersSpec, DecodingSpec, OpenCodeSpec, InstancesSpec
=============================================================================
