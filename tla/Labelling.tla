----------------------------- MODULE Labelling -----------------------------
(***************************************************************************)
(* One labelling pass over the units of one family (Label and labelBatch,  *)
(* internal/labeler/labeler.go).  Batches go to a model; a reply is read   *)
(* whole or not at all.  A batch whose reply did not fit is halved, each   *)
(* half on its own; any other failure is retried once.                     *)
(*                                                                         *)
(* A unit is its place in the source; FilePlace is its place in the order  *)
(* of record identifiers and offsets, by which a label file is sorted.     *)
(* labelBatch calls itself: stack holds the calls that have not returned,  *)
(* the innermost last.                                                     *)
(***************************************************************************)
EXTENDS Integers, Sequences, SequencesExt

CONSTANTS
  UnitCount,   \* how many units the family has
  BatchSize,   \* batchSize
  FilePlace,   \* FilePlace[u]: where unit u belongs in a label file
  Vocabulary   \* the classes of the family

ASSUME LabellingAssumption == UnitCount \in Nat \ {0} /\ BatchSize \in Nat \ {0}
ASSUME FilePlaceAssumption ==
  /\ \A u \in 1..UnitCount : FilePlace[u] \in Int
  /\ \A u, v \in 1..UnitCount : FilePlace[u] = FilePlace[v] => u = v

VARIABLES
  presented,  \* the units that are still to be sent, in the order of the pass
  stack,      \* the calls of labelBatch
  returned,   \* what the latest call that ended returned, until it is taken
  labelled,   \* out
  done,       \* done
  abandoned,  \* abandoned
  truncated,  \* whether a reply of this pass ran out of room
  file        \* the label file, once written

labellingVars == <<presented, stack, returned, labelled, done, abandoned, truncated, file>>

NotReturned == [ended |-> FALSE, failed |-> FALSE, got |-> <<>>]
Failed == [ended |-> TRUE, failed |-> TRUE, got |-> <<>>]
NoFileYet == [written |-> FALSE, labels |-> <<>>]

(* The second pass of a family presents the units back to front. *)
Presented(reverse) ==
  LET source == [i \in 1..UnitCount |-> i] IN IF reverse THEN Reverse(source) ELSE source

LabellingInit ==
  /\ \E reverse \in BOOLEAN : presented = Presented(reverse)
  /\ stack = <<>> /\ returned = NotReturned
  /\ labelled = <<>> /\ done = 0 /\ abandoned = 0 /\ truncated = FALSE
  /\ file = NoFileYet

Call(batch) == [batch |-> batch, at |-> "first", left |-> NotReturned]

NextBatch ==
  /\ stack = <<>> /\ ~returned.ended /\ presented # <<>>
  /\ LET size == Min({BatchSize, Len(presented)})
     IN  /\ stack' = <<Call(SubSeq(presented, 1, size))>>
         /\ presented' = SubSeq(presented, size + 1, Len(presented))
  /\ UNCHANGED <<returned, labelled, done, abandoned, truncated, file>>

-----------------------------------------------------------------------------
(* The replies an endpoint may give to a batch of n units: sequences of    *)
(* places and classes, some of which are no answer.                        *)
Answers(n) == [i : 1..n, label : Vocabulary] \cup {[i |-> n + 1, label |-> CHOOSE v \in Vocabulary : TRUE],
                                                    [i |-> 1, label |-> "no class"]}

Replies(n) == UNION {[1..m -> Answers(n)] : m \in 0..n}

(* Mutant: two labels of one unit are counted, not compared. *)
Whole_Counted(reply, batch) ==
  /\ \A l \in DOMAIN reply : reply[l].i \in DOMAIN batch /\ reply[l].label \in Vocabulary
  /\ Len(reply) = Len(batch)

(* batch: every place is one of the batch and named once, every class is   *)
(* in the vocabulary, and no unit is left out.                             *)
Whole(reply, batch) ==
  /\ \A l \in DOMAIN reply : reply[l].i \in DOMAIN batch /\ reply[l].label \in Vocabulary
  /\ \A l, k \in DOMAIN reply : reply[l].i = reply[k].i => l = k
  /\ Len(reply) = Len(batch)

LabelsOf(reply, batch) == [l \in DOMAIN reply |-> [unit |-> batch[reply[l].i], label |-> reply[l].label]]

Innermost == Last(stack)
AtWork(step) == ~returned.ended /\ stack # <<>> /\ Innermost.at = step

Ended(result) ==
  /\ stack' = Front(stack) /\ returned' = result
  /\ UNCHANGED <<presented, labelled, done, abandoned, file>>

Goes(step, calls) ==
  /\ stack' = Front(stack) \o <<[Innermost EXCEPT !.at = step]>> \o calls
  /\ UNCHANGED <<presented, returned, labelled, done, abandoned, file>>

ReplyIsWhole ==
  /\ AtWork("first") \/ AtWork("retry")
  /\ \E reply \in Replies(Len(Innermost.batch)) :
       /\ Whole(reply, Innermost.batch)
       /\ Ended([ended |-> TRUE, failed |-> FALSE, got |-> LabelsOf(reply, Innermost.batch)])
  /\ UNCHANGED truncated

Half(batch) == Len(batch) \div 2
LeftHalf(batch) == SubSeq(batch, 1, Half(batch))
RightHalf(batch) == SubSeq(batch, Half(batch) + 1, Len(batch))

ReplyIsTruncated ==
  /\ AtWork("first") /\ Len(Innermost.batch) > 1
  /\ Goes("left", <<Call(LeftHalf(Innermost.batch))>>)
  /\ truncated' = TRUE

(* A request that fails, a reply that is not whole, one unit whose reply   *)
(* ran out of room: once more the same, and then no more.                  *)
ReplyIsRefused ==
  \/ AtWork("first") /\ Goes("retry", <<>>) /\ UNCHANGED truncated
  \/ AtWork("retry") /\ Ended(Failed) /\ UNCHANGED truncated

(* A call whose left half has ended starts the right one; it fails when    *)
(* both halves did, and otherwise returns what it has.                     *)
LeftEnds ==
  /\ returned.ended /\ stack # <<>> /\ Innermost.at = "left"
  /\ stack' = Front(stack) \o <<[Innermost EXCEPT !.at = "right", !.left = returned],
                                Call(RightHalf(Innermost.batch))>>
  /\ returned' = NotReturned
  /\ UNCHANGED <<presented, labelled, done, abandoned, truncated, file>>

RightEnds ==
  /\ returned.ended /\ stack # <<>> /\ Innermost.at = "right"
  /\ LET left == Innermost.left
     IN  Ended(IF left.failed /\ returned.failed THEN Failed
               ELSE [ended |-> TRUE, failed |-> FALSE, got |-> left.got \o returned.got])
  /\ UNCHANGED truncated

Sent == UnitCount - Len(presented) - done

BatchEnds ==
  /\ returned.ended /\ stack = <<>>
  /\ abandoned' = IF returned.failed THEN abandoned + Sent ELSE abandoned
  /\ labelled' = labelled \o returned.got
  /\ done' = done + Sent
  /\ returned' = NotReturned
  /\ UNCHANGED <<presented, stack, truncated, file>>

(* Sorted by place, labels of one place in the order they came: the k-th   *)
(* label is the one that k - 1 others go before. *)
InFileOrder(out) ==
  LET place(i) == FilePlace[out[i].unit]
      before(i, j) == place(i) < place(j) \/ (place(i) = place(j) /\ i < j)
  IN  [k \in DOMAIN out |->
         out[CHOOSE i \in DOMAIN out : Cardinality({j \in DOMAIN out : before(j, i)}) = k - 1]]

(* Sorted, and written over the file of the pass. *)
WriteLabels ==
  /\ done = UnitCount /\ ~file.written
  /\ file' = [written |-> TRUE, labels |-> InFileOrder(labelled)]
  /\ UNCHANGED <<presented, stack, returned, labelled, done, abandoned, truncated>>

LabellingNext ==
  \/ NextBatch \/ ReplyIsWhole \/ ReplyIsTruncated \/ ReplyIsRefused
  \/ LeftEnds \/ RightEnds \/ BatchEnds \/ WriteLabels

LabellingSpec == LabellingInit /\ [][LabellingNext]_labellingVars

-----------------------------------------------------------------------------
UnitsLabelled == {labelled[l].unit : l \in DOMAIN labelled}

(* However batches were halved, retried and given up, a unit is labelled   *)
(* once or not at all, the file of either pass has the same order, and the *)
(* units a pass announces as abandoned (labeler.go:85) have no label.  A   *)
(* pass none of whose replies ran out of room announces every unit it left *)
(* out.                                                                    *)
ShortfallIsKnown ==
  /\ Cardinality(UnitsLabelled) = Len(labelled)
  /\ abandoned + Len(labelled) <= done
  /\ ~truncated => abandoned + Len(labelled) = done
  /\ file.written =>
       \A l, k \in DOMAIN file.labels : l < k => FilePlace[file.labels[l].unit] < FilePlace[file.labels[k].unit]

(* labeler.go:85 "Abandoned is called once at the end of a pass if any     *)
(* units came back unlabeled": every pass announces what it left out.      *)
EveryShortfallIsAnnounced == file.written => abandoned + Len(labelled) = done
=============================================================================
