-------------------------------- MODULE Watch --------------------------------
(***************************************************************************)
(* One live watch of a session file (cmd/flow-indicator/main.go: watchFile,*)
(* readLive, stopWatch), with the tail that reads the file                 *)
(* (internal/stream/tail.go) and the reporter that carries the regime to a *)
(* sidebar row (cmd/flow-indicator/herdr.go).                              *)
(*                                                                         *)
(* Three goroutines: the reader offers what the tail returns on an         *)
(* unbuffered channel; the loop takes it, projects it and draws; the       *)
(* reporter owns the subprocess that pushes a row.  A select with several  *)
(* ready cases takes any of them.                                          *)
(*                                                                         *)
(* A line is two bytes of the file, its text and its newline, so that it   *)
(* can be seen half written; a row is the number of lines it was drawn     *)
(* after.  What a line says and how long a row stays fresh are left out.   *)
(***************************************************************************)
EXTENDS Integers

CONSTANT MaxLines   \* bound on the lines the file ever holds

ASSUME WatchBounds == MaxLines \in Nat \ {0}

VARIABLES
  size,       \* the bytes of the file
  shrunk,     \* the file was truncated; at most once
  canceled,   \* ctx is done: a signal, or another session in the pane
  offset,     \* t.offset: the first byte not returned as part of a whole line
  held,       \* the bytes of t.partial
  reader,     \* where readLive's goroutine is
  arrival,    \* what it offers
  loop,       \* where watchFile is
  projected,  \* lines pushed into the projector
  stopOffset, \* the offset the stop event carries, or NotStopped
  reporter,   \* where the reporter's goroutine is; "off" without a target
  row,        \* h.rows: the row that waits, or NoRow
  lastRow,    \* lastRow of watchFile
  pushed      \* the row herdr was given last

fileVars == <<size, shrunk>>
tailVars == <<offset, held, reader, arrival>>
loopVars == <<loop, projected, stopOffset>>
rowVars == <<reporter, row, lastRow, pushed>>
watchVars == <<fileVars, canceled, tailVars, loopVars, rowVars>>

Bytes == 0..(2 * MaxLines)
Lines == 0..MaxLines
NoRow == -1
Cleared == -2
NotStopped == -1

(* One arrival: whole lines, or the error Next returned. *)
Arrival(n, err) == [lines |-> n, err |-> err]

(* The first frame is drawn before the reader is started. *)
Init ==
  /\ size \in 0..1
  /\ shrunk = FALSE
  /\ canceled = FALSE
  /\ offset = 0
  /\ held = 0
  /\ reader = "reading"
  /\ arrival = Arrival(0, "none")
  /\ loop = "select"
  /\ projected = 0
  /\ stopOffset = NotStopped
  /\ reporter \in {"select", "off"}
  /\ row = IF reporter = "off" THEN NoRow ELSE 0
  /\ lastRow = 0
  /\ pushed = NoRow

-----------------------------------------------------------------------------
(* The harness appends to the file, half a line at a time, or replaces it  *)
(* by a shorter one.                                                       *)
FileGrows ==
  /\ size < 2 * MaxLines
  /\ size' = size + 1
  /\ UNCHANGED <<shrunk, canceled, tailVars, loopVars, rowVars>>

Truncate ==
  /\ ~shrunk
  /\ \E n \in 0..(size - 1) : size' = n
  /\ shrunk' = TRUE
  /\ UNCHANGED <<canceled, tailVars, loopVars, rowVars>>

(* A signal, or watchPaneChange. *)
Cancel ==
  /\ ~canceled
  /\ canceled' = TRUE
  /\ UNCHANGED <<fileVars, tailVars, loopVars, rowVars>>

-----------------------------------------------------------------------------
(* Tail.Next, one turn of its loop at a time, and the offer that follows.  *)
Seen == offset + held

(* The bytes up to and with the last newline. *)
Whole(bytes) == 2 * (bytes \div 2)

Offer(n, err) ==
  /\ arrival' = Arrival(n, err)
  /\ reader' = "offering"

ReadTruncated ==
  /\ reader = "reading"
  /\ size < Seen
  /\ Offer(0, "error")
  /\ UNCHANGED <<fileVars, canceled, offset, held, loopVars, rowVars>>

(* A read returns some of what is there.  An unfinished line is held; the  *)
(* decoder may refuse the whole ones, after the offset has moved past them.*)
Read ==
  /\ reader = "reading"
  /\ \E upto \in (Seen + 1)..size :
       LET whole == Whole(upto)
       IN  IF whole = offset
           THEN /\ held' = upto - offset
                /\ UNCHANGED <<offset, reader, arrival>>
           ELSE /\ offset' = whole
                /\ held' = upto - whole
                /\ \/ Offer((whole - offset) \div 2, "none")
                   \/ Offer(0, "error")
  /\ UNCHANGED <<fileVars, canceled, loopVars, rowVars>>

(* Nothing new: only here does Next look at the context. *)
ReadCanceled ==
  /\ reader = "reading"
  /\ size = Seen
  /\ canceled
  /\ Offer(0, "canceled")
  /\ UNCHANGED <<fileVars, canceled, offset, held, loopVars, rowVars>>

(* Mutant: the offer is dropped when the loop is busy. *)
Withdraw_Busy ==
  /\ reader = "offering"
  /\ reader' = "reading"
  /\ UNCHANGED <<fileVars, canceled, offset, held, arrival, loopVars, rowVars>>

(* The other case of the reader's select; the channel is closed. *)
Withdraw ==
  /\ reader = "offering"
  /\ canceled
  /\ reader' = "gone"
  /\ UNCHANGED <<fileVars, canceled, offset, held, arrival, loopVars, rowVars>>

-----------------------------------------------------------------------------
(* Mutant: an unchanged row is never offered again. *)
Draw_ChangedOnly(n, due) ==
  /\ lastRow' = n
  /\ row' = IF reporter # "off" /\ n # lastRow /\ row = NoRow THEN n ELSE row

(* draw: the row is offered when it changed and when the refresh is due;   *)
(* Report drops it when one is waiting already, and it counts as offered.  *)
Draw(n, due) ==
  /\ lastRow' = IF n # lastRow \/ due THEN n ELSE lastRow
  /\ row' = IF reporter # "off" /\ (n # lastRow \/ due) /\ row = NoRow THEN n ELSE row

Beat(due) ==
  /\ loop = "select"
  /\ Draw(projected, due)
  /\ UNCHANGED <<fileVars, canceled, tailVars, loopVars, reporter, pushed>>

(* Mutant: the loop waits for more than one line. *)
Receive_Batched(due) ==
  /\ loop = "select"
  /\ reader = "offering" /\ arrival.err = "none" /\ arrival.lines > 1
  /\ projected' = projected + arrival.lines
  /\ reader' = "reading"
  /\ Draw(projected', due)
  /\ UNCHANGED <<fileVars, canceled, offset, held, arrival, loop, stopOffset, reporter, pushed>>

(* An arrival is projected and logged line by line, then drawn. *)
Receive(due) ==
  /\ loop = "select"
  /\ reader = "offering" /\ arrival.err = "none"
  /\ projected' = projected + arrival.lines
  /\ reader' = "reading"
  /\ Draw(projected', due)
  /\ UNCHANGED <<fileVars, canceled, offset, held, arrival, loop, stopOffset, reporter, pushed>>

(* The loop was told to stop: by the context, by the reader having gone,   *)
(* or by the arrival that says so.                                         *)
Stop(due) ==
  /\ loop = "select"
  /\ \/ (canceled \/ reader = "gone") /\ UNCHANGED reader
     \/ reader = "offering" /\ arrival.err = "canceled" /\ reader' = "gone"
  /\ loop' = "stopping"
  /\ Draw(projected, due)
  /\ UNCHANGED <<fileVars, canceled, offset, held, arrival, projected, stopOffset, reporter, pushed>>

(* An error returns at once: from the source, or from the event log after  *)
(* some of an arrival.                                                     *)
Fail ==
  /\ loop = "select"
  /\ \/ UNCHANGED <<reader, projected>>
     \/ reader = "offering" /\ arrival.err = "error" /\ reader' = "gone" /\ UNCHANGED projected
     \/ /\ reader = "offering" /\ arrival.err = "none" /\ reader' = "reading"
        /\ \E n \in 0..arrival.lines : projected' = projected + n
  /\ loop' = "closing"
  /\ UNCHANGED <<fileVars, canceled, offset, held, arrival, stopOffset, rowVars>>

(* stop: the offset is asked of the tail, not of the projector; the lane   *)
(* or the event log may refuse before it is recorded.                      *)
RecordStop ==
  /\ loop = "stopping"
  /\ stopOffset' \in {offset, NotStopped}
  /\ loop' = "closing"
  /\ UNCHANGED <<fileVars, canceled, tailVars, projected, rowVars>>

(* The deferred Close of the reporter waits for its goroutine. *)
Return ==
  /\ loop = "closing"
  /\ reporter \in {"gone", "off"}
  /\ loop' = "done"
  /\ UNCHANGED <<fileVars, canceled, tailVars, projected, stopOffset, rowVars>>

-----------------------------------------------------------------------------
(* The reporter: a push ends on its own or is killed by its timeout, and   *)
(* nobody looks at its outcome.                                            *)
TakeRow ==
  /\ reporter = "select"
  /\ row # NoRow
  /\ pushed' = row
  /\ row' = NoRow
  /\ reporter' = "pushing"
  /\ UNCHANGED <<fileVars, canceled, tailVars, loopVars, lastRow>>

PushEnds ==
  /\ reporter = "pushing"
  /\ reporter' = "select"
  /\ UNCHANGED <<fileVars, canceled, tailVars, loopVars, row, lastRow, pushed>>

(* Mutant: the context is only looked at when a row has come. *)
Clear_WithRow ==
  /\ reporter = "select"
  /\ canceled
  /\ row # NoRow
  /\ pushed' = Cleared
  /\ reporter' = "clearing"
  /\ UNCHANGED <<fileVars, canceled, tailVars, loopVars, row, lastRow>>

Clear ==
  /\ reporter = "select"
  /\ canceled
  /\ pushed' = Cleared
  /\ reporter' = "clearing"
  /\ UNCHANGED <<fileVars, canceled, tailVars, loopVars, row, lastRow>>

ClearEnds ==
  /\ reporter = "clearing"
  /\ reporter' = "gone"
  /\ UNCHANGED <<fileVars, canceled, tailVars, loopVars, row, lastRow, pushed>>

-----------------------------------------------------------------------------
ReaderStep == ReadTruncated \/ Read \/ ReadCanceled \/ Withdraw
ReporterStep == TakeRow \/ PushEnds \/ Clear \/ ClearEnds
LoopStep ==
  \/ \E due \in BOOLEAN : Beat(due) \/ Receive(due) \/ Stop(due)
  \/ Fail \/ RecordStop \/ Return

Next == FileGrows \/ Truncate \/ Cancel \/ ReaderStep \/ LoopStep \/ ReporterStep

WatchSpec == Init /\ [][Next]_watchVars

(* Goroutines that can run do run: the tail polls, select takes each ready *)
(* case in the end, the refresh comes due, every push is bounded by its    *)
(* timeout.  Nothing makes the file grow, an error happen or a signal come.*)
Fairness ==
  /\ WF_watchVars(ReadTruncated \/ Read \/ ReadCanceled)
  /\ WF_watchVars(\E due \in BOOLEAN : Receive(due))
  /\ WF_watchVars(reader = "offering" /\ arrival.err = "error" /\ Fail)
  /\ WF_watchVars(Beat(TRUE))
  /\ WF_watchVars((\E due \in BOOLEAN : Stop(due)) \/ RecordStop \/ Return)
  /\ WF_watchVars(ReporterStep)

FairWatchSpec == WatchSpec /\ Fairness

-----------------------------------------------------------------------------
WatchTypeOK ==
  /\ size \in Bytes /\ shrunk \in BOOLEAN /\ canceled \in BOOLEAN
  /\ offset \in Bytes /\ offset % 2 = 0
  /\ held \in 0..1
  /\ reader \in {"reading", "offering", "gone"}
  /\ arrival \in [lines : Lines, err : {"none", "error", "canceled"}]
  /\ loop \in {"select", "stopping", "closing", "done"}
  /\ projected \in Lines
  /\ stopOffset \in Bytes \cup {NotStopped}
  /\ reporter \in {"select", "pushing", "clearing", "gone", "off"}
  /\ row \in Lines \cup {NoRow} /\ lastRow \in Lines \cup {NoRow}
  /\ pushed \in Lines \cup {NoRow, Cleared}

(* No line is skipped and none is read twice: while the watch goes on,     *)
(* what the tail has given away is projected or is in the arrival on       *)
(* offer; a refused arrival is the end of the watch.  A stop never records *)
(* an offset behind what was projected.                                    *)
InHand == IF reader = "offering" /\ arrival.err = "none" THEN arrival.lines ELSE 0
Refused == reader = "offering" /\ arrival.err = "error"

NoLineSkipped ==
  /\ loop = "select" /\ ~canceled /\ ~Refused => offset = 2 * (projected + InHand)
  /\ offset >= 2 * projected
  /\ stopOffset # NotStopped => stopOffset >= 2 * projected

(* A watch that has returned has cleared its row and pushes nothing more:  *)
(* HERDR.md says that the sidebar never shows a phase that stopped being   *)
(* true, and the next session of a pane watch starts its own reporter.     *)
ClearedBeforeReturn ==
  loop = "done" /\ reporter # "off" => reporter = "gone" /\ pushed = Cleared

(* Every line that was finished is projected, unless the watch ends or the *)
(* file is replaced.                                                       *)
LinesAreProjected ==
  \A n \in 1..MaxLines :
    size >= 2 * n ~> (projected >= n \/ loop # "select" \/ shrunk)

(* A canceled watch returns, whatever the reader and the reporter were at. *)
CanceledWatchReturns == canceled ~> loop = "done"

(* The sidebar catches up although Report drops rows: the loop believes it *)
(* has offered them, and only the refresh sends them after all.            *)
RowCatchesUp ==
  \A n \in Lines :
    projected >= n /\ loop = "select"
      ~> (pushed >= n \/ loop # "select" \/ canceled \/ reporter = "off")

-----------------------------------------------------------------------------
(* What the repository says of the program and the code does not do.       *)

(* stopWatch: the log records the offset observation reached, where a      *)
(* later watch can start.                                                  *)
StopIsWhereProjectionEnded ==
  stopOffset # NotStopped => stopOffset = 2 * projected

(* An error ends the watch, so that the operator sees it.                  *)
ErrorsAreReturned == loop = "closing" ~> loop = "done"
=============================================================================
