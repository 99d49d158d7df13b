------------------------------ MODULE Sessions ------------------------------
(***************************************************************************)
(* The session directories and the commands that write them: watch in its  *)
(* three ways of finding a session, and replay (internal/store/session.go, *)
(* jsonl.go; cmd/flow-indicator/main.go, pane.go).                         *)
(*                                                                         *)
(* A directory holds append-only event files.  A run opens it, takes the   *)
(* records of the source one after the other, appends their facts to the   *)
(* files their kind is routed to, opening each file when its first fact    *)
(* comes, and pushes what is buffered to disk.  Several runs may be alive  *)
(* at once, a run may be interrupted or killed at any point, and a run of  *)
(* a pane moves on to the pane's next session.  A removed file can still   *)
(* be written by whoever holds it, and nobody reads that: it is an orphan. *)
(* A fact is the number of its record and of the run that wrote it.  A     *)
(* buffer that is full is written in the middle of a line, so a file may   *)
(* end in the first half of a line of one run; what another run writes     *)
(* behind it makes one illegible line of both.                             *)
(***************************************************************************)
EXTENDS Selection

CONSTANTS
  EventFiles,   \* the event files, in write order
  RoutedTo,     \* the files the facts of each record are routed to
  LongLines,    \* the records whose facts may not fit into what is left of a buffer
  MaxRecords,   \* bound on the records of a source
  MaxRuns,      \* bound on the commands started
  Commands,     \* what each of them may be: "replay", "watch", "pane"
  Targets,      \* what --pane may name
  AutoPane      \* --pane auto

ASSUME SessionsConstants ==
  /\ IsInjective(EventFiles)
  /\ RoutedTo \in [1..MaxRecords -> SUBSET ToSet(EventFiles)]
  /\ MaxRecords \in Nat /\ MaxRuns \in Nat \ {0}
  /\ Commands \in [1..MaxRuns -> SUBSET {"replay", "watch", "pane"}]
  /\ AutoPane \notin Panes /\ Targets \subseteq Panes \cup {AutoPane}

VARIABLES
  source,     \* the records each harness has written
  occupant,   \* the session of the agent in each pane, or "empty"
  log,        \* the event files of each session's directory
  runs,       \* the commands
  shared      \* the directories with events of runs that had them open together

sessionsVars == <<source, occupant, log, runs, shared>>

Files == ToSet(EventFiles)
Runs == 1..MaxRuns
EndLine == MaxRecords + 1   \* what Finish or StopObservation append

(* torn: the runs that have written the first half of a line and not the  *)
(* second.                                                                 *)
NoFile == [there |-> FALSE, lines |-> <<>>, torn |-> {}, garbled |-> FALSE]
NothingOpen == [f \in Files |-> "closed"]
NothingBuffered == [f \in Files |-> <<>>]

Unborn == [stage |-> "unborn", command |-> "none", stream |-> NoStream, force |-> FALSE,
           tail |-> FALSE, from |-> 0, at |-> 0, open |-> NothingOpen,
           buffer |-> NothingBuffered, pending |-> {}, interrupted |-> FALSE,
           changed |-> FALSE, monitor |-> "off", target |-> AutoPane]

SessionsInit ==
  /\ source = [s \in Streams |-> 0]
  /\ occupant = [p \in Panes |-> "empty"]
  /\ log = [s \in Streams |-> [f \in Files |-> NoFile]]
  /\ runs = [r \in Runs |-> Unborn]
  /\ shared = {}

Known == {s \in Streams : source[s] > 0}

-----------------------------------------------------------------------------
(* The harnesses and herdr. *)
AgentWrites(s) ==
  /\ source[s] < MaxRecords
  /\ source' = [source EXCEPT ![s] = @ + 1]
  /\ UNCHANGED <<occupant, log, runs, shared>>

PaneTurns(p) ==
  /\ \E o \in (Streams \ {occupant[q] : q \in Panes}) \cup {"empty"} :
       occupant' = [occupant EXCEPT ![p] = o]
  /\ UNCHANGED <<source, log, runs, shared>>

(* paneTarget: the session herdr records for the pane.  One herdr does not *)
(* record yet is waited on like one its store does not have yet.           *)
Reported(target) ==
  {occupant[p] : p \in ChosenPane(target, {q \in Panes : occupant[q] # "empty"})} \cap Streams

-----------------------------------------------------------------------------
(* A command is started.  A watch of a path replaces what is there when it *)
(* is forced, of a session that was found always; it starts at the         *)
(* beginning or at the end.                                                *)
Launch(r, born) ==
  /\ runs[r].stage = "unborn"
  /\ \A q \in Runs : q < r => runs[q].stage # "unborn"
  /\ runs' = [runs EXCEPT ![r] = born]
  /\ UNCHANGED <<source, occupant, log, shared>>

OnStream(command, s, force, from) ==
  [Unborn EXCEPT !.stage = "opening", !.command = command, !.stream = s,
                 !.force = force, !.from = from, !.at = from]

Start(r) ==
  \/ /\ "replay" \in Commands[r]
     /\ \E s \in Known, force \in BOOLEAN : Launch(r, OnStream("replay", s, force, 0))
  \/ /\ "watch" \in Commands[r]
     /\ \/ \E s \in Known, force \in BOOLEAN : \E from \in {0, source[s]} :
             Launch(r, OnStream("watch", s, force, from))
        \/ \E s \in Chosen(Known) : \E from \in {0, source[s]} :
             Launch(r, OnStream("watch", s, TRUE, from))
  \/ /\ "pane" \in Commands[r]
     /\ \E target \in Targets, tail \in BOOLEAN :
          Launch(r, [Unborn EXCEPT !.stage = "resolving", !.command = "pane", !.force = TRUE,
                                !.tail = tail, !.target = target])

(* One step of a run: its own state; what a gone run was does not matter.  *)
Step(r, next) == runs' = [runs EXCEPT ![r] = next]
Gone == [Unborn EXCEPT !.stage = "ended"]
SourcesStay == UNCHANGED <<source, occupant>>

(* paneSessionWait: the pane is resolved before the context is looked at.  *)
(* A pane whose session is not known yet is waited on; one without an      *)
(* agent, or one of two, ends the command.                                 *)
ResolvePane(r) ==
  /\ runs[r].stage = "resolving"
  /\ \E s \in Reported(runs[r].target) \cap Known :
       Step(r, [runs[r] EXCEPT !.stage = "opening", !.stream = s, !.tail = FALSE,
                               !.from = IF runs[r].tail THEN source[s] ELSE 0,
                               !.at = IF runs[r].tail THEN source[s] ELSE 0])
  /\ SourcesStay /\ UNCHANGED <<log, shared>>

GiveUpPane(r) ==
  /\ runs[r].stage = "resolving"
  /\ LET agents == {q \in Panes : occupant[q] # "empty"}
         incurable == ChosenPane(runs[r].target, agents) = {}
     IN  incurable \/ (runs[r].interrupted /\ Reported(runs[r].target) \cap Known = {})
  /\ Step(r, Gone)
  /\ SourcesStay /\ UNCHANGED <<log, shared>>

-----------------------------------------------------------------------------
(* OpenSession.  Whether there are events is asked first; a forced run then *)
(* removes the files one by one.                                           *)
Blank(file) == file.lines = <<>> /\ file.torn = {} /\ ~file.garbled

HasEvents(s) == \E f \in Files : ~Blank(log[s][f])

HeldByAnother(r, s) ==
  \E q \in Runs \ {r} :
    runs[q].stream = s /\ runs[q].stage \in {"removing", "watching", "closing"}

Refuses(r) == HasEvents(runs[r].stream) /\ ~runs[r].force

(* Mutant: a pane's watch has no monitor. *)
Opened_Unmonitored(run) == [run EXCEPT !.stage = "watching", !.force = FALSE]

(* The directory is open.  A pane's watch gets its monitor, which quits    *)
(* before its first tick when the context is done already.                 *)
Opened(run) ==
  [run EXCEPT !.stage = "watching", !.force = FALSE,
              !.monitor = IF run.command = "pane" /\ ~run.interrupted
                          THEN "on" ELSE "off"]

Open(r) ==
  /\ runs[r].stage = "opening"
  /\ LET s == runs[r].stream
     IN  /\ Step(r, IF Refuses(r) THEN Gone
                    ELSE IF HasEvents(s)
                    THEN [runs[r] EXCEPT !.stage = "removing", !.pending = Files]
                    ELSE Opened(runs[r]))
         /\ shared' = IF Refuses(r) THEN shared
                      ELSE IF HeldByAnother(r, s) THEN shared \cup {s}
                      ELSE IF HasEvents(s) THEN shared ELSE shared \ {s}
  /\ SourcesStay /\ UNCHANGED log

(* Mutant: whoever holds a removed file still reaches the name. *)
Orphaned_NotAtAll(run, s, f) == run

(* What the removal of a file is to a run that holds it. *)
Orphaned(run, s, f) ==
  IF run.stream = s /\ run.open[f] = "held"
  THEN [run EXCEPT !.open[f] = "orphan", !.buffer[f] = <<>>]
  ELSE run

RemoveFile(r) ==
  /\ runs[r].stage = "removing"
  /\ LET s == runs[r].stream
         f == SelectSeq(EventFiles, LAMBDA g : g \in runs[r].pending)[1]
         rest == runs[r].pending \ {f}
     IN  /\ log' = [log EXCEPT ![s][f] = NoFile]
         /\ runs' = [q \in Runs |->
              IF q # r THEN Orphaned(runs[q], s, f)
              ELSE IF rest = {} THEN [Opened(runs[r]) EXCEPT !.pending = {}]
              ELSE [runs[r] EXCEPT !.pending = rest]]
         /\ shared' = IF HeldByAnother(r, s) \/ \E g \in Files \ {f} : ~Blank(log[s][g])
                      THEN shared ELSE shared \ {s}
  /\ SourcesStay

(* Append: the files of the line that are not open yet are opened by name, *)
(* and made where there is none.                                           *)
Appended(r, line, files, next) ==
  LET s     == runs[r].stream
      fresh == {f \in files : runs[r].open[f] = "closed"}
  IN  /\ log' = [log EXCEPT ![s] =
                   [f \in Files |-> IF f \in fresh THEN [log[s][f] EXCEPT !.there = TRUE]
                                    ELSE log[s][f]]]
      /\ Step(r, [next EXCEPT
           !.open = [f \in Files |-> IF f \in fresh THEN "held" ELSE @[f]],
           !.buffer = [f \in Files |->
             IF f \in files /\ runs[r].open[f] # "orphan" THEN Append(@[f], <<r, line>>) ELSE @[f]]])
      /\ SourcesStay /\ UNCHANGED shared

Canceled(r) == runs[r].interrupted \/ runs[r].changed

(* One record is pushed; a chunk is any number of them. *)
Take(r) ==
  /\ runs[r].stage = "watching"
  /\ runs[r].at < source[runs[r].stream]
  /\ Appended(r, runs[r].at + 1, RoutedTo[runs[r].at + 1], [runs[r] EXCEPT !.at = @ + 1])

(* The file a run has written lines to, and half of another or not. *)
Written(file, r, lines, half) ==
  [file EXCEPT !.lines = @ \o lines,
               !.torn = IF half THEN @ \cup {r} ELSE @ \ {r},
               !.garbled = @ \/ file.torn \ {r} # {}]

Writes(r, f, lines, half, left) ==
  /\ runs[r].stage \in {"watching", "closing"}
  /\ log' = [log EXCEPT ![runs[r].stream][f] = Written(@, r, lines, half)]
  /\ Step(r, [runs[r] EXCEPT !.buffer[f] = left])
  /\ SourcesStay /\ UNCHANGED shared

(* Flush, after a chunk. *)
FlushFile(r, f) ==
  /\ runs[r].buffer[f] # <<>>
  /\ Writes(r, f, runs[r].buffer[f], FALSE, <<>>)

(* The buffer is full before the latest line is in it as a whole. *)
FillBuffer(r, f) ==
  /\ runs[r].buffer[f] # <<>> /\ Last(runs[r].buffer[f])[2] \in LongLines
  /\ Len(runs[r].buffer[f]) = 1 => r \notin log[runs[r].stream][f].torn
  /\ Writes(r, f, Front(runs[r].buffer[f]), TRUE, <<Last(runs[r].buffer[f])>>)

(* Mutant: the watch of a pane listens to its monitor alone. *)
Finishes_MonitorOnly(r) ==
  CASE runs[r].command = "replay" -> runs[r].at = source[runs[r].stream]
    [] runs[r].command = "watch" -> runs[r].interrupted
    [] runs[r].command = "pane" -> runs[r].changed

(* A replay ends with its source, a watch when its context is done: either *)
(* appends its last events and closes the files.                           *)
Finishes(r) ==
  IF runs[r].command = "replay" THEN runs[r].at = source[runs[r].stream] ELSE Canceled(r)

Finish(r) ==
  /\ runs[r].stage = "watching"
  /\ Finishes(r)
  /\ Appended(r, EndLine, Files, [runs[r] EXCEPT !.stage = "closing"])

Closable(r) == runs[r].buffer = NothingBuffered

(* Only a watch that its monitor ended goes on to another session. *)
Close(r) ==
  /\ runs[r].stage = "closing"
  /\ Closable(r)
  /\ Step(r, IF ~runs[r].changed THEN Gone
             ELSE [Unborn EXCEPT !.stage = "resolving", !.command = "pane", !.force = TRUE,
                                 !.target = runs[r].target, !.interrupted = runs[r].interrupted])
  /\ SourcesStay /\ UNCHANGED <<log, shared>>

-----------------------------------------------------------------------------
(* watchPaneChange: only another session, positively reported, ends the    *)
(* watch.  The query may still be out when the context is done.            *)
MonitorReads(r) ==
  /\ runs[r].monitor = "on" /\ runs[r].stage \in {"watching", "closing"}
  /\ Reported(runs[r].target) \ {runs[r].stream} # {}
  /\ Step(r, [runs[r] EXCEPT !.monitor = "found"])
  /\ SourcesStay /\ UNCHANGED <<log, shared>>

MonitorCancels(r) ==
  /\ runs[r].monitor = "found" /\ runs[r].stage \in {"watching", "closing"}
  /\ Step(r, [runs[r] EXCEPT !.monitor = "off", !.changed = TRUE])
  /\ SourcesStay /\ UNCHANGED <<log, shared>>

MonitorQuits(r) ==
  /\ runs[r].monitor = "on" /\ Canceled(r)
  /\ Step(r, [runs[r] EXCEPT !.monitor = "off"])
  /\ SourcesStay /\ UNCHANGED <<log, shared>>

(* A signal, and a death without one. *)
Alive(r) == runs[r].stage \notin {"unborn", "ended"}

Interrupt(r) ==
  /\ Alive(r) /\ ~runs[r].interrupted /\ runs[r].command # "replay"
  /\ Step(r, [runs[r] EXCEPT !.interrupted = TRUE])
  /\ SourcesStay /\ UNCHANGED <<log, shared>>

Crash(r) ==
  /\ Alive(r)
  /\ Step(r, Gone)
  /\ SourcesStay /\ UNCHANGED <<log, shared>>

-----------------------------------------------------------------------------
RunStep(r) ==
  \/ ResolvePane(r) \/ GiveUpPane(r) \/ Open(r) \/ RemoveFile(r) \/ Take(r)
  \/ (\E f \in Files : FlushFile(r, f) \/ FillBuffer(r, f)) \/ Finish(r) \/ Close(r)

MonitorStep(r) == MonitorReads(r) \/ MonitorCancels(r) \/ MonitorQuits(r)

SessionsNext ==
  \/ \E s \in Streams : AgentWrites(s)
  \/ \E p \in Panes : PaneTurns(p)
  \/ \E r \in Runs : Start(r) \/ RunStep(r) \/ MonitorStep(r) \/ Interrupt(r) \/ Crash(r)

SessionsSpec == SessionsInit /\ [][SessionsNext]_sessionsVars

(* A run that can go on does, and its monitor's ticks come; the agents, the *)
(* operator's commands and signals promise nothing.                        *)
FairSessionsSpec ==
  /\ SessionsSpec
  /\ \A r \in Runs : WF_sessionsVars(RunStep(r)) /\ WF_sessionsVars(MonitorStep(r))

-----------------------------------------------------------------------------
SessionsTypeOK ==
  /\ source \in [Streams -> 0..MaxRecords]
  /\ \A s \in Streams, f \in Files : ~log[s][f].there => log[s][f] = NoFile
  /\ \A r \in Runs : runs[r].at \in 0..MaxRecords /\ runs[r].stream \in Streams \cup {NoStream}
  /\ shared \subseteq Streams

(* What a run has to say in one of its files so far. *)
Facts(run, f) ==
  {k \in run.from + 1 .. run.at : f \in RoutedTo[k]}
    \cup {k \in {EndLine} : run.stage = "closing"}

(* Whatever else happens to the directory, a run that holds the file there *)
(* is under one of its names finds everything it appended in it or still   *)
(* buffered, once and in order, unless a line of it was torn into another. *)
HeldFilesAreComplete ==
  \A r \in Runs, f \in Files :
    runs[r].stage \in {"watching", "closing"} /\ runs[r].open[f] = "held"
    /\ ~log[runs[r].stream][f].garbled =>
      LET found == log[runs[r].stream][f].lines \o runs[r].buffer[f]
          own   == {i \in DOMAIN found : found[i][1] = r}
      IN  /\ {found[i][2] : i \in own} = Facts(runs[r], f)
          /\ \A i, j \in own : i < j => found[i][2] < found[j][2]

(* No fact is doubled: in a directory that no two runs had open together,  *)
(* every event is of one run, legible, and no record's facts are there     *)
(* twice.                                                                  *)
AloneIsOneReplay ==
  \A s \in Streams \ shared : \E r \in Runs : \A f \in Files :
    /\ ~log[s][f].garbled
    /\ \A i \in DOMAIN log[s][f].lines : log[s][f].lines[i][1] = r
    /\ \A i, j \in DOMAIN log[s][f].lines : i < j => log[s][f].lines[i][2] < log[s][f].lines[j][2]

(* Events are neither lost nor doubled, as far as runs do not share a      *)
(* directory and however they do.                                          *)
EventsAreOneRunsReplay == HeldFilesAreComplete /\ AloneIsOneReplay

(* The handle printed beside a session resolves to it, unless its whole    *)
(* identifier is the beginning of another one.                             *)
HandlesResolve ==
  LET listed == Followable(Known, FALSE)
  IN  \A s \in listed :
        \/ Resolved(HandleOf(s, listed), Known) = s
        \/ \E t \in listed \ {s} : IsPrefix(About[s].id, About[t].id)

(* A watch of a pane moves with it: when the pane's session stays what it  *)
(* is, a watch of the pane that is not ended comes to follow that session  *)
(* and stays with it.                                                      *)
PaneIsFollowed ==
  \A r \in {q \in Runs : "pane" \in Commands[q]}, s \in Streams :
    <>[](runs[r].command = "pane" /\ Reported(runs[r].target) = {s} /\ s \in Known)
      => <>[](runs[r].stream = s /\ runs[r].stage = "watching")

(* A signal ends a watch, whatever its pane does meanwhile. *)
InterruptEnds ==
  \A r \in {q \in Runs : Commands[q] # {"replay"}} : runs[r].interrupted ~> ~Alive(r)
=============================================================================
