----------------------------- MODULE Instances -----------------------------
(***************************************************************************)
(* The records of live observers (cmd/flow-indicator/instances.go).  Each  *)
(* observer writes a temporary file beside its record and renames it over  *)
(* the record; the instances command lists the directory, then reads one   *)
(* file after the other, and removes what is long expired.  An observer    *)
(* may be suspended for any time, may fail to write and may die anywhere,  *)
(* and its process number may be taken by another process.                 *)
(*                                                                         *)
(* A file is absent, empty or a whole record; a whole record is fresh,     *)
(* expired, or stale, that is, expired for a whole TTL.                    *)
(***************************************************************************)
EXTENDS Naturals, Sequences, SequencesExt

CONSTANT Owners   \* the observers, by the identifier of their records

VARIABLES
  process,   \* "observer", "none", or "other" when the number was taken
  writer,    \* where Report is: "idle", "created", "written"
  record,    \* what is at the observer's own path
  temporary, \* what is at the path of its temporary file
  reader,    \* "idle", "reading", "removing"
  unread,    \* the names ReadDir returned that are still to be read
  listed,    \* the observers of the records accepted so far
  outcome    \* how the latest listing ended

instancesVars == <<process, writer, record, temporary, reader, unread, listed, outcome>>
readerVars == <<reader, unread, listed, outcome>>

Ages == {"fresh", "expired", "stale"}
Contents == {"absent", "empty"} \cup Ages

InstancesInit ==
  /\ process = [o \in Owners |-> "observer"]
  /\ writer = [o \in Owners |-> "idle"]
  /\ record = [o \in Owners |-> "absent"]
  /\ temporary = [o \in Owners |-> "absent"]
  /\ reader = "idle" /\ unread = <<>> /\ listed = <<>> /\ outcome = "none"

-----------------------------------------------------------------------------
(* Report: CreateTemp, Write and Chmod and Close, Rename; any of them may  *)
(* fail, which removes the temporary file and keeps the record.            *)
Writing(o, from, to) ==
  /\ process[o] = "observer" /\ writer[o] = from
  /\ writer' = [writer EXCEPT ![o] = to]
  /\ UNCHANGED <<process, reader, listed, outcome>>

(* The new file has a name of its own: what a reader listed under the name *)
(* of the one before is gone.                                              *)
CreateTemp(o) ==
  /\ Writing(o, "idle", "created")
  /\ temporary' = [temporary EXCEPT ![o] = "empty"]
  /\ unread' = [i \in DOMAIN unread |->
                  IF unread[i] = [place |-> "temporary", owner |-> o]
                  THEN [place |-> "gone", owner |-> o] ELSE unread[i]]
  /\ UNCHANGED record

WriteTemp(o) ==
  /\ Writing(o, "created", "written")
  /\ temporary' = [temporary EXCEPT ![o] = "fresh"]
  /\ UNCHANGED <<record, unread>>

(* Mutant: the file is renamed before it is written. *)
Rename_Unwritten(o) ==
  /\ temporary[o] # "absent"
  /\ Writing(o, "created", "idle")
  /\ record' = [record EXCEPT ![o] = temporary[o]]
  /\ temporary' = [temporary EXCEPT ![o] = "absent"]
  /\ UNCHANGED unread

(* A reader may have removed the temporary file meanwhile. *)
Rename(o) ==
  /\ temporary[o] # "absent"
  /\ Writing(o, "written", "idle")
  /\ record' = [record EXCEPT ![o] = temporary[o]]
  /\ temporary' = [temporary EXCEPT ![o] = "absent"]
  /\ UNCHANGED unread

ReportFails(o) ==
  /\ \E from \in {"created", "written"} : Writing(o, from, "idle")
  /\ temporary' = [temporary EXCEPT ![o] = "absent"]
  /\ UNCHANGED <<record, unread>>

(* Close, between two reports, on every return of the watch. *)
CloseEmitter(o) ==
  /\ process[o] = "observer" /\ writer[o] = "idle"
  /\ process' = [process EXCEPT ![o] = "none"]
  /\ record' = [record EXCEPT ![o] = "absent"]
  /\ UNCHANGED <<writer, temporary, readerVars>>

Die(o) ==
  /\ process[o] = "observer"
  /\ process' = [process EXCEPT ![o] = "none"]
  /\ UNCHANGED <<writer, record, temporary, readerVars>>

TakeNumber(o) ==
  /\ process[o] = "none"
  /\ process' = [process EXCEPT ![o] = "other"]
  /\ UNCHANGED <<writer, record, temporary, readerVars>>

Older(age) == CASE age = "fresh" -> "expired" [] age = "expired" -> "stale" [] OTHER -> age

TimePasses(o) ==
  /\ record' = [record EXCEPT ![o] = Older(@)]
  /\ temporary' = [temporary EXCEPT ![o] = Older(@)]
  /\ <<record, temporary>>' # <<record, temporary>>
  /\ UNCHANGED <<process, writer, readerVars>>

-----------------------------------------------------------------------------
(* liveInstances.  A name is the file's place and its observer; the names  *)
(* of temporary files begin with a dot and end like the others.            *)
At(name) ==
  CASE name.place = "record" -> record[name.owner]
    [] name.place = "temporary" -> temporary[name.owner]
    [] OTHER -> "absent"

Entries(place) ==
  {[place |-> place, owner |-> o] : o \in {p \in Owners : At([place |-> place, owner |-> p]) # "absent"}}

ReadDir ==
  /\ reader = "idle"
  /\ reader' = "reading"
  /\ unread' = SetToSeq(Entries("temporary")) \o SetToSeq(Entries("record"))
  /\ listed' = <<>> /\ outcome' = "none"
  /\ UNCHANGED <<process, writer, record, temporary>>

(* instanceLive: not expired, and signal 0 finds a process. *)
Live(name) == At(name) = "fresh" /\ process[name.owner] # "none"

ReadEntry ==
  /\ reader = "reading" /\ unread # <<>>
  /\ LET name == Head(unread)
     IN  \/ /\ At(name) \in {"absent", "empty"}
            /\ reader' = "idle" /\ unread' = <<>> /\ listed' = <<>>
            /\ outcome' = IF At(name) = "empty" THEN "half-written" ELSE "vanished"
         \/ /\ Live(name)
            /\ listed' = Append(listed, name.owner) /\ unread' = Tail(unread)
            /\ UNCHANGED <<reader, outcome>>
         \/ /\ At(name) \in Ages /\ ~Live(name)
            /\ reader' = IF At(name) = "stale" THEN "removing" ELSE "reading"
            /\ unread' = IF At(name) = "stale" THEN unread ELSE Tail(unread)
            /\ UNCHANGED <<listed, outcome>>
  /\ UNCHANGED <<process, writer, record, temporary>>

(* Whatever is under the name by now is removed. *)
RemoveStale ==
  /\ reader = "removing"
  /\ LET name == Head(unread)
     IN  /\ record' = IF name.place = "record" THEN [record EXCEPT ![name.owner] = "absent"] ELSE record
         /\ temporary' = IF name.place = "temporary" THEN [temporary EXCEPT ![name.owner] = "absent"]
                         ELSE temporary
  /\ reader' = "reading" /\ unread' = Tail(unread)
  /\ UNCHANGED <<process, writer, listed, outcome>>

Answer ==
  /\ reader = "reading" /\ unread = <<>>
  /\ reader' = "idle" /\ outcome' = "listed"
  /\ UNCHANGED <<process, writer, record, temporary, unread, listed>>

-----------------------------------------------------------------------------
OwnerStep(o) ==
  \/ CreateTemp(o) \/ WriteTemp(o) \/ Rename(o) \/ ReportFails(o)
  \/ CloseEmitter(o) \/ Die(o) \/ TakeNumber(o) \/ TimePasses(o)

ReaderStep == ReadDir \/ ReadEntry \/ RemoveStale \/ Answer

InstancesNext == (\E o \in Owners : OwnerStep(o)) \/ ReaderStep

InstancesSpec == InstancesInit /\ [][InstancesNext]_instancesVars

-----------------------------------------------------------------------------
(* docs/INTEGRATIONS.md: a reader never sees a half-written record.        *)
NeverHalfWritten == outcome # "half-written"

(* The observer's own path never holds a half-written record, whoever      *)
(* dies, fails, reads or removes meanwhile: the rename is all or nothing.  *)
RecordIsWhole == \A o \in Owners : record[o] # "empty"
=============================================================================
