------------------------------- MODULE Corpus -------------------------------
(***************************************************************************)
(* The corpus of a calibration: sessions surveyed and sealed into a        *)
(* manifest by their hashes (cmd/flow-indicator/corpus.go and              *)
(* internal/calibrate/survey.go), and scored only after the seal has been  *)
(* checked (internal/calibrate/run.go).  The transcripts belong to the     *)
(* harnesses: they grow, are copied and disappear between two commands and *)
(* within one.                                                             *)
(*                                                                         *)
(* Bytes are numbers: a transcript that is written to takes a number       *)
(* nobody had, so two files hold equal numbers exactly when they hold the  *)
(* same bytes, and a hash is the number of what was hashed.  A copy that   *)
(* was cut short holds the negated number.                                 *)
(***************************************************************************)
EXTENDS Integers, FiniteSets

CONSTANTS
  Ids,         \* the identifiers of sessions
  Project,     \* Project[i]: the project session i belongs to
  HashOrder,   \* HashOrder[i]: the place of the hash of i among all hashes
  Parity,      \* Parity[p]: the side the deal of project p starts on, 0 or 1
  PerProject,  \* --per-project; 0 is no cap
  MaxBytes     \* how many contents are ever written

ASSUME CorpusAssumption ==
  /\ \A i, j \in Ids : HashOrder[i] = HashOrder[j] => i = j
  /\ \A i \in Ids : HashOrder[i] \in Nat /\ Parity[Project[i]] \in {0, 1}
  /\ PerProject \in Nat /\ MaxBytes \in Nat

VARIABLES
  upstream,   \* the transcript of each session where its harness keeps it
  copies,     \* <out>/<id>.jsonl
  manifest,   \* the entry of each session in <out>/manifest.json
  readable,   \* whether that file was written to its end
  build,      \* the corpus --build that is running
  latest,     \* the last content written
  verified,   \* the entries a calibration verified and is about to read
  scores      \* the entry and the bytes of each session's latest score

corpusVars == <<upstream, copies, manifest, readable, build, latest, verified, scores>>

Nothing == 0
Splits == {"dev", "holdout"}
NoEntry == [path |-> "none", sha |-> Nothing, split |-> "none"]
NoScore == [entry |-> NoEntry, bytes |-> Nothing]
NoEntries == [i \in Ids |-> NoEntry]
NoBuild == [mode |-> "idle", found |-> {}, todo |-> {}, entries |-> NoEntries]
Listed(entries) == {i \in Ids : entries[i] # NoEntry}

CorpusInit ==
  /\ upstream = [i \in Ids |-> Nothing]
  /\ copies = [i \in Ids |-> Nothing]
  /\ manifest = NoEntries
  /\ readable = TRUE
  /\ build = NoBuild
  /\ latest = 0
  /\ verified = NoEntries
  /\ scores = [i \in Ids |-> NoScore]

-----------------------------------------------------------------------------
(* The harnesses, and whoever tidies their directories. *)
Transcripts(i, bytes) ==
  /\ upstream' = [upstream EXCEPT ![i] = bytes]
  /\ UNCHANGED <<copies, manifest, readable, build, verified, scores>>

WriteTranscript(i) == latest < MaxBytes /\ Transcripts(i, latest + 1) /\ latest' = latest + 1

CopyTranscript(i) ==
  /\ upstream[i] = Nothing
  /\ \E j \in Ids : upstream[j] # Nothing /\ Transcripts(i, upstream[j])
  /\ UNCHANGED latest

RemoveTranscript(i) == upstream[i] # Nothing /\ Transcripts(i, Nothing) /\ UNCHANGED latest

-----------------------------------------------------------------------------
(* corpus --build.  The scan finds candidates; those whose bytes a file of *)
(* the corpus directory already holds are duplicates.  The sessions that   *)
(* are left are sealed one by one, and the manifest is written last: what  *)
(* was hashed as no duplicate may have grown, or be gone, when it is       *)
(* sealed.  A referenced session's path is absolute, and no file is found  *)
(* under the directory joined with it.                                     *)
Resolved(i) == IF manifest[i].path = "copy" THEN copies[i] ELSE upstream[i]

SealedHashes == {copies[i] : i \in {j \in Ids : manifest[j].path = "copy"}} \ {Nothing}

Fresh(candidates) == {i \in candidates : upstream[i] \notin SealedHashes}

(* The place of a session among the candidates of its project. *)
Place(i, candidates) ==
  Cardinality({j \in candidates : Project[j] = Project[i] /\ HashOrder[j] < HashOrder[i]})

Dealt(i, candidates) ==
  [path |-> "source", sha |-> Nothing,
   split |-> IF (Parity[Project[i]] + Place(i, candidates)) % 2 = 1 THEN "holdout" ELSE "dev"]

(* Mutant: the deal forgets the splits of the prior manifest. *)
Assign_Reshuffled(candidates) ==
  [i \in Ids |->
     IF i \in candidates /\ (PerProject = 0 \/ Place(i, candidates) < PerProject)
     THEN Dealt(i, candidates) ELSE manifest[i]]

Assign(candidates) ==
  [i \in Ids |->
     IF manifest[i] = NoEntry /\ i \in candidates
        /\ (PerProject = 0 \/ Place(i, candidates) < PerProject)
     THEN Dealt(i, candidates) ELSE manifest[i]]

(* A manifest that was not written to its end cannot be decoded, and no    *)
(* build goes past it.                                                     *)
Scan(candidates, mode) ==
  LET assigned == Assign(Fresh(candidates))
  IN  /\ build = NoBuild /\ readable
      /\ build' = [mode |-> mode, found |-> Fresh(candidates) \cap Listed(assigned),
                   todo |-> Listed(assigned), entries |-> assigned]
      /\ UNCHANGED <<upstream, copies, manifest, readable, latest, verified, scores>>

(* Sealing gives an entry a path and a hash. *)
Sealed(entry, path, sha) == [path |-> path, sha |-> sha, split |-> entry.split]

Sealing(i, path, sha) ==
  build' = [build EXCEPT !.found = @ \ {i}, !.todo = @ \ {i},
                         !.entries[i] = Sealed(@, path, sha)]

(* Without --copy: what this scan found is hashed where it lies, anything  *)
(* else where the manifest says it is.                                     *)
SealInPlace(i) ==
  /\ build.mode = "reference" /\ i \in build.todo
  /\ LET found == i \in build.found
         bytes == IF found THEN upstream[i] ELSE Resolved(i)
     IN  bytes # Nothing /\ Sealing(i, IF found THEN "source" ELSE build.entries[i].path, bytes)
  /\ UNCHANGED <<upstream, copies, manifest, readable, latest, verified, scores>>

(* With --copy: a file that is there is sealed already and never written   *)
(* again.                                                                  *)
KeepCopy(i) ==
  /\ build.mode = "copy" /\ i \in build.todo /\ copies[i] # Nothing
  /\ LET sha == build.entries[i].sha
     IN  Sealing(i, "copy", IF sha # Nothing THEN sha ELSE copies[i])
  /\ UNCHANGED <<upstream, copies, manifest, readable, latest, verified, scores>>

Copying(i, bytes) ==
  /\ build.mode = "copy" /\ i \in build.todo \cap build.found
  /\ copies[i] = Nothing /\ upstream[i] # Nothing
  /\ copies' = [copies EXCEPT ![i] = bytes]
  /\ UNCHANGED <<upstream, manifest, readable, latest, verified, scores>>

SealCopy(i) == Copying(i, upstream[i]) /\ Sealing(i, "copy", upstream[i])

(* What a copy that failed has written stays. *)
CutCopy(i) == Copying(i, -upstream[i]) /\ build' = NoBuild

(* Any file that is missing ends the command, as a kill does; the copies   *)
(* made so far stay.                                                       *)
StopBuild ==
  /\ build # NoBuild /\ build' = NoBuild
  /\ UNCHANGED <<upstream, copies, manifest, readable, latest, verified, scores>>

(* The manifest is written in place: a kill in the middle loses the old    *)
(* entries with the new ones.                                              *)
WriteManifest ==
  /\ build # NoBuild /\ build.todo = {}
  /\ \/ manifest' = build.entries /\ readable' = TRUE
     \/ manifest' = NoEntries /\ readable' = FALSE
  /\ build' = NoBuild
  /\ UNCHANGED <<upstream, copies, latest, verified, scores>>

Build ==
  \/ \E candidates \in SUBSET {i \in Ids : upstream[i] # Nothing}, mode \in {"reference", "copy"} :
       Scan(candidates, mode)
  \/ \E i \in Ids : SealInPlace(i) \/ KeepCopy(i) \/ SealCopy(i) \/ CutCopy(i)
  \/ StopBuild
  \/ WriteManifest

-----------------------------------------------------------------------------
(* calibrate.Run: every selected session must hash to what the manifest    *)
(* recorded, and the holdout opens only for a reason; only then are the    *)
(* sessions read.                                                          *)
Selected(split) == {i \in Ids : manifest[i].split = split}

Seals(split) == \A i \in Selected(split) : manifest[i].sha # Nothing /\ Resolved(i) = manifest[i].sha

Verify(split, reason) ==
  /\ readable /\ Listed(verified) = {}
  /\ Selected(split) # {}
  /\ split = "holdout" => reason # ""
  /\ Seals(split)
  /\ verified' = [i \in Ids |-> IF i \in Selected(split) THEN manifest[i] ELSE NoEntry]
  /\ UNCHANGED <<upstream, copies, manifest, readable, build, latest, scores>>

BytesOf(i) == IF verified[i].path = "copy" THEN copies[i] ELSE upstream[i]

Predict ==
  /\ Listed(verified) # {}
  /\ scores' = IF \E i \in Listed(verified) : BytesOf(i) = Nothing THEN scores
               ELSE [i \in Ids |-> IF i \in Listed(verified)
                                   THEN [entry |-> verified[i], bytes |-> BytesOf(i)]
                                   ELSE scores[i]]
  /\ verified' = NoEntries
  /\ UNCHANGED <<upstream, copies, manifest, readable, build, latest>>

CorpusNext ==
  \/ \E i \in Ids : WriteTranscript(i) \/ CopyTranscript(i) \/ RemoveTranscript(i)
  \/ Build
  \/ \E split \in Splits, reason \in {"", "gate"} : Verify(split, reason)
  \/ Predict

CorpusSpec == CorpusInit /\ [][CorpusNext]_corpusVars

-----------------------------------------------------------------------------
(* What was scored stays on the side of the split it was scored on,        *)
(* whatever is scanned afterwards (Assign keeps prior splits), as long as  *)
(* no kill met the manifest half written; and what was scored from a copy  *)
(* was read as it was sealed, even if transcripts grew and corpora were    *)
(* built, or half built, between the check and the reading.                *)
ScoresKeepTheirSubject ==
  \A i \in {j \in Ids : scores[j] # NoScore} :
    /\ readable => manifest[i].split = scores[i].entry.split
    /\ scores[i].entry.path = "copy" => scores[i].bytes = scores[i].entry.sha

(* corpus.go:68 and docs/COMMANDS.md:311: a session already sealed under   *)
(* one identifier is not sealed again under another; duplicates are        *)
(* detected by content.  A later build never adds the bytes of an entry    *)
(* the manifest holds and the transcript still has.                        *)
SealedOnce ==
  [][\A i, j \in Ids :
       /\ manifest[i] # NoEntry /\ upstream[i] = manifest[i].sha
       /\ manifest[j] = NoEntry /\ manifest'[j] # NoEntry
       => manifest'[j].sha # manifest[i].sha]_corpusVars
=============================================================================
