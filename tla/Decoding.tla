------------------------------ MODULE Decoding ------------------------------
(***************************************************************************)
(* The decoders of the file-backed harnesses (internal/adapter,            *)
(* internal/harness/codex.go) behind a live watch: a transcript grows line *)
(* by line, the tail hands over whatever whole lines there are, and each   *)
(* such chunk is one call of Decode.  A replay hands the same lines to one *)
(* call.  A line is the fields its decoder reads; what was written is a    *)
(* member of a small set.                                                  *)
(***************************************************************************)
EXTENDS Naturals, Sequences, SequencesExt

CONSTANTS FileHarnesses,    \* the harnesses whose transcript is a file
          SourceLines,      \* SourceLines[h]: the lines harness h may write
          MaxLines,         \* bound on the length of a transcript
          NoRoot            \* no working directory is known

ASSUME DecodingConstants ==
    /\ FileHarnesses \subseteq {"claude-code", "qwen", "generic", "codex"}
    /\ MaxLines \in Nat
    /\ \A h \in FileHarnesses \cap {"claude-code", "qwen"} : \A line \in SourceLines[h] :
         line.calls \in Seq({line.calls[k] : k \in DOMAIN line.calls})   \* a list

VARIABLES harness,   \* the harness being followed
          source,    \* the lines of the transcript
          start,     \* lines the watch was told to skip
          handed,    \* lines given to the decoder so far
          cuts,      \* where a chunk ended
          carry,     \* what the decoder remembers between chunks
          live,      \* the records the watch was given
          ended      \* a chunk did not decode; the watch is over

decodingVars == <<harness, source, start, handed, cuts, carry, live, ended>>

-----------------------------------------------------------------------------
(* What every decoder builds. *)

Rec(at, class, mode, side, actions) ==
    [at |-> at, class |-> class, mode |-> mode, side |-> side, actions |-> actions]

Action(verb, root, failed) == [verb |-> verb, root |-> root, failed |-> failed]

(* Record.IsOperatorTurn: what every transmission metric divides by. *)
IsOperatorTurn(r) ==
    /\ r.class = "human"
    /\ ~r.side
    /\ r.mode \in {"", "typed", "structured_answer"}

Verbs ==
    [Edit |-> "write", write_file |-> "write", write |-> "write",
     Read |-> "read", read_file |-> "read", read |-> "read",
     Bash |-> "execute", run_shell_command |-> "execute", execute |-> "execute",
     Grep |-> "search", grep_search |-> "search", search |-> "search",
     AskUserQuestion |-> "ask", ask_user_question |-> "ask", ask |-> "ask"]

(* A tool no table names is counted and never guessed. *)
VerbOf(tool) == IF tool \in DOMAIN Verbs THEN Verbs[tool] ELSE "unknown"

(* The accumulator of one call of Decode: the records so far, the tool and *)
(* the place of each call identifier, the first working directory.         *)
Fresh(at) == [at |-> at, out |-> <<>>, names |-> <<>>, sites |-> <<>>, root |-> NoRoot]

-----------------------------------------------------------------------------
(* Claude Code. *)

(* Mutant: a result whose call was not seen is taken for an answer. *)
LinkedTo_Guessed(results, names, tool) ==
    \E r \in results : r.id \in DOMAIN names => names[r.id] = tool

(* The result answers a call of AskUserQuestion this chunk has seen. *)
LinkedTo(results, names, tool) ==
    \E r \in results : r.id \in DOMAIN names /\ names[r.id] = tool

OperatorAnswers(line, names) ==
    line.raw = "answers" /\ LinkedTo(line.results, names, "AskUserQuestion")

(* The wrapper tags of the CLI, each evidence of a different act. *)
Wrapper ==
    [interrupt |-> <<"system", "interrupt">>, shell |-> <<"human", "shell_escape">>,
     command |-> <<"human", "cli_command">>, output |-> <<"tool", "">>,
     words |-> <<"human", "typed">>, none |-> <<"human", "typed">>]

ClaudeUser(line, names) ==
    IF line.meta THEN <<"system", "">>
    ELSE IF line.compact THEN <<"system", "compact_summary">>
    ELSE IF OperatorAnswers(line, names) THEN <<"human", "structured_answer">>
    ELSE IF line.raw # "none" \/ (line.text = "none" /\ line.results # {})
         THEN <<"tool", "">>
    ELSE Wrapper[line.text]

(* A message queued while the agent worked is the operator's like any other. *)
ClaudeAttachment(line) ==
    CASE line.queued = "prompt"  -> <<"human", "typed">>
      [] line.queued = "command" -> <<"human", "cli_command">>
      [] OTHER                   -> <<"system", "">>

ClaudeSpeaker(line, names) ==
    CASE line.type = "user"       -> ClaudeUser(line, names)
      [] line.type = "assistant"  -> <<"agent", "">>
      [] line.type = "attachment" -> ClaudeAttachment(line)
      [] line.type \in {"system", "summary", "mode", "ai-title"} -> <<"system", "">>
      [] OTHER                    -> <<"unknown", "">>

-----------------------------------------------------------------------------
(* Qwen Code: the same envelope of calls and results, other speakers. *)

QwenSpeaker(line) ==
    CASE line.type = "system" /\ line.slash = "invocation" -> <<"human", "cli_command">>
      [] line.type = "system" /\ line.slash # "invocation" -> <<"system", "">>
      [] line.type = "user" /\ line.provenance = "real_user" -> <<"human", "typed">>
      [] line.type = "user" /\ line.provenance # "real_user" -> <<"system", "">>
      [] line.type = "assistant"   -> <<"agent", "">>
      [] line.type = "tool_result" -> <<"tool", "">>
      [] OTHER                     -> <<"unknown", "">>

-----------------------------------------------------------------------------
(* One line of either: failures first, then the record, then its calls. *)

Failures(line) == {r.id : r \in {q \in line.results : q.error}}

(* The error result marks the call it answers, if this chunk has the call. *)
MarkFailed(out, sites, ids) ==
    [i \in DOMAIN out |->
        [out[i] EXCEPT !.actions = [j \in DOMAIN @ |->
            IF \E id \in ids \cap DOMAIN sites : sites[id] = <<i, j>>
            THEN [@[j] EXCEPT !.failed = TRUE] ELSE @[j]]]]

CallActions(line, root) ==
    [k \in DOMAIN line.calls |-> Action(VerbOf(line.calls[k].tool), root, FALSE)]

(* A record may repeat an identifier: the last call of it stands. *)
CallIds(line) == {line.calls[k].id : k \in DOMAIN line.calls}

CallAt(line, id) == SelectLastInSeq(line.calls, LAMBDA c : c.id = id)

(* What is kept of the calls of a line replaces what was kept of others.   *)
Renewed(line, kept, Of(_)) ==
    [id \in CallIds(line) \cup DOMAIN kept |-> IF id \in CallIds(line) THEN Of(id) ELSE kept[id]]

CallLine(h, acc, line) ==
    LET root  == IF acc.root = NoRoot THEN line.cwd ELSE acc.root
        names == Renewed(line, acc.names, LAMBDA id : line.calls[CallAt(line, id)].tool)
        place == Len(acc.out) + 1
        who   == IF h = "claude-code" THEN ClaudeSpeaker(line, names) ELSE QwenSpeaker(line)
    IN  [at    |-> acc.at + 1,
         out   |-> Append(MarkFailed(acc.out, acc.sites, Failures(line)),
                          Rec(acc.at + 1, who[1], who[2], line.side, CallActions(line, root))),
         names |-> names,
         sites |-> Renewed(line, acc.sites, LAMBDA id : <<place, CallAt(line, id)>>),
         root  |-> root]

-----------------------------------------------------------------------------
(* The neutral format states everything on the line. *)

GenericSpeaker(speaker) ==
    CASE speaker \in {"user", "human", "operator"}     -> "human"
      [] speaker \in {"assistant", "agent", "model"}   -> "agent"
      [] speaker \in {"tool", "tool_result", "function"} -> "tool"
      [] speaker = "system"                            -> "system"
      [] OTHER                                         -> "unknown"

GenericLine(acc, line) ==
    [acc EXCEPT !.at = @ + 1,
                !.out = Append(@, Rec(acc.at + 1, GenericSpeaker(line.speaker), "", line.side,
                    [k \in DOMAIN line.actions |->
                        Action(VerbOf(line.actions[k].verb), line.cwd, line.actions[k].failed)]))]

-----------------------------------------------------------------------------
(* Codex: only the event stream is read, a line that is not JSON is        *)
(* skipped, and one decoder serves all chunks of a rollout.  A chunk with  *)
(* a line the scanner does not take is refused (Decodes).                  *)

CodexAction(line, kind, root) ==
    CASE kind = "commandexecution" -> <<Action("execute", root, line.failed)>>
      [] kind \in {"patch_apply_end", "filechange"} -> <<Action("write", root, line.failed)>>
      [] OTHER -> <<>>

(* What an event carries, or nothing this program measures. *)
CodexRecord(line, at, root) ==
    LET kind == IF line.event = "item_completed" THEN line.item ELSE line.event
        One(class, mode) == <<Rec(at, class, mode, FALSE, CodexAction(line, kind, root))>>
    IN  CASE kind \in {"user_message", "usermessage"} /\ line.text -> One("human", "typed")
          [] kind = "agent_message" /\ line.text -> One("agent", "")
          [] kind \in {"agentmessage", "commandexecution"} -> One("agent", "")
          [] kind \in {"patch_apply_end", "filechange"} /\ line.paths -> One("agent", "")
          [] kind = "turn_aborted" -> One("system", "interrupt")
          [] OTHER -> <<>>

CodexLine(acc, line) ==
    CASE line.type = "session_meta" ->
            [acc EXCEPT !.at = @ + 1, !.root = IF @ = NoRoot THEN line.cwd ELSE @]
      [] line.type = "event_msg" ->
            [acc EXCEPT !.at = @ + 1, !.out = @ \o CodexRecord(line, acc.at + 1, acc.root)]
      [] OTHER -> [acc EXCEPT !.at = @ + 1]

-----------------------------------------------------------------------------
(* A call of Decode. *)

DecodeLine(h, acc, line) ==
    CASE h = "codex"   -> CodexLine(acc, line)
      [] h = "generic" -> GenericLine(acc, line)
      [] OTHER         -> CallLine(h, acc, line)

(* The accumulator after each line. *)
Decoders(h, lines, acc) ==
    LET after[n \in 0 .. Len(lines)] ==
            IF n = 0 THEN acc ELSE DecodeLine(h, after[n - 1], lines[n])
    IN  after

Decode(h, lines, acc) == Decoders(h, lines, acc)[Len(lines)]

(* One malformed line refuses the chunk; Codex skips those, and stops at a *)
(* line that is longer than its scanner takes.                             *)
Decodes(h, lines) ==
    \A i \in DOMAIN lines :
        lines[i].type # (IF h = "codex" THEN "overlong" ELSE "broken")

(* Mutant: the head is not read. *)
HeadRoot_Unread(lines) == NoRoot

(* codexMetaOf: the head of the rollout names the working directory, also *)
(* for a watch that starts behind it.                                      *)
HeadRoot(lines) ==
    LET i == SelectInSeq(lines, LAMBDA l : l.type = "session_meta")
    IN  IF i = 0 THEN NoRoot ELSE lines[i].cwd

(* Chunks: Codex makes one decoder for the session; the other adapters have *)
(* no state, so every call begins afresh.                                   *)
OpenDecoder(h, lines, skipped) ==
    IF h = "codex" THEN [Fresh(skipped) EXCEPT !.root = HeadRoot(lines)] ELSE Fresh(skipped)

(* Mutant: the places of the calls outlive the records they point into. *)
NextDecoder_KeepsSites(h, acc) == [acc EXCEPT !.out = <<>>]

NextDecoder(h, acc) == IF h = "codex" THEN [acc EXCEPT !.out = <<>>] ELSE Fresh(acc.at)

-----------------------------------------------------------------------------
DecodingInit ==
    /\ harness \in FileHarnesses
    /\ source \in {<<>>} \cup {<<l>> : l \in SourceLines[harness]}
    /\ start \in {0, Len(source)}
    /\ handed = start
    /\ cuts = {}
    /\ carry = OpenDecoder(harness, source, start)
    /\ live = <<>>
    /\ ended = FALSE

(* The harness writes a line.  A rollout begins with its session_meta. *)
Write ==
    /\ Len(source) < MaxLines
    /\ \E line \in SourceLines[harness] :
         /\ harness = "codex" =>
              (line.type = "session_meta" <=> source = <<>>)
         /\ source' = Append(source, line)
    /\ UNCHANGED <<harness, start, handed, cuts, carry, live, ended>>

(* fileTail.Next: the whole lines one read found, in one call of Decode. *)
(* The offset has moved also when the chunk is refused.                  *)
DecodeChunk ==
    /\ ~ended
    /\ \E n \in handed + 1 .. Len(source) :
         LET chunk == SubSeq(source, handed + 1, n) IN
         /\ handed' = n
         /\ cuts' = cuts \cup {n}
         /\ \/ /\ Decodes(harness, chunk)
               /\ LET acc == Decode(harness, chunk, carry)
                  IN  /\ live' = live \o acc.out
                      /\ carry' = NextDecoder(harness, acc)
               /\ UNCHANGED ended
            \/ /\ ~Decodes(harness, chunk)
               /\ ended' = TRUE
               /\ UNCHANGED <<live, carry>>
    /\ UNCHANGED <<harness, source, start>>

DecodingNext == Write \/ DecodeChunk

DecodingSpec == DecodingInit /\ [][DecodingNext]_decodingVars

-----------------------------------------------------------------------------
(* Harness.Open on the same lines: one call for the whole transcript. *)
Replayed == Decode(harness, SubSeq(source, 1, carry.at), Fresh(0)).out

InReplay(r) == CHOOSE s \in ToSet(Replayed) : s.at = r.at

(* A chunk ended behind line a and before line b. *)
CutBetween(a, b) == \E c \in cuts \cup {start} : a <= c /\ c < b

(* The lines that answer a call with one of the identifiers of line a. *)
ResultLines(a) ==
    {b \in a + 1 .. carry.at : \E r \in source[b].results :
        \E k \in DOMAIN source[a].calls : source[a].calls[k].id = r.id}

LinksAreChunkScoped(h) == h \in {"claude-code", "qwen"}

(* The variables of the watch keep their types, and the watch is never given *)
(* a record of a line it has not reached.                                    *)
DecodingTypeOK ==
    /\ harness \in FileHarnesses
    /\ source \in Seq(SourceLines[harness])
    /\ start \in 0 .. Len(source)
    /\ handed \in start .. Len(source)
    /\ cuts \subseteq start + 1 .. handed
    /\ ended \in BOOLEAN
    /\ \A i \in DOMAIN live : live[i].at \in start + 1 .. handed

(* A watch says of a line what a replay says of it: the same speaker and the *)
(* same calls.  The one exception is the operator's answer to a question of  *)
(* the agent, which becomes tool output when a chunk ended between the call  *)
(* and the answer; nothing ever becomes the operator's only because it was   *)
(* read live.                                                                *)
LiveSpeaksAsReplay ==
    \A i \in DOMAIN live : LET r == live[i] IN LET s == InReplay(r) IN
        /\ \/ <<r.class, r.mode, r.side>> = <<s.class, s.mode, s.side>>
           \/ /\ s.mode = "structured_answer" /\ r.class = "tool"
              /\ \E a \in 1 .. r.at - 1 : r.at \in ResultLines(a) /\ CutBetween(a, r.at)
        /\ [k \in DOMAIN r.actions |-> r.actions[k].verb]
             = [k \in DOMAIN s.actions |-> s.actions[k].verb]

(* A failure is missing, never misreported: live and replay part on the     *)
(* failure of a call only if its result came in a later chunk, and then the *)
(* watch says it did not fail.                                              *)
FailureIsMissingNotMisreported ==
    \A i \in DOMAIN live : LET r == live[i] IN LET s == InReplay(r) IN
        \A k \in DOMAIN r.actions :
            r.actions[k].failed # s.actions[k].failed =>
                /\ LinksAreChunkScoped(harness)
                /\ s.actions[k].failed
                /\ \E b \in ResultLines(r.at) : CutBetween(r.at, b)

(* The decoder of a rollout carries what the lines do not repeat: however the *)
(* rollout is cut, and wherever the watch begins, its records are those of a  *)
(* replay behind the first lines, their targets relative to the same          *)
(* directory.                                                                 *)
RolloutCutsDoNotShow ==
    harness \in {"codex", "generic"} =>
        Replayed = Decode(harness, SubSeq(source, 1, start), Fresh(0)).out \o live

(* "Claude Code records every fact a record needs on that record, so the    *)
(* decoder carries no state between chunks" (harness/claude.go): an answer   *)
(* of the operator is theirs, however the file was cut.                      *)
AnswersAreTheOperators ==
    \A i \in DOMAIN live :
        IsOperatorTurn(InReplay(live[i])) => IsOperatorTurn(live[i])
=============================================================================
