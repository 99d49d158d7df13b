------------------------------ MODULE MCReaders ------------------------------
(* A small instance of Readers: the lines that differ in what they are      *)
(* evidence of, one question and one edit that may fail or be answered.    *)
EXTENDS Readers

CONSTANTS o1, o2

Call(id, tool) == [id |-> id, tool |-> tool]
Result(id, error) == [id |-> id, error |-> error]

Plain == [type |-> "user", meta |-> FALSE, compact |-> FALSE, side |-> FALSE, text |-> "none",
          raw |-> "none", queued |-> "none", calls |-> <<>>, results |-> {}, cwd |-> "p"]

ClaudeLines ==
    {[Plain EXCEPT !.text = "words"],
     [Plain EXCEPT !.type = "assistant", !.calls = <<Call(1, "AskUserQuestion"), Call(2, "Edit")>>],
     [Plain EXCEPT !.type = "assistant", !.calls = <<Call(2, "Edit")>>],
     [Plain EXCEPT !.raw = "answers", !.results = {Result(1, FALSE)}],
     [Plain EXCEPT !.raw = "answers", !.results = {Result(2, FALSE)}],
     [Plain EXCEPT !.raw = "other", !.results = {Result(2, TRUE)}],
     [Plain EXCEPT !.text = "interrupt"],
     [Plain EXCEPT !.type = "attachment", !.queued = "prompt"],
     [Plain EXCEPT !.type = "broken"]}

QwenPlain == [type |-> "user", slash |-> "none", provenance |-> "real_user", side |-> FALSE,
              calls |-> <<>>, results |-> {}, cwd |-> "p"]

QwenLines ==
    {QwenPlain,
     [QwenPlain EXCEPT !.provenance = "none"],
     [QwenPlain EXCEPT !.type = "system", !.slash = "invocation"],
     [QwenPlain EXCEPT !.type = "assistant", !.calls = <<Call(1, "run_shell_command")>>],
     [QwenPlain EXCEPT !.type = "assistant", !.calls = <<Call(2, "edit")>>],
     [QwenPlain EXCEPT !.type = "tool_result", !.results = {Result(2, TRUE)}]}

GenericLines ==
    {[type |-> "turn", speaker |-> "user", side |-> TRUE, actions |-> <<>>, cwd |-> NoRoot,
      calls |-> <<>>, results |-> {}],
     [type |-> "turn", speaker |-> "model", side |-> FALSE, cwd |-> "p", calls |-> <<>>, results |-> {},
      actions |-> <<[verb |-> "write", failed |-> TRUE], [verb |-> "deploy", failed |-> FALSE]>>]}

Event == [type |-> "event_msg", event |-> "user_message", item |-> "none", text |-> TRUE,
          failed |-> FALSE, paths |-> TRUE, cwd |-> NoRoot, calls |-> <<>>, results |-> {}]

CodexLines ==
    {[Event EXCEPT !.type = "session_meta", !.cwd = "p"],
     Event,
     [Event EXCEPT !.event = "patch_apply_end", !.failed = TRUE],
     [Event EXCEPT !.event = "item_completed", !.item = "commandexecution"],
     [Event EXCEPT !.event = "item_completed", !.item = "usermessage"],
     [Event EXCEPT !.event = "turn_aborted"],
     [Event EXCEPT !.type = "response_item"],
     [Event EXCEPT !.type = "overlong"]}

MCSourceLines ==
    [h \in FileHarnesses |->
        CASE h = "claude-code" -> ClaudeLines [] h = "qwen" -> QwenLines
          [] h = "generic" -> GenericLines [] OTHER -> CodexLines]
=============================================================================
