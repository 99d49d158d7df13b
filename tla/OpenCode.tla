------------------------------ MODULE OpenCode ------------------------------
(***************************************************************************)
(* The opencode follower (internal/harness/opencode.go).  The transcript   *)
(* is rows in a database another program writes: a message row, then its   *)
(* parts, the newest message growing in place.  Every poll rebuilds the    *)
(* list of records and hands out those behind a position.                  *)
(***************************************************************************)
EXTENDS Naturals, Sequences, SequencesExt

CONSTANTS MaxMessages,   \* bound on the messages of a session
          MaxParts,      \* bound on the parts of an agent's message
          Queueing       \* the operator may write while the agent does

ASSUME OpenCodeConstants ==
    MaxMessages \in Nat /\ MaxParts \in Nat /\ Queueing \in BOOLEAN

VARIABLES messages,   \* the rows, in order of creation
          opened,     \* the follower is running
          skipped,    \* the records it was told to skip
          sent,       \* the count of records it has handed out
          given       \* what it handed out: a message and its parts then

openCodeVars == <<messages, opened, skipped, sent, given>>

(* A message and how many of its parts carry text or a call; a synthetic *)
(* part, a thought or a blank one is no part of a record.                *)
Message == [role : {"user", "assistant"}, parts : Nat, done : BOOLEAN]

(* Open: one record per message with something in it, in order of creation: *)
(* the k-th is the one that k - 1 others come before. *)
Recorded == {i \in DOMAIN messages : messages[i].parts > 0}

Records == [k \in 1..Cardinality(Recorded) |->
              CHOOSE i \in Recorded : Cardinality({j \in Recorded : j < i}) = k - 1]

(* Mutant: nothing is held back. *)
Ready_All == Len(Records)

(* The trailing record is held back while it belongs to the agent. *)
Ready == IF Records # <<>> /\ messages[Last(Records)].role # "user"
         THEN Len(Records) - 1 ELSE Len(Records)

-----------------------------------------------------------------------------
OpenCodeInit ==
    /\ messages = <<>>
    /\ opened = FALSE
    /\ skipped = 0 /\ sent = 0
    /\ given = <<>>

AgentWriting == \E i \in DOMAIN messages : ~messages[i].done

(* The operator's message is inserted complete. *)
InsertTurn ==
    /\ Len(messages) < MaxMessages
    /\ Queueing \/ ~AgentWriting
    /\ messages' = Append(messages, [role |-> "user", parts |-> 1, done |-> TRUE])
    /\ UNCHANGED <<opened, skipped, sent, given>>

(* The row of the agent's message comes before its parts. *)
InsertAnswer ==
    /\ Len(messages) < MaxMessages
    /\ ~AgentWriting
    /\ messages' = Append(messages, [role |-> "assistant", parts |-> 0, done |-> FALSE])
    /\ UNCHANGED <<opened, skipped, sent, given>>

GrowAnswer ==
    /\ \E i \in DOMAIN messages :
         /\ ~messages[i].done
         /\ \/ /\ messages[i].parts < MaxParts
               /\ messages' = [messages EXCEPT ![i].parts = @ + 1]
            \/ messages' = [messages EXCEPT ![i].done = TRUE]
    /\ UNCHANGED <<opened, skipped, sent, given>>

(* Follow: from the beginning, or from what the session already holds. *)
FollowStore ==
    /\ ~opened
    /\ opened' = TRUE
    /\ skipped' \in {0, Len(Records)}
    /\ sent' = skipped'
    /\ UNCHANGED <<messages, given>>

(* opencodeLive.Next: rebuild, and hand out what the position has not reached. *)
Poll ==
    /\ opened
    /\ Ready > sent
    /\ given' = given \o [k \in 1 .. Ready - sent |->
                    [message |-> Records[sent + k],
                     parts   |-> messages[Records[sent + k]].parts]]
    /\ sent' = Ready
    /\ UNCHANGED <<messages, opened, skipped>>

OpenCodeNext == InsertTurn \/ InsertAnswer \/ GrowAnswer \/ FollowStore \/ Poll

OpenCodeSpec == OpenCodeInit /\ [][OpenCodeNext]_openCodeVars

-----------------------------------------------------------------------------
(* "Each poll rebuilds the session's records and hands back the ones not yet *)
(* returned" (opencode.go): no message is handed out twice, and none that    *)
(* has a record is passed over for a later one.                              *)
EachRecordOnce ==
    /\ \A k, l \in DOMAIN given : k < l => given[k].message < given[l].message
    /\ \A k \in DOMAIN given : \A i \in DOMAIN messages :
         /\ given[1].message < i /\ i < given[k].message
         /\ messages[i].parts > 0
         => \E l \in DOMAIN given : given[l].message = i

(* A record is handed out with all of its parts: while the operator waits for *)
(* the agent, no answer is frozen before it is finished, none is handed out   *)
(* twice and none is passed over.                                             *)
AnswersAreWholeAndOnce ==
    /\ EachRecordOnce
    /\ \A k \in DOMAIN given : given[k].parts = messages[given[k].message].parts
=============================================================================
