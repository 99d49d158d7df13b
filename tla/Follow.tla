------------------------------- MODULE Follow -------------------------------
(***************************************************************************)
(* harness.Follow: a session that is still being written is read by chunks *)
(* when its transcript is a file, and by polls of a store when the harness *)
(* follows it its own way.                                                 *)
(***************************************************************************)
EXTENDS Decoding, OpenCode

VARIABLE followed   \* "chunker" or "follower"

followVars == <<followed, decodingVars, openCodeVars>>

FollowInit ==
    /\ followed \in {"chunker", "follower"}
    /\ DecodingInit
    /\ followed = "follower" => harness = CHOOSE h \in FileHarnesses : TRUE
    /\ followed = "follower" => source = <<>>
    /\ OpenCodeInit

FollowNext ==
    /\ UNCHANGED followed
    /\ \/ followed = "chunker" /\ DecodingNext /\ UNCHANGED openCodeVars
       \/ followed = "follower" /\ OpenCodeNext /\ UNCHANGED decodingVars

FollowSpec == FollowInit /\ [][FollowNext]_followVars
=============================================================================
