------------------------------ MODULE Readers ------------------------------
(***************************************************************************)
(* The readers of files that others are writing: a session that is still   *)
(* written is followed, or the records of running observers are listed.    *)
(* The two share nothing; a behaviour is of one of them.                   *)
(***************************************************************************)
EXTENDS Follow, Instances

VARIABLE reads   \* "session" or "instances"

readersVars == <<reads, followVars, instancesVars>>

ReadersInit ==
  /\ reads \in {"session", "instances"}
  /\ FollowInit /\ InstancesInit
  /\ reads = "instances" =>
       followed = "follower" /\ source = <<>> /\ harness = CHOOSE h \in FileHarnesses : TRUE

ReadersNext ==
  /\ UNCHANGED reads
  /\ \/ reads = "session" /\ FollowNext /\ UNCHANGED instancesVars
     \/ reads = "instances" /\ InstancesNext /\ UNCHANGED followVars

ReadersSpec == ReadersInit /\ [][ReadersNext]_readersVars
=============================================================================
