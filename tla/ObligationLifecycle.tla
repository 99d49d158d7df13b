------------------------- MODULE ObligationLifecycle -------------------------
(***************************************************************************)
(* What the obligation surface promises a reader, whatever the candidates: *)
(* the life of every requirement.  A requirement is stated in the epoch it *)
(* belongs to, may leave the inventory and come back, may be violated, and *)
(* becomes unknown when a reset ends its epoch while it stands.  Nothing   *)
(* about an ended epoch ever changes.                                      *)
(***************************************************************************)
EXTENDS Integers

CONSTANTS
  Requirements,
  EpochOf        \* the epoch each requirement belongs to

VARIABLES life, current

Settled == {"released", "superseded", "satisfied"}

(* What one operator turn of the requirement's own epoch can make of it;   *)
(* withdrawn-and-restated in one turn is among the steps.                  *)
Continues(from, to) ==
  \/ to = from
  \/ from = "absent" /\ to \in {"unresolved", "violated"}
  \/ from = "unresolved" /\ to \in {"violated"} \cup Settled
  \/ from = "violated" /\ to \in {"unresolved"} \cup Settled
  \/ from \in Settled /\ to \in {"unresolved", "violated"}

(* At the end of the epoch everything that stands becomes unknown. *)
Ends(from, to) ==
  \/ to = "unknown" /\ from # "unknown"
  \/ to = "absent" /\ from = "absent"
  \/ to \in Settled /\ Continues(from, to)

Init == life = [r \in Requirements |-> "absent"] /\ current = 0

Turn ==
  /\ current' = current
  /\ \A r \in Requirements :
       IF EpochOf[r] = current THEN Continues(life[r], life'[r])
                               ELSE life'[r] = life[r]

Reset ==
  /\ current' = current + 1
  /\ \A r \in Requirements :
       IF EpochOf[r] = current THEN Ends(life[r], life'[r])
                               ELSE life'[r] = life[r]

Next == Turn \/ Reset

Spec == Init /\ [][Next]_<<life, current>>
=============================================================================
