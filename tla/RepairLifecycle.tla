-------------------------- MODULE RepairLifecycle --------------------------
(***************************************************************************)
(* The life of repair episodes as METRICS.md promises it: open, then       *)
(* provisionally closed, then durably closed, with reset and unknown as    *)
(* terminal alternatives; a provisionally closed episode may come back.    *)
(* Episodes are numbered in the order they open, at most one is open, and  *)
(* one step opens at most one.                                             *)
(***************************************************************************)
EXTENDS Integers, Sequences

VARIABLE life

Successors(status) ==
  CASE status = "open" -> {"open", "provisionally_closed", "reset", "unknown"}
    [] status = "provisionally_closed" ->
         {"provisionally_closed", "durably_closed", "unknown", "open", "reset"}
    [] OTHER -> {status}

Open(s) == {i \in DOMAIN s : s[i] = "open"}

Init == life = <<>>

Continue == \A i \in DOMAIN life : life'[i] \in Successors(life[i])

(* A new episode is open; the turn that opened it may also carry a reset.  *)
Next ==
  /\ Len(life') \in Len(life)..(Len(life) + 1)
  /\ Continue
  /\ Len(life') > Len(life) =>
       /\ life'[Len(life')] \in {"open", "reset"}
       /\ Open(life') \subseteq {Len(life')}
  /\ \A i, j \in Open(life') : i = j

Spec == Init /\ [][Next]_life
=============================================================================
