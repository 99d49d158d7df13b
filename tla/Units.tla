------------------------------- MODULE Units -------------------------------
(***************************************************************************)
(* EmitUnits (internal/calibrate/units.go): the units of one family of one *)
(* session, in one pass over its records.  The cycle accumulators run over *)
(* every record; a turn the sample passes over emits nothing.  A unit of   *)
(* the pollution family stays open until the next operator turn, which is  *)
(* when the response to it is known.                                       *)
(*                                                                         *)
(* A text is the position of its record in the session; what a sentence is *)
(* and where a text is cut are left out.                                   *)
(***************************************************************************)
EXTENDS Naturals, Sequences, FiniteSets

CONSTANTS
  Families,    \* the families units are emitted for
  WritePaths,  \* the paths an agent writes
  MaxSession   \* the length of a session

VARIABLES
  family,      \* --family
  session,     \* the records so far
  cycle,       \* cycle, failed, interrupted, agentSaid: since the last operator turn
  earlier,     \* the paths written in the cycle before that
  prior,       \* priorOperator
  response,    \* respWrites, respFailed, respInterrupted, respSaid
  open,        \* the index of the unit whose response is awaited, 0 when none is
  units,       \* what was emitted
  ended        \* the records are exhausted

unitVars == <<family, session, cycle, earlier, prior, response, open, units, ended>>

Quiet == [writes |-> {}, failed |-> 0, interrupted |-> FALSE, said |-> {}]
NoContext == [prior |-> 0, cycle |-> Quiet, earlier |-> {}, response |-> Quiet, next |-> 0]

UnitRecords ==
  [kind : {"operator"}, sampled : BOOLEAN, writes : {{}}, failed : {0}]
  \cup [kind : {"agent"}, sampled : {FALSE}, writes : SUBSET WritePaths, failed : {0}]
  \cup [kind : {"agent"}, sampled : {FALSE}, writes : {{}}, failed : {1}]
  \cup [kind : {"interrupt"}, sampled : {FALSE}, writes : {{}}, failed : {0}]

UnitsInit ==
  /\ family \in Families
  /\ session = <<>>
  /\ cycle = Quiet /\ earlier = {} /\ prior = 0
  /\ response = Quiet /\ open = 0
  /\ units = <<>>
  /\ ended = FALSE

-----------------------------------------------------------------------------
(* One record that is no operator turn, added to an accumulator. *)
Noted(so_far, r, at) ==
  [writes |-> so_far.writes \cup r.writes,
   failed |-> so_far.failed + r.failed,
   interrupted |-> so_far.interrupted \/ r.kind = "interrupt",
   said |-> IF r.kind = "agent" THEN so_far.said \cup {at} ELSE so_far.said]

Read(r) == ~ended /\ Len(session) < MaxSession /\ session' = Append(session, r)

ReadOther(r) ==
  /\ r.kind # "operator"
  /\ Read(r)
  /\ cycle' = Noted(cycle, r, Len(session'))
  /\ response' = Noted(response, r, Len(session'))
  /\ UNCHANGED <<family, earlier, prior, open, units, ended>>

(* closeResponse: with no unit open the accumulator is left as it is. *)
Closed(next) ==
  IF open = 0 THEN units
  ELSE [units EXCEPT ![open].context.response = response, ![open].context.next = next]

(* Mutant: the failed calls are not reset. *)
Roll_KeepsFailures ==
  /\ earlier' = cycle.writes
  /\ cycle' = [Quiet EXCEPT !.failed = cycle.failed]
  /\ prior' = Len(session')

(* The window rolls before the turn is emitted or passed over. *)
Roll ==
  /\ earlier' = cycle.writes
  /\ cycle' = Quiet
  /\ prior' = Len(session')

Context == [NoContext EXCEPT !.prior = prior, !.cycle = cycle, !.earlier = earlier]

ReadTurn(r) ==
  /\ r.kind = "operator"
  /\ Read(r)
  /\ response' = IF open = 0 THEN response ELSE Quiet
  /\ Roll
  /\ IF r.sampled
     THEN /\ units' = Append(Closed(Len(session')),
                        [at |-> Len(session'),
                         turn |-> Cardinality({i \in DOMAIN session' : session'[i].kind = "operator"}),
                         context |-> IF family = "obligation" THEN NoContext ELSE Context])
          /\ open' = IF family = "pollution" THEN Len(units') ELSE 0
     ELSE units' = Closed(Len(session')) /\ open' = 0
  /\ UNCHANGED <<family, ended>>

EndSession ==
  /\ ~ended
  /\ ended' = TRUE
  /\ units' = Closed(0)
  /\ response' = IF open = 0 THEN response ELSE Quiet
  /\ open' = 0
  /\ UNCHANGED <<family, session, cycle, earlier, prior>>

UnitsNext ==
  \/ \E r \in UnitRecords : ReadOther(r) \/ ReadTurn(r)
  \/ EndSession

UnitsSpec == UnitsInit /\ [][UnitsNext]_unitVars

-----------------------------------------------------------------------------
(* What happened between two places of the session. *)
OperatorTurns == {i \in DOMAIN session : session[i].kind = "operator"}
TurnBefore(i) == IF \E j \in OperatorTurns : j < i
                 THEN CHOOSE j \in OperatorTurns : j < i /\ \A k \in OperatorTurns : k < i => k <= j ELSE 0
TurnAfter(i) == IF \E j \in OperatorTurns : j > i
                THEN CHOOSE j \in OperatorTurns : j > i /\ \A k \in OperatorTurns : k > i => k >= j ELSE 0

Happened(from, to) ==
  LET between == (from + 1)..(to - 1)
  IN  [writes |-> UNION {session[i].writes : i \in between},
       failed |-> Cardinality({i \in between : session[i].failed = 1}),
       interrupted |-> \E i \in between : session[i].kind = "interrupt",
       said |-> {i \in between : session[i].kind = "agent"}]

End(i) == IF TurnAfter(i) = 0 THEN Len(session) + 1 ELSE TurnAfter(i)

(* Every sampled operator turn, and no other, is one unit, in order, and a *)
(* unit carries exactly the cycle before its turn, the writes of the cycle *)
(* before that one and the turn before, whichever turns the sample passed  *)
(* over (units.go:143: the accumulators run over every record).            *)
UnitsCarryTheirCycle ==
  /\ [u \in DOMAIN units |-> units[u].at] \in [DOMAIN units -> OperatorTurns]
  /\ {units[u].at : u \in DOMAIN units} = {i \in OperatorTurns : session[i].sampled}
  /\ \A u, v \in DOMAIN units : u < v => units[u].at < units[v].at
  /\ family # "obligation" =>
       \A u \in DOMAIN units :
         LET at == units[u].at
             before == TurnBefore(at)
             context == units[u].context
         IN  /\ context.prior = before
             /\ context.cycle = Happened(before, at)
             /\ context.earlier =
                  IF before = 0 THEN {} ELSE Happened(TurnBefore(before), before).writes

(* What a closed unit shows of the response is no less than what happened  *)
(* until the next turn, which is the turn it names.                        *)
ResponsesAreNotCut ==
  \A u \in DOMAIN units :
    LET at == units[u].at
        shown == units[u].context.response
        after == Happened(at, End(at))
    IN  (family = "pollution" /\ (ended \/ TurnAfter(at) # 0)) =>
          /\ units[u].context.next = TurnAfter(at)
          /\ after.writes \subseteq shown.writes
          /\ after.failed <= shown.failed
          /\ after.interrupted => shown.interrupted

(* The context of every unit is that of its turn. *)
UnitsShowTheirCycle == UnitsCarryTheirCycle /\ ResponsesAreNotCut

(* units.go:73: the response fields describe the cycle that followed this  *)
(* operator turn.                                                          *)
ResponseIsTheCycleAfter ==
  \A u \in DOMAIN units :
    LET at == units[u].at
    IN  (family = "pollution" /\ (ended \/ TurnAfter(at) # 0)) =>
          units[u].context.response = Happened(at, End(at))
=============================================================================
