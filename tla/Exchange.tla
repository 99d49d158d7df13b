------------------------------ MODULE Exchange ------------------------------
(***************************************************************************)
(* The record clock of one stream, as state.Projector keeps it: the record *)
(* sequence, the operator-turn ordinal and the epoch.                      *)
(*                                                                         *)
(* Projector.Push receives records of three kinds: an operator turn, an    *)
(* agent record, and anything else (a tool result, a shell escape, an      *)
(* interruption marker).  The component modules extend this one and give   *)
(* each kind of record its effect on their own state; the actions below    *)
(* are the part of the effect all of them share.                           *)
(***************************************************************************)
EXTENDS Integers, FiniteSets

CONSTANTS
  MaxRecords,  \* bound on the records of a behaviour
  MaxEpoch     \* bound on the resets of a behaviour

ASSUME ExchangeBounds == MaxRecords \in Nat /\ MaxEpoch \in Nat

VARIABLES
  seq,           \* p.seq: records pushed so far
  turnIndex,     \* p.turnIndex: operator turns pushed so far
  epoch,         \* p.epoch
  phase          \* "live"; "finished" after Finish; "panicked" after a panic

exchangeVars == <<seq, turnIndex, epoch, phase>>

ExchangeTypeOK ==
  /\ seq \in 0..MaxRecords
  /\ turnIndex \in 0..MaxRecords
  /\ turnIndex <= seq
  /\ epoch \in 0..MaxEpoch
  /\ phase \in {"live", "finished", "panicked"}

ExchangeInit ==
  /\ seq = 0
  /\ turnIndex = 0
  /\ epoch = 0
  /\ phase = "live"

(* Every record takes the next sequence number. *)
TakeRecord ==
  /\ phase = "live"
  /\ seq < MaxRecords
  /\ seq' = seq + 1
  /\ UNCHANGED phase

(* An operator turn; one that carries the reset marker ends the epoch. *)
OperatorRecord(reset) ==
  /\ TakeRecord
  /\ turnIndex' = turnIndex + 1
  /\ reset => epoch < MaxEpoch
  /\ epoch' = IF reset THEN epoch + 1 ELSE epoch

(* Any other record: an agent record, a tool record, a sidechain record, a *)
(* shell escape or an interruption.                                        *)
OtherRecord ==
  /\ TakeRecord
  /\ UNCHANGED <<turnIndex, epoch>>

(* The projector stops: at the end of the source, or with a panic. *)
StopAs(outcome) ==
  /\ phase = "live"
  /\ phase' = outcome
  /\ UNCHANGED <<seq, turnIndex, epoch>>
=============================================================================
