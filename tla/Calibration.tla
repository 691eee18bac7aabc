----------------------------- MODULE Calibration -----------------------------
(***************************************************************************)
(* The correction of gas estimates of one network and provider              *)
(* (services/gas/calibration.py): receipts of trades are summed up, the sums *)
(* are halved when they are too many, and each new sum replaces the row in   *)
(* the database.  The deals and the watcher record at the same time; a new   *)
(* process starts with the row.                                             *)
(***************************************************************************)
EXTENDS Integers, Sequences

CONSTANTS
  MinSamples, MaxSamples,     \* min_samples, max_samples
  QuotedGas,                  \* what the quotes estimate
  Real,                       \* the two costs that routes may really have
  MaxSaves                    \* bound: recorders at the same time

VARIABLES
  memory, stored,             \* sums: GasCalibration._samples and the row
  saving,                     \* saves that wait for the database
  cost                        \* what routes really cost now

vars == <<memory, stored, saving, cost>>

(* fresh is history: measurements since the cost changed, up to MaxSamples. *)
NoSample == [samples |-> 0, quoted |-> 0, actual |-> 0, fresh |-> 0]

(* GasCalibration.factor: measured or configured. *)
Measured(s) == s.samples >= MinSamples /\ s.quoted > 0

AtMost(n, limit) == IF n < limit THEN n ELSE limit

(* Defect: the sums are halved one too soon. *)
HalvedEarly(s) ==
  IF s.samples < MaxSamples THEN s
  ELSE [s EXCEPT !.samples = @ \div 2, !.quoted = @ \div 2, !.actual = @ \div 2]
Halved(s) ==
  IF s.samples <= MaxSamples THEN s
  ELSE [s EXCEPT !.samples = @ \div 2, !.quoted = @ \div 2, !.actual = @ \div 2]

Sum(s, actual) ==
  Halved([samples |-> s.samples + 1, quoted |-> s.quoted + QuotedGas,
          actual |-> s.actual + actual, fresh |-> AtMost(s.fresh + 1, MaxSamples)])

(* record, up to its await. *)
Record ==
  /\ Len(saving) < MaxSaves
  /\ memory' = Sum(memory, cost)
  /\ saving' = Append(saving, memory')
  /\ UNCHANGED <<stored, cost>>

(* The lock of the database lets the saves through in their order. *)
Saved ==
  /\ saving # <<>>
  /\ stored' = Head(saving) /\ saving' = Tail(saving)
  /\ UNCHANGED <<memory, cost>>

SaveFails ==
  /\ saving # <<>>
  /\ saving' = Tail(saving)
  /\ UNCHANGED <<memory, stored, cost>>

(* A new process: load. *)
Restart ==
  /\ memory' = stored /\ saving' = <<>>
  /\ UNCHANGED <<stored, cost>>

Stale(s) == [s EXCEPT !.fresh = 0]
RoutesChange ==
  /\ cost' \in Real \ {cost}
  /\ memory' = Stale(memory) /\ stored' = Stale(stored)
  /\ saving' = [i \in DOMAIN saving |-> Stale(saving[i])]

Init ==
  /\ stored = NoSample /\ memory = NoSample /\ saving = <<>>
  /\ cost \in Real

Next == Record \/ Saved \/ SaveFails \/ Restart \/ RoutesChange

Spec == Init /\ [][Next]_vars

(***************************************************************************)
(* Properties                                                               *)
(***************************************************************************)
(* The correction follows the routes, it is no average of all times: after   *)
(* MaxSamples measurements the factor is nearer to the new cost than to the  *)
(* other one, whatever was summed up before (max_samples in fees.py).        *)
FactorFollowsRoutes ==
  Measured(memory) /\ memory.fresh = MaxSamples =>
    \A other \in Real \ {cost} :
      LET twice == 2 * memory.actual * QuotedGas
          middle == (cost + other) * memory.quoted
      IN IF cost > other THEN twice > middle ELSE twice < middle

(* Once there are enough measurements they stay enough: neither halving nor  *)
(* a restart after a successful save goes back to the configured factor.     *)
StaysMeasured ==
  /\ Measured(memory) => Measured(memory') \/ ~Measured(stored)
  /\ Measured(stored) => Measured(stored')
MeasurementStays == [][StaysMeasured]_vars
=============================================================================
