--------------------------- MODULE CircuitBreaker ---------------------------
(***************************************************************************)
(* services/resources/circuit.py under the operations of                    *)
(* ResourceManager._execute_controlled.  An operation asks, waits in the    *)
(* queues, asks again as it takes a probe's slot, runs with its retries and *)
(* reports; operations admitted in one state report in another.             *)
(***************************************************************************)
EXTENDS Integers, Sequences, FiniteSets

CONSTANTS
  Ops,                \* callers, each with one operation at a time
  FailureThreshold,   \* failure_threshold
  SuccessThreshold,   \* success_threshold
  MaxProbes,          \* half_open_max_calls
  RecoveryTimeout,    \* recovery_timeout_seconds, in ticks of the clock
  Ladder,             \* rate_limit_cooldown: records of attempts and seconds
  MaxTime,            \* bound: no pause is longer than this
  MaxOpenings         \* bound: openings beyond the ladder count as one

ASSUME OpsAssumption == IsFiniteSet(Ops)
ASSUME ThresholdsAssumption ==
  /\ FailureThreshold \in Nat \ {0} /\ SuccessThreshold \in Nat \ {0}
  /\ MaxProbes \in Nat \ {0}
ASSUME LadderAssumption ==
  /\ Ladder \in Seq([attempts: Nat \ {0}, seconds: Nat \ {0}])
  /\ MaxTime \in Nat /\ RecoveryTimeout \in 1..MaxTime
  /\ \A i \in 1..Len(Ladder) : Ladder[i].seconds <= MaxTime

(* Attempts the first i steps of the ladder stand for. *)
Attempts[i \in 0..Len(Ladder)] == IF i = 0 THEN 0 ELSE Attempts[i - 1] + Ladder[i].attempts

(* The last step of the ladder repeats. *)
ASSUME OpeningsAssumption == MaxOpenings \in Nat /\ MaxOpenings > Attempts[Len(Ladder)]

VARIABLES
  b,      \* the breaker
  pc,     \* what each caller is doing
  up,     \* the resource works
  good,   \* history: successes since the last failure, up to SuccessThreshold
  bad     \* history: failures since the last success, up to FailureThreshold

vars == <<b, pc, up, good, bad>>

PCs == {"idle", "queued", "running", "probing"}   \* the last two are one in the code
Busy == {"running", "probing"}

Breaker ==
  [state: {"closed", "open", "half_open"}, failures: Nat, successes: Nat,
   elapsed: 0..MaxTime, calls: Nat, openings: Nat]

(* _step_seconds *)
StepSeconds(opening) ==
  LET reaching == {i \in 1..Len(Ladder) : opening <= Attempts[i]}
      step == IF reaching = {} THEN Len(Ladder)
              ELSE CHOOSE i \in reaching : \A j \in reaching : i <= j
  IN IF Ladder = <<>> THEN RecoveryTimeout ELSE Ladder[step].seconds

Cooldown(c) == IF c.openings = 0 THEN RecoveryTimeout ELSE StepSeconds(c.openings)

AtMost(n, limit) == IF n < limit THEN n ELSE limit
OneFewer(n) == IF n = 0 THEN 0 ELSE n - 1

(***************************************************************************)
(* The breaker's methods, as functions of the breaker.  A definition that   *)
(* is marked as a defect is used by no specification.                       *)
(***************************************************************************)
(* The property state: OPEN becomes HALF_OPEN when it is looked at in time. *)
Look(c) ==
  IF c.state = "open" /\ c.elapsed >= Cooldown(c)
  THEN [c EXCEPT !.state = "half_open", !.calls = 0, !.successes = 0]
  ELSE c

Open(c, limited) ==
  [c EXCEPT !.state = "open", !.failures = 0, !.successes = 0, !.elapsed = 0, !.calls = 0,
            !.openings = IF limited THEN AtMost(@ + 1, MaxOpenings) ELSE 0]

Closed ==
  [state |-> "closed", failures |-> 0, successes |-> 0, elapsed |-> 0,
   calls |-> 0, openings |-> 0]

(* allows_request, and what try_acquire decides. *)
Allows(c) == c.state = "closed" \/ (c.state = "half_open" /\ c.calls < MaxProbes)

TakeSlot(c) == IF c.state = "half_open" THEN [c EXCEPT !.calls = @ + 1] ELSE c

KeepSlot(c) == c                                   \* defect: release
ReleaseSlot(c) == [c EXCEPT !.calls = OneFewer(@)]

(* on_success *)
SuccessOffByOne(c) ==                              \* defect
  IF c.state # "half_open" THEN [c EXCEPT !.failures = 0]
  ELSE IF c.successes + 2 >= SuccessThreshold THEN Closed
  ELSE [c EXCEPT !.successes = @ + 1]
OnSuccess(c) ==
  IF c.state # "half_open" THEN [c EXCEPT !.failures = 0]
  ELSE IF c.successes + 1 >= SuccessThreshold THEN Closed
  ELSE [c EXCEPT !.successes = @ + 1]

(* on_failure *)
OnFailure(c, limited) ==
  IF c.state = "half_open" \/ c.failures + 1 >= FailureThreshold THEN Open(c, limited)
  ELSE [c EXCEPT !.failures = @ + 1]

(***************************************************************************)
(* An operation                                                             *)
(***************************************************************************)
Go(o, to) == pc' = [pc EXCEPT ![o] = to]

(* The quick answer before the queues. *)
Ask(o) ==
  /\ pc[o] = "idle"
  /\ b' = Look(b)
  /\ IF Allows(b') THEN Go(o, "queued") ELSE UNCHANGED pc
  /\ UNCHANGED <<up, good, bad>>

(* A queue timed out, or the caller was cancelled. *)
LeaveQueue(o) ==
  /\ pc[o] = "queued"
  /\ Go(o, "idle")
  /\ UNCHANGED <<b, up, good, bad>>

(* try_acquire, when the queues let the operation through. *)
Start(o) ==
  LET seen == Look(b)
  IN /\ pc[o] = "queued"
     /\ IF Allows(seen)
        THEN b' = TakeSlot(seen) /\ Go(o, IF seen.state = "closed" THEN "running" ELSE "probing")
        ELSE b' = seen /\ Go(o, "idle")
     /\ UNCHANGED <<up, good, bad>>

Succeed(o) ==
  /\ pc[o] \in Busy /\ up
  /\ b' = ReleaseSlot(OnSuccess(Look(b)))
  /\ Go(o, "idle")
  /\ good' = AtMost(good + 1, SuccessThreshold) /\ bad' = 0
  /\ UNCHANGED up

(* The retries are used up on an error of an availability category. *)
Fail(o) ==
  /\ pc[o] \in Busy /\ ~up
  /\ \E limited \in BOOLEAN : b' = ReleaseSlot(OnFailure(Look(b), limited))
  /\ Go(o, "idle")
  /\ bad' = AtMost(bad + 1, FailureThreshold) /\ good' = 0
  /\ UNCHANGED up

(* The answer says nothing of the resource, or the caller was cancelled.    *)
EndUncounted(o) ==
  /\ pc[o] \in Busy
  /\ b' = ReleaseSlot(b)
  /\ Go(o, "idle")
  /\ UNCHANGED <<up, good, bad>>

(* Time passes: it matters while the breaker is open. *)
Tick ==
  /\ b.state = "open" /\ b.elapsed < MaxTime
  /\ b' = [b EXCEPT !.elapsed = @ + 1]
  /\ UNCHANGED <<pc, up, good, bad>>

ResourceChanges == up' = ~up /\ UNCHANGED <<b, pc, good, bad>>

Init ==
  /\ b = Closed
  /\ pc = [o \in Ops |-> "idle"]
  /\ up \in BOOLEAN
  /\ good = 0 /\ bad = 0

Next ==
  \/ \E o \in Ops : \/ Ask(o) \/ LeaveQueue(o) \/ Start(o)
                    \/ Succeed(o) \/ Fail(o) \/ EndUncounted(o)
  \/ Tick
  \/ ResourceChanges

Spec == Init /\ [][Next]_vars

(* Time passes, and callers keep asking: the scans repeat for ever.  What   *)
(* got a slot succeeds now and then while the resource works.               *)
Fairness ==
  /\ WF_vars(Tick)
  /\ \A o \in Ops : WF_vars(Ask(o)) /\ SF_vars(Start(o)) /\ SF_vars(Succeed(o))

FairSpec == Spec /\ Fairness

(***************************************************************************)
(* Properties                                                               *)
(***************************************************************************)
Probing == {o \in Ops : pc[o] = "probing"}

(* The counters keep their ranges: none reaches the threshold it is         *)
(* compared with.                                                           *)
TypeOK ==
  /\ b \in Breaker
  /\ b.failures < FailureThreshold /\ b.successes < SuccessThreshold
  /\ b.calls <= MaxProbes
  /\ pc \in [Ops -> PCs]
  /\ up \in BOOLEAN
  /\ good \in 0..SuccessThreshold /\ bad \in 0..FailureThreshold

(* A probe's slot is never taken for good: as many probes run as slots are  *)
(* counted, however the probes ended and whatever the breaker did meanwhile *)
(* (release in circuit.py).                                                 *)
SlotsBelongToProbes == b.calls <= Cardinality(Probing)

(* The breaker closes only on SuccessThreshold successes with no failure    *)
(* between them, though operations of earlier states report as well.        *)
ClosesAfterStreak ==
  [][b.state # "closed" /\ b'.state = "closed" => good' = SuccessThreshold]_vars

(* It opens a closed circuit only on FailureThreshold failures with no      *)
(* success between them.                                                    *)
OpensAfterStreak ==
  [][b.state = "closed" /\ b'.state = "open" => bad' = FailureThreshold]_vars

(* A resource that works again and goes on working is used again: the       *)
(* circuit closes and stays closed.                                         *)
ResourceReturns == <>[]up => <>[](b.state = "closed")

(***************************************************************************)
(* What the comments of the code say and the code does not do               *)
(***************************************************************************)
(* HALF_OPEN limits the number of simultaneous probes (try_acquire).        *)
ProbesBounded == b.state = "half_open" => Cardinality(Probing) <= MaxProbes

(* A step of the ladder counts probes in a row (CooldownStep): the pause    *)
(* grows when the resource refuses a closed circuit's operations or a probe, *)
(* and not with reports of operations that were admitted before.            *)
RungsAreProbes ==
  [][b'.openings > b.openings =>
       b.state = "closed" \/ \E o \in Ops : pc[o] = "probing" /\ pc'[o] = "idle"]_vars
=============================================================================
