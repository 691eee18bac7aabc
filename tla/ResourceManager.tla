--------------------------- MODULE ResourceManager ---------------------------
(***************************************************************************)
(* services/resources: how the manager leads a request past its gates, the  *)
(* rate limiter, the circuit breaker and its retries, and how requests with *)
(* one deduplication key share one operation.                               *)
(*                                                                         *)
(* The order of service at a gate is that of PriorityGate and the verdicts  *)
(* of the breaker are those of CircuitBreaker: here a gate has slots and    *)
(* the breaker agrees or does not.  Time is relative: a second passes for   *)
(* everyone who sleeps.  A request is refilled one unit a second.           *)
(***************************************************************************)
EXTENDS Integers, FiniteSets

CONSTANTS
  Calls,          \* callers of execute, each of them once
  Keyed,          \* those with a deduplication key, all of them the same
  Resources, Resource,  \* the resource of a call
  GlobalLimit,    \* global_max_concurrent_requests
  Limit,          \* max_concurrent of a resource
  Burst,          \* ResourceLimits.burst
  MinInterval,    \* ResourceLimits.min_interval_seconds
  MaxAttempts,    \* RetryConfig.max_attempts
  MaxDelay        \* bound: seconds of a backoff or of Retry-After

VARIABLES
  caller,    \* where a caller is
  joined,    \* the operation a caller waits for: that of the first caller
  inFlight,  \* InFlightRegistry: the operation of the key, if any
  op,        \* where the operation of a caller is
  held,      \* what an operation holds
  used,      \* slots given away, by gate and by breaker
  sleep,     \* seconds an operation still sleeps
  attempts,  \* attempts it began
  bucket,    \* RateLimiter of a resource
  paid       \* history: units an operation reserved

vars == <<caller, joined, inFlight, op, held, used, sleep, attempts, bucket, paid>>

Nobody == "nobody"
Own(o) == Resource[o]
Global == <<"global">>
Gate(r) == <<"gate", r>>
Probe(r) == <<"probe", r>>
Gates == {Global} \cup {Gate(r) : r \in Resources}
Slots == Gates \cup {Probe(r) : r \in Resources}

(***************************************************************************)
(* RateLimiter.reserve: the slot of a request, in seconds from now          *)
(***************************************************************************)

Slot(bk) ==
  LET ready == IF bk.tokens >= 1 THEN 0 ELSE 1 - bk.tokens     \* one unit a second
      apart == bk.last + MinInterval
  IN IF apart > ready THEN apart ELSE ready

Reserve(o, next) ==
  LET r == Own(o)
      slot == Slot(bucket[r])
  IN /\ bucket' = [bucket EXCEPT ![r] = [tokens |-> @.tokens - 1, last |-> slot]]
     /\ sleep' = [sleep EXCEPT ![o] = slot]
     /\ op' = [op EXCEPT ![o] = next]
     /\ paid' = [paid EXCEPT ![o] = @ + 1]

(* _refill, and the seconds of everyone who sleeps. *)
Tick ==
  /\ bucket' = [r \in Resources |->
                  [tokens |-> IF bucket[r].tokens < Burst THEN bucket[r].tokens + 1 ELSE Burst,
                   last |-> IF bucket[r].last > -MinInterval THEN bucket[r].last - 1
                            ELSE -MinInterval]]
  /\ sleep' = [o \in Calls |-> IF sleep[o] > 0 THEN sleep[o] - 1 ELSE 0]
  /\ UNCHANGED <<caller, joined, inFlight, op, held, used, attempts, paid>>

(***************************************************************************)
(* Slots                                                                    *)
(***************************************************************************)
Take(o, slots) ==
  /\ held' = [held EXCEPT ![o] = @ \cup slots]
  /\ used' = [s \in Slots |-> IF s \in slots THEN used[s] + 1 ELSE used[s]]

(* Defect: an operation that ends keeps the permission of the breaker. *)
GivenGates(o) == held[o] \cap Gates

(* The finally clauses of _execute_controlled. *)
Given(o) == held[o]

(* An operation ends: its slots are given back, whoever waits for it gets    *)
(* the answer, and the first caller takes the key out of the registry.       *)
Waiting(o) == {c \in Calls : caller[c] = "waiting" /\ joined[c] = o}

(* Defect: the answer goes to the first caller. *)
FirstOnly(o) == {c \in {o} : caller[c] = "waiting"}

Answered(o) == Waiting(o)

End(o) ==
  /\ op' = [op EXCEPT ![o] = "ended"]
  /\ held' = [held EXCEPT ![o] = {}]
  /\ used' = [s \in Slots |-> IF s \in Given(o) THEN used[s] - 1 ELSE used[s]]
  /\ sleep' = [sleep EXCEPT ![o] = 0]
  /\ caller' = [c \in Calls |-> IF c \in Answered(o) THEN "answered" ELSE caller[c]]
  /\ inFlight' = IF inFlight = o THEN Nobody ELSE inFlight
  /\ UNCHANGED <<joined, attempts, bucket, paid>>

(***************************************************************************)
(* execute                                                                  *)
(***************************************************************************)
Init ==
  /\ caller = [c \in Calls |-> "idle"] /\ joined = [c \in Calls |-> Nobody]
  /\ inFlight = Nobody
  /\ op = [c \in Calls |-> "none"] /\ held = [c \in Calls |-> {}]
  /\ used = [s \in Slots |-> 0]
  /\ sleep = [c \in Calls |-> 0] /\ attempts = [c \in Calls |-> 0]
  /\ bucket = [r \in Resources |-> [tokens |-> Burst, last |-> -MinInterval]]
  /\ paid = [c \in Calls |-> 0]

(* InFlightRegistry.run: the first caller begins the operation, a later one  *)
(* joins it.                                                                 *)
Call(c) ==
  /\ caller[c] = "idle"
  /\ caller' = [caller EXCEPT ![c] = "waiting"]
  /\ \/ /\ c \in Keyed /\ inFlight # Nobody
        /\ joined' = [joined EXCEPT ![c] = inFlight]
        /\ UNCHANGED <<inFlight, op>>
     \/ /\ c \in Keyed => inFlight = Nobody
        /\ joined' = [joined EXCEPT ![c] = c]
        /\ op' = [op EXCEPT ![c] = "gate"]
        /\ inFlight' = IF c \in Keyed THEN c ELSE inFlight
  /\ UNCHANGED <<held, used, sleep, attempts, bucket, paid>>

(* The gate of the resource, then a place in its budget. *)
EnterGate(o) ==
  /\ op[o] = "gate" /\ used[Gate(Own(o))] < Limit
  /\ Take(o, {Gate(Own(o))})
  /\ Reserve(o, "paying")
  /\ UNCHANGED <<caller, joined, inFlight, attempts>>

(* The breaker refuses at once, or a gate does not let the request in.       *)
Refuse(o) == op[o] \in {"gate", "global"} /\ End(o)

Wake(o) ==
  /\ op[o] = "paying" /\ sleep[o] = 0
  /\ op' = [op EXCEPT ![o] = "global"]
  /\ UNCHANGED <<caller, joined, inFlight, held, used, sleep, attempts, bucket, paid>>

(* The global gate, then the permission of the breaker (or Refuse). *)
EnterGlobal(o) ==
  /\ op[o] = "global" /\ used[Global] < GlobalLimit
  /\ Take(o, {Global, Probe(Own(o))})
  /\ op' = [op EXCEPT ![o] = "running"]
  /\ attempts' = [attempts EXCEPT ![o] = 1]
  /\ UNCHANGED <<caller, joined, inFlight, sleep, bucket, paid>>

(* The attempt succeeds, fails for good, or was the last one. *)
Finish(o) == op[o] = "running" /\ End(o)

(* should_retry and _backoff, which keeps every slot. *)
Backoff(o) ==
  /\ op[o] = "running" /\ attempts[o] < MaxAttempts
  /\ op' = [op EXCEPT ![o] = "backoff"]
  /\ \E delay \in 0..MaxDelay : sleep' = [sleep EXCEPT ![o] = delay]
  /\ UNCHANGED <<caller, joined, inFlight, held, used, attempts, bucket, paid>>

(* _await_rate_limit of a retry. *)
PayAgain(o) ==
  /\ op[o] = "backoff" /\ sleep[o] = 0
  /\ Reserve(o, "repaying")
  /\ UNCHANGED <<caller, joined, inFlight, held, used, attempts>>

Again(o) ==
  /\ op[o] = "repaying" /\ sleep[o] = 0
  /\ op' = [op EXCEPT ![o] = "running"]
  /\ attempts' = [attempts EXCEPT ![o] = @ + 1]
  /\ UNCHANGED <<caller, joined, inFlight, held, used, sleep, bucket, paid>>

(***************************************************************************)
(* Cancellation.  The operation of a key is shielded: a caller leaves, the   *)
(* operation goes on, and the first caller takes the key away with it.       *)
(***************************************************************************)
CancelKeyed(c) ==
  /\ c \in Keyed /\ caller[c] = "waiting"
  /\ caller' = [caller EXCEPT ![c] = "cancelled"]
  /\ inFlight' = IF inFlight = c THEN Nobody ELSE inFlight
  /\ UNCHANGED <<joined, op, held, used, sleep, attempts, bucket, paid>>

CancelOwn(c) ==
  /\ c \notin Keyed /\ caller[c] = "waiting"
  /\ End(c)

Step(o) == EnterGate(o) \/ Wake(o) \/ EnterGlobal(o) \/ Finish(o) \/ Backoff(o)
             \/ PayAgain(o) \/ Again(o) \/ Refuse(o)

Next == \/ Tick
        \/ \E c \in Calls : Call(c) \/ Step(c) \/ CancelKeyed(c) \/ CancelOwn(c)

Spec == Init /\ [][Next]_vars

(* Time passes, and an operation that can go on does: a sleeper wakes, an    *)
(* attempt ends by its timeout, a waiter by that of its queue.               *)
Fairness == WF_vars(Tick) /\ \A o \in Calls : WF_vars(Step(o))

FairSpec == Spec /\ Fairness

(***************************************************************************)
(* Properties                                                               *)
(***************************************************************************)
(* Every variable keeps its type. *)
TypeOK ==
  /\ caller \in [Calls -> {"idle", "waiting", "answered", "cancelled"}]
  /\ op \in [Calls -> {"none", "gate", "paying", "global", "running", "backoff", "repaying",
                       "ended"}]
  /\ held \in [Calls -> SUBSET Slots] /\ sleep \in [Calls -> Nat]
  /\ attempts \in [Calls -> 0..MaxAttempts]

(* The slots of the gates and the permissions of the breakers that are given *)
(* away are those that operations still hold, wherever an operation was when *)
(* it ended or was cancelled, and never more than there are.                 *)
SlotsReturned ==
  /\ \A s \in Slots : used[s] = Cardinality({o \in Calls : s \in held[o]})
  /\ used[Global] <= GlobalLimit
  /\ \A r \in Resources : used[Gate(r)] <= Limit /\ used[Probe(r)] <= used[Global]

(* Two operations that wait for their turn at one resource wait for turns at *)
(* least the pause apart, in whatever order retries and newcomers reserved.  *)
PausesApart ==
  \A o, p \in Calls :
    o # p /\ Own(o) = Own(p) /\ {op[o], op[p]} \subseteq {"paying", "repaying"}
      /\ sleep[o] > 0 /\ sleep[p] >= sleep[o] => sleep[p] - sleep[o] >= MinInterval

(* Each attempt has paid for its own place in the budget of the resource.    *)
AttemptsPaid == \A o \in Calls : attempts[o] <= paid[o]

(* All three and the types, for retries as for first attempts and whoever is *)
(* cancelled when (_execute_controlled, _run_with_retry, RateLimiter.reserve). *)
LimitsAreKept == TypeOK /\ SlotsReturned /\ PausesApart /\ AttemptsPaid

(* Whoever asks is answered or gives up, also when the caller whose          *)
(* operation it joined has gone.                                             *)
CallersAreAnswered == \A c \in Calls : caller[c] = "waiting" ~> caller[c] # "waiting"

(***************************************************************************)
(* What comments say and the code does not do                               *)
(***************************************************************************)
(* Requests of one key are one operation (dedup.py:3).  A first caller that  *)
(* is cancelled takes the key away while its operation goes on.              *)
OneOperation ==
  Cardinality({o \in Keyed : op[o] \notin {"none", "ended"}}) <= 1

(* Who waits for its share of the budget holds no slot of the ceiling        *)
(* (manager.py:171).  A retry does.                                          *)
NoIdleCeiling ==
  \A o \in Calls : op[o] \in {"paying", "repaying"} => Global \notin held[o]

(* Requests leave at least the pause apart (limits.py:22).  The turn is      *)
(* reserved before the global gate, where those who have had theirs gather.  *)
StartsApart ==
  [][\A o, p \in Calls : o # p /\ Own(o) = Own(p) /\ MinInterval > 0
       /\ op[o] = "global" /\ op[p] = "global" => op'[o] = "global" \/ op'[p] = "global"]_vars
=============================================================================
