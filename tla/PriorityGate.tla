---------------------------- MODULE PriorityGate ----------------------------
(***************************************************************************)
(* services/resources/gate.py: the queue in front of a resource.  A slot    *)
(* that is released is handed to the first waiter by setting its future;    *)
(* the waiter's task runs later, and may have been cancelled or timed out   *)
(* in between.                                                              *)
(***************************************************************************)
EXTENDS Naturals, FiniteSets

CONSTANTS
  Requests,     \* calls of acquire
  Priority,     \* rank of a request's priority: the lower, the sooner
  Limit,        \* operations at a time
  Capacity      \* waiters at a time

ASSUME RequestsAssumption == IsFiniteSet(Requests) /\ Priority \in [Requests -> Nat]
ASSUME LimitsAssumption == Limit \in Nat \ {0} /\ Capacity \in Nat \ {0}

VARIABLES
  pc,         \* where a request is
  active,     \* _active
  waiters,    \* _waiters: those whose future is not set
  ticket,     \* a waiter's tiebreaker: the place in the order of arrival
  sequence    \* _sequence

vars == <<pc, active, waiters, ticket, sequence>>

PCs == {"new", "waiting", "granted", "running", "done", "failed"}

(* ordering_key, then the tiebreaker. *)
Ahead(r, s) ==
  \/ Priority[r] < Priority[s]
  \/ Priority[r] = Priority[s] /\ ticket[r] < ticket[s]

(* The head of the heap; before it, a defect: a stack. *)
LastComeFirst(r) == r \in waiters /\ \A s \in waiters \ {r} : ticket[s] < ticket[r]
First(r) == r \in waiters /\ \A s \in waiters \ {r} : Ahead(r, s)

Holding == {r \in Requests : pc[r] \in {"granted", "running"}}

(* release: the slot goes to the first waiter, or becomes free. *)
Release(r, next) ==
  \/ \E s \in waiters :
       /\ First(s)
       /\ waiters' = waiters \ {s}
       /\ pc' = [pc EXCEPT ![r] = next, ![s] = "granted"]
       /\ UNCHANGED active
  \/ /\ waiters = {}
     /\ active' = active - 1
     /\ pc' = [pc EXCEPT ![r] = next]
     /\ UNCHANGED waiters

(***************************************************************************)
(* acquire                                                                  *)
(***************************************************************************)
Enter(r) ==
  /\ pc[r] = "new"
  /\ active < Limit /\ waiters = {}
  /\ active' = active + 1
  /\ pc' = [pc EXCEPT ![r] = "running"]
  /\ UNCHANGED <<waiters, ticket, sequence>>

(* resource_queue_overflow *)
Overflow(r) ==
  /\ pc[r] = "new"
  /\ active >= Limit \/ waiters # {}
  /\ Cardinality(waiters) >= Capacity
  /\ pc' = [pc EXCEPT ![r] = "failed"]
  /\ UNCHANGED <<active, waiters, ticket, sequence>>

Wait(r) ==
  /\ pc[r] = "new"
  /\ active >= Limit \/ waiters # {}
  /\ Cardinality(waiters) < Capacity
  /\ sequence' = sequence + 1
  /\ ticket' = [ticket EXCEPT ![r] = sequence']
  /\ waiters' = waiters \cup {r}
  /\ pc' = [pc EXCEPT ![r] = "waiting"]
  /\ UNCHANGED active

(* The task of a waiter whose future is set goes on. *)
Resume(r) ==
  /\ pc[r] = "granted"
  /\ pc' = [pc EXCEPT ![r] = "running"]
  /\ UNCHANGED <<active, waiters, ticket, sequence>>

(* _discard after a timeout or a cancellation: the waiter leaves the heap,  *)
GiveUpWaiting(r) ==
  /\ pc[r] = "waiting"
  /\ waiters' = waiters \ {r}
  /\ pc' = [pc EXCEPT ![r] = "failed"]
  /\ UNCHANGED <<active, ticket, sequence>>

(* or, if its future was set before its task could run, passes the slot on. *)
GiveUpGranted(r) ==
  /\ pc[r] = "granted"
  /\ Release(r, "failed")
  /\ UNCHANGED <<ticket, sequence>>

(* The caller's operation ended, with a result or an exception. *)
Finish(r) ==
  /\ pc[r] = "running"
  /\ Release(r, "done")
  /\ UNCHANGED <<ticket, sequence>>

Init ==
  /\ pc = [r \in Requests |-> "new"]
  /\ active = 0
  /\ waiters = {}
  /\ ticket = [r \in Requests |-> 0]
  /\ sequence = 0

Next ==
  \E r \in Requests :
    \/ Enter(r) \/ Overflow(r) \/ Wait(r) \/ Resume(r)
    \/ GiveUpWaiting(r) \/ GiveUpGranted(r) \/ Finish(r)

Spec == Init /\ [][Next]_vars

(* A task that can run is run, and every operation ends: its request has a  *)
(* timeout.  Nothing obliges a waiter to give up.                           *)
Fairness == \A r \in Requests : WF_vars(Resume(r) \/ Finish(r))

FairSpec == Spec /\ Fairness

(***************************************************************************)
(* Properties                                                               *)
(***************************************************************************)
TypeOK ==
  /\ pc \in [Requests -> PCs]
  /\ active \in 0..Limit
  /\ waiters \subseteq Requests
  /\ ticket \in [Requests -> Nat]
  /\ sequence \in Nat

(* No slot is lost and none is given twice: the counter is the number of    *)
(* requests that run or were granted a slot, whoever gave up and when       *)
(* (release and _discard in gate.py).                                       *)
SlotsAccounted == active = Cardinality(Holding)

(* No slot lies idle while somebody waits for one, and the waiters are the  *)
(* requests that really still wait, at most Capacity of them.               *)
NoIdleSlot ==
  /\ waiters # {} => active = Limit
  /\ waiters = {r \in Requests : pc[r] = "waiting"}
  /\ Cardinality(waiters) <= Capacity

(* No step lets a request in while one that is ahead of it goes on waiting: *)
(* a newcomer does not pass the queue, and a slot that is handed on goes to *)
(* the most urgent waiter, the oldest of those (gate.py, acquire).          *)
NoOvertaking ==
  [][\A r, s \in Requests :
       r \in Holding' \ Holding /\ s \in waiters /\ s \in waiters' =>
         r \in waiters /\ Ahead(r, s)]_vars

(* A request that waits gets its slot or gives up: one that does neither    *)
(* would mean a wake-up lost between release and the waiter's task.         *)
WaitersAreServed ==
  \A r \in Requests : pc[r] = "waiting" ~> pc[r] \in {"running", "done", "failed"}

(* The gate implements what a gate promises. *)
P == INSTANCE Permits WITH waiting <- waiters, holding <- Holding
ImplementsPermits == P!Spec
=============================================================================
