---------------------------- MODULE Confirmation ----------------------------
(***************************************************************************)
(* From a found opportunity to its verdict: the hand-off of Level 1, the    *)
(* queue and the tasks of the Level 2 worker, the scanner's three writes,   *)
(* the opportunity service, shutdown, crash and the recovery at the next    *)
(* start.  opp, job, saved and told are rows of the database and outlive    *)
(* the process; pc and result are memory.  A task gives way at every await, *)
(* so each of its writes is an action.                                      *)
(***************************************************************************)
EXTENDS Integers, FiniteSets

CONSTANTS
  Opps,             \* opportunities
  MaxParallel,      \* level2.max_parallel: checks at a time
  QueueCapacity,    \* level2.queue_capacity: accepted jobs at a time
  Results,          \* what the check of all amounts may find
  MaxStops,         \* bound: shutdowns and crashes
  MaxFaults,        \* bound: exceptions and abandoned hand-offs
  MaxLate           \* bound: deadlines that pass

ASSUME LimitsAssumption ==
  /\ MaxParallel \in Nat \ {0}
  /\ QueueCapacity \in Nat \ {0}
  /\ MaxStops \in Nat /\ MaxFaults \in Nat /\ MaxLate \in Nat

VARIABLES
  opp,        \* opportunities.status
  job,        \* level2_jobs.status
  saved,      \* level2_amount_results: the statuses of the amounts
  told,       \* opportunities whose notifications are queued
  late,       \* expires_at has passed, of a job or of an opportunity
  pc,         \* where the hand-off or the task of an opportunity is
  result,     \* what a task found and has not saved
  app,        \* the process
  dropped,    \* hand-offs and tasks that ended before their end
  stops

rows == <<opp, job, saved, told>>
memory == <<pc, result, dropped>>
process == <<app, stops>>
vars == <<rows, late, memory, process>>

AmountStatuses == {"verified_profitable", "verified_unprofitable", "unknown",
                   "failed", "expired", "route_unavailable"}
(* "cancelled" is a status nobody gets: see CancelAll and CloseDatabase. *)
JobStatuses == {"none", "queued", "running", "confirmed", "rejected",
                "failed", "expired"}
OppStatuses == {"none", "created", "verifying", "confirmed", "partial",
                "unprofitable", "route_unavailable", "expired", "failed"}
Terms == {"job", "opportunity"}

ASSUME ResultsAssumption == Results \subseteq (SUBSET AmountStatuses) \ {{}}

(* Where a task has its slot of the semaphore. *)
Checking == {"loading", "starting", "marking", "verifying", "saving",
             "closingJob", "closingOpp", "recording", "publishing"}
PCs == Checking \union {"none", "handed", "waiting"}

Notifiable == {"confirmed", "partial"}
Open == {"queued", "running"}

Late(o) == \E t \in Terms : <<o, t>> \in late
Accepted == {o \in Opps : pc[o] \notin {"none", "handed"}}
(* Defect: every accepted task counts as one that checks. *)
SlotsOfAll == Accepted
Slots == {o \in Opps : pc[o] \in Checking}

Negative == {"verified_unprofitable", "route_unavailable"}

(* job_status_for *)
JobStatusFor(s) ==
  CASE "verified_profitable" \in s -> "confirmed"
    [] s = {"expired"} -> "expired"
    [] s \subseteq Negative -> "rejected"
    [] OTHER -> "failed"

(* opportunity_status_for *)
OppStatusFor(s) ==
  IF "verified_profitable" \in s
  THEN IF s = {"verified_profitable"} THEN "confirmed" ELSE "partial"
  ELSE CASE s = {"route_unavailable"} -> "route_unavailable"
         [] s = {"expired"} -> "expired"
         [] s \subseteq Negative /\ s # {"route_unavailable"} -> "unprofitable"
         [] OTHER -> "failed"

Fault(o) ==
  /\ Cardinality(dropped) < MaxFaults
  /\ dropped' = dropped \union {o}

Go(o, next) == pc' = [pc EXCEPT ![o] = next]

(***************************************************************************)
(* Defects: plausible errors in the actions below                           *)
(***************************************************************************)
(* The task ends before its opportunity has its verdict. *)
CloseJobOnly(o) ==
  /\ pc[o] = "closingJob"
  /\ job' = [job EXCEPT ![o] = JobStatusFor(saved[o])]
  /\ Go(o, "none")
  /\ UNCHANGED <<opp, saved, told, late, result, dropped, process>>

(* Recovery takes up every job that is not confirmed. *)
RecoverAnyJob(o) ==
  /\ app = "recovering"
  /\ job[o] \in {"running", "failed"}
  /\ job' = [job EXCEPT ![o] =
               IF <<o, "job">> \in late THEN "expired" ELSE "queued"]
  /\ UNCHANGED <<opp, saved, told, late, memory, process>>

-----------------------------------------------------------------------------
(* Level 1: hand-off                                                        *)

(* OpportunityHandoff.create: opportunity and job in one transaction.       *)
(* Scans of several networks and modes hand off at the same time, each with *)
(* the capacity it read before its first one.                               *)
Create(o) ==
  /\ app = "up"
  /\ opp[o] = "none"
  /\ opp' = [opp EXCEPT ![o] = "created"]
  /\ job' = [job EXCEPT ![o] = "queued"]
  /\ Go(o, "handed")
  /\ UNCHANGED <<saved, told, late, result, dropped, process>>

(* The scan is cancelled or timed out while the transaction commits. *)
Abandon(o) ==
  /\ pc[o] = "handed"
  /\ Fault(o)
  /\ Go(o, "none")
  /\ UNCHANGED <<rows, late, result, process>>

(* Level2Worker.submit *)
Submit(o) ==
  /\ pc[o] = "handed"
  /\ Cardinality(Accepted) < QueueCapacity
  /\ Go(o, "waiting")
  /\ UNCHANGED <<rows, late, result, dropped, process>>

(* The queue is full; _create_one logs the error and goes on. *)
Refuse(o) ==
  /\ pc[o] = "handed"
  /\ Cardinality(Accepted) >= QueueCapacity
  /\ Go(o, "none")
  /\ dropped' = dropped \union {o}
  /\ UNCHANGED <<rows, late, result, process>>

-----------------------------------------------------------------------------
(* Level 2: one task                                                        *)

Enter(o) ==
  /\ pc[o] = "waiting"
  /\ Cardinality(Slots) < MaxParallel
  /\ Go(o, "loading")
  /\ UNCHANGED <<rows, late, result, dropped, process>>

(* The deadlines are read once, before anything is written. *)
Look(o) ==
  /\ pc[o] = "loading"
  /\ IF Late(o)
     THEN Go(o, "saving") /\ result' = [result EXCEPT ![o] = {"expired"}]
     ELSE Go(o, "starting") /\ UNCHANGED result
  /\ UNCHANGED <<rows, late, dropped, process>>

StartJob(o) ==
  /\ pc[o] = "starting"
  /\ job' = [job EXCEPT ![o] = "running"]
  /\ Go(o, "marking")
  /\ UNCHANGED <<opp, saved, told, late, result, dropped, process>>

StartOpp(o) ==
  /\ pc[o] = "marking"
  /\ opp' = [opp EXCEPT ![o] = "verifying"]
  /\ Go(o, "verifying")
  /\ UNCHANGED <<job, saved, told, late, result, dropped, process>>

(* _verify_amounts, or its time-out, after which every amount has failed. *)
Verify(o) ==
  /\ pc[o] = "verifying"
  /\ \E r \in Results \union {{"failed"}} : result' = [result EXCEPT ![o] = r]
  /\ Go(o, "saving")
  /\ UNCHANGED <<rows, late, dropped, process>>

(* An exception ends the task: a provider's error that nobody translates,   *)
(* or a database that stays locked.                                         *)
Raise(o) ==
  /\ pc[o] \in Checking
  /\ Fault(o)
  /\ Go(o, "none")
  /\ result' = [result EXCEPT ![o] = {}]
  /\ UNCHANGED <<rows, late, process>>

Save(o) ==
  /\ pc[o] = "saving"
  /\ saved' = [saved EXCEPT ![o] = result[o]]
  /\ result' = [result EXCEPT ![o] = {}]
  /\ Go(o, "closingJob")
  /\ UNCHANGED <<opp, job, told, late, dropped, process>>

CloseJob(o) ==
  /\ pc[o] = "closingJob"
  /\ job' = [job EXCEPT ![o] = JobStatusFor(saved[o])]
  /\ Go(o, "closingOpp")
  /\ UNCHANGED <<opp, saved, told, late, result, dropped, process>>

CloseOpp(o) ==
  /\ pc[o] = "closingOpp"
  /\ opp' = [opp EXCEPT ![o] = OppStatusFor(saved[o])]
  /\ Go(o, "recording")
  /\ UNCHANGED <<job, saved, told, late, result, dropped, process>>

(* OpportunityService.record_confirmation: the status again, or, if nothing *)
(* was queued before, the notifications.                                    *)
Record(o) ==
  /\ pc[o] = "recording"
  /\ IF OppStatusFor(saved[o]) \notin Notifiable
     THEN Go(o, "none") /\ opp' = [opp EXCEPT ![o] = OppStatusFor(saved[o])]
     ELSE /\ Go(o, IF o \in told THEN "none" ELSE "publishing")
          /\ UNCHANGED opp
  /\ UNCHANGED <<job, saved, told, late, result, dropped, process>>

(* SqliteConfirmationRepository.publish: status and notifications at once. *)
Publish(o) ==
  /\ pc[o] = "publishing"
  /\ opp' = [opp EXCEPT ![o] = OppStatusFor(saved[o])]
  /\ told' = told \union {o}
  /\ Go(o, "none")
  /\ UNCHANGED <<job, saved, late, result, dropped, process>>

-----------------------------------------------------------------------------
(* Time, shutdown and crash                                                 *)

(* Recovery reads the clock once, so time stands still while it runs. *)
Expire(o, t) ==
  /\ app # "recovering"
  /\ Cardinality(late) < MaxLate
  /\ job[o] \in Open \/ opp[o] \in {"created", "verifying"}
  /\ late' = late \union {<<o, t>>}
  /\ UNCHANGED <<rows, memory, process>>

(* Scans are cancelled, then Level2Worker.cancel_all: a task that waits for *)
(* the semaphore ends.  One that checks waits for a shielded inner task:    *)
(* the outer one ends, the inner one goes on until the process is gone.     *)
CancelAll ==
  /\ app = "up"
  /\ stops < MaxStops
  /\ app' = "stopping"
  /\ stops' = stops + 1
  /\ pc' = [o \in Opps |-> IF pc[o] \in {"handed", "waiting"} THEN "none" ELSE pc[o]]
  /\ dropped' = dropped \union {o \in Opps : pc[o] \in {"handed", "waiting"}}
  /\ UNCHANGED <<rows, late, result>>

Vanish ==
  /\ app' = "down"
  /\ pc' = [o \in Opps |-> "none"]
  /\ result' = [o \in Opps |-> {}]
  /\ dropped' = dropped \union {o \in Opps : pc[o] # "none"}
  /\ UNCHANGED <<rows, late>>

(* The database closes; what still runs cannot write any more, and its      *)
(* handlers of the cancellation fail with it.                               *)
CloseDatabase == app = "stopping" /\ Vanish /\ UNCHANGED stops

Crash ==
  /\ app \in {"up", "recovering"}
  /\ stops < MaxStops
  /\ stops' = stops + 1
  /\ Vanish

-----------------------------------------------------------------------------
(* RecoveryService.recover: interrupted jobs, overdue jobs, overdue         *)
(* opportunities, in this order, before anything else runs                  *)

Start ==
  /\ app = "down"
  /\ app' = "recovering"
  /\ UNCHANGED <<rows, late, memory, stops>>

RecoverJob(o) ==
  /\ app = "recovering"
  /\ job[o] = "running"
  /\ job' = [job EXCEPT ![o] =
               IF <<o, "job">> \in late THEN "expired" ELSE "queued"]
  /\ UNCHANGED <<opp, saved, told, late, memory, process>>

Interrupted == {o \in Opps : job[o] = "running"}
OverdueJobs == {o \in Opps : job[o] = "queued" /\ <<o, "job">> \in late}
OverdueOpps ==
  {o \in Opps : opp[o] \in {"created", "verifying"} /\ <<o, "opportunity">> \in late}

ExpireJob(o) ==
  /\ app = "recovering"
  /\ Interrupted = {}
  /\ o \in OverdueJobs
  /\ job' = [job EXCEPT ![o] = "expired"]
  /\ UNCHANGED <<opp, saved, told, late, memory, process>>

ExpireOpp(o) ==
  /\ app = "recovering"
  /\ Interrupted = {} /\ OverdueJobs = {}
  /\ o \in OverdueOpps
  /\ opp' = [opp EXCEPT ![o] = "expired"]
  /\ UNCHANGED <<job, saved, told, late, memory, process>>

Resume ==
  /\ app = "recovering"
  /\ Interrupted = {} /\ OverdueJobs = {} /\ OverdueOpps = {}
  /\ app' = "up"
  /\ UNCHANGED <<rows, late, memory, stops>>

-----------------------------------------------------------------------------
Init ==
  /\ opp = [o \in Opps |-> "none"]
  /\ job = [o \in Opps |-> "none"]
  /\ saved = [o \in Opps |-> {}]
  /\ told = {}
  /\ late = {}
  /\ pc = [o \in Opps |-> "none"]
  /\ result = [o \in Opps |-> {}]
  /\ app = "up"
  /\ dropped = {}
  /\ stops = 0

Task(o) ==
  \/ Submit(o) \/ Refuse(o) \/ Enter(o) \/ Look(o)
  \/ StartJob(o) \/ StartOpp(o) \/ Verify(o)
  \/ Save(o) \/ CloseJob(o) \/ CloseOpp(o) \/ Record(o) \/ Publish(o)

Recovery ==
  \/ Start
  \/ \E o \in Opps : RecoverJob(o) \/ ExpireJob(o) \/ ExpireOpp(o)
  \/ Resume

Next ==
  \/ \E o \in Opps : Create(o) \/ Abandon(o) \/ Task(o) \/ Raise(o)
  \/ \E o \in Opps, t \in Terms : Expire(o, t)
  \/ CancelAll \/ CloseDatabase \/ Crash
  \/ Recovery

Spec == Init /\ [][Next]_vars

(* The loop runs every task that is ready, the semaphore lets everybody in  *)
(* in turn, and a check ends by its time-out at the latest.                 *)
FairSpec ==
  /\ Spec
  /\ \A o \in Opps : WF_vars(Task(o))
  /\ WF_vars(Recovery)

-----------------------------------------------------------------------------
TypeOK ==
  /\ opp \in [Opps -> OppStatuses]
  /\ job \in [Opps -> JobStatuses]
  /\ saved \in [Opps -> SUBSET AmountStatuses]
  /\ told \subseteq Opps
  /\ late \subseteq Opps \X Terms
  /\ pc \in [Opps -> PCs]
  /\ result \in [Opps -> SUBSET AmountStatuses]
  /\ app \in {"up", "stopping", "down", "recovering"}
  /\ dropped \subseteq Opps
  /\ stops \in 0 .. MaxStops

(* Recovery closed an opportunity whose task had been ended early. *)
ExpiredUnfinished(o) == opp[o] = "expired" /\ o \in dropped /\ <<o, "opportunity">> \in late

(* The verdicts of an opportunity that go with each verdict of its job. *)
Matching == [confirmed |-> Notifiable, rejected |-> {"unprofitable", "route_unavailable"},
             failed |-> {"failed"}, expired |-> {"expired"}]

(* The three writes of _finish, the second write of the service and the two *)
(* of recovery: wherever the work is interrupted, a job that has its verdict *)
(* has an opportunity with the same one, or with none yet, and the other way *)
(* round; verdicts rest on the saved results, and nothing is announced that  *)
(* is not confirmed.  The one exception: an opportunity that recovery found  *)
(* without a verdict after its deadline is expired, whatever its job says,   *)
(* and only if its task or hand-off was ended early.                        *)
VerdictsAgree ==
  \A o \in Opps :
    /\ job[o] \in DOMAIN Matching =>
         opp[o] \in Matching[job[o]] \union {"created", "verifying"} \/ ExpiredUnfinished(o)
    /\ \A verdict \in DOMAIN Matching :
         opp[o] \in Matching[verdict] => job[o] = verdict \/ ExpiredUnfinished(o)
    /\ job[o] = "confirmed" => "verified_profitable" \in saved[o]
    /\ opp[o] \in {"unprofitable", "route_unavailable"} => saved[o] \subseteq Negative
    /\ o \in told => opp[o] \in Notifiable

(* Level 2 forgets nothing: an opportunity nobody works on has its verdict, *)
(* and its notifications if it is confirmed, unless its hand-off or task    *)
(* was ended early (full queue, exception, cancellation, crash).            *)
Settled(o) ==
  /\ job[o] \notin Open
  /\ opp[o] \notin {"created", "verifying"}
  /\ opp[o] \in Notifiable => o \in told

NothingForgotten ==
  \A o \in Opps :
    pc[o] = "none" /\ opp[o] # "none" /\ o \notin dropped => Settled(o)

(* A job the worker accepted gets its verdict and its announcement, however *)
(* the tasks before it end.                                                 *)
AcceptedIsSettled ==
  \A o \in Opps : pc[o] = "waiting" ~> (o \in dropped \/ Settled(o))

(* One verdict for each opportunity, which stands over cancellations and    *)
(* restarts, and one announcement of what is confirmed: the promise of      *)
(* Decisions.                                                               *)
Promise == INSTANCE Decisions WITH
  asked <- {o \in Opps : job[o] # "none"},
  verdict <- [o \in Opps |->
                IF job[o] \in Open \union {"none"} THEN "open" ELSE job[o]],
  announced <- told

ImplementsDecisions == Promise!Spec

-----------------------------------------------------------------------------
(* What the documentation says and the code does not keep                   *)

(* A queued job is taken up again after a restart. *)
QueuedIsTaken ==
  \A o \in Opps :
    (app = "up" /\ stops > 0 /\ job[o] = "queued")
      ~> (job[o] # "queued" \/ app # "up")

(* A check that runs when all jobs are cancelled finds nothing any more. *)
CancelledStops ==
  [][\A o \in Opps :
       app = "stopping" /\ pc[o] = "verifying" => pc'[o] # "saving"]_vars

(* An opportunity and its job never give different verdicts.  After a crash  *)
(* between the two writes and the deadline, recovery expires the opportunity *)
(* of a job that is confirmed, rejected or failed.                          *)
VerdictsNeverDiffer ==
  \A o \in Opps : opp[o] = "expired" => job[o] \in Open \union {"expired"}

(* What is confirmed and no longer worked on has its notifications. *)
ConfirmedIsAnnounced ==
  \A o \in Opps : opp[o] \in Notifiable /\ pc[o] = "none" => o \in told
=============================================================================
