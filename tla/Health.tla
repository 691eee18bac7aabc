------------------------------- MODULE Health -------------------------------
(***************************************************************************)
(* services/health/monitor.py and services/notifications/system.py: what    *)
(* the program holds true of its providers, with a hysteresis between the   *)
(* thresholds of failure and of recovery, and what it tells the operator of *)
(* it: changes, reminders, recoveries, in messages that may be lost.        *)
(***************************************************************************)
EXTENDS Naturals

CONSTANTS
  Providers,
  DegradedAt, FailedAt, RecoveredAt,  \* the thresholds of HealthConfig
  Repeat        \* repeat_interval_seconds, in ticks of the clock

VARIABLES
  phase,      \* "probing": the start, "ready", "running"
  health,     \* HealthMonitor._providers: status and streaks
  reported,   \* SystemNotifier._reported: the status and its age
  snapshot,   \* ApplicationHealth that notify_health works through
  told,       \* history: the last the operator heard of a provider
  unsaid,     \* history: the message of the start was not delivered
  recent      \* history: what came of the last calls, the newest first

vars == <<phase, health, reported, snapshot, told, unsaid, recent>>

Unseen == "unseen"
Statuses == {"unknown", "healthy", "recovering", "degraded", "unavailable"}
Good == {"healthy", "recovering"}      \* _PROVIDER_OK
AtMost(n, limit) == IF n < limit THEN n ELSE limit

(* The history knows outcomes only, no counters: as many of the last ones as *)
(* the longest streak that decides anything.                                 *)
Depth == IF FailedAt >= RecoveredAt THEN FailedAt ELSE RecoveredAt
Outcomes == {"good", "bad"}
Came(p, outcome) ==
  recent' = [recent EXCEPT ![p] = [i \in 1..Depth |-> IF i = 1 THEN outcome ELSE @[i - 1]]]
InARow(p, outcome, n) == \A i \in 1..n : recent[p][i] = outcome

(***************************************************************************)
(* HealthMonitor                                                            *)
(***************************************************************************)
Known(p) == IF health[p].status = Unseen THEN "unknown" ELSE health[p].status

(* _status_after_failure *)
AfterFailure(current, failures) ==
  IF failures >= FailedAt THEN "unavailable"
  ELSE IF failures >= DegradedAt THEN "degraded" ELSE current

(* _status_after_success *)
AfterSuccess(current, successes) ==
  IF successes >= RecoveredAt THEN "healthy"
  ELSE IF current \in {"unavailable", "unknown"} THEN "recovering" ELSE current

(* record_provider_success, record_provider_failure: each count starts again  *)
(* with the other's outcome.                                                 *)
(* Defect: a success leaves the failures before it in the count.             *)
SucceededAmongFailures(p) ==
  LET successes == AtMost(health[p].successes + 1, RecoveredAt)
  IN [status |-> AfterSuccess(Known(p), successes),
      failures |-> health[p].failures, successes |-> successes]
Succeeded(p) ==
  LET successes == AtMost(health[p].successes + 1, RecoveredAt)
  IN [status |-> AfterSuccess(Known(p), successes),
      failures |-> 0, successes |-> successes]

FailedAgain(p) ==
  LET failures == AtMost(health[p].failures + 1, FailedAt)
  IN [status |-> AfterFailure(Known(p), failures),
      failures |-> failures, successes |-> 0]

(* HealthTrackingAdapter._observe counts answers and failures to answer; an  *)
(* error that says nothing of the provider is not counted.                   *)
Success(p) ==
  /\ phase = "running"
  /\ health' = [health EXCEPT ![p] = Succeeded(p)]
  /\ Came(p, "good")
  /\ UNCHANGED <<phase, reported, snapshot, told, unsaid>>

Failure(p) ==
  /\ phase = "running"
  /\ health' = [health EXCEPT ![p] = FailedAgain(p)]
  /\ Came(p, "bad")
  /\ UNCHANGED <<phase, reported, snapshot, told, unsaid>>

(* probe_providers and record_provider_probe: the verdict holds at once.     *)
ProbeStatuses == {"healthy", "unknown", "degraded", "unavailable"}  \* _PROBE_STATUSES

Probe(p) ==
  /\ phase = "probing" /\ health[p].status = Unseen
  /\ \E verdict \in ProbeStatuses :
       /\ health' = [health EXCEPT ![p] =
                       [status |-> verdict,
                        failures |-> IF verdict = "healthy" THEN 0 ELSE 1,
                        successes |-> IF verdict = "healthy" THEN 1 ELSE 0]]
       /\ Came(p, IF verdict = "healthy" THEN "good" ELSE "bad")
  /\ phase' = IF \A q \in Providers \ {p} : health[q].status # Unseen THEN "ready" ELSE phase
  /\ UNCHANGED <<reported, snapshot, told, unsaid>>

(***************************************************************************)
(* SystemNotifier                                                           *)
(***************************************************************************)
(* notify_startup: _prime takes the statuses for told, then the message is   *)
(* sent.  It is left out when the last one was sent a short while ago.       *)
Startup ==
  /\ phase = "ready" /\ phase' = "running"
  /\ \/ UNCHANGED <<reported, told, unsaid>>
     \/ /\ reported' = [p \in Providers |-> [status |-> health[p].status, age |-> 0]]
        /\ \/ /\ told' = [p \in Providers |-> health[p].status]
              /\ UNCHANGED unsaid
           \/ unsaid' = TRUE /\ UNCHANGED told
  /\ UNCHANGED <<health, snapshot, recent>>

(* The task of system notices takes the state as it is; while it waits for   *)
(* its messages to be sent, the state goes on changing.                      *)
Look ==
  /\ phase = "running" /\ \A p \in Providers : snapshot[p] = Unseen
  /\ snapshot' = [p \in Providers |-> health[p].status]
  /\ UNCHANGED <<phase, health, reported, told, unsaid, recent>>

(* _repeat_due *)
RepeatDue(p) == reported[p].age >= Repeat

(* What _observe makes of a status. *)
Silent(p, status) == reported[p].status = Unseen /\ status \in Good
Changed(p, status) == reported[p].status # status
(* Defect: a state of things is told once. *)
NotNew(p, status) == ~Changed(p, status)
Needless(p, status) == ~Changed(p, status) /\ (status \in Good \/ ~RepeatDue(p))

Remember(p, status) == reported' = [reported EXCEPT ![p] = [status |-> status, age |-> 0]]

Observed(p) == snapshot' = [snapshot EXCEPT ![p] = Unseen]

SaysNothing(p) ==
  /\ snapshot[p] # Unseen
  /\ IF Silent(p, snapshot[p]) THEN Remember(p, snapshot[p])
     ELSE Needless(p, snapshot[p]) /\ UNCHANGED reported
  /\ Observed(p)
  /\ UNCHANGED <<phase, health, told, unsaid, recent>>

Says(p) ==
  snapshot[p] # Unseen /\ ~Silent(p, snapshot[p]) /\ ~Needless(p, snapshot[p])

Delivered(p) ==
  /\ Says(p)
  /\ Remember(p, snapshot[p])
  /\ told' = [told EXCEPT ![p] = snapshot[p]]
  /\ Observed(p)
  /\ UNCHANGED <<phase, health, unsaid, recent>>

Lost(p) ==
  /\ Says(p) /\ Observed(p)
  /\ UNCHANGED <<phase, health, reported, told, unsaid, recent>>

Tick ==
  /\ phase = "running"
  /\ reported' = [p \in Providers |-> [reported[p] EXCEPT !.age = AtMost(@ + 1, Repeat)]]
  /\ UNCHANGED <<phase, health, snapshot, told, unsaid, recent>>

Init ==
  /\ phase = "probing"
  /\ health = [p \in Providers |-> [status |-> Unseen, failures |-> 0, successes |-> 0]]
  /\ reported = [p \in Providers |-> [status |-> Unseen, age |-> 0]]
  /\ snapshot = [p \in Providers |-> Unseen]
  /\ told = [p \in Providers |-> Unseen] /\ unsaid = FALSE
  /\ recent = [p \in Providers |-> [i \in 1..Depth |-> Unseen]]

Next ==
  \/ Startup \/ Look \/ Tick
  \/ \E p \in Providers : \/ Probe(p) \/ Success(p) \/ Failure(p)
                          \/ SaysNothing(p) \/ Delivered(p) \/ Lost(p)

Spec == Init /\ [][Next]_vars

(* The start goes through, the task of notices runs again and again, time    *)
(* passes, and of the messages that are sent for ever some get through.      *)
Fairness ==
  /\ WF_vars(Startup) /\ WF_vars(Look) /\ WF_vars(Tick)
  /\ \A p \in Providers : /\ WF_vars(Probe(p)) /\ WF_vars(SaysNothing(p) \/ Lost(p))
                          /\ SF_vars(Delivered(p))

FairSpec == Spec /\ Fairness

(***************************************************************************)
(* Properties                                                               *)
(***************************************************************************)
(* What the program remembers to have told is what the operator last heard,  *)
(* as far as it was bad news, whatever was lost and whatever changed while   *)
(* messages were under way - unless the message of the start was lost.       *)
RemembersWhatWasTold ==
  \A p \in Providers :
    reported[p].status \notin Good \cup {Unseen} /\ ~unsaid => told[p] = reported[p].status

(* The hysteresis of monitor.py, told from the outcomes alone: a call turns a *)
(* provider unavailable, degraded or healthy only when as many calls in a row *)
(* as the threshold says failed, or were answered, with nothing else between  *)
(* them, and a full row of them does so wherever the status was before.       *)
(* Calls that fail and succeed by turns add up to nothing.  The probe of the  *)
(* start counts as a call, and alone decides at once.                         *)
ByStreak(p) ==
  phase = "running" /\ health'[p] # health[p] =>
    LET status == health'[p].status
    IN /\ InARow(p, "bad", FailedAt)' => status = "unavailable"
       /\ InARow(p, "good", RecoveredAt)' => status = "healthy"
       /\ status # health[p].status =>
            /\ status = "unavailable" => InARow(p, "bad", FailedAt)'
            /\ status = "degraded" => InARow(p, "bad", DegradedAt)'
            /\ status = "healthy" => InARow(p, "good", RecoveredAt)'
StreaksDecide == [][\A p \in Providers : ByStreak(p)]_vars

(* A provider that is down for good is something the operator gets to hear   *)
(* of, also when the message of the start, which should have said so, or any *)
(* number of later ones were lost, for nothing is remembered as told that    *)
(* was lost (SystemNotifier._observe, _send).                                *)
OutagesAreTold ==
  /\ []RemembersWhatWasTold
  /\ \A p \in Providers :
       <>[](health[p].status = "unavailable") => <>[](told[p] = "unavailable")

(***************************************************************************)
(* What the comments say and the code does not do                           *)
(***************************************************************************)
(* A single failure does not change the status (_status_after_failure).      *)
(* After a probe that found the provider down, it turns it into degraded.    *)
FailuresDoNotImprove ==
  [][\A p \in Providers :
       health[p].status = "unavailable" /\ health'[p].failures > 0
         => health'[p].status = "unavailable"]_vars

(* The notifier remembers only what it has told (system.py:18): the statuses *)
(* of a start are remembered before its message is sent.                     *)
OnlyWhatWasTold ==
  \A p \in Providers :
    reported[p].status \notin Good \cup {Unseen} => told[p] = reported[p].status
=============================================================================
