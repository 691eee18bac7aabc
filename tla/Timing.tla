------------------------------- MODULE Timing -------------------------------
(***************************************************************************)
(* The calendar of one scheduled task (services/scheduler/timing.py) under   *)
(* the scheduler that asks for it: the next run of a daily or weekly task is *)
(* told in local time, and clocks are put forward and back.  Processes die    *)
(* and begin again; the journal remembers the last run, if it succeeded.      *)
(*                                                                         *)
(* Time is counted in hours, a day has Day of them.  Ticks come every second *)
(* and runs take far less than an hour, so both happen within one.            *)
(***************************************************************************)
EXTENDS Integers, Sequences, FiniteSets, FiniteSetsExt

CONSTANTS
  Day, Week,      \* hours of a day, days of a week
  Configured,     \* what the settings may say of the task
  Zones,          \* zones: the hour of a change, the offsets before and after it
  MaxDaysAhead,   \* _MAX_DAYS_AHEAD
  MaxTime,        \* bound: hours
  MaxFaults       \* bound: stops of the process and runs that fail

VARIABLES
  task, zone,
  now,
  up,         \* the process runs
  planned,    \* Scheduler._next_runs: hour of the next run, or Never
  anchor,     \* start of the last run in the journal, Never if it did not succeed
  faults,     \* how many faults so far
  (* History, read by properties only. *)
  since,      \* when the process began
  runs        \* the runs so far: hour, and whether the journal shows a success

vars == <<task, zone, now, up, planned, anchor, faults, since, runs>>

Never == -1
Absent == -1      \* a field that the settings leave out

(* TaskScheduleConfig and SchedulerTask: what belongs to which mode. *)
Valid(t) ==
  /\ t.mode = "interval" <=> t.interval # Absent
  /\ t.mode \in {"daily", "weekly"} <=> t.hour # Absent
  /\ t.mode = "weekly" <=> t.weekday # Absent

(***************************************************************************)
(* Zones, which are of the library (zoneinfo)                               *)
(***************************************************************************)
Offset(t) == IF t < zone.change THEN zone.before ELSE zone.after
Local(t) == t + Offset(t)
Date(t) == Local(t) \div Day

(* A local hour read with an offset: the offset before the change is fold 0 *)
(* when the hour comes twice or never, otherwise fold says nothing.          *)
Fold(local, fold) ==
  LET early == local - zone.before
      late == local - zone.after
      right == {t \in {early, late} : Local(t) = local}
  IN IF Cardinality(right) = 1 THEN CHOOSE t \in right : TRUE
     ELSE IF fold = 0 THEN early ELSE late

(***************************************************************************)
(* The next run                                                             *)
(***************************************************************************)
Earlier(a, b) == IF a < b THEN a ELSE b
Later(a, b) == IF a > b THEN a ELSE b

LocalRunInstant(day, hour) ==
  LET local == day * Day + hour
      first == Fold(local, 0)
      second == Fold(local, 1)
  IN IF first = second THEN first
     ELSE IF Local(first) # local THEN Later(first, second)   \* the hour is left out
     ELSE Earlier(first, second)                              \* the hour comes twice

(* Of the days from first on the first one whose run is ahead.              *)
DaysFrom(first) == first..(first + MaxDaysAhead - 1)
FirstAhead(days) ==
  LocalRunInstant(Min({d \in days : LocalRunInstant(d, task.hour) > now}), task.hour)

NextIntervalRun(last) ==
  IF last = Never THEN now ELSE Later(last + task.interval, now)

(* Defect: a day later is so many hours later. *)
DaysAreHours(last) ==
  IF last = Never THEN FirstAhead(DaysFrom(Date(now)))
  ELSE Later(last + task.step * Day, now + 1)

NextDailyRun(last) ==
  FirstAhead(DaysFrom(IF last = Never THEN Date(now) ELSE Date(last) + task.step))

(* isoweekday: the days of the week are 1..Week. *)
NextWeeklyRun ==
  FirstAhead({d \in DaysFrom(Date(now)) : (d % Week) + 1 = task.weekday})

NextRun(last) ==
  CASE ~task.enabled -> Never
    [] task.enabled /\ task.mode = "interval" -> NextIntervalRun(last)
    [] task.enabled /\ task.mode = "daily" -> NextDailyRun(last)
    [] task.enabled /\ task.mode = "weekly" -> NextWeeklyRun
    [] OTHER -> Never                          \* startup and manual

(***************************************************************************)
(* The scheduler                                                            *)
(***************************************************************************)
Init ==
  /\ task \in {t \in Configured : Valid(t)}
  /\ zone \in Zones
  /\ now = Day /\ up = FALSE
  /\ planned = Never /\ anchor = Never /\ faults = 0
  /\ since = Never /\ runs = <<>>

Prepare ==
  /\ ~up
  /\ up' = TRUE /\ since' = now
  /\ planned' = NextRun(anchor)
  /\ UNCHANGED <<task, zone, now, anchor, faults, runs>>

IsDue == up /\ planned # Never /\ planned <= now

(* tick: the slot is moved before the run, counted from the slot itself.     *)
(* The run succeeds or fails; or the process dies and the journal has not    *)
(* heard of it.                                                             *)
Tick ==
  /\ IsDue
  /\ \E outcome \in {"success", "failed", "lost"} :
       /\ runs' = Append(runs, [at |-> now, kept |-> outcome = "success"])
       /\ anchor' = CASE outcome = "success" -> now
                      [] outcome = "failed" -> Never
                      [] outcome = "lost" -> anchor
       /\ planned' = IF outcome = "lost" THEN Never ELSE NextRun(planned)
       /\ up' = (outcome # "lost")
       /\ faults' = IF outcome = "success" THEN faults ELSE faults + 1
       /\ faults' <= MaxFaults
  /\ UNCHANGED <<task, zone, now, since>>

Stop ==
  /\ up /\ faults < MaxFaults
  /\ up' = FALSE /\ planned' = Never /\ faults' = faults + 1
  /\ UNCHANGED <<task, zone, now, anchor, since, runs>>

Hour ==
  /\ now < MaxTime /\ ~IsDue
  /\ now' = now + 1
  /\ UNCHANGED <<task, zone, up, planned, anchor, faults, since, runs>>

Next == Prepare \/ Tick \/ Stop \/ Hour

Spec == Init /\ [][Next]_vars

(***************************************************************************)
(* Properties                                                               *)
(***************************************************************************)
(* The hours at which a clock on the wall shows that the task is to run, the *)
(* first one if it shows that twice; and the day, without looking at how the *)
(* code finds either.                                                       *)
Calendar == task.enabled /\ task.mode \in {"daily", "weekly"}
Wanted(d) == task.mode = "daily" \/ (d % Week) + 1 = task.weekday
ShownOn(d) == {t \in Day..MaxTime : Local(t) = d * Day + task.hour}
Step == IF task.mode = "daily" THEN task.step ELSE 1
Served == {Date(runs[i].at) : i \in DOMAIN runs}
Days == 2..(MaxTime \div Day - 1)

(* An hour that is left out so late in its day that its run comes on the     *)
(* next one and takes the place of that one's.                               *)
LeftOut == (zone.change + zone.before)..(zone.change + zone.after - 1)
NightChange ==
  /\ \E d \in Date(zone.change - 1)..Date(zone.change) : d * Day + task.hour \in LeftOut
  /\ task.hour + zone.after - zone.before >= Day

(* No day is served twice, over restarts, failed runs and hours that come     *)
(* twice; and a run is where the wall shows it, or later on a day on which it *)
(* never does.                                                              *)
OncePerDay ==
  /\ Cardinality(Served) = Len(runs)
  /\ \A i \in DOMAIN runs :
       LET d == Date(runs[i].at)
       IN /\ Wanted(d)
          /\ IF ShownOn(d) # {} THEN runs[i].at = Min(ShownOn(d))
             ELSE Local(runs[i].at) > d * Day + task.hour

(* While the process runs no day is left out, whatever the clocks do: of each *)
(* Step days that it has seen pass one is served.                            *)
NoDayLost ==
  up => \A d \in Days :
          (/\ Wanted(d) /\ Wanted(d + Step - 1)
           /\ since < d * Day - Later(zone.before, zone.after)
           /\ (d + Step) * Day - Earlier(zone.before, zone.after) <= now)
          => Served \cap (d..(d + Step - 1)) # {}

(* After a run that the journal shows Step days pass before the next.        *)
NotTooOften ==
  \A i \in 1..(Len(runs) - 1) :
    runs[i].kept => Date(runs[i + 1].at) >= Date(runs[i].at) + Step

(* The three of them, for tasks of the calendar and where no run falls on the *)
(* next day (timing.local_run_instant, next_run_at).                         *)
DaysAreServed == Calendar /\ ~NightChange => OncePerDay /\ NoDayLost /\ NotTooOften

(* Stated, and not so: that it holds in every zone.                          *)
NoRunIsLost == Calendar => OncePerDay /\ NoDayLost
=============================================================================
