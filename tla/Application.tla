---------------------------- MODULE Application ----------------------------
(***************************************************************************)
(* The process from start to exit: the scheduler with its journal, the     *)
(* loop that ticks it every second, the supervisor of that loop, the       *)
(* operator's switch and the task that reads the operator's commands.      *)
(*                                                                         *)
(* Time is relative: the schedule holds the seconds that are left until a  *)
(* slot, the journal the seconds that passed since, so that a behaviour    *)
(* has no last second.                                                     *)
(*                                                                         *)
(* A tick is a task of its own that nobody awaits: it moves the schedule   *)
(* of what is due, waits for the runs and then looks at the schedule once  *)
(* more, while later ticks do the same.                                    *)
(***************************************************************************)
EXTENDS Integers, Sequences, FiniteSets, TLC

CONSTANTS
  Tasks,          \* interval tasks that are enabled, among them Commands
  Commands,       \* TASK_TELEGRAM_COMMANDS
  Interval,       \* task -> seconds between its slots
  MaxLate,        \* bound: seconds that a message may keep the loop
  Updates,        \* commands the operator sends, in this order
  MaxFaults       \* bound: failures of the database and of the loop

ASSUME TasksAssumption == Commands \in Tasks /\ Interval \in [Tasks -> Nat \ {0}]
ASSUME UpdatesAssumption == Updates \in Seq({"start", "stop", "restart"})
ASSUME ApplicationBounds ==
  MaxLate \in Nat /\ MaxFaults \in Nat

VARIABLES
  phase,     \* of the process
  sup,       \* Supervisor.state
  loop,      \* where the scheduler loop is
  late,      \* seconds the loop has been kept by a message
  nextIn,    \* Scheduler._next_runs: seconds until the next slot
  active,    \* TaskRunner._running: task -> age of its start, slots skipped since
  ticks,     \* ticks under way: what was due, what they still wait for
  journal,   \* last entry of scheduler_executions by scheduled_for
  switch,    \* ScannerSwitch
  observed,  \* Application._scanner_running
  cmd,       \* the run of the command task: step, updates left, handled ids
  sent,      \* how many of the updates Telegram has
  offset,    \* stored offset of the updates; 0 is none
  faults,    \* how many crashes and failures so far
  (* History, read by properties only. *)
  grid,      \* seconds to the next point of the grid the process began with, while on time
  tardy,     \* the loop was late since the process began
  done,      \* how often an update took effect, up to twice, in all and in this process
  broken     \* an operation of the database failed in this process

process == <<phase, sup, loop, late>>
schedule == <<nextIn, active, ticks, journal>>
control == <<switch, observed>>
commands == <<cmd, sent, offset>>
history == <<grid, tardy, done, broken>>
vars == <<process, schedule, control, commands, faults, history>>

Min2(a, b) == IF a < b THEN a ELSE b
(* Ages of starts are told apart up to the interval.                         *)
Aged(t, age) == Min2(age + 1, Interval[t])
Positive(n) == IF n > 0 THEN n ELSE 0
Nothing == [t \in {} |-> 0]            \* an empty dict
Without(f, S) == [t \in DOMAIN f \ S |-> f[t]]

(***************************************************************************)
(* Defects: plausible errors of the code, used by no specification.         *)
(***************************************************************************)

(* The guard plans a whole interval anew. *)
GuardPlansAnew(left) == Positive(left) + 1

(* The offset is stored before the updates of the batch are handled. *)
FetchAndStore ==
  /\ cmd.pc = "fetch"
  /\ LET new == [i \in 1..(sent - Positive(offset - 1)) |-> Positive(offset - 1) + i]
     IN /\ cmd' = [cmd EXCEPT !.pc = IF new = <<>> THEN "end" ELSE "handle", !.batch = new]
        /\ offset' = IF new = <<>> THEN offset ELSE sent + 1
  /\ UNCHANGED <<process, schedule, control, sent, faults, history>>

(* A run that ends is not taken out of the running ones. *)
ForgetToPop(t) == {}

(***************************************************************************)
(* The plan of one task                                                     *)
(***************************************************************************)
(* _next_interval_run: a slot that has passed becomes one run now.          *)
NextIntervalRun(left, interval) == IF left + interval > 0 THEN left + interval ELSE 0

(* _last_run_anchor: the start of the last run, if that one succeeded.      *)
HasAnchor(entry) == entry.status = "success"

(* prepare, for a task whose last entry this is.                            *)
FirstRun(t, entry) ==
  IF HasAnchor(entry) THEN Positive(Interval[t] - entry.start) ELSE 0

(* _catch_up_guard *)
CatchUpGuard(left) == Positive(left)

(* record_execution of a run that ends, and what last_execution then finds:  *)
(* the entry with the latest scheduled_for, which is that of a later slot if *)
(* one was skipped during the run.  Only a success is an anchor.             *)
Recorded(entry, run, status) ==
  IF run.overtaken THEN entry
  ELSE IF status = "success" THEN [status |-> "success", start |-> run.start]
  ELSE [status |-> "other", start |-> 0]

NoEntry == [status |-> "none", start |-> 0]
Skipped == [status |-> "other", start |-> 0]
IdleCommand == [pc |-> "idle", batch |-> <<>>, handled |-> {}]

Running == ~switch.paused /\ ~switch.restart     \* ScannerSwitch.is_running

(***************************************************************************)
(* Start: detect_startup_kind, recovery, prepare, then the worker           *)
(***************************************************************************)
(* What a process has in memory as it begins; the history goes with it. *)
Memory ==
  /\ late' = 0 /\ active' = Nothing /\ ticks' = {}
  /\ switch' = [paused |-> FALSE, restart |-> FALSE] /\ observed' = TRUE
  /\ cmd' = IdleCommand
  /\ tardy' = FALSE /\ broken' = FALSE
  /\ done' = [u \in 1..Len(Updates) |-> [done[u] EXCEPT !.here = 0]]

Init ==
  /\ phase = "down" /\ sup = "stopped" /\ loop = "over" /\ late = 0
  /\ nextIn = Nothing /\ active = Nothing /\ ticks = {}
  /\ journal = [t \in Tasks |-> NoEntry]
  /\ switch = [paused |-> FALSE, restart |-> FALSE] /\ observed = TRUE
  /\ cmd = IdleCommand /\ sent = 0 /\ offset = 0
  /\ faults = 0
  /\ grid = [t \in Tasks |-> 0] /\ tardy = FALSE
  /\ done = [u \in 1..Len(Updates) |-> [all |-> 0, here |-> 0]]
  /\ broken = FALSE

Start ==
  /\ phase = "down"
  /\ Memory
  /\ phase' = "up" /\ sup' = "running" /\ loop' = "awake"
  /\ nextIn' = [t \in Tasks |-> FirstRun(t, journal[t])]
  /\ grid' = [t \in Tasks |-> FirstRun(t, journal[t]) % Interval[t]]
  /\ UNCHANGED <<journal, sent, offset, faults>>

(***************************************************************************)
(* Time.  The loop sleeps one second and is woken; nothing else happens in  *)
(* between unless it is waiting for a message to be delivered.              *)
(***************************************************************************)
Second ==
  /\ \/ phase = "down" /\ UNCHANGED <<loop, late, tardy>>
     \/ phase = "up" /\ loop = "asleep" /\ loop' = "awake" /\ UNCHANGED <<late, tardy>>
     \/ /\ phase = "up" /\ loop = "telling" /\ late < MaxLate
        /\ late' = late + 1 /\ tardy' = TRUE /\ UNCHANGED loop
  /\ nextIn' = [t \in DOMAIN nextIn |-> nextIn[t] - 1]
  /\ active' = [t \in DOMAIN active |-> [active[t] EXCEPT !.start = Aged(t, @)]]
  /\ journal' = [t \in Tasks |-> IF journal[t].status = "success"
                                  THEN [journal[t] EXCEPT !.start = Aged(t, @)] ELSE journal[t]]
  /\ grid' = [t \in Tasks |-> IF tardy' THEN 0 ELSE (grid[t] - 1) % Interval[t]]
  /\ UNCHANGED <<phase, sup, ticks, control, commands, faults, done, broken>>

(***************************************************************************)
(* The loop: _scheduler_loop                                                *)
(***************************************************************************)
(* _observe_scanner_state.  The message that the scanner stopped is awaited. *)
Observe ==
  /\ phase = "up" /\ loop = "awake"
  /\ observed' = Running
  /\ loop' = IF Running \/ ~observed THEN "checked" ELSE "telling"
  /\ UNCHANGED <<phase, sup, late, schedule, switch, commands, faults, history>>

Told ==
  /\ loop = "telling"
  /\ loop' = "checked" /\ late' = 0
  /\ UNCHANGED <<phase, sup, schedule, control, commands, faults, history>>

Due == {t \in DOMAIN nextIn : nextIn[t] <= 0}

(* Scheduler.tick up to its gather, and TaskRunner.run of what is due.  A    *)
(* task that still runs is skipped, which is journalled at once.             *)
Tick ==
  LET fresh == Due \ DOMAIN active
  IN /\ loop = "checked" /\ ~switch.restart
     /\ loop' = "asleep"
     /\ nextIn' = [t \in DOMAIN nextIn |->
                     IF t \in Due THEN NextIntervalRun(nextIn[t], Interval[t]) ELSE nextIn[t]]
     /\ active' = [t \in DOMAIN active \union Due |->
                     IF t \in fresh THEN [start |-> 0, overtaken |-> FALSE]
                     ELSE [active[t] EXCEPT !.overtaken = @ \/ t \in Due]]
     /\ ticks' = IF Due = {} THEN ticks ELSE ticks \cup {[due |-> Due, waiting |-> fresh]}
     /\ journal' = [t \in Tasks |->
                      IF t \in Due \cap DOMAIN active THEN Skipped ELSE journal[t]]
     /\ cmd' = IF Commands \in fresh THEN [cmd EXCEPT !.pc = "fetch"] ELSE cmd
     /\ UNCHANGED <<phase, sup, late, control, sent, offset, faults,
                    grid, tardy, done, broken>>

(* The rest of a tick whose runs have all ended. *)
EndTick ==
  \E tick \in ticks :
    /\ tick.waiting = {}
    /\ ticks' = ticks \ {tick}
    /\ nextIn' = [t \in DOMAIN nextIn |->
                    IF t \in tick.due THEN CatchUpGuard(nextIn[t]) ELSE nextIn[t]]
    /\ UNCHANGED <<process, active, journal, control, commands, faults, history>>

(* _drain_ticks: the ticks are cancelled, their runs with them, and awaited. *)
Drained == (UNION {tick.waiting : tick \in ticks}) \cap DOMAIN active
Drain ==
  /\ ticks' = {}
  /\ active' = Without(active, Drained)
  /\ journal' = [t \in Tasks |->
                   IF t \in Drained
                   THEN Recorded(journal[t], active[t], "cancelled")
                   ELSE journal[t]]
  /\ cmd' = IF Commands \in Drained THEN [cmd EXCEPT !.pc = "idle", !.batch = <<>>] ELSE cmd

(* The loop ends and the supervised worker with it. *)
EndLoop ==
  /\ Drain
  /\ loop' = "over" /\ sup' = "stopped" /\ phase' = "stopping"
  /\ UNCHANGED <<late, nextIn, control, sent, offset, faults, history>>

(* A restart that was asked for ends the loop. *)
Restart == phase = "up" /\ loop = "checked" /\ switch.restart /\ EndLoop

(* A signal sets _stop, which the loop looks at when it begins and when it   *)
(* sleeps, wherever it was when the signal came.                             *)
Signal == phase = "up" /\ loop \in {"asleep", "awake"} /\ EndLoop

(* An exception that nothing in the loop takes: the worker is critical, so   *)
(* that _handle_failure goes to SAFE_STOP.                                   *)
LoopFails ==
  /\ loop = "telling" /\ faults < MaxFaults
  /\ faults' = faults + 1
  /\ Drain
  /\ sup' = "safeStop" /\ loop' = "over" /\ phase' = "stopping"
  /\ UNCHANGED <<late, nextIn, control, sent, offset, history>>

(* Application.shutdown: the schedule is cleared and what still runs is      *)
(* cancelled; whether that reaches the journal depends on what is closed     *)
(* first.                                                                    *)
Shutdown ==
  /\ phase = "stopping"
  /\ Memory
  /\ phase' = "down" /\ sup' = "stopped" /\ nextIn' = Nothing
  /\ \E S \in SUBSET DOMAIN active :
       journal' = [t \in Tasks |->
                     IF t \in S
                     THEN Recorded(journal[t], active[t], "cancelled")
                     ELSE journal[t]]
  /\ grid' = [t \in Tasks |-> 0]
  /\ UNCHANGED <<loop, sent, offset, faults>>

Crash ==
  /\ phase # "down" /\ faults < MaxFaults
  /\ faults' = faults + 1
  /\ Memory
  /\ phase' = "down" /\ sup' = "stopped" /\ loop' = "over" /\ nextIn' = Nothing
  /\ grid' = [t \in Tasks |-> 0]
  /\ UNCHANGED <<journal, sent, offset>>

(***************************************************************************)
(* Runs                                                                     *)
(***************************************************************************)
(* What a run that ends is taken out of. *)
Popped(t) == {t}

CanEnd(t) == t \in DOMAIN active /\ (t = Commands => cmd.pc \in {"end", "failed"})

Outcomes(t) ==
  IF t # Commands THEN {"success", "failed"}
  ELSE IF cmd.pc = "end" THEN {"success"} ELSE {"failed"}

EndRun(t) ==
  /\ active' = Without(active, Popped(t))
  /\ cmd' = IF t = Commands THEN [cmd EXCEPT !.pc = "idle", !.batch = <<>>] ELSE cmd

(* _finish and record_execution: the handler ended, failed or ran into its   *)
(* timeout.                                                                  *)
RunEnds(t) ==
  /\ CanEnd(t)
  /\ EndRun(t)
  /\ \E status \in Outcomes(t) :
       journal' = [journal EXCEPT ![t] = Recorded(@, active[t], status)]
  /\ ticks' = {[tick EXCEPT !.waiting = @ \ {t}] : tick \in ticks}
  /\ UNCHANGED <<process, nextIn, control, sent, offset, faults, history>>

(* record_execution raises: gather passes it on, and the tick, which nobody  *)
(* awaits, ends with it.  Its other runs go on.                              *)
JournalFails(t) ==
  /\ CanEnd(t) /\ faults < MaxFaults
  /\ faults' = faults + 1
  /\ EndRun(t)
  /\ ticks' = {tick \in ticks : t \notin tick.waiting}
  /\ broken' = TRUE
  /\ UNCHANGED <<process, nextIn, journal, control, sent, offset,
                 grid, tardy, done>>

(***************************************************************************)
(* The command task: CommandService.poll_once                               *)
(***************************************************************************)
SendUpdate ==
  /\ sent < Len(Updates) /\ sent' = sent + 1
  /\ UNCHANGED <<process, schedule, control, cmd, offset, faults, history>>

Unconfirmed == [i \in 1..(sent - Positive(offset - 1)) |-> Positive(offset - 1) + i]

Fetch ==
  /\ cmd.pc = "fetch"
  /\ cmd' = [cmd EXCEPT !.pc = IF Unconfirmed = <<>> THEN "end" ELSE "handle",
                        !.batch = Unconfirmed]
  /\ UNCHANGED <<process, schedule, control, sent, offset, faults, history>>

FetchFails ==
  /\ cmd.pc = "fetch"
  /\ cmd' = [cmd EXCEPT !.pc = "end"]
  /\ UNCHANGED <<process, schedule, control, sent, offset, faults, history>>

(* _control_response of a confirmed command. *)
Switched(s, kind) ==
  CASE kind = "start" -> [s EXCEPT !.paused = FALSE]
    [] kind = "stop" -> [s EXCEPT !.paused = TRUE]
    [] kind = "restart" -> [s EXCEPT !.restart = TRUE]

IsNew(u) == u \notin cmd.handled

(* _handle up to the reply, which is awaited. *)
Handle ==
  LET u == Head(cmd.batch)
      fresh == IsNew(u)
  IN /\ cmd.pc = "handle"
     /\ switch' = IF fresh THEN Switched(switch, Updates[u]) ELSE switch
     /\ cmd' = [cmd EXCEPT !.handled = @ \cup {u},
                           !.pc = IF fresh THEN "reply" ELSE "next"]
     /\ done' = IF fresh THEN [done EXCEPT ![u] = [all |-> Min2(@.all + 1, 2),
                                                here |-> Min2(@.here + 1, 2)]]
                ELSE done
     /\ UNCHANGED <<process, schedule, observed, sent, offset, faults,
                    grid, tardy, broken>>

(* The reply was sent, or refused; the next update, or the offset. *)
Replied ==
  /\ cmd.pc \in {"reply", "next"}
  /\ cmd' = IF Len(cmd.batch) = 1 THEN [cmd EXCEPT !.pc = "store"]
            ELSE [cmd EXCEPT !.pc = "handle", !.batch = Tail(@)]
  /\ UNCHANGED <<process, schedule, control, sent, offset, faults, history>>

Store ==
  /\ cmd.pc = "store"
  /\ offset' = Head(cmd.batch) + 1
  /\ cmd' = [cmd EXCEPT !.pc = "end"]
  /\ UNCHANGED <<process, schedule, control, sent, faults, history>>

StoreFails ==
  /\ cmd.pc = "store" /\ faults < MaxFaults
  /\ faults' = faults + 1
  /\ cmd' = [cmd EXCEPT !.pc = "failed"]
  /\ broken' = TRUE
  /\ UNCHANGED <<process, schedule, control, sent, offset, grid, tardy, done>>

Loop == Observe \/ Told \/ Tick \/ Restart
Poll == Fetch \/ FetchFails \/ Handle \/ Replied \/ Store

Next ==
  \/ Start \/ Second \/ Loop \/ EndTick \/ Poll
  \/ \E t \in Tasks : RunEnds(t) \/ JournalFails(t)
  \/ SendUpdate \/ StoreFails
  \/ LoopFails \/ Signal \/ Shutdown \/ Crash

Spec == Init /\ [][Next]_vars

(* The event loop goes on with what is ready, requests and messages end by   *)
(* their timeouts, time passes, and a run ends.  Nobody is obliged to start  *)
(* the process again, to send a command or to stop it.                       *)
Fairness ==
  /\ WF_vars(Second) /\ WF_vars(Loop) /\ WF_vars(EndTick) /\ WF_vars(Poll)
  /\ WF_vars(Shutdown)
  /\ \A t \in Tasks : WF_vars(RunEnds(t))

FairSpec == Spec /\ Fairness

(***************************************************************************)
(* Properties                                                               *)
(***************************************************************************)
(* Every variable keeps its type. *)
TypeOK ==
  /\ phase \in {"down", "up", "stopping"}
  /\ sup \in {"running", "stopped", "safeStop"}
  /\ loop \in {"awake", "telling", "checked", "asleep", "over"}
  /\ late \in 0..MaxLate
  /\ DOMAIN nextIn \subseteq Tasks /\ \A t \in DOMAIN nextIn : nextIn[t] \in Int
  /\ DOMAIN active \subseteq Tasks
  /\ \A t \in DOMAIN active : active[t] \in [start: Nat, overtaken: BOOLEAN]
  /\ ticks \subseteq [due: SUBSET Tasks, waiting: SUBSET Tasks]
  /\ journal \in [Tasks -> [status: {"none", "success", "other"},
                            start: Nat]]
  /\ switch \in [paused: BOOLEAN, restart: BOOLEAN] /\ observed \in BOOLEAN
  /\ cmd.pc \in {"idle", "fetch", "handle", "reply", "next", "store", "end", "failed"}
  /\ cmd.handled \subseteq 1..Len(Updates) /\ sent \in 0..Len(Updates)
  /\ offset \in 0..(Len(Updates) + 1)

(* The duration of a run never moves the schedule: while the loop is         *)
(* punctual every slot is a point of the grid the process began with,        *)
(* however long runs last, whatever is skipped and whichever tick looks at   *)
(* the slot after its own runs.                                              *)
GridKept ==
  TypeOK /\ (phase = "up" /\ ~tardy => \A t \in DOMAIN nextIn : nextIn[t] % Interval[t] = grid[t])

(* A task never drops out of the schedule: while the process is up it is     *)
(* started again, though ticks end by exceptions that nobody sees.           *)
EveryTaskRuns ==
  \A t \in Tasks : phase = "up" ~> (t \in DOMAIN active /\ active[t].start = 0) \/ phase # "up"

(* The stored offset acknowledges only what took effect, and nothing takes   *)
(* effect twice in one process, though batches are fetched again after a     *)
(* failure and polls end at any point.                                       *)
CommandsTakenOnce ==
  \A u \in 1..sent : done[u].here <= 1 /\ (u < offset => done[u].all >= 1)

(***************************************************************************)
(* What documents say and the code does not do                              *)
(***************************************************************************)
(* A repeated update is dropped by its id (docs/telegram_commands.md): no    *)
(* command takes effect twice.                                               *)
CommandsTakeEffectOnce == \A u \in 1..sent : done[u].all <= 1

(* A critical failure of the persistence takes the application to SAFE_STOP  *)
(* (docs/OPERATING.md).                                                      *)
PersistenceFailureStops == broken ~> (sup = "safeStop" \/ phase = "down")

=============================================================================
