----------------------------- MODULE Supervisor -----------------------------
(***************************************************************************)
(* app/supervisor.py: the workers' tasks, what becomes of them when they    *)
(* end or fail, several of them at once, and the safe stop.                 *)
(***************************************************************************)
EXTENDS Naturals, FiniteSets

CONSTANTS
  Workers, Critical,   \* SupervisedWorker.critical
  RestartLimit         \* worker_restart_limit

VARIABLES
  pc,         \* supervise: "new", "waiting", "handling", "stopping", "returned"
  state,      \* SupervisorState
  tasks,      \* _tasks: the outcome of each worker's task, or "running"
  done,       \* the tasks that asyncio.wait returned and that are not handled
  restarts,   \* restarts
  component,  \* HealthMonitor: the status of a worker's component
  broken      \* history: the database failed a worker that was supervised

vars == <<pc, state, tasks, done, restarts, component, broken>>

Outcomes == {"ended", "cancelled", "error", "databaseError"}
Nothing == [w \in {} |-> "none"]
Without(f, S) == [w \in DOMAIN f \ S |-> f[w]]
With(f, w, v) == [x \in DOMAIN f \cup {w} |-> IF x = w THEN v ELSE f[x]]
Set(w, status) == component' = [component EXCEPT ![w] = status]

Running == {w \in DOMAIN tasks : tasks[w] = "running"}

(* Defect: the tasks are cancelled and not awaited. *)
SafeStopAtOnce(rest) ==
  /\ state' = "safeStop"
  /\ pc' = "returned"
  /\ tasks' = rest

(* _safe_stop: the tasks are cancelled and awaited; after that none is kept. *)
SafeStop(rest) ==
  /\ state' = "safeStop"
  /\ pc' = "stopping"
  /\ tasks' = rest

Start ==
  /\ pc = "new"
  /\ pc' = "waiting" /\ state' = "running"
  /\ tasks' = [w \in Workers |-> "running"]
  /\ component' = [w \in Workers |-> "healthy"]
  /\ UNCHANGED <<done, restarts, broken>>

(* A worker's coroutine returns, raises or is cancelled from outside. *)
Ends(w) ==
  /\ w \in Running
  /\ \E outcome \in Outcomes : tasks' = [tasks EXCEPT ![w] = outcome]
  /\ UNCHANGED <<pc, state, done, restarts, component, broken>>

(* asyncio.wait, FIRST_COMPLETED: with what is done by then. *)
Wake ==
  /\ pc = "waiting" /\ DOMAIN tasks \ Running # {}
  /\ done' = DOMAIN tasks \ Running
  /\ pc' = "handling"
  /\ UNCHANGED <<state, tasks, restarts, component, broken>>

(* _handle_failure of a worker that may be started again. *)
Restart(w, rest) ==
  /\ restarts[w] < RestartLimit
  /\ restarts' = [restarts EXCEPT ![w] = @ + 1]
  /\ state' = "degraded"
  /\ tasks' = With(rest, w, "running")
  /\ Set(w, "healthy")             \* degraded, and healthy at once
  /\ UNCHANGED pc

GiveUp(w, rest) ==
  /\ restarts[w] >= RestartLimit
  /\ state' = "degraded"
  /\ tasks' = rest
  /\ Set(w, "unavailable")
  /\ UNCHANGED <<pc, restarts>>

(* Which errors stop everything. *)
Fatal(w) == tasks[w] = "databaseError" \/ w \in Critical

(* _handle_completion; a task that is no longer kept is passed over. *)
Handle(w) ==
  LET rest == Without(tasks, {w})
  IN /\ pc = "handling" /\ w \in done
     /\ done' = done \ {w}
     /\ broken' = (broken \/ tasks[w] = "databaseError")
     /\ IF tasks[w] \in {"ended", "cancelled"}
        THEN tasks' = rest /\ Set(w, "stopping") /\ UNCHANGED <<pc, state, restarts>>
        ELSE IF Fatal(w) THEN SafeStop(rest) /\ Set(w, "unavailable") /\ UNCHANGED restarts
        ELSE Restart(w, rest) \/ GiveUp(w, rest)

(* gather: every task that was kept has ended. *)
Stopped ==
  /\ pc = "stopping" /\ Running = {}
  /\ tasks' = Nothing /\ done' = {}
  /\ pc' = "returned"
  /\ UNCHANGED <<state, restarts, component, broken>>

(* The batch is handled: go on waiting, or return. *)
Again ==
  /\ pc = "handling" /\ done = {}
  /\ IF tasks = Nothing THEN pc' = "returned" /\ state' = "stopped"
     ELSE pc' = "waiting" /\ UNCHANGED state
  /\ UNCHANGED <<tasks, done, restarts, component, broken>>

(* shutdown: it comes after supervise has returned, or has been cancelled   *)
(* while it waited.                                                         *)
Shutdown ==
  /\ pc = "waiting"
  /\ pc' = "stopping"
  /\ state' = "stopped"
  /\ UNCHANGED <<tasks, done, restarts, component, broken>>

Init ==
  /\ pc = "new" /\ state = "starting"
  /\ tasks = Nothing /\ done = {}
  /\ restarts = [w \in Workers |-> 0]
  /\ component = [w \in Workers |-> "starting"]
  /\ broken = FALSE

Next ==
  \/ Start \/ Wake \/ Stopped \/ Again \/ Shutdown
  \/ \E w \in Workers : Ends(w) \/ Handle(w)

Spec == Init /\ [][Next]_vars

(***************************************************************************)
(* Properties                                                               *)
(***************************************************************************)
(* Nothing works on after the supervisor has returned or once the database   *)
(* failed a worker: whichever of several tasks that ended together was seen  *)
(* first, no later one starts a worker again or changes the verdict.         *)
SafeStopIsFinal ==
  /\ broken => state = "safeStop" /\ pc \in {"stopping", "returned"}
  /\ pc = "returned" => tasks = Nothing
  /\ \A w \in Workers : restarts[w] <= RestartLimit
=============================================================================
