------------------------------- MODULE MCParts -------------------------------
(***************************************************************************)
(* Small instances of the components of Parts.                              *)
(***************************************************************************)
EXTENDS Parts

CONSTANTS sell1, sell2, scan1, scan2

MCPriority == [r \in Requests |-> IF r \in {sell1, sell2} THEN 0 ELSE 1]

MCResource == [c \in Callers |-> "res"]

MCBuilds == {{1, 2}, {1, 2, 3}}

(* The clocks change in the second hour of the third day, or before its end. *)
Task(mode, interval, hour, step, weekday) ==
  [enabled |-> TRUE, mode |-> mode, interval |-> interval, hour |-> hour, step |-> step,
   weekday |-> weekday]
MCTasks ==
  {Task("daily", -1, 1, 1, -1), Task("daily", -1, 1, 2, -1), Task("daily", -1, 2, 1, -1),
   Task("weekly", -1, 1, 1, 2), Task("interval", 7, -1, 1, -1), Task("daily", 7, 1, 1, -1)}
Zone(change, before, after) == [change |-> change, before |-> before, after |-> after]
MCZones == {Zone(10, 0, 1), Zone(10, 1, 0), Zone(11, 0, 1)}

(* A part that a behaviour is not about begins in one state of its own. *)
MCInit ==
  /\ PartsInit
  /\ part # "operator" => oAllowed
  /\ part # "timing" => tTask.mode = "weekly" /\ tZone.change = 11

MCSpec == MCInit /\ [][PartsNext]_all /\ PartsFairness
=============================================================================
