---- MODULE MCAgentRun ----
(* The tasks of the runs: a task with a success checker and a planner, a   *)
(* creative one that only a reviewer decides, and one nobody can decide.   *)
EXTENDS AgentRun

MCTasks ==
  {[external |-> FALSE, checker |-> TRUE, planner |-> TRUE, fallback |-> TRUE],
   [external |-> TRUE, checker |-> TRUE, planner |-> FALSE, fallback |-> FALSE],
   [external |-> FALSE, checker |-> FALSE, planner |-> FALSE, fallback |-> TRUE]}
MCCreative == {[external |-> TRUE, checker |-> TRUE, planner |-> FALSE, fallback |-> TRUE]}
====
