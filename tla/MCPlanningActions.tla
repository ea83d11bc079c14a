--------------------------- MODULE MCPlanningActions ---------------------------
(* Small populations for PlanningActions: two tasks, a reminder beside a project, *)
(* an event of the bot beside one copied from a calendar.                         *)
EXTENDS PlanningActions, TLC

CONSTANTS o1, o2

Pair(first, second) == [o \in Objects |-> IF o = o1 THEN first ELSE second]
Pairs == {Pair("task", "task"), Pair("reminder", "project"), Pair("event", "copied")}

Symmetry == Permutations(Tokens) \cup Permutations(Handlers)
================================================================================
