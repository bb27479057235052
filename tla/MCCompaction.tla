---------------------------- MODULE MCCompaction -----------------------------
(***************************************************************************)
(* Plans are those of plan_history.  Replacements are named before parts,  *)
(* "compact-" before "part-", and are small enough to be compacted again.  *)
(***************************************************************************)
EXTENDS Compaction, TLC

CONSTANTS MinFiles, Target, p1, p2

MCTwoOutputs == {1, 2}
MCFourParts == {11, 12, 13, 14}

Planner == INSTANCE CompactionPlanner

(* Every file has one unit of bytes. *)
MCPlan(files) == Planner!PlanHistory(files, [f \in files |-> 1], MinFiles, Target)

(* From part 12 on the column rat is there. *)
MCSchema == [f \in 11..14 |-> IF f > 11 THEN [sat |-> "float", rat |-> "float"] ELSE [sat |-> "float"]]

(* Part 13 has the column sat as a string. *)
MCConflict == [MCSchema EXCEPT ![13].sat = "string"]
=============================================================================
