-------------------------- MODULE CompactionPlanner --------------------------
(***************************************************************************)
(* The planner of the local compactor: ParquetCompactor::plan_history of   *)
(* crates/fdd_store/src/compaction.rs, for the files of one partition.     *)
(* Files are numbered in the order of their names.                         *)
(***************************************************************************)
EXTENDS Naturals, Sequences, Lists

EmptyGroup == <<>>

(* Mutant of TakeFile: the size of an emitted group is not reset. *)
TakeFileKeepingSize(acc, f, size, minFiles, target) ==
    LET group == Append(acc.group, f)
        total == acc.total + size
    IN  IF Len(group) >= minFiles /\ total >= target
        THEN [plans |-> Append(acc.plans, group), group |-> EmptyGroup, total |-> total]
        ELSE [acc EXCEPT !.group = group, !.total = total]

(* The file joins the current group, which becomes a plan as soon as it    *)
(* has enough files and enough bytes.                                      *)
TakeFile(acc, f, size, minFiles, target) ==
    LET group == Append(acc.group, f)
        total == acc.total + size
    IN  IF Len(group) >= minFiles /\ total >= target
        THEN [plans |-> Append(acc.plans, group), group |-> EmptyGroup, total |-> 0]
        ELSE [acc EXCEPT !.group = group, !.total = total]

(* Mutant of LastGroup: a group short of the target's bytes always waits. *)
OnlyFullGroups(acc, minFiles) == acc.plans

(* A last group of enough files is planned whatever its bytes; a smaller   *)
(* one waits for a later run.                                              *)
LastGroup(acc, minFiles) ==
    IF Len(acc.group) >= minFiles THEN Append(acc.plans, acc.group) ELSE acc.plans

(* Only files below the target size take part. *)
SmallFiles(files, bytes, target) == {f \in files : bytes[f] < target}

PlanHistory(files, bytes, minFiles, target) ==
    LET inOrder == InOrder(SmallFiles(files, bytes, target))
        start == [plans |-> <<>>, group |-> EmptyGroup, total |-> 0]
        after[n \in 0..Len(inOrder)] ==
            IF n = 0 THEN start
            ELSE TakeFile(after[n - 1], inOrder[n], bytes[inOrder[n]], minFiles, target)
    IN  LastGroup(after[Len(inOrder)], minFiles)
=============================================================================
