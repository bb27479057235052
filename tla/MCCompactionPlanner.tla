------------------------- MODULE MCCompactionPlanner -------------------------
(***************************************************************************)
(* Every partition of up to MaxFiles files with sizes up to MaxBytes is an *)
(* input of the planner: a state is one partition, a step adds a file.     *)
(***************************************************************************)
EXTENDS CompactionPlanner

CONSTANTS MinFiles, Target, MaxFiles, MaxBytes

ASSUME PlannerAssumption ==
    /\ MinFiles \in Nat \ {0}
    /\ Target \in Nat
    /\ MaxFiles \in Nat
    /\ MaxBytes \in Nat

VARIABLE bytes      \* bytes[f]: size of the f-th file of the partition

EmptyPartition == bytes = <<>>

AddFile ==
    /\ Len(bytes) < MaxFiles
    /\ \E size \in 0..MaxBytes : bytes' = Append(bytes, size)

Partitions == EmptyPartition /\ [][AddFile]_bytes

Plans == PlanHistory(DOMAIN bytes, bytes, MinFiles, Target)
Small == InOrder(SmallFiles(DOMAIN bytes, bytes, Target))

(* Totals(s)[n]: the sum of the first n elements of s. *)
Totals(s) ==
    LET upTo[n \in 0..Len(s)] == IF n = 0 THEN 0 ELSE upTo[n - 1] + s[n]
    IN  upTo

(* Planned[i]: how many files the first i plans take. *)
Planned == Totals([i \in DOMAIN Plans |-> Len(Plans[i])])

Bytes(group) == Totals([i \in DOMAIN group |-> bytes[group[i]]])[Len(group)]

(* Full(group): the planner would have emitted the group. *)
Full(group) == Len(group) >= MinFiles /\ Bytes(group) >= Target

(* The plans are consecutive runs of the small files in name order: no     *)
(* file is in two plans, none is skipped, and only files after the last    *)
(* plan are left out, fewer of them than a plan needs.                     *)
PlansCoverSmallFiles ==
    /\ \A i \in DOMAIN Plans : Plans[i] = SubSeq(Small, Planned[i - 1] + 1, Planned[i])
    /\ Planned[Len(Plans)] <= Len(Small)
    /\ Len(Small) < Planned[Len(Plans)] + MinFiles

(* Every plan is large enough to be worth it and no larger than it has to  *)
(* be: it has the minimum of files, every plan but the last has the        *)
(* target's bytes, and no plan could have been cut earlier.                *)
PlansAreMinimal ==
    \A i \in DOMAIN Plans :
        LET group == Plans[i]
        IN  /\ Len(group) >= MinFiles
            /\ i < Len(Plans) => Full(group)
            /\ \A n \in 1..Len(group) - 1 : ~Full(SubSeq(group, 1, n))
=============================================================================
