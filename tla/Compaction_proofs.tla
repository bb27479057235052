-------------------------- MODULE Compaction_proofs --------------------------
(***************************************************************************)
(* Proofs about Compaction.  IInv: where every run is and what it has      *)
(* retired, and that no row is lost or shown twice.  DataInv: tombstones   *)
(* and their replacements, columns, rows that stay hidden, and what a      *)
(* reader of the partition sees.  AheadInv: overlapping runs.              *)
(***************************************************************************)
EXTENDS Compaction, TLAPS, FiniteSetTheorems

(* Files whose name has been in view at some time. *)
Used == {f \in Files : place[f] \notin {"unused", "pending"}}

TombstonesOf(o) == {f \in Files : place[f] = "retired" /\ retiredBy[f] = o}

Claiming == {"copy", "retire", "rollback", "confirm", "clean"}

DistinctUpTo(p, n) ==
    \A i, j \in 1..n : i # j => Inputs(p)[i] # Inputs(p)[j]

(* The inputs of a run have been in view, and nothing else becomes a       *)
(* tombstone of its operation.                                             *)
PlansOK(p) ==
    /\ stage[p] \in Started => plans[p] # <<>>
    /\ \A k \in 1..Len(plans[p]) : \A i \in 1..Len(plans[p][k]) : plans[p][k][i] \in Used

OutputOK(p) ==
    /\ stage[p] \in {"idle", "inspect"} => output[p] = NoFile \/ output[p] \in Published
    /\ stage[p] \in Claiming => output[p] \in Outputs

CopyOK(p) ==
    stage[p] = "copy" => place[output[p]] = "unused" /\ TombstonesOf(output[p]) = {}

RetireOK(p) ==
    stage[p] = "retire" =>
        /\ place[output[p]] = "pending"
        /\ at[p] \in 1..Len(Inputs(p)) + 1
        /\ TombstonesOf(output[p]) = {Inputs(p)[i] : i \in 1..at[p] - 1}
        /\ DistinctUpTo(p, at[p] - 1)
        /\ rows[output[p]] = UNION {rows[f] : f \in Range(Inputs(p))}

RollbackOK(p) ==
    stage[p] = "rollback" =>
        /\ place[output[p]] = "pending"
        /\ at[p] \in 0..Len(Inputs(p))
        /\ \A i \in 1..at[p] : Inputs(p)[i] \in TombstonesOf(output[p])
        /\ DistinctUpTo(p, at[p])

CleanOK(p) ==
    stage[p] \in {"confirm", "clean"} =>
        /\ output[p] \in Published
        /\ at[p] \in 1..Len(Inputs(p)) + 1
        /\ stage[p] = "confirm" => at[p] = 1
        /\ \A i \in at[p]..Len(Inputs(p)) : Inputs(p)[i] \in TombstonesOf(output[p])
        /\ DistinctUpTo(p, Len(Inputs(p)))

RunOK(p) ==
    /\ PlansOK(p) /\ OutputOK(p) /\ CopyOK(p)
    /\ RetireOK(p) /\ RollbackOK(p) /\ CleanOK(p)

(* An operation that left a tombstone has published or is remembered. *)
OperationsOK ==
    /\ \A p, q \in Runs : p # q /\ output[p] # NoFile => output[p] # output[q]
    /\ \A f \in Files : place[f] = "retired" =>
            /\ retiredBy[f] \in Outputs
            /\ retiredBy[f] \in Published \/ \E p \in Runs : output[p] = retiredBy[f]

PartRows == \A f \in Parts : rows[f] = {f}

IInv ==
    /\ TypeOK
    /\ \A p \in Runs : RunOK(p)
    /\ OperationsOK
    /\ PartRows
    /\ RowsPartitioned

------------------------------------------------------------------------------
(* Groups and frames.                                                      *)

LEMMA GroupType ==
  ASSUME TypeOK, NEW p \in Runs, plans[p] # <<>>
  PROVE  /\ Inputs(p) \in Seq(Files)
         /\ Len(Inputs(p)) \in Nat \ {0}
         /\ \A i \in 1..Len(Inputs(p)) : Inputs(p)[i] \in Files /\ Inputs(p)[i] = plans[p][1][i]
         /\ Range(Inputs(p)) = {Inputs(p)[i] : i \in 1..Len(Inputs(p))}
<1>1. plans[p] \in Seq(Seq(Files) \ {<<>>}) /\ Len(plans[p]) \in Nat \ {0}
  BY DEF TypeOK
<1>2. Head(plans[p]) = plans[p][1] /\ plans[p][1] \in Seq(Files) \ {<<>>}
  BY <1>1
<1>3. Inputs(p) = plans[p][1] /\ Inputs(p) \in Seq(Files) /\ Inputs(p) # <<>>
  BY <1>2 DEF Inputs
<1>4. Len(Inputs(p)) \in Nat \ {0}
  BY <1>3
<1> QED BY <1>3, <1>4 DEF Range

SameRun(q) ==
    /\ stage'[q] = stage[q] /\ plans'[q] = plans[q]
    /\ at'[q] = at[q] /\ output'[q] = output[q]

LEMMA OthersKept ==
  ASSUME TypeOK, NEW q \in Runs, RunOK(q), SameRun(q),
         Used \subseteq Used',
         \A f \in Used : rows'[f] = rows[f],
         output[q] \in Outputs =>
            /\ TombstonesOf(output[q]) = {f \in Files : place'[f] = "retired" /\ retiredBy'[f] = output[q]}
            /\ rows'[output[q]] = rows[output[q]]
            /\ place[output[q]] \in {"unused", "pending"} => place'[output[q]] = place[output[q]]
  PROVE  RunOK(q)'
<1> USE DEF SameRun
<1>1. Inputs(q)' = Inputs(q)
  BY DEF Inputs
<1>2. PlansOK(q)'
  BY DEF RunOK, PlansOK
<1>3. Published \subseteq Published'
  BY DEF Published, Used, Files
<1>4. OutputOK(q)'
  BY <1>3 DEF RunOK, OutputOK
<1>5. CopyOK(q)'
  BY DEF RunOK, CopyOK, OutputOK, Claiming, TombstonesOf
<1>6. RetireOK(q)'
  <2> SUFFICES ASSUME stage[q] = "retire" PROVE RetireOK(q)'
    BY DEF RetireOK
  <2>1. output[q] \in Outputs /\ plans[q] # <<>> /\ RetireOK(q)
    BY DEF RunOK, OutputOK, Claiming, PlansOK, Started
  <2>2. \A f \in Range(Inputs(q)) : f \in Used
    <3>1. Len(plans[q]) \in Nat \ {0} /\ Inputs(q) = plans[q][1]
      BY <2>1 DEF TypeOK, Inputs
    <3>2. \A i \in 1..Len(Inputs(q)) : Inputs(q)[i] \in Used
      BY <3>1 DEF RunOK, PlansOK
    <3> QED BY <2>1, <3>2, GroupType
  <2>3. UNION {rows'[f] : f \in Range(Inputs(q))} = UNION {rows[f] : f \in Range(Inputs(q))}
    BY <2>2
  <2>4. DistinctUpTo(q, at[q] - 1)'
    BY <1>1, <2>1 DEF RetireOK, DistinctUpTo
  <2> QED BY <1>1, <2>1, <2>3, <2>4 DEF RetireOK, TombstonesOf
<1>7. RollbackOK(q)'
  BY <1>1 DEF RunOK, RollbackOK, OutputOK, Claiming, DistinctUpTo, TombstonesOf
<1>8. CleanOK(q)'
  BY <1>1, <1>3 DEF RunOK, CleanOK, OutputOK, Claiming, DistinctUpTo, TombstonesOf
<1> QED BY <1>2, <1>4, <1>5, <1>6, <1>7, <1>8 DEF RunOK

Live == Visible \cup Withheld

(* The partition survives when the same files hold the same rows. *)
LEMMA LiveKept ==
  ASSUME RowsPartitioned, Live' = Live, \A f \in Live : rows'[f] = rows[f], Added' = Added
  PROVE  RowsPartitioned'
  BY DEF RowsPartitioned, Live

------------------------------------------------------------------------------
(* Steps of a run that touch no file.                                      *)

LEMMA RunOnly ==
  ASSUME IInv, NEW p \in Runs, UNCHANGED fileVars, TypeOK', RunOK(p)',
         \A q \in Runs \ {p} : SameRun(q),
         \/ output'[p] = output[p]
         \/ /\ output[p] = NoFile \/ output[p] \in Published
            /\ \A q \in Runs : output[q] # output'[p]
  PROVE  IInv'
<1> USE DEF IInv, fileVars
<1>1. /\ Used' = Used /\ Visible' = Visible /\ Published' = Published /\ Added' = Added
      /\ Withheld' = Withheld
  BY DEF Used, Visible, Published, Added, Withheld
<1>2. \A q \in Runs \ {p} : RunOK(q)'
  BY <1>1, OthersKept DEF TombstonesOf
<1>3. PartRows' /\ RowsPartitioned'
  BY <1>1, LiveKept DEF PartRows, Live
<1>4. OperationsOK'
  <2>1. ASSUME NEW f \in Files, place[f] = "retired"
        PROVE  retiredBy[f] \in Published \/ \E q \in Runs : output'[q] = retiredBy[f]
    <3>1. CASE retiredBy[f] \in Published
      BY <3>1
    <3>2. ASSUME NEW q \in Runs, output[q] = retiredBy[f]
          PROVE  retiredBy[f] \in Published \/ output'[q] = retiredBy[f]
      <4>1. retiredBy[f] # NoFile
        BY <2>1, CompactionAssumption DEF OperationsOK, Files
      <4> QED BY <3>2, <4>1 DEF SameRun
    <3> QED BY <2>1, <3>1, <3>2 DEF OperationsOK
  <2>2. ASSUME NEW q \in Runs, NEW r \in Runs, q # r, output'[q] # NoFile
        PROVE  output'[q] # output'[r]
    BY <2>2 DEF OperationsOK, SameRun
  <2> QED BY <1>1, <2>1, <2>2 DEF OperationsOK
<1> QED BY <1>2, <1>3, <1>4

(* A run that has returned or was killed claims nothing. *)
LEMMA Ended ==
  ASSUME IInv, NEW p \in Runs, UNCHANGED <<fileVars, plans, at, output>>,
         stage' \in [Runs -> Stages], stage'[p] \in {"failed", "killed"},
         \A q \in Runs \ {p} : stage'[q] = stage[q],
         report' \in [Runs -> SUBSET Files], faults' \in 0..MaxFaults, kills' \in 0..MaxKills
  PROVE  IInv'
<1>1. TypeOK'
  BY DEF IInv, TypeOK, fileVars
<1>2. RunOK(p)'
  <2>1. Used' = Used
    BY DEF Used, fileVars
  <2>2. PlansOK(p)'
    BY <2>1 DEF IInv, RunOK, PlansOK, Started
  <2> QED BY <2>2 DEF RunOK, OutputOK, CopyOK, RetireOK, RollbackOK, CleanOK, Claiming
<1>3. \A q \in Runs \ {p} : SameRun(q)
  BY DEF SameRun
<1> QED BY <1>1, <1>2, <1>3, RunOnly

LEMMA FaultType == ASSUME TypeOK, Fault \/ UNCHANGED faults PROVE faults' \in 0..MaxFaults
  BY CompactionAssumption DEF Fault, TypeOK

LEMMA InputType ==
  ASSUME IInv, NEW p \in Runs, stage[p] \in Started, at[p] \in 1..Len(Inputs(p))
  PROVE  InputAt(p) \in Files /\ InputAt(p) \in Used
<1>1. plans[p] # <<>> /\ PlansOK(p) /\ TypeOK
  BY DEF IInv, RunOK, PlansOK
<1>2. Len(plans[p]) \in Nat \ {0} /\ Inputs(p) = plans[p][1]
  BY <1>1 DEF TypeOK, Inputs
<1> QED BY <1>1, <1>2, GroupType DEF InputAt, PlansOK

LEMMA EndStep ==
  ASSUME IInv, NEW p \in Runs, OpenFails(p) \/ SchemaConflict(p) \/ ConfirmFails(p) \/ Kill(p)
  PROVE  IInv'
<1>1. CASE OpenFails(p)
  <2>1. faults' \in 0..MaxFaults
    BY <1>1, FaultType DEF OpenFails, IInv
  <2> QED BY <1>1, <2>1, Ended DEF OpenFails, Fail, IInv, TypeOK, Stages
<1>2. CASE SchemaConflict(p)
  BY <1>2, Ended DEF SchemaConflict, Fail, IInv, TypeOK, Stages
<1>3. CASE ConfirmFails(p)
  <2>1. plans[p] # <<>>
    BY <1>3 DEF ConfirmFails, IInv, RunOK, PlansOK, Started
  <2>2. Range(Inputs(p)) \in SUBSET Files
    BY <2>1, GroupType DEF IInv
  <2>3. faults' \in 0..MaxFaults
    BY <1>3, FaultType DEF ConfirmFails, IInv
  <2>4. PICK named \in SUBSET Files : Fail(p, named)
    BY <1>3, <2>2 DEF ConfirmFails
  <2>5. UNCHANGED <<fileVars, kills>>
    BY <1>3 DEF ConfirmFails
  <2> QED BY <2>3, <2>4, <2>5, Ended DEF Fail, IInv, TypeOK, Stages
<1>4. CASE Kill(p)
  <2>1. kills' \in 0..MaxKills
    BY <1>4, CompactionAssumption DEF Kill, IInv, TypeOK
  <2> QED BY <1>4, <2>1, Ended DEF Kill, IInv, TypeOK, Stages
<1> QED BY <1>1, <1>2, <1>3, <1>4

(* A run that goes on with its group. *)
LEMMA Continued ==
  ASSUME IInv, NEW p \in Runs, UNCHANGED <<fileVars, plans, kills>>,
         stage[p] \in Started, NEW s \in Started, NEW n \in Nat, Move(p, s, n),
         report' \in [Runs -> SUBSET Files], faults' \in 0..MaxFaults,
         output' \in [Runs -> Outputs \cup {NoFile}], output'[p] \in Outputs \/ s = "inspect",
         \A q \in Runs \ {p} : output'[q] = output[q],
         \/ output'[p] = output[p]
         \/ /\ output[p] = NoFile \/ output[p] \in Published
            /\ \A q \in Runs : output[q] # output'[p],
         s = "inspect" => output'[p] = NoFile \/ output'[p] \in Published,
         CopyOK(p)', RetireOK(p)', RollbackOK(p)', CleanOK(p)'
  PROVE  IInv'
<1>1. stage'[p] = s /\ at'[p] = n /\ stage' \in [Runs -> Stages] /\ at' \in [Runs -> Nat]
  BY DEF Move, IInv, TypeOK, Started, Stages
<1>2. TypeOK'
  BY <1>1 DEF IInv, TypeOK, fileVars
<1>3. Used' = Used /\ Published' = Published
  BY DEF Used, Published, fileVars
<1>4. PlansOK(p)'
  BY <1>3 DEF IInv, RunOK, PlansOK
<1>5. OutputOK(p)'
  BY <1>1, <1>3 DEF OutputOK, Claiming, Started
<1>6. \A q \in Runs \ {p} : SameRun(q)
  BY DEF SameRun, Move, IInv, TypeOK
<1> QED BY <1>2, <1>4, <1>5, <1>6, RunOnly DEF RunOK

LEMMA ContinueStep ==
  ASSUME IInv, NEW p \in Runs,
         \/ OpenInput(p) \/ MergeSchemas(p) \/ RetireFails(p) \/ PublishFails(p)
         \/ Strand(p) \/ Confirm(p) \/ DeleteFails(p)
  PROVE  IInv'
<1> USE DEF Started
<1>1. stage[p] \in Started
  BY DEF OpenInput, MergeSchemas, RetireFails, PublishFails, Strand, Confirm, DeleteFails
<1>2. TypeOK /\ RunOK(p) /\ plans[p] # <<>> /\ at[p] \in Nat
  BY <1>1 DEF IInv, RunOK, PlansOK, TypeOK
<1>3. Len(Inputs(p)) \in Nat \ {0}
  BY <1>2, GroupType
<1>4. CASE OpenInput(p)
  <2>1. stage'[p] = stage[p] /\ stage[p] \in {"inspect", "copy"} /\ output' = output
    BY <1>2, <1>4 DEF OpenInput, Move, TypeOK
  <2>2. CopyOK(p)' /\ RetireOK(p)' /\ RollbackOK(p)' /\ CleanOK(p)'
    BY <1>2, <1>4, <2>1 DEF OpenInput, RunOK, CopyOK, RetireOK, RollbackOK, CleanOK,
                         TombstonesOf, fileVars
  <2>3. at[p] + 1 \in Nat /\ stage[p] \in Started
    BY <1>1, <1>2
  <2>4. Move(p, stage[p], at[p] + 1) /\ UNCHANGED <<plans, output, report, fileVars, faults, kills>>
    BY <1>4 DEF OpenInput
  <2> QED BY <1>1, <1>2, <2>1, <2>2, <2>3, <2>4, Continued
             DEF TypeOK, RunOK, OutputOK, Claiming
<1>5. CASE MergeSchemas(p)
  <2>1. PICK o \in Outputs : /\ place[o] = "unused" /\ \A q \in Runs : output[q] # o
                             /\ output' = [output EXCEPT ![p] = o]
    BY <1>5 DEF MergeSchemas
  <2>2. output' \in [Runs -> Outputs \cup {NoFile}] /\ output'[p] = o
        /\ \A q \in Runs \ {p} : output'[q] = output[q]
    BY <1>2, <2>1 DEF TypeOK
  <2>3. stage'[p] = "copy"
    BY <1>2, <1>5 DEF MergeSchemas, Move, TypeOK
  <2>4. o \notin Published
    BY <2>1 DEF Published
  <2>5. TombstonesOf(o) = {}
    BY <2>1, <2>4 DEF TombstonesOf, IInv, OperationsOK
  <2>6. CopyOK(p)' /\ RetireOK(p)' /\ RollbackOK(p)' /\ CleanOK(p)'
    BY <1>5, <2>1, <2>2, <2>3, <2>5 DEF MergeSchemas, CopyOK, RetireOK, RollbackOK, CleanOK,
                         TombstonesOf, fileVars
  <2>7. output[p] = NoFile \/ output[p] \in Published
    BY <1>2, <1>5 DEF MergeSchemas, RunOK, OutputOK
  <2>8. Move(p, "copy", 1) /\ UNCHANGED <<plans, report, fileVars, faults, kills>>
    BY <1>5 DEF MergeSchemas
  <2> QED BY <1>1, <1>2, <2>1, <2>2, <2>6, <2>7, <2>8, Continued DEF TypeOK
<1>6. CASE RetireFails(p) \/ PublishFails(p)
  <2>1. stage[p] = "retire" /\ at[p] \in 1..Len(Inputs(p)) + 1 /\ output[p] \in Outputs
    BY <1>2, <1>6 DEF RetireFails, PublishFails, RunOK, RetireOK, OutputOK, Claiming
  <2>2. Move(p, "rollback", at[p] - 1) /\ at[p] - 1 \in Nat
    BY <1>6, <2>1 DEF RetireFails, PublishFails
  <2>3. UNCHANGED <<plans, output, fileVars, kills>>
    BY <1>6 DEF RetireFails, PublishFails
  <2>4. faults' \in 0..MaxFaults
    BY <1>2, <1>6, FaultType DEF RetireFails, PublishFails
  <2>5. report' \in [Runs -> SUBSET Files]
    BY <1>2, <1>6 DEF RetireFails, PublishFails, TypeOK
  <2>6. stage'[p] = "rollback" /\ at'[p] = at[p] - 1 /\ Inputs(p)' = Inputs(p)
    BY <1>2, <2>2, <2>3 DEF Move, TypeOK, Inputs
  <2>7. RollbackOK(p)'
    <3>1. \A i \in 1..at[p] - 1 : Inputs(p)[i] \in TombstonesOf(output[p])
      BY <1>2, <2>1 DEF RunOK, RetireOK
    <3>2. DistinctUpTo(p, at[p] - 1) /\ place[output[p]] = "pending"
      BY <1>2, <2>1 DEF RunOK, RetireOK
    <3> QED BY <1>3, <2>1, <2>3, <2>6, <3>1, <3>2
               DEF RollbackOK, DistinctUpTo, TombstonesOf, fileVars
  <2>8. CopyOK(p)' /\ RetireOK(p)' /\ CleanOK(p)'
    BY <2>6 DEF CopyOK, RetireOK, CleanOK
  <2> QED BY <1>1, <1>2, <2>1, <2>2, <2>3, <2>4, <2>5, <2>7, <2>8, Continued DEF TypeOK
<1>7. CASE Strand(p)
  <2>1. stage[p] = "rollback" /\ at[p] \in 1..Len(Inputs(p)) /\ output[p] \in Outputs
    BY <1>2, <1>3, <1>7 DEF Strand, RunOK, RollbackOK, OutputOK, Claiming
  <2>2. Move(p, "rollback", at[p] - 1) /\ at[p] - 1 \in Nat
    BY <1>7, <2>1 DEF Strand
  <2>3. UNCHANGED <<plans, output, fileVars, kills>>
    BY <1>7 DEF Strand
  <2>4. faults' \in 0..MaxFaults
    BY <1>2, <1>7, FaultType DEF Strand
  <2>5. report' \in [Runs -> SUBSET Files]
    BY <1>1, <1>2, <1>7, <2>1, InputType DEF Strand, TypeOK
  <2>6. stage'[p] = "rollback" /\ at'[p] = at[p] - 1 /\ Inputs(p)' = Inputs(p)
    BY <1>2, <2>2, <2>3 DEF Move, TypeOK, Inputs
  <2>7. RollbackOK(p)'
    BY <1>2, <1>3, <2>1, <2>3, <2>6
       DEF RunOK, RollbackOK, DistinctUpTo, TombstonesOf, fileVars
  <2>8. CopyOK(p)' /\ RetireOK(p)' /\ CleanOK(p)'
    BY <2>6 DEF CopyOK, RetireOK, CleanOK
  <2> QED BY <1>1, <1>2, <2>1, <2>2, <2>3, <2>4, <2>5, <2>7, <2>8, Continued DEF TypeOK
<1>8. CASE Confirm(p)
  <2>1. stage[p] = "confirm" /\ output[p] \in Outputs /\ CleanOK(p)
    BY <1>2, <1>8 DEF Confirm, RunOK, OutputOK, Claiming
  <2>2. Move(p, "clean", 1) /\ UNCHANGED <<plans, output, report, fileVars, faults, kills>>
    BY <1>8 DEF Confirm
  <2>3. stage'[p] = "clean" /\ at'[p] = 1 /\ Inputs(p)' = Inputs(p)
    BY <1>2, <2>2 DEF Move, TypeOK, Inputs
  <2>4. CleanOK(p)'
    BY <1>3, <2>1, <2>2, <2>3 DEF CleanOK, DistinctUpTo, TombstonesOf, Published, fileVars
  <2>5. CopyOK(p)' /\ RetireOK(p)' /\ RollbackOK(p)'
    BY <2>3 DEF CopyOK, RetireOK, RollbackOK
  <2> QED BY <1>1, <1>2, <2>1, <2>2, <2>4, <2>5, Continued DEF TypeOK
<1>9. CASE DeleteFails(p)
  <2>1. stage[p] = "clean" /\ output[p] \in Outputs /\ CleanOK(p)
        /\ at[p] \in 1..Len(Inputs(p))
    BY <1>2, <1>3, <1>9 DEF DeleteFails, RunOK, OutputOK, Claiming, CleanOK, AllDone
  <2>2. Move(p, "clean", at[p] + 1) /\ UNCHANGED <<plans, output, fileVars, kills>>
    BY <1>9 DEF DeleteFails
  <2>3. stage'[p] = "clean" /\ at'[p] = at[p] + 1 /\ Inputs(p)' = Inputs(p)
    BY <1>2, <2>2 DEF Move, TypeOK, Inputs
  <2>4. CleanOK(p)'
    BY <1>3, <2>1, <2>2, <2>3 DEF CleanOK, DistinctUpTo, TombstonesOf, Published, fileVars
  <2>5. CopyOK(p)' /\ RetireOK(p)' /\ RollbackOK(p)'
    BY <2>3 DEF CopyOK, RetireOK, RollbackOK
  <2>6. faults' \in 0..MaxFaults
    BY <1>2, <1>9, FaultType DEF DeleteFails
  <2>7. report' \in [Runs -> SUBSET Files]
    BY <1>1, <1>2, <1>9, <2>1, InputType DEF DeleteFails, TypeOK
  <2>8. at[p] + 1 \in Nat
    BY <1>2
  <2> QED BY <1>1, <1>2, <2>1, <2>2, <2>4, <2>5, <2>6, <2>7, <2>8, Continued DEF TypeOK
<1> QED BY <1>4, <1>5, <1>6, <1>7, <1>8, <1>9

LEMMA BeginStep == ASSUME IInv, NEW p \in Runs, BeginHistory(p) PROVE IInv'
<1> DEFINE s == IF Plan(Visible) = <<>> THEN "done" ELSE "inspect"
<1>1. TypeOK /\ RunOK(p)
  BY DEF IInv
<1>2. /\ plans' = [plans EXCEPT ![p] = Plan(Visible)]
      /\ Move(p, s, 1)
      /\ UNCHANGED <<output, report, fileVars, faults, kills>>
  BY DEF BeginHistory
<1>3. Visible \in SUBSET Files /\ Visible \subseteq Used
  BY DEF Visible, Used
<1>4. Plan(Visible) \in Seq(Seq(Visible) \ {<<>>})
  BY <1>3, PlanAssumption
<1>5. \A k \in 1..Len(Plan(Visible)) : Plan(Visible)[k] \in Seq(Visible) /\ Plan(Visible)[k] # <<>>
  BY <1>4
<1>6. Plan(Visible) \in Seq(Seq(Files) \ {<<>>})
  <2>1. \A t \in Seq(Visible) : t \in Seq(Files)
    BY <1>3
  <2>2. \A k \in 1..Len(Plan(Visible)) : Plan(Visible)[k] \in Seq(Files) \ {<<>>}
    BY <1>5, <2>1
  <2> QED BY <1>4, <2>2
<1>7. stage'[p] = s /\ s \in {"done", "inspect"} /\ plans'[p] = Plan(Visible)
  BY <1>1, <1>2 DEF Move, TypeOK
<1>8. TypeOK'
  <2>1. plans' \in [Runs -> Seq(Seq(Files) \ {<<>>})]
    BY <1>1, <1>2, <1>6 DEF TypeOK
  <2>2. stage' \in [Runs -> Stages] /\ at' \in [Runs -> Nat]
    BY <1>1, <1>2, <1>7 DEF TypeOK, Move, Stages
  <2> QED BY <1>1, <1>2, <2>1, <2>2 DEF TypeOK, fileVars
<1>9. RunOK(p)'
  <2>1. Used' = Used /\ Published' = Published
    BY <1>2 DEF Used, Published, fileVars
  <2>2. PlansOK(p)'
    <3>1. stage'[p] \in Started => Plan(Visible) # <<>>
      BY <1>7 DEF Started
    <3>2. ASSUME NEW k \in 1..Len(Plan(Visible)), NEW i \in 1..Len(Plan(Visible)[k])
          PROVE  Plan(Visible)[k][i] \in Used
      BY <1>3, <1>5
    <3> QED BY <1>7, <2>1, <3>1, <3>2 DEF PlansOK
  <2>3. OutputOK(p)'
    BY <1>1, <1>2, <1>7, <2>1 DEF BeginHistory, RunOK, OutputOK, Claiming
  <2>4. CopyOK(p)' /\ RetireOK(p)' /\ RollbackOK(p)' /\ CleanOK(p)'
    BY <1>7 DEF CopyOK, RetireOK, RollbackOK, CleanOK
  <2> QED BY <2>2, <2>3, <2>4 DEF RunOK
<1>10. \A q \in Runs \ {p} : SameRun(q)
  BY <1>1, <1>2 DEF SameRun, Move, TypeOK
<1> QED BY <1>2, <1>8, <1>9, <1>10, RunOnly

LEMMA NextPlanStep == ASSUME IInv, NEW p \in Runs, NextPlan(p) PROVE IInv'
<1> DEFINE s == IF Len(plans[p]) = 1 THEN "done" ELSE "inspect"
<1>1. TypeOK /\ RunOK(p)
  BY DEF IInv
<1>2. /\ plans' = [plans EXCEPT ![p] = Tail(@)]
      /\ Move(p, s, 1)
      /\ UNCHANGED <<output, report, fileVars, faults, kills>>
  BY DEF NextPlan
<1>3. plans[p] \in Seq(Seq(Files) \ {<<>>}) /\ plans[p] # <<>>
  BY <1>1 DEF NextPlan, RunOK, PlansOK, TypeOK, Started
<1>4. /\ Tail(plans[p]) \in Seq(Seq(Files) \ {<<>>})
      /\ Len(Tail(plans[p])) = Len(plans[p]) - 1
      /\ \A k \in 1..Len(Tail(plans[p])) : Tail(plans[p])[k] = plans[p][k + 1]
  BY <1>3
<1>5. stage'[p] = s /\ s \in {"done", "inspect"} /\ plans'[p] = Tail(plans[p])
  BY <1>1, <1>2 DEF Move, TypeOK
<1>6. TypeOK'
  <2>1. plans' \in [Runs -> Seq(Seq(Files) \ {<<>>})]
    BY <1>1, <1>2, <1>4 DEF TypeOK
  <2>2. stage' \in [Runs -> Stages] /\ at' \in [Runs -> Nat]
    BY <1>1, <1>2, <1>5 DEF TypeOK, Move, Stages
  <2> QED BY <1>1, <1>2, <2>1, <2>2 DEF TypeOK, fileVars
<1>7. RunOK(p)'
  <2>1. Used' = Used /\ Published' = Published
    BY <1>2 DEF Used, Published, fileVars
  <2>2. PlansOK(p)'
    <3>1. ASSUME stage'[p] \in Started PROVE Tail(plans[p]) # <<>>
      <4>1. Len(plans[p]) # 1
        BY <1>5, <3>1 DEF Started
      <4>2. Len(plans[p]) \in Nat \ {0}
        BY <1>3
      <4>3. Len(Tail(plans[p])) # 0
        BY <1>4, <4>1, <4>2
      <4>4. Len(<<>>) = 0
        OBVIOUS
      <4> QED BY <4>3, <4>4
    <3>2. ASSUME NEW k \in 1..Len(Tail(plans[p])), NEW i \in 1..Len(Tail(plans[p])[k])
          PROVE  Tail(plans[p])[k][i] \in Used
      <4>1. k + 1 \in 1..Len(plans[p]) /\ Tail(plans[p])[k] = plans[p][k + 1]
        BY <1>3, <1>4
      <4> QED BY <1>1, <4>1 DEF RunOK, PlansOK
    <3> QED BY <1>5, <2>1, <3>1, <3>2 DEF PlansOK
  <2>3. OutputOK(p)'
    BY <1>1, <1>2, <1>5, <2>1 DEF NextPlan, RunOK, OutputOK, CleanOK, Claiming
  <2>4. CopyOK(p)' /\ RetireOK(p)' /\ RollbackOK(p)' /\ CleanOK(p)'
    BY <1>5 DEF CopyOK, RetireOK, RollbackOK, CleanOK
  <2> QED BY <2>2, <2>3, <2>4 DEF RunOK
<1>8. \A q \in Runs \ {p} : SameRun(q)
  BY <1>1, <1>2 DEF SameRun, Move, TypeOK
<1> QED BY <1>2, <1>6, <1>7, <1>8, RunOnly

------------------------------------------------------------------------------
(* Steps that move a file.                                                 *)

(* The other runs and the claims are untouched when a run moves its own    *)
(* replacement or an input that is, or becomes, its own tombstone.         *)
LEMMA OwnFile ==
  ASSUME IInv, NEW p \in Runs, NEW x \in Files, output[p] \in Outputs, output' = output,
         \A q \in Runs \ {p} : SameRun(q),
         \A f \in Files \ {x} :
            place'[f] = place[f] /\ retiredBy'[f] = retiredBy[f] /\ rows'[f] = rows[f],
         x = output[p] \/ x \in Used,
         x \in Used => rows'[x] = rows[x] /\ x \in Used',
         place[x] = "retired" => retiredBy[x] = output[p],
         place'[x] = "retired" => retiredBy'[x] = output[p]
  PROVE  /\ Used \subseteq Used'
         /\ Published \subseteq Published'
         /\ \A q \in Runs \ {p} : RunOK(q)'
         /\ OperationsOK'
         /\ PartRows'
<1>1. Used \subseteq Used'
  BY DEF Used
<1>2. Published \subseteq Published'
  BY <1>1 DEF Published, Used, Files
<1>3. \A f \in Used : rows'[f] = rows[f]
  BY DEF Used
<1>4. ASSUME NEW q \in Runs \ {p} PROVE RunOK(q)'
  <2>1. output[p] # NoFile
    BY CompactionAssumption DEF Files
  <2>2. output[q] # output[p]
    BY <2>1 DEF IInv, OperationsOK
  <2>3. TombstonesOf(output[q]) = {f \in Files : place'[f] = "retired" /\ retiredBy'[f] = output[q]}
    BY <2>2 DEF TombstonesOf
  <2>4. ASSUME output[q] \in Outputs
        PROVE  /\ rows'[output[q]] = rows[output[q]]
               /\ place[output[q]] \in {"unused", "pending"} => place'[output[q]] = place[output[q]]
    <3>1. output[q] \in Files
      BY <2>4 DEF Files
    <3>2. CASE output[q] # x
      BY <3>1, <3>2
    <3>3. CASE output[q] = x
      BY <2>2, <3>3 DEF Used
    <3> QED BY <3>2, <3>3
  <2> QED BY <1>1, <1>3, <2>3, <2>4, OthersKept DEF IInv
<1>5. OperationsOK'
  <2>1. ASSUME NEW f \in Files, place'[f] = "retired"
        PROVE  /\ retiredBy'[f] \in Outputs
               /\ retiredBy'[f] \in Published' \/ \E q \in Runs : output[q] = retiredBy'[f]
    <3>1. CASE f = x
      BY <2>1, <3>1
    <3>2. CASE f # x
      BY <1>2, <2>1, <3>2 DEF IInv, OperationsOK
    <3> QED BY <3>1, <3>2
  <2> QED BY <2>1 DEF IInv, OperationsOK
<1>6. PartRows'
  BY <1>3, CompactionAssumption DEF IInv, PartRows, Files
<1> QED BY <1>1, <1>2, <1>4, <1>5, <1>6

(* No scan sees a run handle its hidden replacement. *)
LEMMA HiddenFile ==
  ASSUME IInv, NEW x \in Outputs, retiredBy' = retiredBy,
         place[x] \in {"unused", "pending"}, place'[x] \in {"unused", "pending"},
         \A f \in Files \ {x} : place'[f] = place[f] /\ rows'[f] = rows[f]
  PROVE  RowsPartitioned'
<1>1. Published' = Published /\ Visible' = Visible /\ Added' = Added
  BY CompactionAssumption DEF Published, Visible, Added, Files
<1>2. Withheld' = Withheld
  BY <1>1 DEF Withheld
<1>3. \A f \in Live : rows'[f] = rows[f]
  BY DEF Live, Visible, Withheld
<1> QED BY <1>1, <1>2, <1>3, LiveKept DEF IInv, Live

LEMMA OutputFacts ==
  ASSUME IInv, NEW p \in Runs, stage[p] \in Claiming
  PROVE  /\ TypeOK /\ RunOK(p) /\ plans[p] # <<>> /\ at[p] \in Nat
         /\ output[p] \in Outputs /\ output[p] \in Files
         /\ Len(Inputs(p)) \in Nat \ {0}
         /\ Inputs(p) \in Seq(Files)
         /\ Range(Inputs(p)) = {Inputs(p)[i] : i \in 1..Len(Inputs(p))}
         /\ \A f \in Range(Inputs(p)) : f \in Used
<1>1. TypeOK /\ RunOK(p) /\ plans[p] # <<>> /\ at[p] \in Nat
      /\ output[p] \in Outputs /\ output[p] \in Files
  BY DEF IInv, RunOK, PlansOK, OutputOK, TypeOK, Claiming, Started, Files
<1>2. Len(plans[p]) \in Nat \ {0} /\ Inputs(p) = plans[p][1]
  BY <1>1 DEF TypeOK, Inputs
<1>3. \A i \in 1..Len(Inputs(p)) : Inputs(p)[i] \in Used
  BY <1>1, <1>2 DEF RunOK, PlansOK
<1> QED BY <1>1, <1>3, GroupType

(* The plans of a run survive as long as it keeps them. *)
LEMMA PlansKept ==
  ASSUME NEW p \in Runs, PlansOK(p), stage[p] \in Started,
         plans' = plans, Used \subseteq Used'
  PROVE  PlansOK(p)'
  BY DEF PlansOK

LEMMA AddPartStep == ASSUME IInv, NEW f \in Parts, AddPart(f) PROVE IInv'
<1>1. f \in Files /\ f \notin Outputs /\ place[f] = "unused" /\ TypeOK
  BY CompactionAssumption DEF AddPart, Files, IInv
<1>2. /\ place' = [place EXCEPT ![f] = "visible"]
      /\ UNCHANGED <<retiredBy, rows, schema, stage, plans, at, output, report, faults, kills>>
  BY DEF AddPart, runVars
<1>3. TypeOK'
  BY <1>1, <1>2 DEF TypeOK
<1>4. place'[f] = "visible" /\ \A g \in Files \ {f} : place'[g] = place[g]
  BY <1>1, <1>2 DEF TypeOK
<1>5. Used \subseteq Used' /\ Published' = Published
  BY <1>1, <1>4 DEF Used, Published, Files
<1>6. ASSUME NEW q \in Runs PROVE RunOK(q)'
  <2>1. SameRun(q)
    BY <1>2 DEF SameRun
  <2>2. TombstonesOf(output[q]) = {g \in Files : place'[g] = "retired" /\ retiredBy'[g] = output[q]}
    BY <1>1, <1>2, <1>4 DEF TombstonesOf
  <2>3. output[q] \in Outputs => output[q] \in Files \ {f}
    BY <1>1 DEF Files
  <2>4. RunOK(q)
    BY DEF IInv
  <2> QED BY <1>1, <1>2, <1>4, <1>5, <2>1, <2>2, <2>3, <2>4, OthersKept
<1>7. OperationsOK'
  BY <1>1, <1>2, <1>4, <1>5 DEF IInv, OperationsOK
<1>8. RowsPartitioned'
  <2>1. Visible' = Visible \cup {f} /\ Withheld' = Withheld /\ Added' = Added \cup {f}
    BY <1>1, <1>2, <1>4, <1>5 DEF Visible, Withheld, Added, Files
  <2>2. rows[f] = {f} /\ f \notin Added
    BY <1>1 DEF IInv, PartRows, Added
  <2>3. \A g \in Visible \cup Withheld : rows[g] \subseteq Added
    BY DEF IInv, RowsPartitioned
  <2>4. UNION {rows[g] : g \in Visible \cup {f} \cup Withheld} = Added \cup {f}
    BY <2>2 DEF IInv, RowsPartitioned
  <2>5. \A g, h \in Visible \cup {f} \cup Withheld : g # h => rows[g] \cap rows[h] = {}
    BY <2>2, <2>3 DEF IInv, RowsPartitioned
  <2> QED BY <1>2, <2>1, <2>4, <2>5 DEF RowsPartitioned
<1>9. PartRows'
  BY <1>2 DEF IInv, PartRows
<1> QED BY <1>3, <1>6, <1>7, <1>8, <1>9 DEF IInv

LEMMA CandidateStep ==
  ASSUME IInv, NEW p \in Runs, WriteCandidate(p) \/ CandidateFails(p)
  PROVE  IInv'
<1> DEFINE o == output[p]
<1>1. stage[p] = "copy"
  BY DEF WriteCandidate, CandidateFails
<1>2. /\ TypeOK /\ RunOK(p) /\ plans[p] # <<>> /\ at[p] \in Nat
      /\ o \in Outputs /\ o \in Files /\ o \notin Used
      /\ Len(Inputs(p)) \in Nat \ {0}
      /\ \A f \in Range(Inputs(p)) : f \in Used
      /\ place[o] = "unused" /\ TombstonesOf(o) = {}
  BY <1>1, OutputFacts DEF Claiming, RunOK, CopyOK, Used
<1>3. /\ \A f \in Files \ {o} : place'[f] = place[f] /\ rows'[f] = rows[f]
      /\ place'[o] \in {"unused", "pending"}
      /\ place' \in [Files -> {"unused", "pending", "visible", "retired", "gone"}]
      /\ UNCHANGED <<retiredBy, plans, output, kills>>
  <2>1. CASE WriteCandidate(p)
    BY <1>2, <2>1 DEF WriteCandidate, TypeOK
  <2>2. CASE CandidateFails(p)
    <3>1. place' \in {place, [place EXCEPT ![o] = "pending"]} /\ UNCHANGED <<retiredBy, rows, kills>>
      BY <2>2 DEF CandidateFails
    <3>2. UNCHANGED <<plans, output>>
      BY <2>2 DEF CandidateFails, Fail
    <3>3. CASE place' = place
      BY <1>2, <3>1, <3>2, <3>3 DEF TypeOK
    <3>4. CASE place' = [place EXCEPT ![o] = "pending"]
      BY <1>2, <3>1, <3>2, <3>4 DEF TypeOK
    <3> QED BY <3>1, <3>3, <3>4
  <2> QED BY <2>1, <2>2
<1>4. \A q \in Runs \ {p} : SameRun(q)
  BY <1>2 DEF WriteCandidate, CandidateFails, Move, Fail, SameRun, TypeOK
<1>5. /\ Used \subseteq Used' /\ Published \subseteq Published'
      /\ \A q \in Runs \ {p} : RunOK(q)'
      /\ OperationsOK' /\ PartRows'
  BY <1>2, <1>3, <1>4, OwnFile
<1>6. RowsPartitioned'
  BY <1>2, <1>3, HiddenFile
<1>7. PlansOK(p)'
  BY <1>1, <1>2, <1>3, <1>5, PlansKept DEF RunOK, Started
<1>8. CASE WriteCandidate(p)
  <2>1. /\ place' = [place EXCEPT ![o] = "pending"]
        /\ rows' = [rows EXCEPT ![o] = UNION {rows[f] : f \in Range(Inputs(p))}]
        /\ schema' = [schema EXCEPT ![o] = Merged(Range(Inputs(p)))]
        /\ Move(p, "retire", 1)
        /\ UNCHANGED <<report, faults>>
    BY <1>8 DEF WriteCandidate
  <2>2. stage'[p] = "retire" /\ at'[p] = 1 /\ Inputs(p)' = Inputs(p)
    BY <1>2, <1>3, <2>1 DEF Move, TypeOK, Inputs
  <2>3. UNION {rows[f] : f \in Range(Inputs(p))} \in SUBSET Parts
    BY <1>2 DEF TypeOK, Used
  <2>4. TypeOK'
    <3>1. rows' \in [Files -> SUBSET Parts]
      BY <1>2, <2>1, <2>3 DEF TypeOK
    <3>2. stage' \in [Runs -> Stages] /\ at' \in [Runs -> Nat]
      BY <1>2, <2>1 DEF TypeOK, Move, Stages
    <3> QED BY <1>2, <1>3, <2>1, <3>1, <3>2 DEF TypeOK
  <2>5. RetireOK(p)'
    <3>1. rows'[o] = UNION {rows[f] : f \in Range(Inputs(p))}
      BY <1>2, <2>1 DEF TypeOK
    <3>2. \A f \in Range(Inputs(p)) : rows'[f] = rows[f]
      BY <1>2, <1>3 DEF Used
    <3>3. UNION {rows'[f] : f \in Range(Inputs(p))} = UNION {rows[f] : f \in Range(Inputs(p))}
      BY <3>2
    <3>4. {f \in Files : place'[f] = "retired" /\ retiredBy'[f] = o} = {}
      BY <1>2, <1>3 DEF TombstonesOf
    <3>5. place'[o] = "pending"
      BY <1>2, <2>1 DEF TypeOK
    <3>6. 1..(1 - 1) = {} /\ 1 \in 1..Len(Inputs(p)) + 1
      BY <1>2
    <3>7. {Inputs(p)[i] : i \in 1..(1 - 1)} = {}
      BY <3>6
    <3> QED BY <1>3, <2>2, <3>1, <3>3, <3>4, <3>5, <3>6, <3>7 DEF RetireOK, TombstonesOf, DistinctUpTo
  <2>6. OutputOK(p)' /\ CopyOK(p)' /\ RollbackOK(p)' /\ CleanOK(p)'
    BY <1>2, <1>3, <2>2 DEF OutputOK, CopyOK, RollbackOK, CleanOK
  <2> QED BY <1>5, <1>6, <1>7, <2>4, <2>5, <2>6 DEF IInv, RunOK
<1>9. CASE CandidateFails(p)
  <2>1. Fail(p, {}) /\ Fault /\ UNCHANGED <<rows, schema>>
    BY <1>9 DEF CandidateFails
  <2>2. stage'[p] = "failed"
    BY <1>2, <2>1 DEF Fail, TypeOK
  <2>3. TypeOK'
    <3>1. faults' \in 0..MaxFaults
      BY <1>2, <2>1, FaultType
    <3>2. stage' \in [Runs -> Stages] /\ report' \in [Runs -> SUBSET Files]
      BY <1>2, <2>1 DEF TypeOK, Fail, Stages
    <3> QED BY <1>2, <1>3, <2>1, <3>1, <3>2 DEF TypeOK, Fail
  <2>4. OutputOK(p)' /\ CopyOK(p)' /\ RetireOK(p)' /\ RollbackOK(p)' /\ CleanOK(p)'
    BY <2>2 DEF OutputOK, CopyOK, RetireOK, RollbackOK, CleanOK, Claiming
  <2> QED BY <1>5, <1>6, <1>7, <2>3, <2>4 DEF IInv, RunOK
<1> QED BY <1>8, <1>9

LEMMA RolledBackStep == ASSUME IInv, NEW p \in Runs, RolledBack(p) PROVE IInv'
<1> DEFINE o == output[p]
<1>1. stage[p] = "rollback"
  BY DEF RolledBack
<1>2. /\ TypeOK /\ RunOK(p) /\ o \in Outputs /\ o \in Files /\ o \notin Used
      /\ place[o] = "pending"
  BY <1>1, OutputFacts DEF Claiming, RunOK, RollbackOK, Used
<1>3. /\ \A f \in Files \ {o} : place'[f] = place[f] /\ rows'[f] = rows[f]
      /\ place'[o] \in {"unused", "pending"}
      /\ place' \in [Files -> {"unused", "pending", "visible", "retired", "gone"}]
      /\ UNCHANGED <<retiredBy, rows, schema, plans, at, output, kills>>
  BY <1>2 DEF RolledBack, Fail, TypeOK
<1>4. \A q \in Runs \ {p} : SameRun(q)
  BY <1>2 DEF RolledBack, Fail, SameRun, TypeOK
<1>5. /\ Used \subseteq Used'
      /\ \A q \in Runs \ {p} : RunOK(q)'
      /\ OperationsOK' /\ PartRows'
  BY <1>2, <1>3, <1>4, OwnFile
<1>6. RowsPartitioned'
  BY <1>2, <1>3, HiddenFile
<1>7. PlansOK(p)'
  BY <1>1, <1>2, <1>3, <1>5, PlansKept DEF RunOK, Started
<1>8. stage'[p] = "failed" /\ Fail(p, report[p])
  BY <1>2 DEF RolledBack, Fail, TypeOK
<1>9. TypeOK'
  <2>1. faults' \in 0..MaxFaults
    BY <1>2, FaultType DEF RolledBack
  <2>2. stage' \in [Runs -> Stages] /\ report' \in [Runs -> SUBSET Files]
    BY <1>2, <1>8 DEF TypeOK, Fail, Stages
  <2> QED BY <1>2, <1>3, <2>1, <2>2 DEF TypeOK
<1>10. OutputOK(p)' /\ CopyOK(p)' /\ RetireOK(p)' /\ RollbackOK(p)' /\ CleanOK(p)'
  BY <1>8 DEF OutputOK, CopyOK, RetireOK, RollbackOK, CleanOK, Claiming
<1> QED BY <1>5, <1>6, <1>7, <1>9, <1>10 DEF IInv, RunOK

(* The input a run moves next, and the replacement, are different files. *)
LEMMA RetireStep == ASSUME IInv, NEW p \in Runs, Retire(p) PROVE IInv'
<1> DEFINE o == output[p]
           x == InputAt(p)
           n == at[p]
<1>1. stage[p] = "retire"
  BY DEF Retire
<1>2. /\ TypeOK /\ RunOK(p) /\ plans[p] # <<>> /\ n \in 1..Len(Inputs(p))
      /\ o \in Outputs /\ o \in Files /\ place[o] = "pending"
      /\ Len(Inputs(p)) \in Nat \ {0}
      /\ TombstonesOf(o) = {Inputs(p)[i] : i \in 1..n - 1}
      /\ DistinctUpTo(p, n - 1)
      /\ rows[o] = UNION {rows[f] : f \in Range(Inputs(p))}
  <2>1. /\ TypeOK /\ RunOK(p) /\ plans[p] # <<>> /\ o \in Outputs /\ o \in Files
        /\ Len(Inputs(p)) \in Nat \ {0}
    BY <1>1, OutputFacts DEF Claiming
  <2>2. RetireOK(p)
    BY <2>1 DEF RunOK
  <2>3. n \in 1..Len(Inputs(p)) + 1 /\ ~(n > Len(Inputs(p)))
    BY <1>1, <2>2 DEF RetireOK, Retire, AllDone
  <2>4. n \in 1..Len(Inputs(p))
    BY <2>1, <2>3
  <2> QED BY <1>1, <2>1, <2>2, <2>4 DEF RetireOK
<1>3. x \in Files /\ x \in Used /\ x = Inputs(p)[n] /\ place[x] = "visible"
  BY <1>1, <1>2, InputType DEF Started, InputAt, Retire
<1>4. /\ place' = [place EXCEPT ![x] = "retired"]
      /\ retiredBy' = [retiredBy EXCEPT ![x] = o]
      /\ Move(p, "retire", n + 1)
      /\ UNCHANGED <<rows, schema, plans, output, report, faults, kills>>
  BY DEF Retire
<1>5. /\ \A f \in Files \ {x} : place'[f] = place[f] /\ retiredBy'[f] = retiredBy[f]
      /\ place'[x] = "retired" /\ retiredBy'[x] = o
  BY <1>2, <1>3, <1>4 DEF TypeOK
<1>6. stage'[p] = "retire" /\ at'[p] = n + 1 /\ Inputs(p)' = Inputs(p)
  BY <1>2, <1>4 DEF Move, TypeOK, Inputs
<1>7. \A q \in Runs \ {p} : SameRun(q)
  BY <1>2, <1>4 DEF Move, SameRun, TypeOK
<1>8. x \in Used'
  BY <1>3, <1>5 DEF Used
<1>9. /\ Used \subseteq Used'
      /\ \A q \in Runs \ {p} : RunOK(q)'
      /\ OperationsOK' /\ PartRows'
  BY <1>2, <1>3, <1>4, <1>5, <1>7, <1>8, OwnFile
<1>10. TypeOK'
  <2>1. stage' \in [Runs -> Stages] /\ at' \in [Runs -> Nat]
    BY <1>2, <1>4 DEF TypeOK, Move, Stages
  <2> QED BY <1>2, <1>3, <1>4, <2>1 DEF TypeOK
<1>11. RowsPartitioned'
  <2>1. Published' = Published /\ o \notin Published
    BY <1>2, <1>3, <1>5 DEF Published, Files
  <2>2. Visible' = Visible \ {x} /\ x \in Visible
    BY <1>3, <1>5 DEF Visible
  <2>3. Withheld' = Withheld \cup {x}
    BY <1>3, <1>5, <2>1 DEF Withheld
  <2>4. Added' = Added
    BY <1>3, <1>5, CompactionAssumption DEF Added, Files
  <2> QED BY <1>4, <2>2, <2>3, <2>4, LiveKept DEF IInv, Live
<1>12. RetireOK(p)'
  <2>1. {f \in Files : place'[f] = "retired" /\ retiredBy'[f] = o} = TombstonesOf(o) \cup {x}
    BY <1>3, <1>5 DEF TombstonesOf
  <2>2. 1..n = (1..n - 1) \cup {n} /\ (n + 1) - 1 = n
    BY <1>2
  <2>3. TombstonesOf(o) \cup {x} = {Inputs(p)[i] : i \in 1..n}
    BY <1>2, <1>3, <2>2
  <2>4. \A i \in 1..n - 1 : Inputs(p)[i] # x
    BY <1>2, <1>3 DEF TombstonesOf
  <2>5. \A i, j \in 1..n : i # j => Inputs(p)[i] # Inputs(p)[j]
    BY <1>2, <1>3, <2>2, <2>4 DEF DistinctUpTo
  <2>6. place'[o] = "pending"
    BY <1>2, <1>3, <1>5
  <2>7. n + 1 \in 1..Len(Inputs(p)) + 1
    BY <1>2
  <2>8. DistinctUpTo(p, at[p] - 1)'
    BY <1>6, <2>2, <2>5 DEF DistinctUpTo
  <2>9. TombstonesOf(output[p])' = {Inputs(p)[i] : i \in 1..n}
    BY <1>4, <2>1, <2>3 DEF TombstonesOf
  <2> QED BY <1>2, <1>4, <1>6, <2>2, <2>6, <2>7, <2>8, <2>9 DEF RetireOK
<1>13. PlansOK(p)' /\ OutputOK(p)' /\ CopyOK(p)' /\ RollbackOK(p)' /\ CleanOK(p)'
  <2>1. PlansOK(p)'
    BY <1>1, <1>2, <1>4, <1>9, PlansKept DEF RunOK, Started
  <2> QED BY <1>2, <1>4, <1>6, <2>1 DEF OutputOK, CopyOK, RollbackOK, CleanOK
<1> QED BY <1>9, <1>10, <1>11, <1>12, <1>13 DEF IInv, RunOK

LEMMA RestoreStep == ASSUME IInv, NEW p \in Runs, Restore(p) PROVE IInv'
<1> DEFINE o == output[p]
           x == InputAt(p)
           n == at[p]
<1>1. stage[p] = "rollback"
  BY DEF Restore
<1>2. /\ TypeOK /\ RunOK(p) /\ plans[p] # <<>> /\ n \in 1..Len(Inputs(p))
      /\ o \in Outputs /\ o \in Files /\ place[o] = "pending"
      /\ Len(Inputs(p)) \in Nat \ {0}
      /\ \A i \in 1..n : Inputs(p)[i] \in TombstonesOf(o)
      /\ DistinctUpTo(p, n)
  BY <1>1, OutputFacts DEF Claiming, RunOK, RollbackOK, Restore
<1>3. x \in Files /\ x \in Used /\ x = Inputs(p)[n] /\ place[x] = "retired" /\ retiredBy[x] = o
  BY <1>1, <1>2, InputType DEF Started, InputAt, TombstonesOf
<1>4. /\ place' = [place EXCEPT ![x] = "visible"]
      /\ retiredBy' = [retiredBy EXCEPT ![x] = NoFile]
      /\ Move(p, "rollback", n - 1)
      /\ UNCHANGED <<rows, schema, plans, output, report, faults, kills>>
  BY DEF Restore
<1>5. /\ \A f \in Files \ {x} : place'[f] = place[f] /\ retiredBy'[f] = retiredBy[f]
      /\ place'[x] = "visible"
  BY <1>2, <1>3, <1>4 DEF TypeOK
<1>6. stage'[p] = "rollback" /\ at'[p] = n - 1 /\ n - 1 \in Nat /\ Inputs(p)' = Inputs(p)
  BY <1>2, <1>4 DEF Move, TypeOK, Inputs
<1>7. \A q \in Runs \ {p} : SameRun(q)
  BY <1>2, <1>4 DEF Move, SameRun, TypeOK
<1>8. x \in Used'
  BY <1>3, <1>5 DEF Used
<1>9. /\ Used \subseteq Used'
      /\ \A q \in Runs \ {p} : RunOK(q)'
      /\ OperationsOK' /\ PartRows'
  BY <1>2, <1>3, <1>4, <1>5, <1>7, <1>8, OwnFile
<1>10. TypeOK'
  <2>1. stage' \in [Runs -> Stages] /\ at' \in [Runs -> Nat]
    BY <1>2, <1>4, <1>6 DEF TypeOK, Move, Stages
  <2> QED BY <1>2, <1>3, <1>4, <2>1 DEF TypeOK
<1>11. RowsPartitioned'
  <2>1. Published' = Published /\ o \notin Published
    BY <1>2, <1>3, <1>5 DEF Published, Files
  <2>2. Visible' = Visible \cup {x}
    BY <1>3, <1>5 DEF Visible
  <2>3. Withheld' = Withheld \ {x} /\ x \in Withheld
    BY <1>3, <1>5, <2>1 DEF Withheld
  <2>4. Added' = Added
    BY <1>3, <1>5, CompactionAssumption DEF Added, Files
  <2> QED BY <1>4, <2>2, <2>3, <2>4, LiveKept DEF IInv, Live
<1>12. RollbackOK(p)'
  <2>1. \A i \in 1..n - 1 : i \in 1..n /\ i # n
    BY <1>2
  <2>2. \A i \in 1..n - 1 : Inputs(p)[i] # x /\ Inputs(p)[i] \in TombstonesOf(o)
    BY <1>2, <1>3, <2>1 DEF DistinctUpTo
  <2>3. \A i \in 1..n - 1 : Inputs(p)[i] \in TombstonesOf(output[p])'
    BY <1>4, <1>5, <2>2 DEF TombstonesOf
  <2>4. DistinctUpTo(p, at[p])'
    BY <1>2, <1>6, <2>1 DEF DistinctUpTo
  <2>5. place'[o] = "pending"
    BY <1>2, <1>3, <1>5
  <2>6. n - 1 \in 0..Len(Inputs(p))
    BY <1>2
  <2> QED BY <1>4, <1>6, <2>3, <2>4, <2>5, <2>6 DEF RollbackOK
<1>13. PlansOK(p)' /\ OutputOK(p)' /\ CopyOK(p)' /\ RetireOK(p)' /\ CleanOK(p)'
  <2>1. PlansOK(p)'
    BY <1>1, <1>2, <1>4, <1>9, PlansKept DEF RunOK, Started
  <2> QED BY <1>2, <1>4, <1>6, <2>1 DEF OutputOK, CopyOK, RetireOK, CleanOK
<1> QED BY <1>9, <1>10, <1>11, <1>12, <1>13 DEF IInv, RunOK

LEMMA DeleteStep == ASSUME IInv, NEW p \in Runs, DeleteTombstone(p) PROVE IInv'
<1> DEFINE o == output[p]
           x == InputAt(p)
           n == at[p]
<1>1. stage[p] = "clean"
  BY DEF DeleteTombstone
<1>2. /\ TypeOK /\ RunOK(p) /\ plans[p] # <<>> /\ n \in 1..Len(Inputs(p))
      /\ o \in Outputs /\ o \in Files /\ o \in Published
      /\ Len(Inputs(p)) \in Nat \ {0}
      /\ \A i \in n..Len(Inputs(p)) : Inputs(p)[i] \in TombstonesOf(o)
      /\ DistinctUpTo(p, Len(Inputs(p)))
  <2>1. /\ TypeOK /\ RunOK(p) /\ plans[p] # <<>> /\ o \in Outputs /\ o \in Files
        /\ Len(Inputs(p)) \in Nat \ {0}
    BY <1>1, OutputFacts DEF Claiming
  <2>2. CleanOK(p)
    BY <2>1 DEF RunOK
  <2>3. n \in 1..Len(Inputs(p)) + 1 /\ ~(n > Len(Inputs(p)))
    BY <1>1, <2>2 DEF CleanOK, DeleteTombstone, AllDone
  <2>4. n \in 1..Len(Inputs(p))
    BY <2>1, <2>3
  <2> QED BY <1>1, <2>1, <2>2, <2>4 DEF CleanOK
<1>3. x \in Files /\ x \in Used /\ x = Inputs(p)[n] /\ place[x] = "retired" /\ retiredBy[x] = o
  BY <1>1, <1>2, InputType DEF Started, InputAt, TombstonesOf
<1>4. /\ place' = [place EXCEPT ![x] = "gone"]
      /\ Move(p, "clean", n + 1)
      /\ UNCHANGED <<retiredBy, rows, schema, plans, output, report, faults, kills>>
  BY DEF DeleteTombstone
<1>5. /\ \A f \in Files \ {x} : place'[f] = place[f] /\ retiredBy'[f] = retiredBy[f]
      /\ place'[x] = "gone"
  BY <1>2, <1>3, <1>4 DEF TypeOK
<1>6. stage'[p] = "clean" /\ at'[p] = n + 1 /\ Inputs(p)' = Inputs(p)
  BY <1>2, <1>4 DEF Move, TypeOK, Inputs
<1>7. \A q \in Runs \ {p} : SameRun(q)
  BY <1>2, <1>4 DEF Move, SameRun, TypeOK
<1>8. x \in Used'
  BY <1>3, <1>5 DEF Used
<1>9. /\ Used \subseteq Used' /\ Published \subseteq Published'
      /\ \A q \in Runs \ {p} : RunOK(q)'
      /\ OperationsOK' /\ PartRows'
  BY <1>2, <1>3, <1>4, <1>5, <1>7, <1>8, OwnFile
<1>10. TypeOK'
  <2>1. stage' \in [Runs -> Stages] /\ at' \in [Runs -> Nat]
    BY <1>2, <1>4 DEF TypeOK, Move, Stages
  <2> QED BY <1>2, <1>3, <1>4, <2>1 DEF TypeOK
<1>11. RowsPartitioned'
  <2>1. Published' = Published
    BY <1>3, <1>5 DEF Published, Files
  <2>2. Visible' = Visible
    BY <1>3, <1>5 DEF Visible
  <2>3. Withheld' = Withheld
    BY <1>2, <1>3, <1>4, <1>5, <2>1 DEF Withheld
  <2>4. Added' = Added
    BY <1>3, <1>5, CompactionAssumption DEF Added, Files
  <2> QED BY <1>4, <2>2, <2>3, <2>4, LiveKept DEF IInv, Live
<1>12. CleanOK(p)'
  <2>1. \A i \in n + 1..Len(Inputs(p)) : i \in n..Len(Inputs(p)) /\ i \in 1..Len(Inputs(p)) /\ i # n
    BY <1>2
  <2>2. \A i \in n + 1..Len(Inputs(p)) : Inputs(p)[i] # x /\ Inputs(p)[i] \in TombstonesOf(o)
    BY <1>2, <1>3, <2>1 DEF DistinctUpTo
  <2>3. \A i \in n + 1..Len(Inputs(p)) : Inputs(p)[i] \in TombstonesOf(output[p])'
    BY <1>4, <1>5, <2>2 DEF TombstonesOf
  <2>4. DistinctUpTo(p, Len(Inputs(p)))'
    BY <1>2, <1>6 DEF DistinctUpTo
  <2>5. n + 1 \in 1..Len(Inputs(p)) + 1
    BY <1>2
  <2>6. output'[p] \in Published'
    BY <1>2, <1>4, <1>9
  <2> QED BY <1>6, <2>3, <2>4, <2>5, <2>6 DEF CleanOK
<1>13. PlansOK(p)' /\ OutputOK(p)' /\ CopyOK(p)' /\ RetireOK(p)' /\ RollbackOK(p)'
  <2>1. PlansOK(p)'
    BY <1>1, <1>2, <1>4, <1>9, PlansKept DEF RunOK, Started
  <2> QED BY <1>2, <1>4, <1>6, <2>1 DEF OutputOK, CopyOK, RetireOK, RollbackOK
<1> QED BY <1>9, <1>10, <1>11, <1>12, <1>13 DEF IInv, RunOK

(* The rename that shows the replacement takes over, in one step, the rows *)
(* of all tombstones of its operation: until then they were its inputs.    *)
LEMMA PublishStep == ASSUME IInv, NEW p \in Runs, Publish(p) PROVE IInv'
<1> DEFINE o == output[p]
           T == TombstonesOf(o)
<1>1. stage[p] = "retire"
  BY DEF Publish
<1>2. /\ TypeOK /\ RunOK(p) /\ plans[p] # <<>>
      /\ o \in Outputs /\ o \in Files /\ o \notin Used /\ place[o] = "pending"
      /\ Len(Inputs(p)) \in Nat \ {0}
      /\ T = Range(Inputs(p)) /\ T = {Inputs(p)[i] : i \in 1..Len(Inputs(p))}
      /\ DistinctUpTo(p, Len(Inputs(p)))
      /\ rows[o] = UNION {rows[f] : f \in T}
  <2>1. /\ TypeOK /\ RunOK(p) /\ plans[p] # <<>> /\ o \in Outputs /\ o \in Files
        /\ Len(Inputs(p)) \in Nat \ {0}
        /\ Range(Inputs(p)) = {Inputs(p)[i] : i \in 1..Len(Inputs(p))}
    BY <1>1, OutputFacts DEF Claiming
  <2>2. RetireOK(p)
    BY <2>1 DEF RunOK
  <2>3. at[p] \in 1..Len(Inputs(p)) + 1 /\ at[p] > Len(Inputs(p))
    BY <1>1, <2>2 DEF RetireOK, Publish, AllDone
  <2>4. at[p] - 1 = Len(Inputs(p))
    BY <2>1, <2>3
  <2>5. T = {Inputs(p)[i] : i \in 1..Len(Inputs(p))} /\ DistinctUpTo(p, Len(Inputs(p)))
    BY <1>1, <2>2, <2>4 DEF RetireOK
  <2>6. place[o] = "pending" /\ rows[o] = UNION {rows[f] : f \in Range(Inputs(p))}
    BY <1>1, <2>2 DEF RetireOK
  <2> QED BY <2>1, <2>5, <2>6 DEF Used
<1>3. /\ place' = [place EXCEPT ![o] = "visible"]
      /\ Move(p, "confirm", 1)
      /\ UNCHANGED <<retiredBy, rows, schema, plans, output, report, faults, kills>>
  BY DEF Publish
<1>4. /\ \A f \in Files \ {o} : place'[f] = place[f]
      /\ place'[o] = "visible"
  BY <1>2, <1>3 DEF TypeOK
<1>5. stage'[p] = "confirm" /\ at'[p] = 1 /\ Inputs(p)' = Inputs(p)
  BY <1>2, <1>3 DEF Move, TypeOK, Inputs
<1>6. \A q \in Runs \ {p} : SameRun(q)
  BY <1>2, <1>3 DEF Move, SameRun, TypeOK
<1>7. /\ Used \subseteq Used'
      /\ \A q \in Runs \ {p} : RunOK(q)'
      /\ OperationsOK' /\ PartRows'
  BY <1>2, <1>3, <1>4, <1>6, OwnFile
<1>8. TypeOK'
  <2>1. stage' \in [Runs -> Stages] /\ at' \in [Runs -> Nat]
    BY <1>2, <1>3 DEF TypeOK, Move, Stages
  <2> QED BY <1>2, <1>3, <2>1 DEF TypeOK
<1>9. Published' = Published \cup {o} /\ o \notin Published
  BY <1>2, <1>4 DEF Published, Files
<1>10. RowsPartitioned'
  <2>1. Visible' = Visible \cup {o}
    BY <1>2, <1>4 DEF Visible
  <2>2. Withheld' = Withheld \ T /\ T \subseteq Withheld
    BY <1>2, <1>3, <1>4, <1>9 DEF Withheld, TombstonesOf
  <2>3. Added' = Added
    BY <1>2, <1>4, CompactionAssumption DEF Added, Files
  <2>4. o \notin Live /\ T \subseteq Live /\ Live' = (Live \ T) \cup {o}
    BY <1>2, <2>1, <2>2 DEF Live, Visible, Withheld, TombstonesOf
  <2>5. \A f \in Live \ T : rows[f] \cap rows[o] = {}
    BY <1>2, <2>4 DEF IInv, RowsPartitioned, Live
  <2>6. \A f, g \in (Live \ T) \cup {o} : f # g => rows[f] \cap rows[g] = {}
    BY <2>5 DEF IInv, RowsPartitioned, Live
  <2>7. UNION {rows[f] : f \in (Live \ T) \cup {o}} = UNION {rows[f] : f \in Live}
    <3>1. UNION {rows[f] : f \in (Live \ T) \cup {o}} = (UNION {rows[f] : f \in Live \ T}) \cup rows[o]
      OBVIOUS
    <3>2. UNION {rows[f] : f \in Live} = (UNION {rows[f] : f \in Live \ T}) \cup UNION {rows[f] : f \in T}
      BY <2>4
    <3> QED BY <1>2, <3>1, <3>2
  <2> QED BY <1>3, <2>3, <2>4, <2>6, <2>7 DEF IInv, RowsPartitioned, Live
<1>11. CleanOK(p)'
  <2>1. \A i \in 1..Len(Inputs(p)) : Inputs(p)[i] \in T
    BY <1>2
  <2>2. \A i \in 1..Len(Inputs(p)) : Inputs(p)[i] \in TombstonesOf(output[p])'
    BY <1>2, <1>3, <1>4, <2>1 DEF TombstonesOf, Used
  <2>3. DistinctUpTo(p, Len(Inputs(p)))'
    BY <1>2, <1>5 DEF DistinctUpTo
  <2>4. 1 \in 1..Len(Inputs(p)) + 1
    BY <1>2
  <2> QED BY <1>3, <1>5, <1>9, <2>2, <2>3, <2>4 DEF CleanOK
<1>12. PlansOK(p)' /\ OutputOK(p)' /\ CopyOK(p)' /\ RetireOK(p)' /\ RollbackOK(p)'
  <2>1. PlansOK(p)'
    BY <1>1, <1>2, <1>3, <1>7, PlansKept DEF RunOK, Started
  <2> QED BY <1>2, <1>3, <1>5, <2>1 DEF OutputOK, CopyOK, RetireOK, RollbackOK
<1> QED BY <1>7, <1>8, <1>10, <1>11, <1>12 DEF IInv, RunOK

------------------------------------------------------------------------------
(* The invariant.                                                          *)

LEMMA Initially == Init => IInv
<1> SUFFICES ASSUME Init PROVE IInv
  OBVIOUS
<1>1. TypeOK
  BY CompactionAssumption DEF Init, TypeOK, Stages, Files
<1>2. ASSUME NEW p \in Runs PROVE RunOK(p)
  <2>1. stage[p] = "idle" /\ plans[p] = <<>> /\ output[p] = NoFile
    BY DEF Init
  <2>2. PlansOK(p)
    BY <2>1 DEF PlansOK, Started
  <2> QED BY <2>1, <2>2 DEF RunOK, OutputOK, CopyOK, RetireOK, RollbackOK, CleanOK, Claiming
<1>3. OperationsOK
  BY DEF Init, OperationsOK
<1>4. PartRows
  BY DEF Init, PartRows, Files
<1>5. RowsPartitioned
  <2>1. Visible = {} /\ Withheld = {} /\ Added = {}
    BY DEF Init, Visible, Withheld, Added, Files
  <2> QED BY <2>1 DEF RowsPartitioned
<1> QED BY <1>1, <1>2, <1>3, <1>4, <1>5 DEF IInv

LEMMA Inductive == IInv /\ [Next]_vars => IInv'
<1> SUFFICES ASSUME IInv, [Next]_vars PROVE IInv'
  OBVIOUS
<1>1. ASSUME NEW f \in Parts, AddPart(f) PROVE IInv'
  BY <1>1, AddPartStep
<1>2. ASSUME NEW p \in Runs, BeginHistory(p) PROVE IInv'
  BY <1>2, BeginStep
<1>3. ASSUME NEW p \in Runs, RunStep(p) PROVE IInv'
  <2>1. CASE \/ OpenInput(p) \/ MergeSchemas(p) \/ RetireFails(p) \/ PublishFails(p)
             \/ Strand(p) \/ Confirm(p) \/ DeleteFails(p)
    BY <2>1, ContinueStep
  <2>2. CASE OpenFails(p) \/ SchemaConflict(p) \/ ConfirmFails(p)
    BY <2>2, EndStep
  <2>3. CASE WriteCandidate(p) \/ CandidateFails(p)
    BY <2>3, CandidateStep
  <2>4. CASE Retire(p)
    BY <2>4, RetireStep
  <2>5. CASE Publish(p)
    BY <2>5, PublishStep
  <2>6. CASE Restore(p)
    BY <2>6, RestoreStep
  <2>7. CASE RolledBack(p)
    BY <2>7, RolledBackStep
  <2>8. CASE DeleteTombstone(p)
    BY <2>8, DeleteStep
  <2>9. CASE NextPlan(p)
    BY <2>9, NextPlanStep
  <2> QED BY <1>3, <2>1, <2>2, <2>3, <2>4, <2>5, <2>6, <2>7, <2>8, <2>9 DEF RunStep
<1>4. ASSUME NEW p \in Runs, Kill(p) PROVE IInv'
  BY <1>4, EndStep
<1>5. CASE UNCHANGED vars
  <2>1. UNCHANGED <<place, retiredBy, rows, schema, stage, plans, at, output, report, faults, kills>>
    BY <1>5 DEF vars, fileVars, runVars
  <2>2. TypeOK'
    BY <2>1 DEF IInv, TypeOK
  <2>3. OperationsOK' /\ PartRows'
    BY <2>1 DEF IInv, OperationsOK, PartRows, Published
  <2>4. Visible' = Visible /\ Withheld' = Withheld /\ Added' = Added
    BY <2>1 DEF Visible, Withheld, Added, Published
  <2>5. RowsPartitioned'
    BY <2>1, <2>4 DEF IInv, RowsPartitioned
  <2>6. ASSUME NEW p \in Runs PROVE RunOK(p)'
    BY <2>1, OthersKept DEF IInv, SameRun, Used, TombstonesOf
  <2> QED BY <2>2, <2>3, <2>5, <2>6 DEF IInv
<1> QED BY <1>1, <1>2, <1>3, <1>4, <1>5 DEF Next

LEMMA Invariant == Spec => []IInv
  BY Initially, Inductive, PTL DEF Spec

(* Type correctness of every interleaving of the compactors.               *)
THEOREM TypeCorrect == Spec => []TypeOK
<1>1. IInv => TypeOK
  BY DEF IInv
<1> QED BY Invariant, <1>1, PTL

(* However many compactors overlap, whatever fails and whoever is killed:  *)
(* the visible files and the tombstones of operations that have not        *)
(* published hold every row exactly once.                                  *)
THEOREM RowsSafe == Spec => []RowsPartitioned
<1>1. IInv => RowsPartitioned
  BY DEF IInv
<1> QED BY Invariant, <1>1, PTL

------------------------------------------------------------------------------
(* What compaction does to the data.                                      *)

(* A replacement that is there at all has the rows of its tombstones. *)
SpentOK ==
    \A f \in Files : place[f] = "retired" /\ place[retiredBy[f]] # "unused" =>
        rows[f] \subseteq rows[retiredBy[f]]

(* The columns of every part a file was made from, also of files that are  *)
(* out of view: their schemas are read before they disappear.              *)
ColumnsOK ==
    \A f \in Files : \A r \in rows[f] : \A c \in DOMAIN schema[r] :
        c \in DOMAIN schema[f] /\ schema[f][c] = schema[r][c]

CopyMergeable == \A p \in Runs : stage[p] = "copy" => Mergeable(Range(Inputs(p)))

(* A run that still has to put tombstone f back, or has named it. *)
Accounts(p, f) ==
    /\ output[p] = retiredBy[f]
    /\ \/ stage[p] = "retire"
       \/ stage[p] = "rollback" /\ \E i \in 1..at[p] : Inputs(p)[i] = f
       \/ stage[p] \in {"rollback", "failed"} /\ f \in report[p] /\ faults > 0

WithheldOK == kills = 0 => \A f \in Withheld : \E p \in Runs : Accounts(p, f)

DataInv == IInv /\ SpentOK /\ ColumnsOK /\ CopyMergeable /\ WithheldOK
------------------------------------------------------------------------------
(* The steps that change files. *)

ChangesFiles(p) ==
    \/ WriteCandidate(p) \/ CandidateFails(p)
    \/ Retire(p) \/ Publish(p) \/ Restore(p) \/ RolledBack(p) \/ DeleteTombstone(p)

LEMMA FileSteps ==
    ASSUME [Next]_vars
    PROVE  \/ \E f \in Parts : AddPart(f)
           \/ \E p \in Runs : ChangesFiles(p)
           \/ UNCHANGED fileVars
<1>1. ASSUME NEW p \in Runs, BeginHistory(p) \/ Kill(p) PROVE UNCHANGED fileVars
  BY <1>1 DEF BeginHistory, Kill
<1>2. ASSUME NEW p \in Runs, RunStep(p), ~ChangesFiles(p) PROVE UNCHANGED fileVars
  BY <1>2 DEF RunStep, ChangesFiles, OpenInput, OpenFails, MergeSchemas, SchemaConflict,
              RetireFails, PublishFails, Strand, Confirm, ConfirmFails, DeleteFails, NextPlan
<1> QED BY <1>1, <1>2 DEF Next, vars

(* Where the files are that these steps are about. *)
LEMMA CandidateFacts ==
    ASSUME IInv, NEW p \in Runs, WriteCandidate(p) \/ CandidateFails(p)
    PROVE  /\ output[p] \in Outputs /\ output[p] \in Files /\ output[p] \notin Parts
           /\ place[output[p]] = "unused"
           /\ \A f \in Files : place[f] = "retired" => retiredBy[f] # output[p]
           /\ place' \in {place, [place EXCEPT ![output[p]] = "pending"]}
           /\ retiredBy' = retiredBy
           /\ \A f \in Files : f # output[p] => rows'[f] = rows[f] /\ schema'[f] = schema[f]
<1>1. stage[p] = "copy" /\ CopyOK(p) /\ OutputOK(p) /\ TypeOK
  BY DEF IInv, RunOK, WriteCandidate, CandidateFails
<1>2. output[p] \in Outputs /\ output[p] \in Files /\ output[p] \notin Parts
  BY <1>1, CompactionAssumption DEF OutputOK, Claiming, Files
<1>3. place[output[p]] = "unused" /\ TombstonesOf(output[p]) = {}
  BY <1>1 DEF CopyOK
<1> QED BY <1>1, <1>2, <1>3 DEF WriteCandidate, CandidateFails, TombstonesOf, TypeOK

LEMMA RetireFacts ==
    ASSUME IInv, NEW p \in Runs, Retire(p)
    PROVE  /\ InputAt(p) \in Files /\ place[InputAt(p)] = "visible"
           /\ output[p] \in Outputs /\ place[output[p]] = "pending"
           /\ rows[InputAt(p)] \subseteq rows[output[p]]
<1>1. stage[p] = "retire" /\ RetireOK(p) /\ OutputOK(p) /\ PlansOK(p) /\ TypeOK
  BY DEF IInv, RunOK, Retire
<1>2. plans[p] # <<>> /\ output[p] \in Outputs
  BY <1>1 DEF PlansOK, Started, OutputOK, Claiming
<1>3. /\ Len(Inputs(p)) \in Nat \ {0}
      /\ Range(Inputs(p)) = {Inputs(p)[i] : i \in 1..Len(Inputs(p))}
  BY <1>1, <1>2, GroupType
<1>4. at[p] \in 1..Len(Inputs(p))
  BY <1>1, <1>3 DEF RetireOK, Retire, AllDone
<1>5. InputAt(p) \in Files
  BY <1>1, <1>4, InputType DEF Started
<1>6. InputAt(p) \in Range(Inputs(p))
  BY <1>3, <1>4 DEF InputAt
<1> QED BY <1>1, <1>2, <1>5, <1>6 DEF RetireOK, Retire

LEMMA PublishFacts ==
    ASSUME IInv, NEW p \in Runs, Publish(p)
    PROVE  output[p] \in Outputs /\ output[p] \in Files /\ place[output[p]] = "pending"
<1>1. stage[p] = "retire" /\ RetireOK(p) /\ OutputOK(p)
  BY DEF IInv, RunOK, Publish
<1> QED BY <1>1 DEF RetireOK, OutputOK, Claiming, Files

LEMMA RolledBackFacts ==
    ASSUME IInv, NEW p \in Runs, RolledBack(p)
    PROVE  /\ output[p] \in Outputs /\ output[p] \in Files /\ place[output[p]] = "pending"
           /\ place' \in {place, [place EXCEPT ![output[p]] = "unused"]}
<1>1. stage[p] = "rollback" /\ RollbackOK(p) /\ OutputOK(p)
  BY DEF IInv, RunOK, RolledBack
<1> QED BY <1>1 DEF RollbackOK, OutputOK, Claiming, Files, RolledBack

LEMMA TombstoneFacts ==
    ASSUME IInv, NEW p \in Runs, Restore(p) \/ DeleteTombstone(p)
    PROVE  InputAt(p) \in Files /\ place[InputAt(p)] = "retired" /\ retiredBy[InputAt(p)] = output[p]
<1>1. CASE Restore(p)
  <2>1. stage[p] = "rollback" /\ RollbackOK(p) /\ at[p] > 0
    BY <1>1 DEF IInv, RunOK, Restore
  <2>2. at[p] \in 0..Len(Inputs(p)) /\ \A i \in 1..at[p] : Inputs(p)[i] \in TombstonesOf(output[p])
    BY <2>1 DEF RollbackOK
  <2>3. at[p] \in 1..at[p]
    BY <2>1, <2>2
  <2> QED BY <2>2, <2>3 DEF InputAt, TombstonesOf
<1>2. CASE DeleteTombstone(p)
  <2>1. stage[p] = "clean" /\ CleanOK(p) /\ ~AllDone(p) /\ PlansOK(p) /\ TypeOK
    BY <1>2 DEF IInv, RunOK, DeleteTombstone
  <2>2. /\ at[p] \in 1..Len(Inputs(p)) + 1
        /\ \A i \in at[p]..Len(Inputs(p)) : Inputs(p)[i] \in TombstonesOf(output[p])
    BY <2>1 DEF CleanOK
  <2>3. Len(Inputs(p)) \in Nat
    BY <2>1, GroupType DEF PlansOK, Started
  <2>4. at[p] \in at[p]..Len(Inputs(p))
    BY <2>1, <2>2, <2>3 DEF AllDone
  <2> QED BY <2>2, <2>4 DEF InputAt, TombstonesOf
<1> QED BY <1>1, <1>2

------------------------------------------------------------------------------
(* Tombstones and their replacements. *)

LEMMA SpentStep == ASSUME IInv, SpentOK, [Next]_vars PROVE SpentOK'
<1> USE CompactionAssumption DEF Files
<1>0. TypeOK /\ \A f \in Files : place[f] = "retired" => retiredBy[f] \in Outputs
  BY DEF IInv, OperationsOK
<1> SUFFICES ASSUME NEW f \in Files, place'[f] = "retired", place'[retiredBy'[f]] # "unused"
             PROVE  rows'[f] \subseteq rows'[retiredBy'[f]]
  BY DEF SpentOK
<1>1. ASSUME NEW g \in Parts, AddPart(g) PROVE rows'[f] \subseteq rows'[retiredBy'[f]]
  BY <1>0, <1>1 DEF AddPart, TypeOK, SpentOK
<1>2. ASSUME NEW p \in Runs, WriteCandidate(p) \/ CandidateFails(p)
      PROVE  rows'[f] \subseteq rows'[retiredBy'[f]]
  <2> DEFINE o == output[p]
  <2>0. o \in Files /\ place[o] = "unused" /\ place' \in {place, [place EXCEPT ![o] = "pending"]}
    BY <1>2, CandidateFacts
  <2>1. (\A g \in Files \ {o} : place'[g] = place[g]) /\ place'[o] # "retired"
    BY <1>0, <2>0 DEF TypeOK
  <2>2. f # o
    BY <2>1
  <2>3. place[f] = "retired" /\ retiredBy'[f] = retiredBy[f] /\ retiredBy[f] # o
    BY <1>2, <2>1, <2>2, CandidateFacts
  <2>4. rows'[f] = rows[f] /\ rows'[retiredBy[f]] = rows[retiredBy[f]]
    BY <1>0, <1>2, <2>2, <2>3, CandidateFacts
  <2> QED BY <1>0, <2>1, <2>3, <2>4 DEF SpentOK
<1>3. ASSUME NEW p \in Runs, Retire(p) PROVE rows'[f] \subseteq rows'[retiredBy'[f]]
  BY <1>0, <1>3, RetireFacts DEF Retire, TypeOK, SpentOK
<1>4. ASSUME NEW p \in Runs, Publish(p) PROVE rows'[f] \subseteq rows'[retiredBy'[f]]
  BY <1>0, <1>4, PublishFacts DEF Publish, TypeOK, SpentOK
<1>5. ASSUME NEW p \in Runs, RolledBack(p) PROVE rows'[f] \subseteq rows'[retiredBy'[f]]
  BY <1>0, <1>5, RolledBackFacts DEF RolledBack, TypeOK, SpentOK
<1>6. ASSUME NEW p \in Runs, Restore(p) PROVE rows'[f] \subseteq rows'[retiredBy'[f]]
  BY <1>0, <1>6, TombstoneFacts DEF Restore, TypeOK, SpentOK
<1>7. ASSUME NEW p \in Runs, DeleteTombstone(p) PROVE rows'[f] \subseteq rows'[retiredBy'[f]]
  BY <1>0, <1>7, TombstoneFacts DEF DeleteTombstone, TypeOK, SpentOK
<1>8. CASE UNCHANGED fileVars
  BY <1>8 DEF fileVars, SpentOK
<1> QED BY <1>1, <1>2, <1>3, <1>4, <1>5, <1>6, <1>7, <1>8, FileSteps DEF ChangesFiles

------------------------------------------------------------------------------
(* Columns. *)

SameData == UNCHANGED <<rows, schema>>

LEMMA DataSteps ==
    ASSUME [Next]_vars
    PROVE  SameData \/ \E p \in Runs : WriteCandidate(p)
<1>1. ASSUME NEW f \in Parts, AddPart(f) PROVE SameData
  BY <1>1 DEF AddPart, SameData
<1>2. ASSUME NEW p \in Runs, ChangesFiles(p), ~WriteCandidate(p) PROVE SameData
  BY <1>2 DEF ChangesFiles, CandidateFails, Retire, Publish, Restore, RolledBack, DeleteTombstone, SameData
<1>3. ASSUME UNCHANGED fileVars PROVE SameData
  BY <1>3 DEF fileVars, SameData
<1> QED BY <1>1, <1>2, <1>3, FileSteps

LEMMA ColumnsStep == ASSUME IInv, ColumnsOK, CopyMergeable, [Next]_vars PROVE ColumnsOK'
<1>0. TypeOK
  BY DEF IInv
<1>1. CASE SameData
  BY <1>1 DEF SameData, ColumnsOK
<1>2. ASSUME NEW p \in Runs, WriteCandidate(p) PROVE ColumnsOK'
  <2> DEFINE o == output[p]
             fs == Range(Inputs(p))
  <2>1. /\ o \in Files /\ o \notin Parts
        /\ \A f \in Files : f # o => rows'[f] = rows[f] /\ schema'[f] = schema[f]
    BY <1>2, CandidateFacts
  <2>2. stage[p] = "copy" /\ rows'[o] = UNION {rows[f] : f \in fs} /\ schema'[o] = Merged(fs)
    BY <1>0, <1>2, <2>1 DEF WriteCandidate, TypeOK
  <2>3. fs \subseteq Files /\ Mergeable(fs)
    <3>1. plans[p] # <<>>
      BY <2>2 DEF IInv, RunOK, PlansOK, Started
    <3> QED BY <1>0, <2>2, <3>1, GroupType DEF CopyMergeable
  <2>4. ASSUME NEW f \in Files, NEW r \in rows'[f], NEW c \in DOMAIN schema'[r]
        PROVE  c \in DOMAIN schema'[f] /\ schema'[f][c] = schema'[r][c]
    <3>1. CASE f # o
      <4>1. r \in rows[f] /\ r \in Parts
        BY <1>0, <2>1, <3>1 DEF TypeOK
      <4>2. r \in Files /\ schema'[r] = schema[r]
        BY <2>1, <4>1 DEF Files
      <4> QED BY <2>1, <2>4, <3>1, <4>1, <4>2 DEF ColumnsOK
    <3>2. CASE f = o
      <4>1. PICK g \in fs : r \in rows[g]
        BY <2>2, <3>2
      <4>2. g \in Files /\ r \in Parts
        BY <1>0, <2>3, <4>1 DEF TypeOK
      <4>3. r \in Files /\ schema'[r] = schema[r]
        BY <2>1, <4>2 DEF Files
      <4>4. c \in DOMAIN schema[g] /\ schema[g][c] = schema[r][c]
        BY <2>4, <4>1, <4>2, <4>3 DEF ColumnsOK
      <4> DEFINE h == CHOOSE x \in fs : c \in DOMAIN schema[x]
      <4>5. h \in fs /\ c \in DOMAIN schema[h]
        BY <4>1, <4>4
      <4>6. schema[h][c] = schema[g][c]
        BY <2>3, <4>1, <4>4, <4>5 DEF Mergeable
      <4>7. c \in UNION {DOMAIN schema[x] : x \in fs}
        BY <4>1, <4>4
      <4>8. c \in DOMAIN Merged(fs) /\ Merged(fs)[c] = schema[h][c]
        BY <4>7 DEF Merged
      <4> QED BY <2>2, <3>2, <4>3, <4>4, <4>6, <4>8
    <3> QED BY <3>1, <3>2
  <2> QED BY <2>4 DEF ColumnsOK
<1> QED BY <1>1, <1>2, DataSteps
(* A run copies what it found mergeable, whoever writes in the meantime.   *)
LEMMA MergeableStep == ASSUME IInv, CopyMergeable, [Next]_vars PROVE CopyMergeable'
<1>0. TypeOK /\ IInv'
  BY Inductive DEF IInv
<1> SUFFICES ASSUME NEW q \in Runs, stage'[q] = "copy" PROVE Mergeable(Range(Inputs(q)))'
  BY DEF CopyMergeable
<1>1. \/ stage[q] = "copy" /\ plans'[q] = plans[q]
      \/ MergeSchemas(q)
  <2>1. ASSUME NEW p \in Runs, BeginHistory(p) \/ RunStep(p) \/ Kill(p), p # q
        PROVE  stage'[q] = stage[q] /\ plans'[q] = plans[q]
    BY <1>0, <2>1 DEF BeginHistory, Kill, RunStep, OpenInput, OpenFails, MergeSchemas,
       SchemaConflict, WriteCandidate, CandidateFails, Retire, RetireFails, Publish,
       PublishFails, Restore, Strand, RolledBack, Confirm, ConfirmFails, DeleteTombstone,
       DeleteFails, NextPlan, Move, Fail, TypeOK
  <2>2. ASSUME BeginHistory(q) \/ RunStep(q) \/ Kill(q), ~MergeSchemas(q)
        PROVE  stage[q] = "copy" /\ plans'[q] = plans[q]
    BY <1>0, <2>2 DEF BeginHistory, Kill, RunStep, OpenInput, OpenFails,
       SchemaConflict, WriteCandidate, CandidateFails, Retire, RetireFails, Publish,
       PublishFails, Restore, Strand, RolledBack, Confirm, ConfirmFails, DeleteTombstone,
       DeleteFails, NextPlan, Move, Fail, TypeOK
  <2>3. ASSUME NEW f \in Parts, AddPart(f) PROVE stage' = stage /\ plans' = plans
    BY <2>3 DEF AddPart, runVars
  <2> QED BY <2>1, <2>2, <2>3 DEF Next, vars, runVars
<1>2. CASE MergeSchemas(q)
  BY <1>2 DEF MergeSchemas, Mergeable, Inputs, fileVars
<1>3. CASE stage[q] = "copy" /\ plans'[q] = plans[q]
  <2>1. Mergeable(Range(Inputs(q))) /\ Inputs(q)' = Inputs(q)
    BY <1>3 DEF CopyMergeable, Inputs
  <2>2. \A f \in Range(Inputs(q)) : f \in Used
    <3>1. plans[q] # <<>> /\ PlansOK(q)
      BY <1>3 DEF IInv, RunOK, PlansOK, Started
    <3>2. Len(plans[q]) \in Nat \ {0} /\ Inputs(q) = plans[q][1]
      BY <1>0, <3>1 DEF TypeOK, Inputs
    <3>3. \A i \in 1..Len(Inputs(q)) : Inputs(q)[i] \in Used
      BY <3>1, <3>2 DEF PlansOK
    <3> QED BY <1>0, <3>1, <3>3, GroupType
  <2>3. \A f \in Used : schema'[f] = schema[f]
    <3>1. ASSUME NEW p \in Runs, WriteCandidate(p) PROVE \A f \in Used : schema'[f] = schema[f]
      BY <3>1, CandidateFacts DEF Used
    <3> QED BY <3>1, DataSteps DEF SameData
  <2> QED BY <2>1, <2>2, <2>3 DEF Mergeable
<1> QED BY <1>1, <1>2, <1>3

------------------------------------------------------------------------------
(* Rows that stay hidden. *)

RunSteps(p) == BeginHistory(p) \/ RunStep(p) \/ Kill(p)

LEMMA OneRunMoves ==
    ASSUME TypeOK, NEW p \in Runs, RunSteps(p), NEW q \in Runs, q # p
    PROVE  SameRun(q) /\ report'[q] = report[q]
  BY DEF RunSteps, BeginHistory, Kill, RunStep, OpenInput, OpenFails, MergeSchemas,
     SchemaConflict, WriteCandidate, CandidateFails, Retire, RetireFails, Publish,
     PublishFails, Restore, Strand, RolledBack, Confirm, ConfirmFails, DeleteTombstone,
     DeleteFails, NextPlan, Move, Fail, TypeOK, SameRun

LEMMA FaultsGrow ==
    ASSUME TypeOK, [Next]_vars
    PROVE  (faults > 0 => faults' > 0) /\ (kills' = 0 => kills = 0)
<1>1. faults \in Nat /\ kills \in Nat
  BY CompactionAssumption DEF TypeOK
<1>2. ASSUME NEW p \in Runs, RunSteps(p) PROVE faults' \in {faults, faults + 1} /\ kills' \in {kills, kills + 1}
  BY <1>2 DEF RunSteps, BeginHistory, Kill, RunStep, OpenInput, OpenFails, MergeSchemas,
     SchemaConflict, WriteCandidate, CandidateFails, Retire, RetireFails, Publish,
     PublishFails, Restore, Strand, RolledBack, Confirm, ConfirmFails, DeleteTombstone,
     DeleteFails, NextPlan, Fault
<1>3. ASSUME NEW f \in Parts, AddPart(f) PROVE faults' = faults /\ kills' = kills
  BY <1>3 DEF AddPart
<1> QED BY <1>1, <1>2, <1>3 DEF Next, vars, RunSteps

(* Nothing becomes withheld but by its retirement. *)
LEMMA NewlyWithheld ==
    ASSUME IInv, [Next]_vars, NEW f \in Withheld'
    PROVE  \/ f \in Withheld /\ retiredBy'[f] = retiredBy[f]
           \/ \E p \in Runs : Retire(p) /\ f = InputAt(p) /\ retiredBy'[f] = output[p]
<1> USE CompactionAssumption DEF Files, Withheld, Published
<1>0. TypeOK /\ \A g \in Files : place[g] = "retired" => retiredBy[g] \in Outputs
  BY DEF IInv, OperationsOK
<1>1. ASSUME NEW g \in Parts, AddPart(g) PROVE f \in Withheld /\ retiredBy'[f] = retiredBy[f]
  BY <1>0, <1>1 DEF AddPart, TypeOK
<1>2. ASSUME NEW p \in Runs, WriteCandidate(p) \/ CandidateFails(p)
      PROVE  f \in Withheld /\ retiredBy'[f] = retiredBy[f]
  <2> DEFINE o == output[p]
  <2>1. o \in Files /\ place[o] = "unused" /\ place' \in {place, [place EXCEPT ![o] = "pending"]}
        /\ retiredBy' = retiredBy
    BY <1>2, CandidateFacts
  <2>2. \A g \in Files \ {o} : place'[g] = place[g]
    BY <1>0, <2>1 DEF TypeOK
  <2>3. place'[o] \in {"unused", "pending"}
    BY <1>0, <2>1 DEF TypeOK
  <2> QED BY <1>0, <2>1, <2>2, <2>3
<1>3. ASSUME NEW p \in Runs, Retire(p)
      PROVE  \/ f \in Withheld /\ retiredBy'[f] = retiredBy[f]
             \/ f = InputAt(p) /\ retiredBy'[f] = output[p]
  BY <1>0, <1>3, RetireFacts DEF Retire, TypeOK
<1>4. ASSUME NEW p \in Runs, Publish(p) PROVE f \in Withheld /\ retiredBy'[f] = retiredBy[f]
  BY <1>0, <1>4, PublishFacts DEF Publish, TypeOK
<1>5. ASSUME NEW p \in Runs, RolledBack(p) PROVE f \in Withheld /\ retiredBy'[f] = retiredBy[f]
  <2> DEFINE o == output[p]
  <2>1. o \in Files /\ place[o] = "pending" /\ place' \in {place, [place EXCEPT ![o] = "unused"]}
        /\ retiredBy' = retiredBy
    BY <1>5, RolledBackFacts DEF RolledBack
  <2>2. \A g \in Files \ {o} : place'[g] = place[g]
    BY <1>0, <2>1 DEF TypeOK
  <2>3. place'[o] \in {"unused", "pending"}
    BY <1>0, <2>1 DEF TypeOK
  <2> QED BY <1>0, <2>1, <2>2, <2>3
<1>6. ASSUME NEW p \in Runs, Restore(p) PROVE f \in Withheld /\ retiredBy'[f] = retiredBy[f]
  BY <1>0, <1>6, TombstoneFacts DEF Restore, TypeOK
<1>7. ASSUME NEW p \in Runs, DeleteTombstone(p) PROVE f \in Withheld /\ retiredBy'[f] = retiredBy[f]
  BY <1>0, <1>7, TombstoneFacts DEF DeleteTombstone, TypeOK
<1>8. CASE UNCHANGED fileVars
  BY <1>8 DEF fileVars
<1> QED BY <1>1, <1>2, <1>3, <1>4, <1>5, <1>6, <1>7, <1>8, FileSteps DEF ChangesFiles

LEMMA StillAccounts ==
    ASSUME NEW q \in Runs, NEW f, Accounts(q, f), SameRun(q), report'[q] = report[q],
           faults > 0 => faults' > 0, retiredBy'[f] = retiredBy[f]
    PROVE  Accounts(q, f)'
<1>1. Inputs(q)' = Inputs(q)
  BY DEF SameRun, Inputs
<1> QED BY <1>1 DEF Accounts, SameRun

(* The run itself goes on to account for what it withholds. *)
LEMMA OwnAccount ==
    ASSUME IInv, NEW p \in Runs, RunStep(p), NEW f \in Withheld, f \in Withheld', Accounts(p, f),
           faults > 0 => faults' > 0, retiredBy'[f] = retiredBy[f]
    PROVE  Accounts(p, f)'
<1>0. TypeOK /\ RunOK(p) /\ f \in Files /\ at[p] \in Nat
  BY DEF IInv, Withheld, TypeOK
<1>1. stage[p] \in {"retire", "rollback", "failed"} /\ output[p] = retiredBy[f]
  BY DEF Accounts
<1>2. plans[p] # <<>> /\ Len(Inputs(p)) \in Nat
  <2>1. stage[p] # "failed"
    BY DEF RunStep, OpenInput, OpenFails, MergeSchemas,
     SchemaConflict, WriteCandidate, CandidateFails, Retire, RetireFails, Publish,
     PublishFails, Restore, Strand, RolledBack, Confirm, ConfirmFails, DeleteTombstone,
     DeleteFails, NextPlan
  <2>2. plans[p] # <<>>
    BY <1>0, <1>1, <2>1 DEF RunOK, PlansOK, Started
  <2> QED BY <1>0, <2>2, GroupType
<1>3. CASE Retire(p)
  <2>1. stage'[p] = "retire" /\ output'[p] = output[p]
    BY <1>0, <1>3 DEF Retire, Move, TypeOK
  <2> QED BY <1>1, <2>1 DEF Accounts
<1>4. CASE RetireFails(p) \/ PublishFails(p)
  <2>1. stage[p] = "retire" /\ RetireOK(p)
    BY <1>0, <1>4 DEF RetireFails, PublishFails, RunOK
  <2>2. stage'[p] = "rollback" /\ at'[p] = at[p] - 1 /\ output'[p] = output[p] /\ Inputs(p)' = Inputs(p)
    BY <1>0, <1>4 DEF RetireFails, PublishFails, Move, TypeOK, Inputs
  <2>3. f \in TombstonesOf(output[p])
    BY <1>0, <1>1 DEF TombstonesOf, Withheld
  <2>4. \E i \in 1..at[p] - 1 : Inputs(p)[i] = f
    BY <2>1, <2>3 DEF RetireOK
  <2> QED BY <1>1, <2>2, <2>4 DEF Accounts
<1>5. CASE Publish(p)
  <2>1. output[p] \in Published'
    BY <1>0, <1>5, PublishFacts DEF Publish, Published, TypeOK
  <2> QED BY <1>1, <2>1 DEF Withheld
<1>6. CASE Restore(p)
  <2>1. /\ stage[p] = "rollback" /\ at[p] > 0 /\ f # InputAt(p)
        /\ stage'[p] = "rollback" /\ at'[p] = at[p] - 1
        /\ output'[p] = output[p] /\ Inputs(p)' = Inputs(p) /\ report' = report /\ faults' = faults
    BY <1>0, <1>6, TombstoneFacts DEF Restore, Move, TypeOK, Inputs, Withheld
  <2>2. ASSUME NEW i \in 1..at[p], Inputs(p)[i] = f PROVE i \in 1..at[p] - 1
    BY <1>0, <2>1, <2>2 DEF InputAt
  <2> QED BY <1>1, <2>1, <2>2 DEF Accounts
<1>7. CASE Strand(p)
  <2>1. /\ stage[p] = "rollback" /\ at[p] > 0
        /\ stage'[p] = "rollback" /\ at'[p] = at[p] - 1
        /\ output'[p] = output[p] /\ Inputs(p)' = Inputs(p)
        /\ report'[p] = report[p] \cup {InputAt(p)} /\ faults' = faults + 1 /\ faults \in Nat
    BY <1>0, <1>7, CompactionAssumption DEF Strand, Fault, Move, TypeOK, Inputs
  <2>2. ASSUME NEW i \in 1..at[p], Inputs(p)[i] = f, f # InputAt(p) PROVE i \in 1..at[p] - 1
    BY <1>0, <2>1, <2>2 DEF InputAt
  <2> QED BY <1>1, <2>1, <2>2 DEF Accounts
<1>8. CASE RolledBack(p)
  <2>1. /\ stage[p] = "rollback" /\ at[p] = 0 /\ stage'[p] = "failed"
        /\ report'[p] = report[p] /\ output'[p] = output[p]
    BY <1>0, <1>8 DEF RolledBack, Fail, TypeOK
  <2>2. f \in report[p] /\ faults > 0
    BY <2>1 DEF Accounts
  <2> QED BY <1>1, <2>1, <2>2 DEF Accounts
<1> QED
  BY <1>1, <1>3, <1>4, <1>5, <1>6, <1>7, <1>8
     DEF RunStep, OpenInput, OpenFails, MergeSchemas, SchemaConflict, WriteCandidate,
         CandidateFails, Confirm, ConfirmFails, DeleteTombstone, DeleteFails, NextPlan

LEMMA WithheldStep == ASSUME IInv, WithheldOK, [Next]_vars PROVE WithheldOK'
<1>0. TypeOK
  BY DEF IInv
<1> SUFFICES ASSUME kills' = 0, NEW f \in Withheld' PROVE \E q \in Runs : Accounts(q, f)'
  BY DEF WithheldOK
<1>1. kills = 0 /\ (faults > 0 => faults' > 0)
  BY <1>0, FaultsGrow
<1>2. CASE f \in Withheld /\ retiredBy'[f] = retiredBy[f]
  <2>1. PICK q \in Runs : Accounts(q, f)
    BY <1>1, <1>2 DEF WithheldOK
  <2>2. ASSUME NEW p \in Runs, RunSteps(p), p # q PROVE Accounts(q, f)'
    BY <1>0, <1>1, <1>2, <2>1, <2>2, OneRunMoves, StillAccounts
  <2>3. CASE RunStep(q)
    BY <1>1, <1>2, <2>1, <2>3, OwnAccount
  <2>4. ~BeginHistory(q)
    BY <2>1 DEF BeginHistory, Accounts
  <2>5. CASE UNCHANGED runVars
    <3>1. SameRun(q) /\ report'[q] = report[q]
      BY <2>5 DEF runVars, SameRun
    <3> QED BY <1>1, <1>2, <2>1, <3>1, StillAccounts
  <2>6. ASSUME NEW p \in Runs PROVE ~Kill(p)
    BY <1>0, <1>1, CompactionAssumption DEF Kill, TypeOK
  <2>7. ASSUME NEW g \in Parts, AddPart(g) PROVE UNCHANGED runVars
    BY <2>7 DEF AddPart
  <2> QED BY <2>2, <2>3, <2>4, <2>5, <2>6, <2>7 DEF Next, vars, RunSteps
<1>3. ASSUME NEW p \in Runs, Retire(p), f = InputAt(p), retiredBy'[f] = output[p]
      PROVE  Accounts(p, f)'
  BY <1>0, <1>3 DEF Accounts, Retire, Move, TypeOK
<1> QED BY <1>2, <1>3, NewlyWithheld

------------------------------------------------------------------------------
(* The invariant and the theorems. *)

LEMMA DataInitially == Init => DataInv
<1> SUFFICES ASSUME Init PROVE DataInv
  OBVIOUS
<1>1. IInv
  BY Initially
<1>2. \A f \in Files : place[f] = "unused" /\ (f \notin Parts => rows[f] = {}) /\ (f \in Parts => rows[f] = {f})
  BY DEF Init
<1>3. SpentOK /\ ColumnsOK /\ WithheldOK
  BY <1>2 DEF SpentOK, ColumnsOK, WithheldOK, Withheld
<1>4. CopyMergeable
  BY DEF Init, CopyMergeable
<1> QED BY <1>1, <1>3, <1>4 DEF DataInv

LEMMA DataInductive == DataInv /\ [Next]_vars => DataInv'
  BY Inductive, SpentStep, ColumnsStep, MergeableStep, WithheldStep DEF DataInv

LEMMA DataInvariant == Spec => []DataInv
  BY DataInitially, DataInductive, PTL DEF Spec

(* A tombstone whose replacement is in view may be deleted: the            *)
(* replacement has its rows, whichever runs published and failed.          *)
THEOREM SpentSafe == Spec => []SpentWhenOutputVisible
<1>1. DataInv => SpentWhenOutputVisible
  BY DEF DataInv, SpentOK, SpentWhenOutputVisible
<1> QED BY DataInvariant, <1>1, PTL

(* No generation of replacements loses a column of a part.                 *)
THEOREM ColumnsSafe == Spec => []ColumnsPreserved
<1>1. DataInv => ColumnsPreserved
  BY DEF DataInv, ColumnsOK, ColumnsPreserved
<1> QED BY DataInvariant, <1>1, PTL

(* With every compactor at rest and none killed, rows are out of view only *)
(* under tombstones that an error has named.                               *)
THEOREM WithheldSafe == Spec => []WithheldIsReported
<1>1. DataInv => WithheldIsReported
  BY DEF DataInv, WithheldOK, WithheldIsReported, AtRest, Accounts
<1> QED BY DataInvariant, <1>1, PTL

------------------------------------------------------------------------------
(* What a reader sees. *)

Shown == {r \in Parts : Cardinality({f \in Visible : r \in rows[f]}) = 1}

Hidden == {r \in Parts : (\A f \in Visible : r \notin rows[f]) /\ \E f \in Withheld : r \in rows[f]}

LEMMA ShownIsVisible ==
    IInv => Shown = {r \in Parts : \E f \in Visible : r \in rows[f]}
<1> SUFFICES ASSUME IInv, NEW r \in Parts
             PROVE  Cardinality({f \in Visible : r \in rows[f]}) = 1 <=> \E f \in Visible : r \in rows[f]
  BY DEF Shown
<1>1. ASSUME NEW f \in Visible, r \in rows[f] PROVE Cardinality({g \in Visible : r \in rows[g]}) = 1
  <2>1. {g \in Visible : r \in rows[g]} = {f}
    BY <1>1 DEF IInv, RowsPartitioned
  <2> QED BY <2>1, FS_Singleton
<1>2. ASSUME ~\E f \in Visible : r \in rows[f] PROVE Cardinality({g \in Visible : r \in rows[g]}) = 0
  <2>1. {g \in Visible : r \in rows[g]} = {}
    BY <1>2
  <2> QED BY <2>1, FS_EmptySet
<1> QED BY <1>1, <1>2

LEMMA StoredIsAdded == IInv => Hidden = Added \ Shown /\ Shown \subseteq Added
  BY ShownIsVisible DEF IInv, RowsPartitioned, Hidden, Added

(* Only the live writer adds; compaction moves in one direction at a time. *)
LEMMA ViewSteps ==
    ASSUME IInv, [Next]_vars
    PROVE  \/ \E f \in Parts \ Added : Added' = Added \cup {f} /\ Shown' = Shown \cup {f}
           \/ Added' = Added /\ (Shown \subseteq Shown' \/ Shown' \subseteq Shown)
<1> USE CompactionAssumption DEF Files, Visible, Added
<1>0. TypeOK /\ IInv' /\ PartRows
  BY Inductive DEF IInv
<1>9. /\ Shown = {r \in Parts : \E f \in Visible : r \in rows[f]}
      /\ Shown' = {r \in Parts : \E f \in Visible' : r \in rows'[f]}
  <2>1. IInv' => (Shown = {r \in Parts : \E f \in Visible : r \in rows[f]})'
    BY ShownIsVisible, PTL
  <2> QED BY <1>0, <2>1, ShownIsVisible
<1>1. ASSUME NEW g \in Parts, AddPart(g)
      PROVE  g \in Parts \ Added /\ Added' = Added \cup {g} /\ Shown' = Shown \cup {g}
  <2>1. Visible' = Visible \cup {g} /\ rows' = rows /\ rows[g] = {g} /\ g \notin Added
        /\ Added' = Added \cup {g}
    BY <1>0, <1>1 DEF AddPart, TypeOK, PartRows
  <2> HIDE DEF Visible
  <2> QED BY <1>9, <2>1
<1>2. ASSUME NEW p \in Runs, WriteCandidate(p) \/ CandidateFails(p)
      PROVE  Added' = Added /\ Shown' = Shown
  <2> DEFINE o == output[p]
  <2>1. /\ o \in Files /\ o \notin Parts /\ place[o] = "unused"
        /\ place' \in {place, [place EXCEPT ![o] = "pending"]}
        /\ \A f \in Files : f # o => rows'[f] = rows[f]
    BY <1>2, CandidateFacts
  <2>2. \A g \in Files \ {o} : place'[g] = place[g]
    BY <1>0, <2>1 DEF TypeOK
  <2>3. place'[o] \in {"unused", "pending"}
    BY <1>0, <2>1 DEF TypeOK
  <2>4. Visible' = Visible /\ (\A f \in Visible : rows'[f] = rows[f]) /\ Added' = Added
    BY <2>1, <2>2, <2>3
  <2> HIDE DEF Visible
  <2> QED BY <1>9, <2>4
<1>3. ASSUME NEW p \in Runs, Retire(p) PROVE Added' = Added /\ Shown' \subseteq Shown
  <2>1. Visible' \subseteq Visible /\ rows' = rows /\ Added' = Added
    BY <1>0, <1>3, RetireFacts DEF Retire, TypeOK
  <2> HIDE DEF Visible
  <2> QED BY <1>9, <2>1
<1>4. ASSUME NEW p \in Runs, Publish(p) PROVE Added' = Added /\ Shown \subseteq Shown'
  <2>1. Visible \subseteq Visible' /\ rows' = rows /\ Added' = Added
    BY <1>0, <1>4, PublishFacts DEF Publish, TypeOK
  <2> HIDE DEF Visible
  <2> QED BY <1>9, <2>1
<1>5. ASSUME NEW p \in Runs, RolledBack(p) PROVE Added' = Added /\ Shown' = Shown
  <2> DEFINE o == output[p]
  <2>1. o \in Outputs /\ place[o] = "pending" /\ place' \in {place, [place EXCEPT ![o] = "unused"]}
        /\ rows' = rows
    BY <1>5, RolledBackFacts DEF RolledBack
  <2>2. \A g \in Files \ {o} : place'[g] = place[g]
    BY <1>0, <2>1 DEF TypeOK
  <2>3. place'[o] \in {"unused", "pending"}
    BY <1>0, <2>1 DEF TypeOK
  <2>4. Visible' = Visible /\ Added' = Added
    BY <2>1, <2>2, <2>3
  <2> HIDE DEF Visible
  <2> QED BY <1>9, <2>1, <2>4
<1>6. ASSUME NEW p \in Runs, Restore(p) PROVE Added' = Added /\ Shown \subseteq Shown'
  <2>1. Visible \subseteq Visible' /\ rows' = rows /\ Added' = Added
    BY <1>0, <1>6, TombstoneFacts DEF Restore, TypeOK
  <2> HIDE DEF Visible
  <2> QED BY <1>9, <2>1
<1>7. ASSUME NEW p \in Runs, DeleteTombstone(p) PROVE Added' = Added /\ Shown' = Shown
  <2>1. Visible' = Visible /\ rows' = rows /\ Added' = Added
    BY <1>0, <1>7, TombstoneFacts DEF DeleteTombstone, TypeOK
  <2> HIDE DEF Visible
  <2> QED BY <1>9, <2>1
<1>8. CASE UNCHANGED fileVars
  <2>1. Visible' = Visible /\ rows' = rows /\ Added' = Added
    BY <1>8 DEF fileVars
  <2> HIDE DEF Visible
  <2> QED BY <1>9, <2>1
<1> HIDE DEF Visible, Added
<1> QED BY <1>1, <1>2, <1>3, <1>4, <1>5, <1>6, <1>7, <1>8, FileSteps DEF ChangesFiles

LEMMA SurfaceInit == Init => Surface!Init
<1> SUFFICES ASSUME Init PROVE Shown = {} /\ Hidden = {}
  BY DEF Surface!Init, Shown, Hidden
<1>1. IInv /\ Visible = {} /\ Withheld = {}
  BY Initially DEF Init, Visible, Withheld
<1> QED BY <1>1, ShownIsVisible DEF Hidden

LEMMA SurfaceStep == IInv /\ [Next]_vars => [Surface!Next]_(Surface!vars)
<1> SUFFICES ASSUME IInv, [Next]_vars PROVE [Surface!Next]_(Surface!vars)
  OBVIOUS
<1>0. IInv'
  BY Inductive
<1>1. Hidden = Added \ Shown /\ Shown \subseteq Added
  BY StoredIsAdded
<1>2. Hidden' = Added' \ Shown' /\ Shown' \subseteq Added'
  <2>1. IInv' => (Hidden = Added \ Shown /\ Shown \subseteq Added)'
    BY StoredIsAdded, PTL
  <2> QED BY <1>0, <2>1
<1>3. ASSUME NEW f \in Parts \ Added, Added' = Added \cup {f}, Shown' = Shown \cup {f}
      PROVE  Surface!Add
  <2>1. f \in Parts \ (Shown \cup Hidden) /\ Hidden' = Hidden
    BY <1>1, <1>2, <1>3
  <2> QED BY <1>3, <2>1 DEF Surface!Add, Shown, Hidden
<1>4. ASSUME Added' = Added, Shown \subseteq Shown' PROVE Surface!Show
  <2> DEFINE S == Shown' \ Shown
  <2>1. S \in SUBSET Hidden /\ Hidden' = Hidden \ S /\ Shown' = Shown \cup S
    BY <1>1, <1>2, <1>4
  <2> QED BY <2>1 DEF Surface!Show, Shown, Hidden
<1>5. ASSUME Added' = Added, Shown' \subseteq Shown PROVE Surface!Hide
  <2> DEFINE S == Shown \ Shown'
  <2>1. S \in SUBSET Shown /\ Hidden' = Hidden \cup S /\ Shown' = Shown \ S
    BY <1>1, <1>2, <1>5
  <2> QED BY <2>1 DEF Surface!Hide, Shown, Hidden
<1> QED BY <1>3, <1>4, <1>5, ViewSteps DEF Surface!Next

(* A reader of the partition sees a set of rows of which compaction hides  *)
(* some and shows some, but loses none and shows none twice.               *)
THEOREM Refinement == Spec => ImplementsReadSurface
  BY Invariant, SurfaceInit, SurfaceStep, PTL DEF Spec, ImplementsReadSurface, Surface!Spec

------------------------------------------------------------------------------
(* Overlapping compactors.  Runs retire the files of a group in the order  *)
(* of the names.  A run that gives way, or has given way, does so to one   *)
(* that holds a later file and still retires: of the runs that hold        *)
(* anything, the one with the last file gives way to none.                 *)

Ascending(group) == \A j, k \in DOMAIN group : j < k => group[j] < group[k]

PlansAscend == \A p \in Runs : \A k \in DOMAIN plans[p] : Ascending(plans[p][k])

FailedHasPlan == \A p \in Runs : stage[p] = "failed" => plans[p] # <<>>

(* A pass over the inputs starts with the first. *)
Reading == \A p \in Runs : stage[p] \in {"inspect", "copy"} => at[p] >= 1

KillsSeen == kills > 0 => \E p \in Runs : stage[p] = "killed"

(* Nothing is deleted before something is published. *)
NoneGone == Published = {} => \A f \in Files : place[f] # "gone"

Behind(p) ==
    \/ stage[p] = "rollback"
    \/ stage[p] = "failed" /\ Mergeable(Range(Inputs(p)))

Ahead(r, p) ==
    /\ stage[r] = "retire"
    /\ at[r] > 1
    /\ stage[p] = "rollback" => \A i \in 1..at[p] : Inputs(p)[i] < Inputs(r)[at[r] - 1]

Undisturbed == faults = 0 /\ kills = 0 /\ Published = {}

SomeoneAhead == Undisturbed => \A p \in Runs : Behind(p) => \E r \in Runs : Ahead(r, p)

AheadInv ==
    /\ DataInv
    /\ PlansAscend
    /\ FailedHasPlan
    /\ Reading
    /\ KillsSeen
    /\ NoneGone
    /\ SomeoneAhead

LEMMA PlansAscendStep == ASSUME IInv, PlansAscend, [Next]_vars PROVE PlansAscend'
<1>0. TypeOK
  BY DEF IInv
<1>1. ASSUME NEW p \in Runs, BeginHistory(p) PROVE PlansAscend'
  <2>1. Visible \in SUBSET Files /\ plans' = [plans EXCEPT ![p] = Plan(Visible)]
    BY <1>1 DEF BeginHistory, Visible
  <2>2. \A k \in DOMAIN Plan(Visible) : Ascending(Plan(Visible)[k])
    BY <2>1, PlanOrderAssumption DEF Ascending
  <2>3. \A q \in Runs : plans'[q] = IF q = p THEN Plan(Visible) ELSE plans[q]
    BY <1>0, <2>1 DEF TypeOK
  <2> QED BY <2>2, <2>3 DEF PlansAscend, Ascending
<1>2. ASSUME NEW p \in Runs, NextPlan(p) PROVE PlansAscend'
  <2>1. plans' = [plans EXCEPT ![p] = Tail(@)] /\ plans[p] # <<>>
    BY <1>2 DEF NextPlan, IInv, RunOK, PlansOK, Started
  <2>2. \A q \in Runs : plans'[q] = IF q = p THEN Tail(plans[q]) ELSE plans[q]
    BY <1>0, <2>1 DEF TypeOK
  <2>3. ASSUME NEW k \in DOMAIN Tail(plans[p]) PROVE Ascending(Tail(plans[p])[k])
    <3>1. plans[p] \in Seq(Seq(Files) \ {<<>>})
      BY <1>0 DEF TypeOK
    <3>2. k + 1 \in DOMAIN plans[p] /\ Tail(plans[p])[k] = plans[p][k + 1]
      BY <2>1, <2>3, <3>1
    <3> QED BY <3>2 DEF PlansAscend
  <2> QED BY <2>2, <2>3 DEF PlansAscend, Ascending
<1>3. ASSUME UNCHANGED plans PROVE PlansAscend'
  BY <1>3 DEF PlansAscend, Ascending
<1>4. ASSUME NEW p \in Runs, RunStep(p), ~NextPlan(p) PROVE UNCHANGED plans
  BY <1>4 DEF RunStep, OpenInput, OpenFails, MergeSchemas, SchemaConflict, WriteCandidate,
     CandidateFails, Retire, RetireFails, Publish, PublishFails, Restore, Strand, RolledBack,
     Confirm, ConfirmFails, DeleteTombstone, DeleteFails, Fail
<1> QED BY <1>1, <1>2, <1>3, <1>4 DEF Next, vars, runVars, AddPart, Kill

LEMMA FailedStep == ASSUME IInv, FailedHasPlan, [Next]_vars PROVE FailedHasPlan'
<1>0. TypeOK
  BY DEF IInv
<1> SUFFICES ASSUME NEW q \in Runs, stage'[q] = "failed" PROVE plans'[q] # <<>>
  BY DEF FailedHasPlan
<1>1. ASSUME SameRun(q) PROVE plans'[q] # <<>>
  BY <1>1 DEF SameRun, FailedHasPlan
<1>2. ASSUME RunSteps(q) PROVE plans'[q] # <<>>
  <2>1. stage[q] \in Started /\ plans'[q] = plans[q]
    BY <1>0, <1>2 DEF Started, RunSteps, BeginHistory, Kill, RunStep, OpenInput, OpenFails,
       MergeSchemas, SchemaConflict, WriteCandidate, CandidateFails, Retire, RetireFails,
       Publish, PublishFails, Restore, Strand, RolledBack, Confirm, ConfirmFails,
       DeleteTombstone, DeleteFails, NextPlan, Move, Fail, TypeOK
  <2> QED BY <2>1 DEF IInv, RunOK, PlansOK
<1>3. ASSUME NEW p \in Runs, p # q, RunSteps(p) PROVE SameRun(q)
  BY <1>0, <1>3, OneRunMoves
<1>4. ASSUME (\E f \in Parts : AddPart(f)) \/ UNCHANGED vars PROVE SameRun(q)
  BY <1>4 DEF AddPart, vars, runVars, SameRun
<1> QED BY <1>1, <1>2, <1>3, <1>4 DEF Next, RunSteps

LEMMA ReadingStep == ASSUME TypeOK, Reading, [Next]_vars PROVE Reading'
<1> SUFFICES ASSUME NEW q \in Runs, stage'[q] \in {"inspect", "copy"} PROVE at'[q] >= 1
  BY DEF Reading
<1>1. ASSUME SameRun(q) PROVE at'[q] >= 1
  BY <1>1 DEF SameRun, Reading
<1>2. ASSUME RunSteps(q) PROVE at'[q] >= 1
  <2>1. CASE OpenInput(q)
    <3>1. at'[q] = at[q] + 1 /\ at[q] \in Nat
      BY <2>1 DEF OpenInput, Move, TypeOK
    <3> QED BY <3>1
  <2>2. CASE BeginHistory(q) \/ MergeSchemas(q) \/ NextPlan(q)
    BY <2>2 DEF BeginHistory, MergeSchemas, NextPlan, Move, TypeOK
  <2>3. ASSUME RunStep(q) \/ Kill(q), ~OpenInput(q), ~MergeSchemas(q), ~NextPlan(q)
        PROVE  stage'[q] \notin {"inspect", "copy"}
    BY <2>3 DEF Kill, RunStep, OpenFails, SchemaConflict, WriteCandidate, CandidateFails,
       Retire, RetireFails, Publish, PublishFails, Restore, Strand, RolledBack, Confirm,
       ConfirmFails, DeleteTombstone, DeleteFails, Move, Fail, TypeOK
  <2> QED BY <1>2, <2>1, <2>2, <2>3 DEF RunSteps
<1>3. ASSUME NEW p \in Runs, p # q, RunSteps(p) PROVE SameRun(q)
  BY <1>3, OneRunMoves
<1>4. ASSUME (\E f \in Parts : AddPart(f)) \/ UNCHANGED vars PROVE SameRun(q)
  BY <1>4 DEF AddPart, vars, runVars, SameRun
<1> QED BY <1>1, <1>2, <1>3, <1>4 DEF Next, RunSteps

LEMMA KillsSeenStep == ASSUME TypeOK, KillsSeen, [Next]_vars PROVE KillsSeen'
<1>1. ASSUME NEW q \in Runs, stage[q] = "killed" PROVE stage'[q] = "killed"
  <2>1. ~RunSteps(q)
    BY <1>1 DEF Started, RunSteps, BeginHistory, Kill, RunStep, OpenInput, OpenFails,
       MergeSchemas, SchemaConflict, WriteCandidate, CandidateFails, Retire, RetireFails,
       Publish, PublishFails, Restore, Strand, RolledBack, Confirm, ConfirmFails,
       DeleteTombstone, DeleteFails, NextPlan
  <2>2. ASSUME NEW p \in Runs, p # q, RunSteps(p) PROVE stage'[q] = stage[q]
    BY <2>2, OneRunMoves DEF SameRun
  <2>3. ASSUME (\E f \in Parts : AddPart(f)) \/ UNCHANGED vars PROVE stage' = stage
    BY <2>3 DEF AddPart, vars, runVars
  <2> QED BY <1>1, <2>1, <2>2, <2>3 DEF Next, RunSteps
<1>2. ASSUME NEW p \in Runs, Kill(p) PROVE stage'[p] = "killed"
  BY <1>2 DEF Kill, TypeOK
<1>3. ASSUME \A p \in Runs : ~Kill(p) PROVE kills' = kills
  BY <1>3 DEF Next, vars, AddPart, BeginHistory, RunStep, OpenInput, OpenFails,
     MergeSchemas, SchemaConflict, WriteCandidate, CandidateFails, Retire, RetireFails,
     Publish, PublishFails, Restore, Strand, RolledBack, Confirm, ConfirmFails,
     DeleteTombstone, DeleteFails, NextPlan
<1> QED BY <1>1, <1>2, <1>3 DEF KillsSeen

LEMMA NoneGoneStep ==
  ASSUME IInv, NoneGone, [Next]_vars
  PROVE  Published \subseteq Published' /\ NoneGone'
<1> USE CompactionAssumption DEF Files
<1> DEFINE Goes == \A f \in Files : place'[f] = "gone" => place[f] = "gone" \/ Published # {}
<1>0. TypeOK
  BY DEF IInv
<1>1. ASSUME NEW g \in Parts, AddPart(g) PROVE Published \subseteq Published' /\ Goes
  BY <1>0, <1>1 DEF AddPart, TypeOK, Published
<1>2. ASSUME NEW p \in Runs, WriteCandidate(p) \/ CandidateFails(p)
      PROVE  Published \subseteq Published' /\ Goes
  <2> DEFINE o == output[p]
  <2>1. o \in Files /\ place[o] = "unused" /\ place' \in {place, [place EXCEPT ![o] = "pending"]}
    BY <1>2, CandidateFacts
  <2>2. \A g \in Files \ {o} : place'[g] = place[g]
    BY <1>0, <2>1 DEF TypeOK
  <2>3. place'[o] \in {"unused", "pending"}
    BY <1>0, <2>1 DEF TypeOK
  <2> QED BY <2>1, <2>2, <2>3 DEF Published
<1>3. ASSUME NEW p \in Runs, Retire(p) PROVE Published \subseteq Published' /\ Goes
  BY <1>0, <1>3, RetireFacts DEF Retire, TypeOK, Published
<1>4. ASSUME NEW p \in Runs, Publish(p) PROVE Published \subseteq Published' /\ Goes
  BY <1>0, <1>4, PublishFacts DEF Publish, TypeOK, Published
<1>5. ASSUME NEW p \in Runs, RolledBack(p) PROVE Published \subseteq Published' /\ Goes
  <2> DEFINE o == output[p]
  <2>1. o \in Files /\ place[o] = "pending" /\ place' \in {place, [place EXCEPT ![o] = "unused"]}
    BY <1>5, RolledBackFacts
  <2>2. \A g \in Files \ {o} : place'[g] = place[g]
    BY <1>0, <2>1 DEF TypeOK
  <2>3. place'[o] \in {"unused", "pending"}
    BY <1>0, <2>1 DEF TypeOK
  <2> QED BY <2>1, <2>2, <2>3 DEF Published
<1>6. ASSUME NEW p \in Runs, Restore(p) PROVE Published \subseteq Published' /\ Goes
  BY <1>0, <1>6, TombstoneFacts DEF Restore, TypeOK, Published
<1>7. ASSUME NEW p \in Runs, DeleteTombstone(p) PROVE Published \subseteq Published' /\ Goes
  <2>1. output[p] \in Published
    BY <1>7 DEF IInv, RunOK, CleanOK, DeleteTombstone
  <2>2. Published \subseteq Published'
    BY <1>0, <1>7, TombstoneFacts DEF DeleteTombstone, TypeOK, Published
  <2> QED BY <2>1, <2>2
<1>8. ASSUME UNCHANGED fileVars PROVE Published \subseteq Published' /\ Goes
  <2>1. place' = place
    BY <1>8 DEF fileVars
  <2> QED BY <2>1 DEF Published
<1> HIDE DEF Goes
<1>9. Published \subseteq Published' /\ Goes
  BY <1>1, <1>2, <1>3, <1>4, <1>5, <1>6, <1>7, <1>8, FileSteps DEF ChangesFiles
<1>10. NoneGone'
  <2>1. ASSUME Published' = {}, NEW f \in Files PROVE place'[f] # "gone"
    BY <1>9, <2>1 DEF NoneGone, Goes
  <2> QED BY <2>1 DEF NoneGone
<1> QED BY <1>9, <1>10

------------------------------------------------------------------------------
LEMMA SchemaKept == ASSUME IInv, [Next]_vars PROVE \A f \in Used : schema'[f] = schema[f]
<1>1. ASSUME NEW p \in Runs, WriteCandidate(p) PROVE \A f \in Used : schema'[f] = schema[f]
  BY <1>1, CandidateFacts DEF Used
<1> QED BY <1>1, DataSteps DEF SameData

LEMMA InputsUsed ==
  ASSUME IInv, NEW q \in Runs, plans[q] # <<>>
  PROVE  \A f \in Range(Inputs(q)) : f \in Used
<1>0. TypeOK /\ PlansOK(q)
  BY DEF IInv, RunOK
<1>1. Len(plans[q]) \in Nat \ {0} /\ Inputs(q) = plans[q][1]
  BY <1>0 DEF TypeOK, Inputs
<1>2. \A i \in 1..Len(Inputs(q)) : Inputs(q)[i] \in Used
  BY <1>0, <1>1 DEF PlansOK
<1> QED BY <1>0, <1>2, GroupType

(* Two inputs of a run, by their places in its group. *)
LEMMA InputsAscend ==
  ASSUME IInv, PlansAscend, NEW q \in Runs, plans[q] # <<>>
  PROVE  /\ \A i \in 1..Len(Inputs(q)) : Inputs(q)[i] \in Nat
         /\ \A j, k \in 1..Len(Inputs(q)) : j < k => Inputs(q)[j] < Inputs(q)[k]
<1>0. TypeOK
  BY DEF IInv
<1>1. Len(plans[q]) \in Nat \ {0} /\ Inputs(q) = plans[q][1] /\ plans[q] \in Seq(Seq(Files) \ {<<>>})
  BY <1>0 DEF TypeOK, Inputs
<1>2. 1 \in DOMAIN plans[q]
  BY <1>1
<1>3. Ascending(Inputs(q))
  BY <1>1, <1>2 DEF PlansAscend
<1>4. DOMAIN Inputs(q) = 1..Len(Inputs(q))
  BY <1>0, GroupType
<1> QED BY <1>0, <1>3, <1>4, GroupType, CompactionAssumption DEF Ascending

Holds(r, f) == stage[r] = "retire" /\ at[r] > 1 /\ f <= Inputs(r)[at[r] - 1]

Held(f) == \E r \in Runs : Holds(r, f)

SomeAhead(q) == \E r \in Runs : Ahead(r, q)

(* What cannot be opened has been retired by a run, and one that holds it  *)
(* or a later file still retires.                                          *)
LEMMA Blocked ==
  ASSUME AheadInv, Undisturbed, NEW f \in Used, place[f] # "visible"
  PROVE  Held(f)
<1>0. IInv /\ TypeOK /\ f \in Files /\ f \in Nat /\ PlansAscend
  BY CompactionAssumption DEF AheadInv, DataInv, IInv, Used
<1>1. place[f] = "retired"
  BY <1>0 DEF TypeOK, Used, AheadInv, NoneGone, Undisturbed
<1>2. f \in Withheld
  BY <1>0, <1>1 DEF Withheld, Undisturbed
<1>3. PICK q \in Runs : Accounts(q, f)
  BY <1>2 DEF AheadInv, DataInv, WithheldOK, Undisturbed
<1>4. RunOK(q) /\ at[q] \in Nat
  BY <1>0 DEF IInv, TypeOK
<1>5. f \in TombstonesOf(output[q])
  BY <1>0, <1>1, <1>3 DEF Accounts, TombstonesOf
<1>6. CASE stage[q] = "retire"
  <2>1. plans[q] # <<>> /\ RetireOK(q)
    BY <1>4, <1>6 DEF RunOK, PlansOK, Started
  <2>2. PICK i \in 1..at[q] - 1 : f = Inputs(q)[i]
    BY <1>5, <1>6, <2>1 DEF RetireOK
  <2>3. at[q] \in 1..Len(Inputs(q)) + 1 /\ Len(Inputs(q)) \in Nat
    BY <1>0, <1>6, <2>1, GroupType DEF RetireOK
  <2>4. at[q] > 1 /\ i \in 1..Len(Inputs(q)) /\ at[q] - 1 \in 1..Len(Inputs(q))
    BY <2>2, <2>3
  <2>5. /\ Inputs(q)[i] \in Nat /\ Inputs(q)[at[q] - 1] \in Nat
        /\ i < at[q] - 1 => Inputs(q)[i] < Inputs(q)[at[q] - 1]
    BY <1>0, <2>1, <2>4, InputsAscend
  <2>6. i = at[q] - 1 \/ i < at[q] - 1
    BY <1>4, <2>2
  <2> QED BY <1>6, <2>2, <2>4, <2>5, <2>6 DEF Held, Holds
<1>7. CASE stage[q] = "rollback" /\ \E i \in 1..at[q] : Inputs(q)[i] = f
  <2>1. PICK i \in 1..at[q] : Inputs(q)[i] = f
    BY <1>7
  <2>2. PICK r \in Runs : Ahead(r, q)
    BY <1>7 DEF AheadInv, SomeoneAhead, Undisturbed, Behind
  <2>3. f < Inputs(r)[at[r] - 1] /\ stage[r] = "retire" /\ at[r] > 1
    BY <1>7, <2>1, <2>2 DEF Ahead
  <2>4. Inputs(r)[at[r] - 1] \in Nat
    <3>1. RunOK(r) /\ at[r] \in Nat
      BY <1>0 DEF IInv, TypeOK
    <3>2. plans[r] # <<>> /\ RetireOK(r)
      BY <2>3, <3>1 DEF RunOK, PlansOK, Started
    <3>3. at[r] \in 1..Len(Inputs(r)) + 1 /\ Len(Inputs(r)) \in Nat
      BY <1>0, <2>3, <3>2, GroupType DEF RetireOK
    <3>4. at[r] - 1 \in 1..Len(Inputs(r))
      BY <2>3, <3>1, <3>3
    <3> QED BY <1>0, <3>2, <3>4, InputsAscend
  <2> QED BY <1>0, <2>3, <2>4 DEF Held, Holds
<1> QED BY <1>3, <1>6, <1>7 DEF Accounts, Undisturbed

(* Whatever else a step does, it does not fail a call and kills nobody. *)
LEMMA Calm ==
  ASSUME IInv, NoneGone, Undisturbed', [Next]_vars
  PROVE  Undisturbed /\ faults' = faults /\ \A p \in Runs : ~Kill(p)
<1>0. TypeOK /\ faults \in Nat /\ kills \in Nat
  BY CompactionAssumption DEF IInv, TypeOK
<1>1. faults = 0 /\ kills = 0
  BY <1>0, FaultsGrow DEF Undisturbed
<1>2. Published = {}
  BY NoneGoneStep DEF Undisturbed
<1>3. \A p \in Runs : ~Kill(p)
  BY <1>0, <1>1 DEF Kill, Undisturbed
<1> QED BY <1>1, <1>2, <1>3 DEF Undisturbed

LEMMA OwnGroup ==
  ASSUME AheadInv, NEW p \in Runs, stage[p] \in Started
  PROVE  /\ IInv /\ TypeOK /\ RunOK(p) /\ PlansAscend /\ at[p] \in Nat
         /\ plans[p] # <<>> /\ Len(Inputs(p)) \in Nat
<1>1. IInv /\ TypeOK /\ RunOK(p) /\ PlansAscend /\ at[p] \in Nat
  BY DEF AheadInv, DataInv, IInv, TypeOK
<1>2. plans[p] # <<>>
  BY <1>1 DEF RunOK, PlansOK
<1> QED BY <1>1, <1>2, GroupType

(* A run that meets a missing input gives way to another, with a later file. *)
LEMMA GivesWay ==
  ASSUME AheadInv, Undisturbed, NEW p \in Runs, RetireFails(p), place[InputAt(p)] # "visible"
  PROVE  \E r \in Runs \ {p} :
            /\ stage[r] = "retire" /\ at[r] > 1
            /\ \A i \in 1..at[p] - 1 : Inputs(p)[i] < Inputs(r)[at[r] - 1]
<1>0. stage[p] = "retire" /\ stage[p] \in Started /\ ~AllDone(p)
  BY DEF RetireFails, Started
<1>1. /\ IInv /\ TypeOK /\ RunOK(p) /\ PlansAscend /\ at[p] \in Nat
      /\ plans[p] # <<>> /\ Len(Inputs(p)) \in Nat
  BY <1>0, OwnGroup
<1>2. at[p] \in 1..Len(Inputs(p))
  BY <1>0, <1>1 DEF RunOK, RetireOK, AllDone
<1>3. InputAt(p) \in Used
  BY <1>0, <1>1, <1>2, InputType
<1>4. Held(InputAt(p))
  BY <1>3, Blocked
<1>5. PICK r \in Runs : stage[r] = "retire" /\ at[r] > 1 /\ InputAt(p) <= Inputs(r)[at[r] - 1]
  BY <1>4 DEF Held, Holds
<1>6. /\ InputAt(p) \in Nat
      /\ \A i \in 1..at[p] - 1 : Inputs(p)[i] \in Nat /\ Inputs(p)[i] < InputAt(p)
  BY <1>1, <1>2, InputsAscend DEF InputAt
<1>7. Inputs(r)[at[r] - 1] \in Nat
  <2>1. /\ RunOK(r) /\ at[r] \in Nat
        /\ plans[r] # <<>> /\ Len(Inputs(r)) \in Nat
    BY <1>5, OwnGroup DEF Started
  <2>2. at[r] - 1 \in 1..Len(Inputs(r))
    BY <1>5, <2>1 DEF RunOK, RetireOK
  <2> QED BY <1>1, <2>1, <2>2, InputsAscend
<1>8. r # p
  <2> SUFFICES ASSUME r = p PROVE FALSE
    OBVIOUS
  <2>1. at[p] - 1 \in 1..at[p] - 1
    BY <1>1, <1>5
  <2> QED BY <1>5, <1>6, <1>7, <2>1
<1>9. ASSUME NEW i \in 1..at[p] - 1 PROVE Inputs(p)[i] < Inputs(r)[at[r] - 1]
  BY <1>5, <1>6, <1>7, <1>9
<1> QED BY <1>5, <1>8, <1>9

LEMMA StaysAhead ==
  ASSUME NEW r \in Runs, NEW q \in Runs, Ahead(r, q), SameRun(r),
         stage'[q] = "rollback" => stage[q] = "rollback" /\ Inputs(q)' = Inputs(q) /\ at'[q] <= at[q],
         at[q] \in Nat, at'[q] \in Nat
  PROVE  SomeAhead(q)'
<1>1. Inputs(r)' = Inputs(r) /\ at'[r] = at[r] /\ stage'[r] = stage[r]
  BY DEF SameRun, Inputs
<1>2. ASSUME stage'[q] = "rollback", NEW i \in 1..at'[q]
      PROVE  Inputs(q)'[i] < Inputs(r)'[at'[r] - 1]
  <2>1. i \in 1..at[q] /\ stage[q] = "rollback" /\ Inputs(q)' = Inputs(q)
    BY <1>2
  <2> QED BY <1>1, <2>1 DEF Ahead
<1>3. Ahead(r, q)'
  BY <1>1, <1>2 DEF Ahead
<1> QED BY <1>3 DEF SomeAhead

(* The run that moves falls behind, or was behind. *)
LEMMA OwnWay ==
  ASSUME AheadInv, Undisturbed, Undisturbed', faults' = faults, [Next]_vars,
         NEW p \in Runs, RunStep(p), Behind(p)'
  PROVE  SomeAhead(p)'
<1>0. IInv /\ TypeOK /\ at[p] \in Nat /\ faults \in Nat /\ SomeoneAhead
  BY CompactionAssumption DEF AheadInv, DataInv, IInv, TypeOK
<1>1. ~Fault
  BY <1>0 DEF Fault
<1>2. \A q \in Runs \ {p} : SameRun(q)
  BY <1>0, OneRunMoves DEF RunSteps
<1>3. CASE OpenFails(p)
  <2>1. stage[p] \in Started /\ ~AllDone(p) /\ place[InputAt(p)] # "visible" /\ stage[p] # "retire"
    BY <1>1, <1>3 DEF OpenFails, Started
  <2>2. stage'[p] = "failed"
    BY <1>0, <1>3 DEF OpenFails, Fail, TypeOK
  <2>3. plans[p] # <<>> /\ Len(Inputs(p)) \in Nat
    BY <2>1, OwnGroup
  <2>4. at[p] \in 1..Len(Inputs(p))
    BY <1>0, <1>3, <2>1, <2>3 DEF AheadInv, Reading, OpenFails, AllDone
  <2>5. InputAt(p) \in Used
    BY <1>0, <2>1, <2>4, InputType
  <2>6. Held(InputAt(p))
    BY <2>1, <2>5, Blocked
  <2>7. PICK r \in Runs : stage[r] = "retire" /\ at[r] > 1
    BY <2>6 DEF Held, Holds
  <2>8. Inputs(r)' = Inputs(r) /\ at'[r] = at[r] /\ stage'[r] = "retire"
    BY <1>2, <2>1, <2>7 DEF SameRun, Inputs
  <2>9. Ahead(r, p)'
    BY <2>2, <2>7, <2>8 DEF Ahead
  <2> QED BY <2>9 DEF SomeAhead
<1>4. CASE SchemaConflict(p)
  <2>1. ~Mergeable(Range(Inputs(p))) /\ schema' = schema /\ Inputs(p)' = Inputs(p)
    BY <1>4 DEF SchemaConflict, Fail, fileVars, Inputs
  <2>2. ~Mergeable(Range(Inputs(p)))'
    BY <2>1 DEF Mergeable
  <2>3. stage'[p] = "failed"
    BY <1>0, <1>4 DEF SchemaConflict, Fail, TypeOK
  <2> QED BY <2>2, <2>3 DEF Behind
<1>5. CASE RetireFails(p)
  <2>1. place[InputAt(p)] # "visible"
    BY <1>1, <1>5 DEF RetireFails
  <2>2. PICK r \in Runs \ {p} :
            /\ stage[r] = "retire" /\ at[r] > 1
            /\ \A i \in 1..at[p] - 1 : Inputs(p)[i] < Inputs(r)[at[r] - 1]
    BY <1>5, <2>1, GivesWay
  <2>3. Inputs(r)' = Inputs(r) /\ at'[r] = at[r] /\ stage'[r] = "retire"
    BY <1>2, <2>2 DEF SameRun, Inputs
  <2>4. at'[p] = at[p] - 1 /\ Inputs(p)' = Inputs(p)
    BY <1>0, <1>5 DEF RetireFails, Move, TypeOK, Inputs
  <2>5. Ahead(r, p)'
    BY <2>2, <2>3, <2>4 DEF Ahead
  <2> QED BY <2>5 DEF SomeAhead
<1>6. CASE Restore(p) \/ RolledBack(p)
  <2>1. stage[p] = "rollback"
    BY <1>6 DEF Restore, RolledBack
  <2>2. PICK r \in Runs : Ahead(r, p)
    BY <1>0, <2>1 DEF SomeoneAhead, Behind
  <2>3. r # p /\ SameRun(r)
    BY <1>2, <2>1, <2>2 DEF Ahead
  <2>4. CASE Restore(p)
    <3>1. at[p] > 0 /\ at'[p] = at[p] - 1 /\ Inputs(p)' = Inputs(p)
      BY <1>0, <2>4 DEF Restore, Move, TypeOK, Inputs
    <3>2. at'[p] \in Nat /\ at'[p] <= at[p]
      BY <1>0, <3>1
    <3> QED BY <1>0, <2>1, <2>2, <2>3, <3>1, <3>2, StaysAhead
  <2>5. CASE RolledBack(p)
    <3>1. stage'[p] = "failed" /\ at' = at
      BY <1>0, <2>5 DEF RolledBack, Fail, TypeOK
    <3> QED BY <1>0, <2>2, <2>3, <3>1, StaysAhead
  <2> QED BY <1>6, <2>4, <2>5
<1>7. CASE ConfirmFails(p)
  <2>1. stage[p] = "confirm"
    BY <1>7 DEF ConfirmFails
  <2> QED BY <1>0, <2>1 DEF IInv, RunOK, CleanOK, Undisturbed
<1>8. ~CandidateFails(p) /\ ~PublishFails(p) /\ ~Strand(p)
  BY <1>1 DEF CandidateFails, PublishFails, Strand
<1>9. stage'[p] \in {"rollback", "failed"}
  BY DEF Behind
<1>10. ASSUME OpenInput(p) \/ MergeSchemas(p) \/ WriteCandidate(p) \/ Retire(p) \/ Publish(p)
           \/ Confirm(p) \/ DeleteTombstone(p) \/ DeleteFails(p) \/ NextPlan(p)
       PROVE  stage'[p] \notin {"rollback", "failed"}
  BY <1>0, <1>10 DEF OpenInput, MergeSchemas, WriteCandidate, Retire, Publish, Confirm,
     DeleteTombstone, DeleteFails, NextPlan, Move, TypeOK
<1> QED BY <1>3, <1>4, <1>5, <1>6, <1>7, <1>8, <1>9, <1>10 DEF RunStep

(* A run that is behind another stays so when that one, or a third, moves. *)
LEMMA OthersWay ==
  ASSUME AheadInv, Undisturbed, Undisturbed', faults' = faults, [Next]_vars,
         NEW p \in Runs, RunStep(p), NEW q \in Runs \ {p}, Behind(q)
  PROVE  SomeAhead(q)'
<1>0. IInv /\ TypeOK /\ SomeoneAhead /\ faults \in Nat
  BY CompactionAssumption DEF AheadInv, DataInv, IInv, TypeOK
<1>1. ~Fault
  BY <1>0 DEF Fault
<1>2. \A r \in Runs \ {p} : SameRun(r)
  BY <1>0, OneRunMoves DEF RunSteps
<1>3. PICK r \in Runs : Ahead(r, q)
  BY <1>0 DEF SomeoneAhead
<1>4. /\ stage'[q] = stage[q] /\ at'[q] = at[q] /\ Inputs(q)' = Inputs(q)
      /\ at[q] \in Nat /\ at'[q] \in Nat /\ at'[q] <= at[q]
  BY <1>0, <1>2 DEF SameRun, Inputs, TypeOK
<1>5. CASE r # p
  BY <1>2, <1>3, <1>4, <1>5, StaysAhead
<1>6. CASE r = p
  <2>1. stage[p] = "retire" /\ at[p] > 1 /\ stage[p] \in Started
    BY <1>3, <1>6 DEF Ahead, Started
  <2>2. /\ RunOK(p) /\ PlansAscend /\ at[p] \in Nat
        /\ plans[p] # <<>> /\ Len(Inputs(p)) \in Nat
    BY <2>1, OwnGroup
  <2>3. at[p] \in 1..Len(Inputs(p)) + 1
    BY <2>1, <2>2 DEF RunOK, RetireOK
  <2>4. CASE Retire(p)
    <3>1. /\ ~AllDone(p) /\ stage'[p] = "retire" /\ at'[p] = at[p] + 1 /\ Inputs(p)' = Inputs(p)
      BY <1>0, <2>4 DEF Retire, Move, TypeOK, Inputs
    <3>2. at[p] \in 1..Len(Inputs(p)) /\ at[p] - 1 \in 1..Len(Inputs(p)) /\ at'[p] - 1 = at[p]
      BY <2>1, <2>2, <2>3, <3>1 DEF AllDone
    <3>3. /\ Inputs(p)[at[p] - 1] \in Nat /\ Inputs(p)[at[p]] \in Nat
          /\ Inputs(p)[at[p] - 1] < Inputs(p)[at[p]]
      BY <1>0, <2>2, <3>2, InputsAscend
    <3>4. ASSUME stage[q] = "rollback", NEW i \in 1..at[q]
          PROVE  Inputs(q)[i] < Inputs(p)[at[p]]
      <4>1. Inputs(q)[i] < Inputs(p)[at[p] - 1]
        BY <1>3, <1>6, <3>4 DEF Ahead
      <4>2. Inputs(q)[i] \in Nat
        <5>1. /\ RunOK(q) /\ plans[q] # <<>> /\ Len(Inputs(q)) \in Nat
          BY <3>4, OwnGroup DEF Started
        <5>2. i \in 1..Len(Inputs(q))
          BY <1>4, <3>4, <5>1 DEF RunOK, RollbackOK
        <5> QED BY <1>0, <2>2, <5>1, <5>2, InputsAscend
      <4> QED BY <3>3, <4>1, <4>2
    <3>5. Ahead(p, q)'
      BY <1>4, <2>1, <2>2, <3>1, <3>2, <3>4 DEF Ahead
    <3> QED BY <3>5 DEF SomeAhead
  <2>5. CASE RetireFails(p)
    <3>1. place[InputAt(p)] # "visible"
      BY <1>1, <2>5 DEF RetireFails
    <3>2. PICK s \in Runs \ {p} :
              /\ stage[s] = "retire" /\ at[s] > 1
              /\ \A i \in 1..at[p] - 1 : Inputs(p)[i] < Inputs(s)[at[s] - 1]
      BY <2>5, <3>1, GivesWay
    <3>3. Inputs(p)[at[p] - 1] < Inputs(s)[at[s] - 1] /\ Inputs(p)[at[p] - 1] \in Nat
          /\ Inputs(s)[at[s] - 1] \in Nat
      <4>1. at[p] - 1 \in 1..at[p] - 1 /\ at[p] - 1 \in 1..Len(Inputs(p))
        BY <2>1, <2>2, <2>3
      <4>2. /\ RunOK(s) /\ at[s] \in Nat /\ plans[s] # <<>> /\ Len(Inputs(s)) \in Nat
        BY <3>2, OwnGroup DEF Started
      <4>3. at[s] - 1 \in 1..Len(Inputs(s))
        BY <3>2, <4>2 DEF RunOK, RetireOK
      <4> QED BY <1>0, <2>2, <3>2, <4>1, <4>2, <4>3, InputsAscend
    <3>4. ASSUME stage[q] = "rollback", NEW i \in 1..at[q]
          PROVE  Inputs(q)[i] < Inputs(s)[at[s] - 1]
      <4>1. Inputs(q)[i] < Inputs(p)[at[p] - 1]
        BY <1>3, <1>6, <3>4 DEF Ahead
      <4>2. Inputs(q)[i] \in Nat
        <5>1. /\ RunOK(q) /\ plans[q] # <<>> /\ Len(Inputs(q)) \in Nat
          BY <3>4, OwnGroup DEF Started
        <5>2. i \in 1..Len(Inputs(q))
          BY <1>4, <3>4, <5>1 DEF RunOK, RollbackOK
        <5> QED BY <1>0, <2>2, <5>1, <5>2, InputsAscend
      <4> QED BY <3>3, <4>1, <4>2
    <3>5. Ahead(s, q)
      BY <3>2, <3>4 DEF Ahead
    <3>6. SameRun(s)
      BY <1>2, <3>2
    <3> QED BY <1>4, <3>5, <3>6, StaysAhead
  <2>6. ~Publish(p)
    <3>1. ASSUME Publish(p) PROVE output[p] \in Published'
      BY <1>0, <3>1, PublishFacts DEF Publish, TypeOK, Published
    <3> QED BY <3>1 DEF Undisturbed
  <2>7. ~PublishFails(p)
    BY <1>1 DEF PublishFails
  <2> QED
    BY <2>1, <2>4, <2>5, <2>6, <2>7
       DEF RunStep, OpenInput, OpenFails, MergeSchemas, SchemaConflict, WriteCandidate,
           CandidateFails, Restore, Strand, RolledBack, Confirm, ConfirmFails,
           DeleteTombstone, DeleteFails, NextPlan
<1> QED BY <1>5, <1>6

LEMMA WasBehind ==
  ASSUME IInv, FailedHasPlan, [Next]_vars, NEW q \in Runs, SameRun(q), Behind(q)'
  PROVE  Behind(q)
<1>1. Inputs(q)' = Inputs(q) /\ stage'[q] = stage[q]
  BY DEF SameRun, Inputs
<1>2. CASE stage[q] = "failed"
  <2>1. Mergeable(Range(Inputs(q)))'
    BY <1>1, <1>2 DEF Behind
  <2>2. \A f \in Range(Inputs(q)) : schema'[f] = schema[f]
    BY <1>2, SchemaKept, InputsUsed DEF FailedHasPlan
  <2>3. Mergeable(Range(Inputs(q)))
    BY <1>1, <2>1, <2>2 DEF Mergeable
  <2> QED BY <1>2, <2>3 DEF Behind
<1> QED BY <1>1, <1>2 DEF Behind

LEMMA SomeoneAheadStep == ASSUME AheadInv, [Next]_vars PROVE SomeoneAhead'
<1> SUFFICES ASSUME Undisturbed', NEW q \in Runs, Behind(q)' PROVE SomeAhead(q)'
  BY DEF SomeoneAhead, SomeAhead
<1>0. IInv /\ TypeOK /\ FailedHasPlan /\ NoneGone /\ SomeoneAhead
  BY DEF AheadInv, DataInv, IInv
<1>1. Undisturbed /\ faults' = faults /\ \A p \in Runs : ~Kill(p)
  BY <1>0, Calm
<1>2. CASE RunStep(q)
  BY <1>1, <1>2, OwnWay
<1>3. ~BeginHistory(q)
  <2>1. ASSUME BeginHistory(q) PROVE stage'[q] \in {"done", "inspect"}
    BY <1>0, <2>1 DEF BeginHistory, Move, TypeOK
  <2> QED BY <2>1 DEF Behind
<1>4. ASSUME NEW p \in Runs, p # q, RunStep(p) PROVE SomeAhead(q)'
  <2>1. SameRun(q)
    BY <1>0, <1>4, OneRunMoves DEF RunSteps
  <2>2. Behind(q)
    BY <1>0, <2>1, WasBehind
  <2> QED BY <1>1, <1>4, <2>2, OthersWay
<1>5. ASSUME SameRun(q),
             \A r \in Runs : stage[r] = "retire" => SameRun(r)
      PROVE  SomeAhead(q)'
  <2>1. Behind(q)
    BY <1>0, <1>5, WasBehind
  <2>2. PICK r \in Runs : Ahead(r, q)
    BY <1>0, <1>1, <2>1 DEF SomeoneAhead
  <2>3. SameRun(r)
    BY <1>5, <2>2 DEF Ahead
  <2>4. /\ stage'[q] = stage[q] /\ at'[q] = at[q] /\ Inputs(q)' = Inputs(q)
        /\ at[q] \in Nat /\ at'[q] \in Nat /\ at'[q] <= at[q]
    BY <1>0, <1>5 DEF SameRun, Inputs, TypeOK
  <2> QED BY <2>2, <2>3, <2>4, StaysAhead
<1>6. ASSUME NEW p \in Runs, p # q, BeginHistory(p) PROVE SomeAhead(q)'
  <2>1. \A r \in Runs \ {p} : SameRun(r)
    BY <1>0, <1>6, OneRunMoves DEF RunSteps
  <2>2. stage[p] # "retire"
    BY <1>6 DEF BeginHistory
  <2> QED BY <1>5, <1>6, <2>1, <2>2
<1>7. ASSUME (\E f \in Parts : AddPart(f)) \/ UNCHANGED vars PROVE SomeAhead(q)'
  <2>1. \A r \in Runs : SameRun(r)
    BY <1>7 DEF AddPart, vars, runVars, SameRun
  <2> QED BY <1>5, <2>1
<1> QED BY <1>1, <1>2, <1>3, <1>4, <1>6, <1>7 DEF Next

LEMMA AheadInvariant == Spec => []AheadInv
<1>1. Init => AheadInv
  <2> SUFFICES ASSUME Init PROVE AheadInv
    OBVIOUS
  <2>1. DataInv
    BY DataInitially
  <2>2. \A p \in Runs : stage[p] = "idle" /\ plans[p] = <<>>
    BY DEF Init
  <2>3. PlansAscend /\ FailedHasPlan /\ Reading /\ SomeoneAhead
    BY <2>2 DEF PlansAscend, FailedHasPlan, Reading, SomeoneAhead, Behind
  <2>4. KillsSeen /\ NoneGone
    BY DEF Init, KillsSeen, NoneGone
  <2> QED BY <2>1, <2>3, <2>4 DEF AheadInv
<1>2. AheadInv /\ [Next]_vars => AheadInv'
  <2> SUFFICES ASSUME AheadInv, [Next]_vars PROVE AheadInv'
    OBVIOUS
  <2>1. IInv /\ TypeOK
    BY DEF AheadInv, DataInv, IInv
  <2>2. DataInv'
    BY DataInductive DEF AheadInv
  <2>3. PlansAscend' /\ FailedHasPlan' /\ KillsSeen' /\ Reading'
    BY <2>1, PlansAscendStep, FailedStep, KillsSeenStep, ReadingStep DEF AheadInv
  <2>4. NoneGone'
    BY <2>1, NoneGoneStep DEF AheadInv
  <2> QED BY <2>2, <2>3, <2>4, SomeoneAheadStep DEF AheadInv
<1> QED BY <1>1, <1>2, PTL DEF Spec

(* Compactors that overlap do not abort each other: when all have          *)
(* returned, no call failed, and one gave up at files that agree, then     *)
(* another has published.                                                  *)
THEOREM SomeoneSafe == Spec => []SomeoneCompacts
<1>1. AheadInv => SomeoneCompacts
  <2> SUFFICES ASSUME AheadInv, AtRest, faults = 0, NEW p \in Runs,
                      stage[p] = "failed", Mergeable(Range(Inputs(p)))
               PROVE  Published # {}
    BY DEF SomeoneCompacts
  <2>1. kills = 0
    <3>1. TypeOK /\ kills \in Nat
      BY CompactionAssumption DEF AheadInv, DataInv, IInv, TypeOK
    <3> QED BY <3>1 DEF AheadInv, KillsSeen, AtRest
  <2>2. Behind(p)
    BY DEF Behind
  <2>3. ASSUME Published = {} PROVE \E r \in Runs : stage[r] = "retire"
    BY <2>1, <2>2, <2>3 DEF AheadInv, SomeoneAhead, Undisturbed, Ahead
  <2> QED BY <2>3 DEF AtRest
<1> QED BY <1>1, AheadInvariant, PTL
==============================================================================
