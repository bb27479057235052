----------------------------- MODULE Compaction ------------------------------
(***************************************************************************)
(* The local compactor (crates/fdd_store/src/compaction.rs) on one monthly *)
(* partition of the historian: several compactor runs, which nothing keeps *)
(* from overlapping, a live writer that adds parts, failing storage calls, *)
(* and compactors that are killed.                                         *)
(*                                                                         *)
(* A compactor replaces a group of small files by one file.  It renames    *)
(* the inputs to hidden tombstones, then renames the finished replacement  *)
(* into view, then deletes the tombstones.  A tombstone's name carries the *)
(* id of the operation, which is also in the replacement's name: here the  *)
(* id of an operation is the file it would publish.                        *)
(*                                                                         *)
(* What is in a file is told apart by the parts its rows came from.        *)
(***************************************************************************)
EXTENDS Naturals, Sequences, FiniteSets, Functions

CONSTANTS
    Parts,          \* files the live writer may add, numbered by name
    Outputs,        \* replacements compactors may publish, numbered by name
    NoFile,         \* no operation
    Runs,           \* calls of compact_history
    PartSchema,     \* PartSchema[f]: the columns of part f and their types
    Plan(_),        \* plan_history, given the visible files
    MaxFaults,      \* bound: failing storage calls
    MaxKills        \* bound: compactors killed

Files == Parts \cup Outputs

ASSUME CompactionAssumption ==
    /\ Files \subseteq Nat
    /\ Parts \cap Outputs = {}
    /\ NoFile \notin Files
    /\ MaxFaults \in Nat
    /\ MaxKills \in Nat

ASSUME PlanAssumption ==
    \A files \in SUBSET Files : Plan(files) \in Seq(Seq(files) \ {<<>>})

(* Within a group the files are in the order of their names. *)
ASSUME PlanOrderAssumption ==
    \A files \in SUBSET Files : \A i \in DOMAIN Plan(files) :
        \A j, k \in DOMAIN Plan(files)[i] :
            j < k => Plan(files)[i][j] < Plan(files)[i][k]

VARIABLES
    place,      \* unused, pending (a hidden candidate), visible, retired, gone
    retiredBy,  \* retiredBy[f]: the operation in the name of f's tombstone
    rows,       \* rows[f]: the parts whose rows f holds
    schema,     \* schema[f]: the columns of f and their types
    stage,      \* position of each run
    plans,      \* plans[p]: groups run p has still to compact, current first
    at,         \* at[p]: the input of the current group the run is at
    output,     \* output[p]: the operation the run is in, or was in last
    report,     \* report[p]: tombstones the run names when it returns
    faults,     \* failing storage calls so far
    kills       \* compactors killed so far

fileVars == <<place, retiredBy, rows, schema>>
runVars == <<stage, plans, at, output, report>>
vars == <<fileVars, runVars, faults, kills>>

Stages == {"idle", "inspect", "copy", "retire", "confirm", "clean",
           "rollback", "done", "failed", "killed"}

Started == {"inspect", "copy", "retire", "confirm", "clean", "rollback"}

TypeOK ==
    /\ place \in [Files -> {"unused", "pending", "visible", "retired", "gone"}]
    /\ retiredBy \in [Files -> Outputs \cup {NoFile}]
    /\ rows \in [Files -> SUBSET Parts]
    /\ DOMAIN schema = Files
    /\ stage \in [Runs -> Stages]
    /\ plans \in [Runs -> Seq(Seq(Files) \ {<<>>})]
    /\ at \in [Runs -> Nat]
    /\ output \in [Runs -> Outputs \cup {NoFile}]
    /\ report \in [Runs -> SUBSET Files]
    /\ faults \in 0..MaxFaults
    /\ kills \in 0..MaxKills

Init ==
    /\ place = [f \in Files |-> "unused"]
    /\ retiredBy = [f \in Files |-> NoFile]
    /\ rows = [f \in Files |-> IF f \in Parts THEN {f} ELSE {}]
    /\ schema = [f \in Files |-> IF f \in Parts THEN PartSchema[f] ELSE <<>>]
    /\ stage = [p \in Runs |-> "idle"]
    /\ plans = [p \in Runs |-> <<>>]
    /\ at = [p \in Runs |-> 1]
    /\ output = [p \in Runs |-> NoFile]
    /\ report = [p \in Runs |-> {}]
    /\ faults = 0
    /\ kills = 0

------------------------------------------------------------------------------
Visible == {f \in Files : place[f] = "visible"}

Inputs(p) == Head(plans[p])

InputAt(p) == Inputs(p)[at[p]]

AllDone(p) == at[p] > Len(Inputs(p))

Fault == faults < MaxFaults /\ faults' = faults + 1

(* Mutant of Mergeable: types are not compared. *)
AlwaysMergeable(fs) == TRUE

(* merge_schemas: common columns must have one type; the rest is united. *)
Mergeable(fs) ==
    \A f, g \in fs : \A c \in DOMAIN schema[f] \cap DOMAIN schema[g] :
        schema[f][c] = schema[g][c]

Merged(fs) ==
    [c \in UNION {DOMAIN schema[f] : f \in fs} |->
        schema[CHOOSE f \in fs : c \in DOMAIN schema[f]][c]]

Move(p, s, n) ==
    /\ stage' = [stage EXCEPT ![p] = s]
    /\ at' = [at EXCEPT ![p] = n]

(* compact_history returns the error; the results so far are dropped, and  *)
(* the error names the given tombstones.                                   *)
Fail(p, named) ==
    /\ stage' = [stage EXCEPT ![p] = "failed"]
    /\ report' = [report EXCEPT ![p] = named]
    /\ UNCHANGED <<plans, at, output>>

------------------------------------------------------------------------------
(* A live writer publishes a new part. *)
AddPart(f) ==
    /\ place[f] = "unused"
    /\ place' = [place EXCEPT ![f] = "visible"]
    /\ UNCHANGED <<retiredBy, rows, schema, runVars, faults, kills>>

(* plan_history lists the partition once, for all of the run's plans. *)
BeginHistory(p) ==
    /\ stage[p] = "idle"
    /\ plans' = [plans EXCEPT ![p] = Plan(Visible)]
    /\ Move(p, IF Plan(Visible) = <<>> THEN "done" ELSE "inspect", 1)
    /\ UNCHANGED <<output, report, fileVars, faults, kills>>

(* The first pass reads the metadata of each input, the second its rows:   *)
(* each opens the input by its name.                                       *)
OpenInput(p) ==
    /\ stage[p] \in {"inspect", "copy"}
    /\ ~AllDone(p)
    /\ place[InputAt(p)] = "visible"
    /\ Move(p, stage[p], at[p] + 1)
    /\ UNCHANGED <<plans, output, report, fileVars, faults, kills>>

OpenFails(p) ==
    /\ stage[p] \in {"inspect", "copy"}
    /\ ~AllDone(p)
    /\ \/ place[InputAt(p)] # "visible" /\ UNCHANGED faults
       \/ place[InputAt(p)] = "visible" /\ Fault
    /\ Fail(p, {})
    /\ UNCHANGED <<fileVars, kills>>

(* The merged schema is known and the operation gets its id. *)
MergeSchemas(p) ==
    /\ stage[p] = "inspect"
    /\ AllDone(p)
    /\ Mergeable(Range(Inputs(p)))
    /\ \E o \in Outputs :
        /\ place[o] = "unused" /\ \A q \in Runs : output[q] # o
        /\ output' = [output EXCEPT ![p] = o]
    /\ Move(p, "copy", 1)
    /\ UNCHANGED <<plans, report, fileVars, faults, kills>>

SchemaConflict(p) ==
    /\ stage[p] = "inspect"
    /\ AllDone(p)
    /\ ~Mergeable(Range(Inputs(p)))
    /\ Fail(p, {})
    /\ UNCHANGED <<fileVars, faults, kills>>

(* Mutant of WriteCandidate: the rows of the last input are left out. *)
WriteCandidateShort(p) ==
    /\ stage[p] = "copy"
    /\ AllDone(p)
    /\ place' = [place EXCEPT ![output[p]] = "pending"]
    /\ rows' = [rows EXCEPT ![output[p]] = UNION {rows[Inputs(p)[i]] : i \in 1..at[p] - 2}]
    /\ schema' = [schema EXCEPT ![output[p]] = Merged(Range(Inputs(p)))]
    /\ Move(p, "retire", 1)
    /\ UNCHANGED <<retiredBy, plans, output, report, faults, kills>>

(* The candidate holds the rows of all inputs and has been validated. *)
WriteCandidate(p) ==
    /\ stage[p] = "copy"
    /\ AllDone(p)
    /\ place' = [place EXCEPT ![output[p]] = "pending"]
    /\ rows' = [rows EXCEPT ![output[p]] = UNION {rows[f] : f \in Range(Inputs(p))}]
    /\ schema' = [schema EXCEPT ![output[p]] = Merged(Range(Inputs(p)))]
    /\ Move(p, "retire", 1)
    /\ UNCHANGED <<retiredBy, plans, output, report, faults, kills>>

(* Writing or validating fails; the candidate is deleted, if it can be. *)
CandidateFails(p) ==
    /\ stage[p] = "copy"
    /\ AllDone(p)
    /\ Fault
    /\ place' \in {place, [place EXCEPT ![output[p]] = "pending"]}
    /\ Fail(p, {})
    /\ UNCHANGED <<retiredBy, rows, schema, kills>>

Retire(p) ==
    /\ stage[p] = "retire"
    /\ ~AllDone(p)
    /\ place[InputAt(p)] = "visible"
    /\ place' = [place EXCEPT ![InputAt(p)] = "retired"]
    /\ retiredBy' = [retiredBy EXCEPT ![InputAt(p)] = output[p]]
    /\ Move(p, "retire", at[p] + 1)
    /\ UNCHANGED <<rows, schema, plans, output, report, faults, kills>>

(* Mutant of RetireFails: an input that is not there is passed over. *)
RetireSkips(p) ==
    /\ stage[p] = "retire"
    /\ ~AllDone(p)
    /\ place[InputAt(p)] # "visible"
    /\ Move(p, "retire", at[p] + 1)
    /\ UNCHANGED <<plans, output, report, fileVars, faults, kills>>

(* Mutant of RetireFails: a run also gives way to any other that retires. *)
RetireYields(p) ==
    /\ stage[p] = "retire"
    /\ ~AllDone(p)
    /\ \/ place[InputAt(p)] # "visible"
       \/ \E q \in Runs \ {p} : stage[q] \in {"retire", "rollback"}
    /\ Move(p, "rollback", at[p] - 1)
    /\ report' = [report EXCEPT ![p] = {}]
    /\ UNCHANGED <<plans, output, fileVars, faults, kills>>

(* Mutant of RetireFails: nothing is rolled back. *)
RetireGivesUp(p) ==
    /\ stage[p] = "retire"
    /\ ~AllDone(p)
    /\ place[InputAt(p)] # "visible" \/ faults < MaxFaults
    /\ Fail(p, {})
    /\ UNCHANGED <<fileVars, faults, kills>>

(* An input cannot be renamed; what was retired is rolled back. *)
RetireFails(p) ==
    /\ stage[p] = "retire"
    /\ ~AllDone(p)
    /\ \/ place[InputAt(p)] # "visible" /\ UNCHANGED faults
       \/ place[InputAt(p)] = "visible" /\ Fault
    /\ Move(p, "rollback", at[p] - 1)
    /\ report' = [report EXCEPT ![p] = {}]
    /\ UNCHANGED <<plans, output, fileVars, kills>>

(* Mutant of Publish: the replacement is shown before the last retirement. *)
PublishFirst(p) ==
    /\ stage[p] = "retire"
    /\ place' = [place EXCEPT ![output[p]] = "visible"]
    /\ Move(p, "confirm", 1)
    /\ UNCHANGED <<retiredBy, rows, schema, plans, output, report, faults, kills>>

Publish(p) ==
    /\ stage[p] = "retire"
    /\ AllDone(p)
    /\ place' = [place EXCEPT ![output[p]] = "visible"]
    /\ Move(p, "confirm", 1)
    /\ UNCHANGED <<retiredBy, rows, schema, plans, output, report, faults, kills>>

PublishFails(p) ==
    /\ stage[p] = "retire"
    /\ AllDone(p)
    /\ Fault
    /\ Move(p, "rollback", at[p] - 1)
    /\ report' = [report EXCEPT ![p] = {}]
    /\ UNCHANGED <<plans, output, fileVars, kills>>

(* rollback_retired renames the tombstones back, the last one first. *)
Restore(p) ==
    /\ stage[p] = "rollback"
    /\ at[p] > 0
    /\ place' = [place EXCEPT ![InputAt(p)] = "visible"]
    /\ retiredBy' = [retiredBy EXCEPT ![InputAt(p)] = NoFile]
    /\ Move(p, "rollback", at[p] - 1)
    /\ UNCHANGED <<rows, schema, plans, output, report, faults, kills>>

(* Mutant of Strand: the tombstone is not named. *)
StrandSilently(p) ==
    /\ stage[p] = "rollback"
    /\ at[p] > 0
    /\ Fault
    /\ Move(p, "rollback", at[p] - 1)
    /\ UNCHANGED <<plans, output, report, fileVars, kills>>

(* A tombstone that cannot be renamed back is named in the error. *)
Strand(p) ==
    /\ stage[p] = "rollback"
    /\ at[p] > 0
    /\ Fault
    /\ report' = [report EXCEPT ![p] = @ \cup {InputAt(p)}]
    /\ Move(p, "rollback", at[p] - 1)
    /\ UNCHANGED <<plans, output, fileVars, kills>>

(* The candidate is deleted, if it can be, and the error returned. *)
RolledBack(p) ==
    /\ stage[p] = "rollback"
    /\ at[p] = 0
    /\ \/ place' = [place EXCEPT ![output[p]] = "unused"] /\ UNCHANGED faults
       \/ Fault /\ UNCHANGED place
    /\ Fail(p, report[p])
    /\ UNCHANGED <<retiredBy, rows, schema, kills>>

(* The directory is synced and the replacement is found in its place. *)
Confirm(p) ==
    /\ stage[p] = "confirm"
    /\ place[output[p]] = "visible"
    /\ Move(p, "clean", 1)
    /\ UNCHANGED <<plans, output, report, fileVars, faults, kills>>

(* A failed sync names the tombstones, which stay; a replacement that      *)
(* cannot be found any more does not.                                      *)
ConfirmFails(p) ==
    /\ stage[p] = "confirm"
    /\ \/ Fault /\ Fail(p, Range(Inputs(p)))
       \/ Fault /\ Fail(p, {})
       \/ place[output[p]] # "visible" /\ Fail(p, {}) /\ UNCHANGED faults
    /\ UNCHANGED <<fileVars, kills>>

DeleteTombstone(p) ==
    /\ stage[p] = "clean"
    /\ ~AllDone(p)
    /\ place' = [place EXCEPT ![InputAt(p)] = "gone"]
    /\ Move(p, "clean", at[p] + 1)
    /\ UNCHANGED <<retiredBy, rows, schema, plans, output, report, faults, kills>>

(* cleanup_pending *)
DeleteFails(p) ==
    /\ stage[p] = "clean"
    /\ ~AllDone(p)
    /\ Fault
    /\ report' = [report EXCEPT ![p] = @ \cup {InputAt(p)}]
    /\ Move(p, "clean", at[p] + 1)
    /\ UNCHANGED <<plans, output, fileVars, kills>>

(* compact_history goes on to its next plan or returns the results. *)
NextPlan(p) ==
    /\ stage[p] = "clean"
    /\ AllDone(p)
    /\ plans' = [plans EXCEPT ![p] = Tail(@)]
    /\ Move(p, IF Len(plans[p]) = 1 THEN "done" ELSE "inspect", 1)
    /\ UNCHANGED <<output, report, fileVars, faults, kills>>

Kill(p) ==
    /\ stage[p] \in Started
    /\ kills < MaxKills
    /\ kills' = kills + 1
    /\ stage' = [stage EXCEPT ![p] = "killed"]
    /\ UNCHANGED <<plans, at, output, report, fileVars, faults>>

RunStep(p) ==
    \/ OpenInput(p) \/ OpenFails(p)
    \/ MergeSchemas(p) \/ SchemaConflict(p)
    \/ WriteCandidate(p) \/ CandidateFails(p)
    \/ Retire(p) \/ RetireFails(p)
    \/ Publish(p) \/ PublishFails(p)
    \/ Restore(p) \/ Strand(p) \/ RolledBack(p)
    \/ Confirm(p) \/ ConfirmFails(p)
    \/ DeleteTombstone(p) \/ DeleteFails(p)
    \/ NextPlan(p)

Next ==
    \/ \E f \in Parts : AddPart(f)
    \/ \E p \in Runs : BeginHistory(p) \/ RunStep(p) \/ Kill(p)

Spec == Init /\ [][Next]_vars

(* A compactor that was started runs until it returns or is killed. *)
FairSpec == Spec /\ \A p \in Runs : WF_vars(RunStep(p))

------------------------------------------------------------------------------
(* Properties                                                              *)

Added == {f \in Parts : place[f] # "unused"}

Published == {o \in Outputs : place[o] \notin {"unused", "pending"}}

(* Tombstones whose rows no published replacement has taken over. *)
Withheld == {f \in Files : place[f] = "retired" /\ retiredBy[f] \notin Published}

(* Whatever overlaps, fails or is killed: the visible files and the        *)
(* tombstones of operations that have not published hold every row that    *)
(* was ever added exactly once.  No scan sees a row twice, no deletion     *)
(* loses one, and renaming those tombstones back repairs the partition.    *)
RowsPartitioned ==
    /\ \A f, g \in Visible \cup Withheld : f # g => rows[f] \cap rows[g] = {}
    /\ Added = UNION {rows[f] : f \in Visible \cup Withheld}

AtRest == \A p \in Runs : stage[p] \in {"idle", "done", "failed"}

(* When no compactor is under way and none was killed, a row is out of     *)
(* view only because a rollback failed, and then an error has named its    *)
(* tombstone.                                                              *)
WithheldIsReported ==
    AtRest /\ kills = 0 => \A f \in Withheld : faults > 0 /\ \E p \in Runs : f \in report[p]

(* A tombstone may be deleted when the replacement its name points to is   *)
(* visible: that replacement has its rows.                                 *)
SpentWhenOutputVisible ==
    \A f \in Files : place[f] = "retired" /\ place[retiredBy[f]] = "visible" =>
        rows[f] \subseteq rows[retiredBy[f]]

(* Overlapping compactors do not abort each other: if all have returned,   *)
(* no storage call failed, and one failed at files whose schemas agree,    *)
(* then one has published.  They retire their inputs in the order of the   *)
(* names.                                                                  *)
SomeoneCompacts ==
    AtRest /\ faults = 0
      /\ (\E p \in Runs : stage[p] = "failed" /\ Mergeable(Range(Inputs(p))))
        => Published # {}

(* Schema evolution loses nothing: a file has every column, with its type, *)
(* of every part whose rows it holds, over generations of replacements.    *)
ColumnsPreserved ==
    \A f \in Files : place[f] \notin {"unused", "gone"} =>
        \A r \in rows[f] : \A c \in DOMAIN schema[r] :
            c \in DOMAIN schema[f] /\ schema[f][c] = schema[r][c]

(* Rows that compaction takes out of view come back, unless the compactor  *)
(* was killed or could not roll back.                                      *)
InView(f) == \E g \in Visible : f \in rows[g]

GapCloses ==
    \A f \in Parts : place[f] # "unused" /\ ~InView(f) ~>
        InView(f) \/ kills > 0 \/ \E p \in Runs : report[p] # {}

(* To a reader the partition is a set of rows, of which compaction hides   *)
(* and shows some.                                                         *)
Surface == INSTANCE ReadSurface WITH
    Row <- Parts,
    shown <- {r \in Parts : Cardinality({f \in Visible : r \in rows[f]}) = 1},
    hidden <- {r \in Parts : (\A f \in Visible : r \notin rows[f]) /\ \E f \in Withheld : r \in rows[f]}

ImplementsReadSurface == Surface!Spec
=============================================================================
