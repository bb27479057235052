------------------------------ MODULE Migration ------------------------------
(***************************************************************************)
(* Legacy historian migration (crates/fdd_store/src/migration_exec.rs).    *)
(*                                                                         *)
(* A run of historian-migrate takes the legacy sources in path order.  Of  *)
(* each it writes the rows, batch by batch and month by month, as parts    *)
(* with fresh names into a hidden staging tree, records the names in a     *)
(* receipt, renames the parts into history/, and marks the receipt         *)
(* complete.  A run that finds a receipt checks it, or resumes it.  The    *)
(* first error ends the run; the operator runs it again.                   *)
(*                                                                         *)
(* Nothing keeps two runs apart, so the model has several; sources may be  *)
(* edited, runs killed, and published parts merged by the compactor.       *)
(***************************************************************************)
EXTENDS Naturals, Sequences, FiniteSets

CONSTANTS
    Runs,           \* processes that run the migration, again and again
    NumSources,     \* eligible legacy files, numbered in path order
    Pieces,         \* Pieces[s]: parts the rows of source s are written as
    Files,          \* names of parts
    MaxStops,       \* bound: runs killed or ended by a failing storage call
    MaxEdits,       \* bound: times a legacy source is changed
    MaxMerges,      \* bound: times published parts are compacted
    MaxOverlaps     \* bound: runs begun while another is under way

Sources == 1..NumSources

ASSUME MigrationAssumption ==
    /\ NumSources \in Nat \ {0}
    /\ Pieces \in [Sources -> Nat]
    /\ Files \subseteq Nat
    /\ MaxStops \in Nat
    /\ MaxEdits \in Nat
    /\ MaxMerges \in Nat
    /\ MaxOverlaps \in Nat

VARIABLES
    version,    \* version[s]: contents of legacy source s, counting edits
    rows,       \* rows[f]: what part f holds, <<source, version, piece>>
    staged,     \* staged[s]: parts in the staging tree of source s
    published,  \* parts under history/, which readers see
    receipt,    \* receipt[s]: "none", "staged" or "complete"
    plan,       \* plan[s]: the parts the receipt names
    planned,    \* planned[s]: the version of the source in the receipt
    stage,      \* position of each run
    at,         \* at[m]: the source run m is at
    print,      \* print[m]: the fingerprint run m took of it
    parts,      \* parts[m]: the parts run m has staged, or is to publish
    next,       \* next[m]: the piece, or the part, run m is at
    overlaps,   \* times a run was begun while another was under way
    stops, edits, merges

store == <<rows, staged, published>>
receipts == <<receipt, plan, planned>>
runVars == <<stage, at, print, parts, next>>
bounds == <<stops, edits, merges>>
vars == <<version, store, receipts, runVars, overlaps, bounds>>

Busy == {"fingerprint", "receipt", "clear", "write", "hash",
         "record", "publish", "complete", "verify"}

Contents == Sources \X (0..MaxEdits) \X Nat

TypeOK ==
    /\ version \in [Sources -> 0..MaxEdits]
    /\ rows \in [Files -> SUBSET Contents]
    /\ staged \in [Sources -> SUBSET Files]
    /\ published \subseteq Files
    /\ receipt \in [Sources -> {"none", "staged", "complete"}]
    /\ plan \in [Sources -> Seq(Files)]
    /\ planned \in [Sources -> 0..MaxEdits]
    /\ stage \in [Runs -> Busy \cup {"idle"}]
    /\ at \in [Runs -> Sources]
    /\ print \in [Runs -> 0..MaxEdits]
    /\ parts \in [Runs -> Seq(Files)]
    /\ next \in [Runs -> Nat]
    /\ overlaps \in 0..MaxOverlaps
    /\ stops \in 0..MaxStops
    /\ edits \in 0..MaxEdits
    /\ merges \in 0..MaxMerges

Init ==
    /\ version = [s \in Sources |-> 0]
    /\ rows = [f \in Files |-> {}]
    /\ staged = [s \in Sources |-> {}]
    /\ published = {}
    /\ receipt = [s \in Sources |-> "none"]
    /\ plan = [s \in Sources |-> <<>>]
    /\ planned = [s \in Sources |-> 0]
    /\ stage = [m \in Runs |-> "idle"]
    /\ at = [m \in Runs |-> 1]
    /\ print = [m \in Runs |-> 0]
    /\ parts = [m \in Runs |-> <<>>]
    /\ next = [m \in Runs |-> 1]
    /\ overlaps = 0
    /\ stops = 0
    /\ edits = 0
    /\ merges = 0

------------------------------------------------------------------------------
Content(s) == {<<s, version[s], i>> : i \in 1..Pieces[s]}

Range(seq) == {seq[i] : i \in DOMAIN seq}

Readable == UNION {rows[f] : f \in published}

(* Names are fresh UUIDs; which one is taken makes no difference. *)
Unused(f) == rows[f] = {} /\ \A g \in Files : rows[g] = {} => f <= g

(* No two runs have been under way at once. *)
Alone == overlaps = 0

UnderWay == {m \in Runs : stage[m] # "idle"}

(* Run m goes on at the given position of the source it is at. *)
GoTo(m, position, n) ==
    /\ stage' = [stage EXCEPT ![m] = position]
    /\ next' = [next EXCEPT ![m] = n]
    /\ UNCHANGED at

(* Run m leaves source s - 1, if any, for source s; what it knew of the    *)
(* old one is gone.                                                        *)
TakeUp(m, position, s) ==
    /\ stage' = [stage EXCEPT ![m] = position]
    /\ at' = [at EXCEPT ![m] = s]
    /\ print' = [print EXCEPT ![m] = 0]
    /\ parts' = [parts EXCEPT ![m] = <<>>]
    /\ next' = [next EXCEPT ![m] = 1]

(* The `?` of migrate_candidates: the first error ends the run. *)
Fail(m) ==
    /\ TakeUp(m, "idle", 1)
    /\ UNCHANGED <<version, store, receipts, overlaps, bounds>>

------------------------------------------------------------------------------
(* The operator runs the migration, for the first time or again. *)
Begin(m) ==
    /\ stage[m] = "idle"
    /\ TakeUp(m, "fingerprint", 1)
    /\ IF UnderWay = {}
       THEN UNCHANGED overlaps
       ELSE overlaps < MaxOverlaps /\ overlaps' = overlaps + 1
    /\ UNCHANGED <<version, store, receipts, bounds>>

(* Size, modification time and hash of the source are taken; a source that *)
(* changes meanwhile is an error, which Stop stands for.                   *)
Fingerprint(m) ==
    /\ stage[m] = "fingerprint"
    /\ print' = [print EXCEPT ![m] = version[at[m]]]
    /\ GoTo(m, "receipt", 1)
    /\ UNCHANGED <<parts, version, store, receipts, overlaps, bounds>>

(* Mutant of NoReceipt: only a complete receipt counts. *)
NoCompleteReceipt(m) ==
    /\ stage[m] = "receipt"
    /\ receipt[at[m]] # "complete"
    /\ GoTo(m, "clear", 1)
    /\ UNCHANGED <<print, parts, version, store, receipts, overlaps, bounds>>

NoReceipt(m) ==
    /\ stage[m] = "receipt"
    /\ receipt[at[m]] = "none"
    /\ GoTo(m, "clear", 1)
    /\ UNCHANGED <<print, parts, version, store, receipts, overlaps, bounds>>

(* A receipt for other contents of the source is an error for ever. *)
ReceiptOutdated(m) ==
    /\ stage[m] = "receipt"
    /\ receipt[at[m]] # "none"
    /\ planned[at[m]] # print[m]
    /\ Fail(m)

ReadReceipt(m) ==
    /\ stage[m] = "receipt"
    /\ receipt[at[m]] # "none"
    /\ planned[at[m]] = print[m]
    /\ parts' = [parts EXCEPT ![m] = plan[at[m]]]
    /\ GoTo(m, IF receipt[at[m]] = "staged" THEN "publish" ELSE "verify", 1)
    /\ UNCHANGED <<print, version, store, receipts, overlaps, bounds>>

(* A staging tree without a receipt is left over from a run that stopped. *)
ClearStaging(m) ==
    /\ stage[m] = "clear"
    /\ staged' = [staged EXCEPT ![at[m]] = {}]
    /\ parts' = [parts EXCEPT ![m] = <<>>]
    /\ GoTo(m, "write", 1)
    /\ UNCHANGED <<print, version, rows, published, receipts, overlaps, bounds>>

(* A piece is read from the source as it is now, and stored whole. *)
WritePart(m) ==
    /\ stage[m] = "write"
    /\ next[m] <= Pieces[at[m]]
    /\ \E f \in Files :
        /\ Unused(f)
        /\ rows' = [rows EXCEPT ![f] = {<<at[m], version[at[m]], next[m]>>}]
        /\ staged' = [staged EXCEPT ![at[m]] = @ \cup {f}]
        /\ parts' = [parts EXCEPT ![m] = Append(@, f)]
    /\ GoTo(m, "hash", next[m])
    /\ UNCHANGED <<print, version, published, receipts, overlaps, bounds>>

(* The hash for the receipt is computed from the staged file; another run  *)
(* may have cleared it away.                                               *)
HashPart(m) ==
    /\ stage[m] = "hash"
    /\ IF parts[m][next[m]] \in staged[at[m]]
       THEN /\ GoTo(m, "write", next[m] + 1)
            /\ UNCHANGED <<print, parts, version, store, receipts, overlaps, bounds>>
       ELSE Fail(m)

(* Mutant of CheckSource: the source is not checked again. *)
NoCheck(m) ==
    /\ stage[m] = "write"
    /\ next[m] > Pieces[at[m]]
    /\ GoTo(m, "record", next[m])
    /\ UNCHANGED <<print, parts, version, store, receipts, overlaps, bounds>>

(* ensure_source_unchanged, once all batches have been read. *)
CheckSource(m) ==
    /\ stage[m] = "write"
    /\ next[m] > Pieces[at[m]]
    /\ IF version[at[m]] = print[m]
       THEN /\ GoTo(m, "record", next[m])
            /\ UNCHANGED <<print, parts, version, store, receipts, overlaps, bounds>>
       ELSE Fail(m)

WriteReceipt(m) ==
    /\ stage[m] = "record"
    /\ receipt' = [receipt EXCEPT ![at[m]] = "staged"]
    /\ plan' = [plan EXCEPT ![at[m]] = parts[m]]
    /\ planned' = [planned EXCEPT ![at[m]] = print[m]]
    /\ GoTo(m, "publish", 1)
    /\ UNCHANGED <<print, parts, version, store, overlaps, bounds>>

(* A part that is already under its name was published by the run before:  *)
(* only a staged copy of it, if there is one, is removed.                  *)
PublishPart(m) ==
    /\ stage[m] = "publish"
    /\ next[m] <= Len(parts[m])
    /\ LET f == parts[m][next[m]]
       IN  /\ f \in published \cup staged[at[m]]
           /\ published' = published \cup {f}
           /\ staged' = [staged EXCEPT ![at[m]] = @ \ {f}]
    /\ GoTo(m, "publish", next[m] + 1)
    /\ UNCHANGED <<print, parts, version, rows, receipts, overlaps, bounds>>

(* Mutant of PartLost: a part must be in the staging tree. *)
PartMoved(m) ==
    /\ stage[m] = "publish"
    /\ next[m] <= Len(parts[m])
    /\ parts[m][next[m]] \notin staged[at[m]]
    /\ Fail(m)

PartLost(m) ==
    /\ stage[m] = "publish"
    /\ next[m] <= Len(parts[m])
    /\ parts[m][next[m]] \notin published \cup staged[at[m]]
    /\ Fail(m)

RemoveStaging(m) ==
    /\ stage[m] = "publish"
    /\ next[m] > Len(parts[m])
    /\ staged' = [staged EXCEPT ![at[m]] = {}]
    /\ GoTo(m, "complete", next[m])
    /\ UNCHANGED <<print, parts, version, rows, published, receipts, overlaps, bounds>>

(* The receipt in memory is written again, whatever the file says now. *)
CompleteReceipt(m) ==
    /\ stage[m] = "complete"
    /\ receipt' = [receipt EXCEPT ![at[m]] = "complete"]
    /\ plan' = [plan EXCEPT ![at[m]] = parts[m]]
    /\ planned' = [planned EXCEPT ![at[m]] = print[m]]
    /\ GoTo(m, "verify", 1)
    /\ UNCHANGED <<print, parts, version, store, overlaps, bounds>>

(* The source is reported, and the run takes the next one, or is over. *)
Verify(m) ==
    /\ stage[m] = "verify"
    /\ Range(parts[m]) \subseteq published
    /\ IF at[m] = NumSources
       THEN TakeUp(m, "idle", 1)
       ELSE TakeUp(m, "fingerprint", at[m] + 1)
    /\ UNCHANGED <<version, store, receipts, overlaps, bounds>>

(* Mutant of VerifyFails: the source is to be migrated anew. *)
VerifyFailsAnew(m) ==
    /\ stage[m] = "verify"
    /\ ~(Range(parts[m]) \subseteq published)
    /\ receipt' = [receipt EXCEPT ![at[m]] = "none"]
    /\ TakeUp(m, "idle", 1)
    /\ UNCHANGED <<version, store, plan, planned, overlaps, bounds>>

VerifyFails(m) ==
    /\ stage[m] = "verify"
    /\ ~(Range(parts[m]) \subseteq published)
    /\ Fail(m)

(* The run is killed, or a storage call fails. *)
Stop(m) ==
    /\ stage[m] # "idle"
    /\ stops < MaxStops
    /\ stops' = stops + 1
    /\ TakeUp(m, "idle", 1)
    /\ UNCHANGED <<version, store, receipts, overlaps, edits, merges>>

------------------------------------------------------------------------------
(* Someone writes to a legacy source. *)
Edit(s) ==
    /\ edits < MaxEdits
    /\ edits' = edits + 1
    /\ version' = [version EXCEPT ![s] = @ + 1]
    /\ UNCHANGED <<store, receipts, runVars, overlaps, stops, merges>>

(* The compactor replaces published parts by one part with their rows; see *)
(* module Compaction for how.                                              *)
Merge(old) ==
    /\ merges < MaxMerges
    /\ merges' = merges + 1
    /\ \E f \in Files :
        /\ Unused(f)
        /\ published' = (published \ old) \cup {f}
        /\ rows' = [rows EXCEPT ![f] = UNION {rows[g] : g \in old}]
    /\ UNCHANGED <<version, staged, receipts, runVars, overlaps, stops, edits>>

SourceStep(m) ==
    \/ Fingerprint(m) \/ NoReceipt(m) \/ ReceiptOutdated(m) \/ ReadReceipt(m)
    \/ ClearStaging(m) \/ WritePart(m) \/ HashPart(m) \/ CheckSource(m)
    \/ WriteReceipt(m) \/ PublishPart(m) \/ PartLost(m) \/ RemoveStaging(m)
    \/ CompleteReceipt(m) \/ Verify(m) \/ VerifyFails(m)

Next ==
    \/ \E m \in Runs : Begin(m) \/ SourceStep(m) \/ Stop(m)
    \/ \E s \in Sources : Edit(s)
    \/ \E old \in SUBSET published : old # {} /\ Merge(old)

Spec == Init /\ [][Next]_vars

(* A run that is not stopped goes on, and the operator runs the migration  *)
(* again as long as it fails.                                              *)
Fairness == \A m \in Runs : WF_vars(SourceStep(m)) /\ WF_vars(Begin(m))

FairSpec == Spec /\ Fairness
------------------------------------------------------------------------------
(* Properties                                                              *)

Complete == \A s \in Sources : receipt[s] = "complete"

(* No piece of a source is readable twice, and no source is readable in    *)
(* two versions, however often runs stop and start again between staging,  *)
(* receipts and renames, sources are edited and parts are compacted.  Two  *)
(* runs at once do publish a source twice, which is why the operation is   *)
(* documented as one for a lone operator.                                  *)
PublishedOnce ==
    Alone =>
        \A f, g \in published : \A r \in rows[f], q \in rows[g] :
            r[1] = q[1] => r[2] = q[2] /\ (r[3] = q[3] => f = g)

(* A source whose receipt says complete can be read in full, in the        *)
(* version the receipt was made for, even when runs overlap.               *)
CompleteIsReadable ==
    \A s \in Sources : receipt[s] = "complete" =>
        \A i \in 1..Pieces[s] : <<s, planned[s], i>> \in Readable

(* Migration by one run at a time is a restart-safe copy of its sources. *)
Copy == INSTANCE RestartSafeCopy WITH
    Source <- Sources,
    Versions <- 0..MaxEdits,
    Nothing <- MaxEdits + 1,
    chosen <- [s \in Sources |-> IF receipt[s] = "none" THEN MaxEdits + 1 ELSE planned[s]],
    shown <- Readable,
    done <- {s \in Sources : receipt[s] = "complete"}

ImplementsCopy == Copy!Init /\ [][Alone' => Copy!Next]_(Copy!vars)

(* As long as nobody edits a source or compacts what was published, the    *)
(* operator who runs the migration until it succeeds gets every source     *)
(* migrated: neither a stopped run nor what it leaves behind is in the     *)
(* way of the next one.                                                    *)
RerunsFinish == <>(Complete \/ edits > 0 \/ merges > 0 \/ ~Alone)
=============================================================================
