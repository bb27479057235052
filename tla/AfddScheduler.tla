---------------------------- MODULE AfddScheduler -----------------------------
(***************************************************************************)
(* The continuous AFDD scheduler of the central service                    *)
(* (services/central/src/afdd_scheduler.rs, with the planning policy of    *)
(* crates/fdd_store/src/afdd_scheduler.rs): the timer, operators' run-now  *)
(* requests and direct rule runs (POST /api/fdd/run) over one store, one   *)
(* persisted checkpoint and one results directory per scope.               *)
(*                                                                         *)
(* A cycle runs on its own thread of the runtime, so the reads before the  *)
(* scope lock, the rules under it and the checkpoint write after them      *)
(* interleave with those of every other cycle.                             *)
(*                                                                         *)
(* Telemetry is told apart by its time only, and wall-clock time only by   *)
(* whether the interval since the last completed cycle is over.            *)
(***************************************************************************)
EXTENDS Integers, FiniteSets

CONSTANTS
    Scopes,         \* buildings, or "all"
    Scheduled,      \* the timer's scope
    RunNowScopes,   \* scopes operators ask for
    Timer,          \* the timer's cycles
    Requests,       \* requests, each made once: run-now or a direct rule run
    Nobody,         \* no cycle holds the lock
    Rules,          \* rules of the registry, numbered in its order
    Times,          \* observation times of telemetry
    MaxUnlocked,    \* bound: rule runs outside a scope lock
    MaxFaults,      \* bound: failing reads, rules, registry runs and writes
    MaxStops        \* bound: crashes and shutdowns

Cycles == {Timer} \cup Requests

ASSUME AfddAssumption ==
    /\ Scheduled \in Scopes
    /\ RunNowScopes \subseteq Scopes
    /\ Timer \notin Requests
    /\ Nobody \notin Cycles
    /\ Rules \subseteq Nat /\ Rules # {}
    /\ Times \subseteq Nat \ {0}
    /\ MaxUnlocked \in Nat /\ MaxFaults \in Nat /\ MaxStops \in Nat

VARIABLES
    history,        \* times whose rows are readable in the store
    watermark,      \* the latest-telemetry watermark, 0 for none
    checkpoint,     \* analyzed_through_utc of the checkpoint, 0 for none
    due,            \* next_due_at of the checkpoint has been reached
    results,        \* results[s][r]: times rule r's results for s were made from
    cycle,          \* cycle[c]: where cycle c is, and what it holds
    holder,         \* holder[s]: the cycle that holds the lock of scope s
    guarded,        \* cycles in execute_cycle with the guard of their scope's lock
    flawed,         \* observes: scope and rule whose last run failed or was cut short
    unlocked,       \* rule runs outside a scope lock so far
    faults,         \* failures so far
    stops           \* crashes and shutdowns so far

storeVars == <<history, watermark>>
auxVars == <<flawed, unlocked, faults, stops>>
vars == <<storeVars, checkpoint, due, results, cycle, holder, guarded, auxVars>>

Phases == {"idle", "plan", "lock", "scan", "write", "over"}

CycleStates == [phase : Phases, scope : Scopes, known : Times \cup {0},
                end : Times \cup {0}, todo : SUBSET Rules, rows : SUBSET Times]

NoCycle == [phase |-> "idle", scope |-> Scheduled, known |-> 0, end |-> 0,
            todo |-> {}, rows |-> {}]

TypeOK ==
    /\ history \in SUBSET Times
    /\ watermark \in Times \cup {0}
    /\ checkpoint \in Times \cup {0}
    /\ due \in BOOLEAN
    /\ results \in [Scopes -> [Rules -> SUBSET Times]]
    /\ cycle \in [Cycles -> CycleStates]
    /\ holder \in [Scopes -> Cycles \cup {Nobody}]
    /\ guarded \in SUBSET Cycles
    /\ flawed \in SUBSET (Scopes \X Rules)
    /\ unlocked \in 0..MaxUnlocked
    /\ faults \in 0..MaxFaults
    /\ stops \in 0..MaxStops

Init ==
    /\ history = {}
    /\ watermark = 0
    /\ checkpoint = 0
    /\ due = TRUE
    /\ results = [s \in Scopes |-> [r \in Rules |-> {}]]
    /\ cycle = [c \in Cycles |-> NoCycle]
    /\ holder = [s \in Scopes |-> Nobody]
    /\ guarded = {}
    /\ flawed = {}
    /\ unlocked = 0
    /\ faults = 0
    /\ stops = 0

------------------------------------------------------------------------------
(* The rest of the system                                                  *)

(* The live historian publishes rows, late ones too. *)
PersistRows(t) ==
    /\ t \notin history
    /\ history' = history \cup {t}
    /\ UNCHANGED <<watermark, checkpoint, due, results, cycle, holder, guarded, auxVars>>

(* It moves the watermark to the latest time it has published. *)
AdvanceWatermark(t) ==
    /\ t \in history
    /\ t > watermark
    /\ \A u \in history : u <= t
    /\ watermark' = t
    /\ UNCHANGED <<history, checkpoint, due, results, cycle, holder, guarded, auxVars>>

(* The interval since last_completed_at_utc is over. *)
Elapse ==
    /\ ~due
    /\ due' = TRUE
    /\ UNCHANGED <<storeVars, checkpoint, results, cycle, holder, guarded, auxVars>>

------------------------------------------------------------------------------
(* Helpers of the cycles                                                   *)

Fault == faults < MaxFaults /\ faults' = faults + 1

Phase(c) == cycle[c].phase
Scope(c) == cycle[c].scope

Running(c) == Phase(c) \in {"scan", "write"}

(* The registry runs its rules in order. *)
NextRule(c) == {r \in cycle[c].todo : \A q \in cycle[c].todo : r <= q}

(* The timer waits for its next tick; a request is answered. *)
Leave(c) ==
    cycle' = [cycle EXCEPT ![c] = [NoCycle EXCEPT !.phase = IF c = Timer THEN "idle" ELSE "over"]]

(* The guard of the scope lock is dropped, if the cycle has it. *)
Unlock(c) ==
    /\ holder' = IF c \in guarded THEN [holder EXCEPT ![Scope(c)] = Nobody] ELSE holder
    /\ guarded' = guarded \ {c}

(* A result file is replaced. *)
StoreResult(c, r, rows) == results' = [results EXCEPT ![Scope(c)][r] = rows]

------------------------------------------------------------------------------
(* Starting a cycle                                                        *)

(* run_scheduled_cycle reads the checkpoint; a cycle that is not due ends. *)
ReadCheckpoint ==
    /\ Phase(Timer) = "idle"
    /\ checkpoint = 0 \/ due
    /\ cycle' = [cycle EXCEPT ![Timer] = [@ EXCEPT !.phase = "plan", !.known = checkpoint]]
    /\ UNCHANGED <<storeVars, checkpoint, due, results, holder, guarded, auxVars>>

(* Mutant of PlanCycle: telemetry must be more than one time newer. *)
PlanLater ==
    /\ Phase(Timer) = "plan"
    /\ \/ /\ watermark > cycle[Timer].known + 1
          /\ cycle' = [cycle EXCEPT ![Timer] = [@ EXCEPT !.phase = "lock", !.end = watermark]]
       \/ watermark <= cycle[Timer].known + 1 /\ Leave(Timer)
    /\ UNCHANGED <<storeVars, checkpoint, due, results, holder, guarded, auxVars>>

(* It reads the watermark, and plans a window that ends there if it is     *)
(* newer than what was analysed.                                           *)
PlanCycle ==
    /\ Phase(Timer) = "plan"
    /\ \/ /\ watermark > cycle[Timer].known
          /\ cycle' = [cycle EXCEPT ![Timer] = [@ EXCEPT !.phase = "lock", !.end = watermark]]
       \/ watermark <= cycle[Timer].known /\ Leave(Timer)
    /\ UNCHANGED <<storeVars, checkpoint, due, results, holder, guarded, auxVars>>

(* Either state object cannot be read. *)
ReadFails ==
    /\ Phase(Timer) \in {"idle", "plan"}
    /\ Fault
    /\ Leave(Timer)
    /\ UNCHANGED <<storeVars, checkpoint, due, results, holder, guarded, flawed, unlocked, stops>>

(* run_now analyses up to the watermark, due or not. *)
RunNow(c, s) ==
    /\ c \in Requests
    /\ Phase(c) = "idle"
    /\ watermark # 0
    /\ cycle' = [cycle EXCEPT ![c] = [NoCycle EXCEPT !.phase = "lock", !.scope = s, !.end = watermark]]
    /\ UNCHANGED <<storeVars, checkpoint, due, results, holder, guarded, auxVars>>

(* POST /api/fdd/run calls the registry directly, for some of the rules. *)
RunRules(c, s, rules) ==
    /\ c \in Requests
    /\ Phase(c) = "idle"
    /\ unlocked < MaxUnlocked
    /\ unlocked' = unlocked + 1
    /\ cycle' = [cycle EXCEPT ![c] = [NoCycle EXCEPT !.phase = "scan", !.scope = s, !.todo = rules]]
    /\ UNCHANGED <<storeVars, checkpoint, due, results, holder, guarded, flawed, faults, stops>>

EnterRegistry(c) ==
    /\ Phase(c) = "lock"
    /\ holder' = [holder EXCEPT ![Scope(c)] = c]
    /\ guarded' = guarded \cup {c}
    /\ cycle' = [cycle EXCEPT ![c] = [@ EXCEPT !.phase = "scan", !.todo = Rules]]
    /\ UNCHANGED <<storeVars, checkpoint, due, results, auxVars>>

(* Mutant of TryLock: the result of try_lock is ignored. *)
LockAnyway(c) == EnterRegistry(c)

(* execute_cycle gets the scope's lock. *)
TryLock(c) == holder[Scope(c)] = Nobody /\ EnterRegistry(c)

(* The scope is locked: the cycle gives up at once. *)
ScopeBusy(c) ==
    /\ Phase(c) = "lock"
    /\ holder[Scope(c)] # Nobody
    /\ Leave(c)
    /\ UNCHANGED <<storeVars, checkpoint, due, results, holder, guarded, auxVars>>

------------------------------------------------------------------------------
(* The registry run                                                        *)

(* A rule's query reads the store as it is now: the window in the payload  *)
(* is not among the parameters of any rule.                                *)
ScanRule(c) ==
    /\ Phase(c) = "scan"
    /\ cycle[c].todo # {}
    /\ cycle' = [cycle EXCEPT ![c] = [@ EXCEPT !.phase = "write", !.rows = history]]
    /\ UNCHANGED <<storeVars, checkpoint, due, results, holder, guarded, auxVars>>

NextScan(c, r) ==
    cycle' = [cycle EXCEPT ![c] = [@ EXCEPT !.phase = "scan", !.todo = cycle[c].todo \ {r}, !.rows = {}]]

WriteRule(c) ==
    /\ Phase(c) = "write"
    /\ \E r \in NextRule(c) :
        /\ StoreResult(c, r, cycle[c].rows)
        /\ flawed' = flawed \ {<<Scope(c), r>>}
        /\ NextScan(c, r)
    /\ UNCHANGED <<storeVars, checkpoint, due, holder, guarded, unlocked, faults, stops>>

(* One rule fails: its results become an error without rows, or stay as    *)
(* they were if its SQL file or the results file cannot be used.  The      *)
(* registry goes on and still reports ok.                                  *)
RuleFails(c) ==
    /\ Phase(c) = "scan"
    /\ Fault
    /\ \E r \in NextRule(c) :
        /\ StoreResult(c, r, {}) \/ UNCHANGED results
        /\ flawed' = flawed \cup {<<Scope(c), r>>}
        /\ NextScan(c, r)
    /\ UNCHANGED <<storeVars, checkpoint, due, holder, guarded, unlocked, stops>>

(* The registry run as a whole fails: before a rule, or at writing its     *)
(* results, which may leave the file truncated.                            *)
RegistryError(c) ==
    /\ Running(c)
    /\ Fault
    /\ \/ UNCHANGED <<results, flawed>>
       \/ \E r \in NextRule(c) :
            /\ Phase(c) = "write"
            /\ StoreResult(c, r, {})
            /\ flawed' = flawed \cup {<<Scope(c), r>>}
    /\ Unlock(c)
    /\ Leave(c)
    /\ UNCHANGED <<storeVars, unlocked, stops>>

(* Mutant of RegistryFails: the checkpoint is written for a failed cycle. *)
RegistryFailsUnnoticed(c) ==
    /\ RegistryError(c)
    /\ checkpoint' = IF c \in guarded THEN cycle[c].end ELSE checkpoint
    /\ UNCHANGED due

(* The cycle is recorded, and its checkpoint is not written. *)
RegistryFails(c) == RegistryError(c) /\ UNCHANGED <<checkpoint, due>>

------------------------------------------------------------------------------
(* Ending a cycle                                                          *)

RulesDone(c) == Phase(c) = "scan" /\ cycle[c].todo = {}

(* The checkpoint is replaced whoever wrote it, and the lock is released.  *)
Persist(c) ==
    /\ RulesDone(c) /\ c \in guarded
    /\ checkpoint' = cycle[c].end
    /\ due' = FALSE
    /\ Unlock(c)
    /\ Leave(c)
    /\ UNCHANGED <<storeVars, results, auxVars>>

(* The checkpoint cannot be written, or is written and the answer of the   *)
(* object store is lost.                                                   *)
PersistFails(c) ==
    /\ RulesDone(c) /\ c \in guarded
    /\ Fault
    /\ \/ UNCHANGED <<checkpoint, due>>
       \/ checkpoint' = cycle[c].end /\ due' = FALSE
    /\ Unlock(c)
    /\ Leave(c)
    /\ UNCHANGED <<storeVars, results, flawed, unlocked, stops>>

(* A run without the lock ends without a trace in the scheduler. *)
FinishUnlocked(c) ==
    /\ RulesDone(c) /\ c \notin guarded
    /\ Leave(c)
    /\ UNCHANGED <<storeVars, checkpoint, due, results, holder, guarded, auxVars>>

(* The operator's connection closes and the handler is dropped where it    *)
(* awaits the registry: the lock is released, the registry thread goes on. *)
Disconnect(c) ==
    /\ c \in Requests
    /\ Running(c) /\ c \in guarded
    /\ unlocked < MaxUnlocked
    /\ unlocked' = unlocked + 1
    /\ Unlock(c)
    /\ UNCHANGED <<storeVars, checkpoint, due, results, cycle, flawed, faults, stops>>

(* The process ends and is started again.  A result file that was being    *)
(* written may be truncated.                                               *)
Crash ==
    /\ stops < MaxStops
    /\ stops' = stops + 1
    /\ \E cut \in SUBSET {c \in Cycles : Phase(c) = "write"} :
        LET torn == UNION {{Scope(c)} \X NextRule(c) : c \in cut}
        IN  /\ results' = [s \in Scopes |-> [r \in Rules |->
                            IF <<s, r>> \in torn THEN {} ELSE results[s][r]]]
            /\ flawed' = flawed \cup torn
    /\ cycle' = [c \in Cycles |->
                    IF c = Timer \/ Phase(c) = "idle" THEN NoCycle
                    ELSE [NoCycle EXCEPT !.phase = "over"]]
    /\ holder' = [s \in Scopes |-> Nobody]
    /\ guarded' = {}
    /\ UNCHANGED <<storeVars, checkpoint, due, unlocked, faults>>

CycleStep(c) ==
    \/ TryLock(c)
    \/ ScopeBusy(c)
    \/ ScanRule(c)
    \/ WriteRule(c)
    \/ RuleFails(c)
    \/ RegistryFails(c)
    \/ Persist(c)
    \/ PersistFails(c)
    \/ FinishUnlocked(c)

Next ==
    \/ \E t \in Times : PersistRows(t) \/ AdvanceWatermark(t)
    \/ Elapse
    \/ ReadCheckpoint
    \/ PlanCycle
    \/ ReadFails
    \/ \E c \in Requests :
        \/ \E s \in RunNowScopes : RunNow(c, s)
        \/ \E s \in Scopes, rules \in SUBSET Rules \ {{}} : RunRules(c, s, rules)
        \/ Disconnect(c)
    \/ \E c \in Cycles : CycleStep(c)
    \/ Crash

Spec == Init /\ [][Next]_vars

(* Every thread of the runtime makes progress, time passes, and the 30     *)
(* second tick of the timer keeps firing.  Nothing is promised about       *)
(* telemetry, requests or stops.                                           *)
Fairness ==
    /\ \A c \in Cycles : WF_vars(CycleStep(c))
    /\ WF_vars(ReadCheckpoint)
    /\ WF_vars(PlanCycle)
    /\ WF_vars(Elapse)

FairSpec == Spec /\ Fairness
------------------------------------------------------------------------------
(* Properties                                                              *)

(* The lock of a scope is held by exactly the cycle whose registry run it  *)
(* guards: no two cycles of a scope run at once, and no error path leaves  *)
(* a scope locked, which would refuse every later cycle of the scope.      *)
LocksMatchRuns ==
    \A s \in Scopes :
        {c \in Cycles : Running(c) /\ c \in guarded /\ Scope(c) = s}
            = {holder[s]} \ {Nobody}

Covers(s, t) == \A r \in Rules : t \in results[s][r] \/ <<s, r>> \in flawed

(* The checkpoint never claims more than some scope's results show: every  *)
(* rule of that scope was last run on telemetry up to the checkpoint, or   *)
(* its last run failed.  Runs outside the lock may put older results back, *)
(* so this holds as long as there are none.                                *)
CheckpointCovered ==
    checkpoint # 0 /\ unlocked = 0 => \E s \in Scopes : Covers(s, checkpoint)

(* No building but the timer's was analysed, nor tried. *)
Alone ==
    \A s \in Scopes \ {Scheduled}, r \in Rules :
        results[s][r] = {} /\ <<s, r>> \notin flawed

(* The timer's scope is analysed up to every watermark that is reached,    *)
(* whatever fails or stops meanwhile, as long as no other building is run: *)
(* the checkpoint they share would take its place.                         *)
AnalysedAlone ==
    \A t \in Times :
        watermark = t ~> ~Alone \/ unlocked > 0
                            \/ \E u \in Times : u >= t /\ Covers(Scheduled, u)

------------------------------------------------------------------------------
(* What a comment says and the code does not do.                           *)

(* A cycle is skipped only when there is no telemetry "beyond the last     *)
(* successfully analyzed watermark": the timer's scope is analysed up to   *)
(* every watermark that is reached.                                        *)
TelemetryAnalysed ==
    \A t \in Times : watermark = t ~> \E u \in Times : u >= t /\ Covers(Scheduled, u)
=============================================================================
