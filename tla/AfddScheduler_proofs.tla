------------------------- MODULE AfddScheduler_proofs -------------------------
EXTENDS AfddScheduler, TLAPS

(* The lock of a scope and the runs it guards agree, one by one. *)
LocksOK ==
    /\ \A s \in Scopes : holder[s] # Nobody =>
        Running(holder[s]) /\ holder[s] \in guarded /\ Scope(holder[s]) = s
    /\ \A c \in guarded : Running(c) /\ holder[Scope(c)] = c

(* Ends of windows are times of readable rows. *)
TimesOK ==
    /\ watermark # 0 => watermark \in history
    /\ checkpoint # 0 => checkpoint \in history
    /\ \A c \in Cycles : Phase(c) = "lock" \/ (Running(c) /\ c \in guarded) =>
        cycle[c].end \in history

(* A run covers its window's end with every rule it is done with. *)
RunCovers(c) ==
    Running(c) =>
        /\ c \in guarded
        /\ \A r \in Rules \ cycle[c].todo :
            cycle[c].end \in results[Scope(c)][r] \/ <<Scope(c), r>> \in flawed
        /\ Phase(c) = "write" => cycle[c].end \in cycle[c].rows

(* The next result written for the scope keeps the time covered. *)
KeepsCovered(s, t) ==
    /\ Covers(s, t)
    /\ \A c \in Cycles : Phase(c) = "write" /\ Scope(c) = s => t \in cycle[c].rows

CoveredOK ==
    unlocked = 0 =>
        /\ \A c \in Cycles : RunCovers(c)
        /\ checkpoint # 0 => \E s \in Scopes : KeepsCovered(s, checkpoint)

IInv == TypeOK /\ LocksOK /\ TimesOK /\ CoveredOK

LEMMA Idle == NoCycle \in CycleStates /\ [NoCycle EXCEPT !.phase = "over"] \in CycleStates
BY AfddAssumption DEF NoCycle, CycleStates, Phases

LEMMA Initially == Init => IInv
<1> SUFFICES ASSUME Init PROVE IInv
  OBVIOUS
<1>1. \A c \in Cycles : Phase(c) = "idle"
  BY DEF Init, Phase, NoCycle
<1>2. cycle \in [Cycles -> CycleStates]
  BY Idle DEF Init
<1>3. TypeOK
  <2>1. results \in [Scopes -> [Rules -> SUBSET Times]] /\ holder \in [Scopes -> Cycles \cup {Nobody}]
    BY DEF Init
  <2>2. unlocked \in 0..MaxUnlocked /\ faults \in 0..MaxFaults /\ stops \in 0..MaxStops
    BY AfddAssumption DEF Init
  <2>3. history \in SUBSET Times /\ guarded \in SUBSET Cycles /\ flawed \in SUBSET (Scopes \X Rules)
    BY DEF Init
  <2>4. due \in BOOLEAN
    BY DEF Init
  <2> QED BY <1>2, <2>1, <2>2, <2>3, <2>4 DEF Init, TypeOK
<1>4. LocksOK /\ TimesOK /\ CoveredOK
  BY <1>1 DEF Init, LocksOK, TimesOK, CoveredOK, RunCovers, Running
<1> QED BY <1>3, <1>4 DEF IInv

------------------------------------------------------------------------------
(* Steps of the scheduler move one cycle.                                  *)

MovesTo(c, x) ==
    /\ x \in CycleStates
    /\ cycle' = [cycle EXCEPT ![c] = x]

LEMMA Moved ==
  ASSUME TypeOK, NEW c \in Cycles, NEW x, MovesTo(c, x)
  PROVE  /\ cycle' \in [Cycles -> CycleStates]
         /\ cycle'[c] = x
         /\ \A d \in Cycles \ {c} : cycle'[d] = cycle[d]
BY DEF TypeOK, MovesTo

Left(c) == [NoCycle EXCEPT !.phase = IF c = Timer THEN "idle" ELSE "over"]

LEMMA Leaves ==
  ASSUME TypeOK, NEW c \in Cycles, Leave(c)
  PROVE  MovesTo(c, Left(c)) /\ Left(c).phase \notin {"lock", "scan", "write"}
BY AfddAssumption DEF Leave, MovesTo, Left, NoCycle, CycleStates, Phases

(* The state a cycle is moved to by an action that does not end it. *)
LEMMA Moves ==
  ASSUME TypeOK, NEW c \in Cycles
  PROVE  /\ TryLock(c) => MovesTo(c, [cycle[c] EXCEPT !.phase = "scan", !.todo = Rules])
         /\ ScanRule(c) => MovesTo(c, [cycle[c] EXCEPT !.phase = "write", !.rows = history])
         /\ \A r : NextScan(c, r) =>
                MovesTo(c, [cycle[c] EXCEPT !.phase = "scan", !.todo = cycle[c].todo \ {r}, !.rows = {}])
<1>1. cycle[c] \in CycleStates
  BY DEF TypeOK
<1>2. TryLock(c) => MovesTo(c, [cycle[c] EXCEPT !.phase = "scan", !.todo = Rules])
  BY <1>1 DEF TypeOK, TryLock, EnterRegistry, MovesTo, CycleStates, Phases
<1>3. ScanRule(c) => MovesTo(c, [cycle[c] EXCEPT !.phase = "write", !.rows = history])
  BY <1>1 DEF TypeOK, ScanRule, MovesTo, CycleStates, Phases
<1>4. ASSUME NEW r, NextScan(c, r)
      PROVE  MovesTo(c, [cycle[c] EXCEPT !.phase = "scan", !.todo = cycle[c].todo \ {r}, !.rows = {}])
  <2>1. cycle' = [cycle EXCEPT ![c] = [cycle[c] EXCEPT !.phase = "scan", !.todo = cycle[c].todo \ {r}, !.rows = {}]]
    BY <1>4 DEF NextScan
  <2>2. [cycle[c] EXCEPT !.phase = "scan", !.todo = cycle[c].todo \ {r}, !.rows = {}] \in CycleStates
    BY <1>1 DEF CycleStates, Phases
  <2> QED BY <2>1, <2>2 DEF MovesTo
<1> QED BY <1>2, <1>3, <1>4

LEMMA NewerIsSome ==
  ASSUME NEW k \in Times \cup {0}, NEW t \in Times \cup {0}, t > k
  PROVE  t # 0
<1>1. k \in Nat
  BY AfddAssumption
<1> QED BY <1>1

LEMMA TimerMoves ==
  ASSUME TypeOK
  PROVE  /\ ReadCheckpoint => MovesTo(Timer, [cycle[Timer] EXCEPT !.phase = "plan", !.known = checkpoint])
         /\ PlanCycle => \/ Leave(Timer)
                         \/ /\ watermark # 0
                            /\ MovesTo(Timer, [cycle[Timer] EXCEPT !.phase = "lock", !.end = watermark])
<1>1. Timer \in Cycles /\ cycle[Timer] \in CycleStates
  BY DEF TypeOK, Cycles
<1>2. ReadCheckpoint => MovesTo(Timer, [cycle[Timer] EXCEPT !.phase = "plan", !.known = checkpoint])
  BY <1>1 DEF TypeOK, ReadCheckpoint, MovesTo, CycleStates, Phases
<1>3. ASSUME PlanCycle, ~Leave(Timer)
      PROVE  /\ watermark # 0
             /\ MovesTo(Timer, [cycle[Timer] EXCEPT !.phase = "lock", !.end = watermark])
  <2>1. watermark > cycle[Timer].known
    BY <1>3 DEF PlanCycle
  <2>2. cycle[Timer].known \in Times \cup {0}
    BY <1>1 DEF CycleStates
  <2>3. watermark # 0
    BY <2>1, <2>2, NewerIsSome DEF TypeOK
  <2>4. MovesTo(Timer, [cycle[Timer] EXCEPT !.phase = "lock", !.end = watermark])
    BY <1>1, <1>3 DEF TypeOK, PlanCycle, MovesTo, CycleStates, Phases
  <2> QED BY <2>3, <2>4
<1> QED BY <1>2, <1>3

LEMMA RequestMoves ==
  ASSUME TypeOK, NEW c \in Requests, NEW s \in Scopes
  PROVE  /\ RunNow(c, s) =>
                MovesTo(c, [NoCycle EXCEPT !.phase = "lock", !.scope = s, !.end = watermark])
         /\ \A rules \in SUBSET Rules : RunRules(c, s, rules) =>
                MovesTo(c, [NoCycle EXCEPT !.phase = "scan", !.scope = s, !.todo = rules])
BY AfddAssumption DEF TypeOK, RunNow, RunRules, MovesTo, NoCycle, CycleStates, Phases

(* Whatever cycle moves, it stays a cycle. *)
LEMMA CycleTypes ==
  ASSUME TypeOK, [Next]_vars
  PROVE  cycle' \in [Cycles -> CycleStates]
<1>1. ASSUME NEW c \in Cycles, Leave(c) PROVE cycle' \in [Cycles -> CycleStates]
  BY <1>1, Leaves, Moved
<1>2. CASE UNCHANGED cycle
  BY <1>2 DEF TypeOK
<1>3. Timer \in Cycles /\ Requests \subseteq Cycles /\ RunNowScopes \subseteq Scopes
  BY AfddAssumption DEF Cycles
<1>4. CASE ReadCheckpoint \/ PlanCycle
  BY <1>1, <1>3, <1>4, TimerMoves, Moved
<1>5. ASSUME NEW c \in Requests, NEW s \in RunNowScopes, RunNow(c, s) PROVE cycle' \in [Cycles -> CycleStates]
  BY <1>3, <1>5, RequestMoves, Moved
<1>6. ASSUME NEW c \in Requests, NEW s \in Scopes, NEW rules \in SUBSET Rules, RunRules(c, s, rules)
      PROVE  cycle' \in [Cycles -> CycleStates]
  BY <1>3, <1>6, RequestMoves, Moved
<1>7. ASSUME NEW c \in Cycles, CycleStep(c) PROVE cycle' \in [Cycles -> CycleStates]
  <2>1. CASE TryLock(c) \/ ScanRule(c)
    BY <2>1, Moves, Moved
  <2>2. CASE WriteRule(c) \/ RuleFails(c)
    <3>1. PICK r : NextScan(c, r)
      BY <2>2 DEF WriteRule, RuleFails
    <3> QED BY <3>1, Moves, Moved
  <2>3. CASE ScopeBusy(c) \/ RegistryFails(c) \/ Persist(c) \/ PersistFails(c) \/ FinishUnlocked(c)
    BY <1>1, <2>3 DEF ScopeBusy, RegistryFails, RegistryError, Persist, PersistFails, FinishUnlocked
  <2> QED BY <1>7, <2>1, <2>2, <2>3 DEF CycleStep
<1>8. CASE Crash
  BY <1>8, Idle DEF Crash
<1>9. ASSUME UNCHANGED vars \/ Elapse \/ (\E t \in Times : PersistRows(t) \/ AdvanceWatermark(t))
                \/ (\E c \in Requests : Disconnect(c))
      PROVE  UNCHANGED cycle
  BY <1>9 DEF vars, Elapse, PersistRows, AdvanceWatermark, Disconnect
<1>10. CASE ReadFails
  BY <1>1, <1>3, <1>10 DEF ReadFails
<1> QED BY <1>2, <1>4, <1>5, <1>6, <1>7, <1>8, <1>9, <1>10 DEF Next

LEMMA Counted ==
  ASSUME NEW n \in Nat, NEW i \in 0..n, i < n
  PROVE  i + 1 \in 0..n
OBVIOUS

(* The other variables.                                                    *)
LEMMA TypeStep ==
  ASSUME TypeOK, [Next]_vars
  PROVE  TypeOK'
<1>1. cycle' \in [Cycles -> CycleStates]
  BY CycleTypes
<1> USE <1>1 DEF TypeOK, storeVars, auxVars, Fault, Unlock
<1>2. ASSUME NEW t \in Times, PersistRows(t) \/ AdvanceWatermark(t) PROVE TypeOK'
  BY <1>2 DEF PersistRows, AdvanceWatermark
<1>3. CASE Elapse \/ ReadCheckpoint \/ PlanCycle
  BY <1>3 DEF Elapse, ReadCheckpoint, PlanCycle
<1>4. CASE ReadFails
  BY <1>4, AfddAssumption DEF ReadFails
<1>5. ASSUME NEW c \in Requests, NEW s \in Scopes, RunNow(c, s) PROVE TypeOK'
  BY <1>5 DEF RunNow
<1>6. ASSUME NEW c \in Requests, NEW s \in Scopes, NEW rules, RunRules(c, s, rules) PROVE TypeOK'
  BY <1>6, AfddAssumption DEF RunRules
<1>7. ASSUME NEW c \in Requests, Disconnect(c) PROVE TypeOK'
  <2>1. c \in Cycles /\ Scope(c) \in Scopes
    BY DEF Scope, CycleStates, Cycles
  <2>2. unlocked' \in 0..MaxUnlocked
    BY <1>7, Counted, AfddAssumption DEF Disconnect
  <2>3. holder' \in [Scopes -> Cycles \cup {Nobody}] /\ guarded' \in SUBSET Cycles
    BY <1>7, <2>1 DEF Disconnect
  <2> QED BY <1>7, <2>2, <2>3 DEF Disconnect
<1>8. ASSUME NEW c \in Cycles, CycleStep(c) PROVE TypeOK'
  <2>1. Scope(c) \in Scopes /\ cycle[c].end \in Times \cup {0} /\ cycle[c].rows \in SUBSET Times
    BY DEF Scope, CycleStates
  <2>2. NextRule(c) \subseteq Rules
    BY DEF NextRule, CycleStates
  <2>3. CASE TryLock(c)
    BY <2>1, <2>3 DEF TryLock, EnterRegistry
  <2>4. CASE ScopeBusy(c) \/ ScanRule(c) \/ FinishUnlocked(c)
    BY <2>4 DEF ScopeBusy, ScanRule, FinishUnlocked
  <2>5. CASE WriteRule(c)
    BY <2>1, <2>2, <2>5 DEF WriteRule, StoreResult
  <2>6. CASE RuleFails(c)
    BY <2>1, <2>2, <2>6, AfddAssumption DEF RuleFails, StoreResult
  <2>7. CASE RegistryFails(c)
    <3>1. faults' \in 0..MaxFaults
      BY <2>7, Counted, AfddAssumption DEF RegistryFails, RegistryError
    <3>2. holder' \in [Scopes -> Cycles \cup {Nobody}] /\ guarded' \in SUBSET Cycles
      BY <2>1, <2>7 DEF RegistryFails, RegistryError
    <3>3. results' \in [Scopes -> [Rules -> SUBSET Times]] /\ flawed' \in SUBSET (Scopes \X Rules)
      <4>1. CASE UNCHANGED <<results, flawed>>
        BY <4>1
      <4>2. CASE ~UNCHANGED <<results, flawed>>
        <5>1. PICK r \in NextRule(c) : StoreResult(c, r, {}) /\ flawed' = flawed \cup {<<Scope(c), r>>}
          BY <2>7, <4>2 DEF RegistryFails, RegistryError
        <5> QED BY <2>1, <2>2, <5>1 DEF StoreResult
      <4> QED BY <4>1, <4>2
    <3> QED BY <2>7, <3>1, <3>2, <3>3 DEF RegistryFails, RegistryError
  <2>8. CASE Persist(c)
    BY <2>1, <2>8 DEF Persist
  <2>9. CASE PersistFails(c)
    <3>1. faults' \in 0..MaxFaults
      BY <2>9, Counted, AfddAssumption DEF PersistFails
    <3>2. holder' \in [Scopes -> Cycles \cup {Nobody}] /\ guarded' \in SUBSET Cycles
      BY <2>1, <2>9 DEF PersistFails
    <3>3. checkpoint' \in Times \cup {0} /\ due' \in BOOLEAN
      BY <2>1, <2>9 DEF PersistFails
    <3> QED BY <2>9, <3>1, <3>2, <3>3 DEF PersistFails
  <2> QED BY <1>8, <2>3, <2>4, <2>5, <2>6, <2>7, <2>8, <2>9 DEF CycleStep
<1>9. CASE Crash
  <2>1. stops' \in 0..MaxStops
    BY <1>9, Counted, AfddAssumption DEF Crash
  <2>2. holder' \in [Scopes -> Cycles \cup {Nobody}] /\ results' \in [Scopes -> [Rules -> SUBSET Times]]
    BY <1>9 DEF Crash
  <2>3. \A c \in Cycles : {Scope(c)} \X NextRule(c) \subseteq Scopes \X Rules
    BY DEF Scope, NextRule, CycleStates
  <2>4. flawed' \in SUBSET (Scopes \X Rules)
    BY <1>9, <2>3 DEF Crash
  <2> QED BY <1>9, <2>1, <2>2, <2>4 DEF Crash
<1>10. CASE UNCHANGED vars
  BY <1>10 DEF vars
<1> QED BY <1>2, <1>3, <1>4, <1>5, <1>6, <1>7, <1>8, <1>9, <1>10, AfddAssumption DEF Next

------------------------------------------------------------------------------
(* The parts of the invariant, one kind of step at a time.                 *)

Rest == LocksOK /\ TimesOK /\ CoveredOK

(* Covered rules stay covered when results change only where they are      *)
(* flawed.                                                                 *)
ResultsKept ==
    \A s \in Scopes, r \in Rules : <<s, r>> \notin flawed' =>
        results'[s][r] = results[s][r] /\ <<s, r>> \notin flawed

(* Nothing moves but the telemetry and the clock. *)
LEMMA TelemetryStep ==
  ASSUME IInv, history \subseteq history', watermark' = watermark \/ watermark' \in history',
         UNCHANGED <<checkpoint, results, cycle, holder, guarded, flawed, unlocked>>
  PROVE  Rest'
<1>1. LocksOK'
  BY DEF IInv, LocksOK, Running, Phase, Scope
<1>2. TimesOK'
  BY DEF IInv, TimesOK, Running, Phase
<1>3. CoveredOK'
  BY DEF IInv, CoveredOK, RunCovers, KeepsCovered, Covers, Running, Phase, Scope
<1> QED BY <1>1, <1>2, <1>3 DEF Rest

(* A cycle without the lock moves to a state in which it runs no rule. *)
LEMMA AsideStep ==
  ASSUME IInv, NEW c \in Cycles, NEW x, MovesTo(c, x),
         x.phase \notin {"scan", "write"},
         x.phase = "lock" => x.end \in history,
         ~Running(c),
         UNCHANGED <<history, watermark, checkpoint, results, holder, guarded, flawed, unlocked>>
  PROVE  Rest'
<1>1. TypeOK
  BY DEF IInv
<1>2. cycle'[c] = x /\ \A d \in Cycles \ {c} : cycle'[d] = cycle[d]
  BY <1>1, Moved
<1>3. LocksOK'
  BY <1>1, <1>2, AfddAssumption DEF IInv, TypeOK, LocksOK, Running, Phase, Scope
<1>4. TimesOK'
  BY <1>2 DEF IInv, TimesOK, Running, Phase
<1>5. ASSUME unlocked = 0, NEW d \in Cycles PROVE RunCovers(d)'
  BY <1>2, <1>5 DEF IInv, CoveredOK, RunCovers, Running, Phase, Scope
<1>6. ASSUME unlocked = 0, NEW s \in Scopes, KeepsCovered(s, checkpoint) PROVE KeepsCovered(s, checkpoint)'
  BY <1>2, <1>6 DEF KeepsCovered, Covers, Phase, Scope
<1>7. CoveredOK'
  BY <1>5, <1>6 DEF IInv, CoveredOK
<1> QED BY <1>3, <1>4, <1>7 DEF Rest

(* A cycle gets the lock: with its scope free, no other run has results of *)
(* the scope to write.                                                     *)
LEMMA LockStep ==
  ASSUME IInv, NEW c \in Cycles, TryLock(c)
  PROVE  Rest'
<1>1. TypeOK /\ Scope(c) \in Scopes
  BY DEF IInv, TypeOK, Scope, CycleStates
<1> DEFINE x == [cycle[c] EXCEPT !.phase = "scan", !.todo = Rules]
<1>2. MovesTo(c, x)
  BY <1>1, Moves
<1>3. cycle'[c] = x /\ \A d \in Cycles \ {c} : cycle'[d] = cycle[d]
  BY <1>1, <1>2, Moved
<1>4. cycle[c] \in CycleStates
  BY <1>1 DEF TypeOK
<1>5. x.phase = "scan" /\ x.scope = Scope(c) /\ x.end = cycle[c].end /\ x.todo = Rules
  BY <1>4 DEF CycleStates, Scope
<1>6. UNCHANGED <<history, watermark, checkpoint, results, flawed, unlocked>>
  BY DEF TryLock, EnterRegistry, storeVars, auxVars
<1>7. /\ Phase(c) = "lock" /\ holder[Scope(c)] = Nobody
      /\ holder' = [holder EXCEPT ![Scope(c)] = c]
      /\ guarded' = guarded \cup {c}
  BY DEF TryLock, EnterRegistry
<1>8. LocksOK'
  <2>1. ASSUME NEW s \in Scopes, holder'[s] # Nobody
        PROVE  (Running(holder[s]) /\ holder[s] \in guarded /\ Scope(holder[s]) = s)'
    <3>1. CASE s = Scope(c)
      BY <1>1, <1>3, <1>5, <1>7, <3>1 DEF TypeOK, Running, Phase, Scope
    <3>2. CASE s # Scope(c)
      <4>1. holder'[s] = holder[s]
        BY <1>1, <1>7, <3>2 DEF TypeOK
      <4>2. /\ holder[s] \in Cycles /\ Running(holder[s])
            /\ holder[s] \in guarded /\ Scope(holder[s]) = s
        BY <1>1, <2>1, <4>1 DEF IInv, TypeOK, LocksOK
      <4>3. holder[s] # c
        BY <1>7, <4>2 DEF Running
      <4> QED BY <1>3, <1>7, <4>1, <4>2, <4>3 DEF Running, Phase, Scope
    <3> QED BY <3>1, <3>2
  <2>2. ASSUME NEW d \in guarded' PROVE (Running(d) /\ holder[Scope(d)] = d)'
    <3>1. CASE d = c
      BY <1>1, <1>3, <1>5, <1>7, <3>1 DEF TypeOK, Running, Phase, Scope
    <3>2. CASE d # c
      <4>1. d \in Cycles /\ holder[Scope(d)] = d /\ Scope(d)' = Scope(d) /\ Running(d)'
        BY <1>1, <1>3, <1>7, <2>2, <3>2 DEF IInv, TypeOK, LocksOK, Running, Phase, Scope
      <4>2. Scope(d) # Scope(c)
        BY <1>7, <4>1, AfddAssumption
      <4> QED BY <1>1, <1>7, <4>1, <4>2 DEF TypeOK
    <3> QED BY <3>1, <3>2
  <2> QED BY <2>1, <2>2 DEF LocksOK
<1>9. TimesOK'
  BY <1>3, <1>5, <1>6, <1>7 DEF IInv, TimesOK, Running, Phase
<1>10. ASSUME unlocked = 0, NEW d \in Cycles PROVE RunCovers(d)'
  BY <1>3, <1>5, <1>6, <1>7, <1>10 DEF IInv, CoveredOK, RunCovers, Running, Phase, Scope
<1>11. ASSUME unlocked = 0, NEW s \in Scopes, KeepsCovered(s, checkpoint) PROVE KeepsCovered(s, checkpoint)'
  BY <1>3, <1>5, <1>6, <1>11 DEF KeepsCovered, Covers, Phase, Scope
<1>12. CoveredOK'
  BY <1>6, <1>10, <1>11 DEF IInv, CoveredOK
<1> QED BY <1>8, <1>9, <1>12 DEF Rest

(* A rule reads all of the store, so also the end of the window and the    *)
(* checkpoint.                                                             *)
LEMMA ScanStep ==
  ASSUME IInv, NEW c \in Cycles, ScanRule(c)
  PROVE  Rest'
<1>1. TypeOK /\ cycle[c] \in CycleStates
  BY DEF IInv, TypeOK
<1> DEFINE x == [cycle[c] EXCEPT !.phase = "write", !.rows = history]
<1>2. cycle'[c] = x /\ \A d \in Cycles \ {c} : cycle'[d] = cycle[d]
  BY <1>1, Moves, Moved
<1>3. /\ x.phase = "write" /\ x.scope = Scope(c) /\ x.end = cycle[c].end
      /\ x.todo = cycle[c].todo /\ x.rows = history
  BY <1>1 DEF CycleStates, Scope
<1>4. UNCHANGED <<history, watermark, checkpoint, results, holder, guarded, flawed, unlocked>>
  BY DEF ScanRule, storeVars, auxVars
<1>5. Phase(c) = "scan"
  BY DEF ScanRule
<1>6. LocksOK'
  <2>1. ASSUME NEW d \in Cycles PROVE (Running(d)' <=> Running(d)) /\ Scope(d)' = Scope(d)
    <3>1. CASE d = c
      BY <1>2, <1>3, <1>5, <3>1 DEF Running, Phase, Scope
    <3>2. CASE d # c
      BY <1>2, <3>2 DEF Running, Phase, Scope
    <3> QED BY <3>1, <3>2
  <2> QED BY <1>1, <1>4, <2>1 DEF IInv, TypeOK, LocksOK
<1>7. TimesOK'
  BY <1>2, <1>3, <1>4, <1>5 DEF IInv, TimesOK, Running, Phase
<1>8. ASSUME unlocked = 0, NEW d \in Cycles PROVE RunCovers(d)'
  <2>1. RunCovers(d) /\ RunCovers(c)
    BY <1>8 DEF IInv, CoveredOK
  <2>2. CASE d = c
    BY <1>2, <1>3, <1>4, <1>5, <2>1, <2>2 DEF IInv, TimesOK, RunCovers, Running, Phase, Scope
  <2>3. CASE d # c
    BY <1>2, <1>4, <2>1, <2>3 DEF RunCovers, Running, Phase, Scope
  <2> QED BY <2>2, <2>3
<1>9. ASSUME checkpoint # 0, NEW s \in Scopes, KeepsCovered(s, checkpoint) PROVE KeepsCovered(s, checkpoint)'
  BY <1>2, <1>3, <1>4, <1>9 DEF IInv, TimesOK, KeepsCovered, Covers, Phase, Scope
<1>10. CoveredOK'
  BY <1>4, <1>8, <1>9 DEF IInv, CoveredOK
<1> QED BY <1>6, <1>7, <1>10 DEF Rest

(* A rule is done with: its results are what the cycle read, or it failed. *)
LEMMA RuleStep ==
  ASSUME IInv, NEW c \in Cycles, WriteRule(c) \/ RuleFails(c)
  PROVE  Rest'
<1>1. TypeOK /\ cycle[c] \in CycleStates /\ Scope(c) \in Scopes
  BY DEF IInv, TypeOK, Scope, CycleStates
<1>2. PICK r \in NextRule(c) :
        /\ NextScan(c, r)
        /\ \/ /\ Phase(c) = "write"
              /\ StoreResult(c, r, cycle[c].rows) /\ flawed' = flawed \ {<<Scope(c), r>>}
           \/ /\ Phase(c) = "scan"
              /\ StoreResult(c, r, {}) \/ UNCHANGED results
              /\ flawed' = flawed \cup {<<Scope(c), r>>}
  BY DEF WriteRule, RuleFails
<1>3. r \in Rules
  BY <1>1 DEF NextRule, CycleStates
<1> DEFINE x == [cycle[c] EXCEPT !.phase = "scan", !.todo = cycle[c].todo \ {r}, !.rows = {}]
<1>4. cycle'[c] = x /\ \A d \in Cycles \ {c} : cycle'[d] = cycle[d]
  BY <1>1, <1>2, Moves, Moved
<1>5. /\ x.phase = "scan" /\ x.scope = Scope(c) /\ x.end = cycle[c].end
      /\ x.todo = cycle[c].todo \ {r}
  BY <1>1 DEF CycleStates, Scope
<1>6. UNCHANGED <<history, watermark, checkpoint, holder, guarded, unlocked>>
  BY DEF WriteRule, RuleFails, storeVars
<1>7. ASSUME NEW d \in Cycles
      PROVE  (Running(d)' <=> Running(d)) /\ Scope(d)' = Scope(d) /\ (cycle[d].end)' = cycle[d].end
  <2>1. CASE d = c
    BY <1>2, <1>4, <1>5, <2>1 DEF Running, Phase, Scope
  <2>2. CASE d # c
    BY <1>4, <2>2 DEF Running, Phase, Scope
  <2> QED BY <2>1, <2>2
<1>8. LocksOK'
  BY <1>1, <1>6, <1>7 DEF IInv, TypeOK, LocksOK
<1>9. TimesOK'
  BY <1>2, <1>4, <1>5, <1>6, <1>7 DEF IInv, TimesOK, Running, Phase
<1>10. ASSUME NEW s \in Scopes, NEW q \in Rules, s # Scope(c) \/ q # r
       PROVE  results'[s][q] = results[s][q] /\ (<<s, q>> \in flawed' <=> <<s, q>> \in flawed)
  BY <1>1, <1>2, <1>3, <1>10 DEF TypeOK, StoreResult
<1>11. ASSUME NEW t, Phase(c) = "write" => t \in cycle[c].rows
       PROVE  t \in results'[Scope(c)][r] \/ <<Scope(c), r>> \in flawed'
  BY <1>1, <1>2, <1>3, <1>11 DEF TypeOK, StoreResult
<1>12. ASSUME unlocked = 0, NEW d \in Cycles PROVE RunCovers(d)'
  <2>1. RunCovers(d) /\ RunCovers(c)
    BY <1>12 DEF IInv, CoveredOK
  <2>2. CASE d = c
    <3>1. c \in guarded' /\ Phase(c)' = "scan"
      BY <1>2, <1>4, <1>5, <1>6, <2>1 DEF RunCovers, Running, Phase
    <3>2. ASSUME NEW q \in Rules \ (cycle[c].todo \ {r})
          PROVE  cycle[c].end \in results'[Scope(c)][q] \/ <<Scope(c), q>> \in flawed'
      BY <1>1, <1>2, <1>10, <1>11, <2>1, <3>2 DEF RunCovers, Running
    <3> QED BY <1>4, <1>5, <1>7, <2>2, <3>1, <3>2 DEF RunCovers
  <2>3. CASE d # c /\ Running(d)
    <3>1. Scope(d) # Scope(c)
      BY <1>2, <1>12, <2>1, <2>3 DEF IInv, LocksOK, RunCovers, Running
    <3>2. Scope(d) \in Scopes
      BY <1>1 DEF TypeOK, CycleStates, Scope
    <3> QED BY <1>4, <1>6, <1>7, <1>10, <2>1, <2>3, <3>1, <3>2 DEF RunCovers, Phase
  <2>4. CASE ~Running(d)
    BY <1>7, <2>4 DEF RunCovers
  <2> QED BY <2>2, <2>3, <2>4
<1>13. ASSUME NEW s \in Scopes, KeepsCovered(s, checkpoint) PROVE KeepsCovered(s, checkpoint)'
  <2>1. Covers(s, checkpoint)'
    BY <1>6, <1>10, <1>11, <1>13 DEF KeepsCovered, Covers
  <2>2. ASSUME NEW d \in Cycles, Phase(d)' = "write", Scope(d)' = s PROVE checkpoint' \in (cycle[d].rows)'
    BY <1>4, <1>5, <1>6, <1>7, <1>13, <2>2 DEF KeepsCovered, Phase
  <2> QED BY <2>1, <2>2 DEF KeepsCovered
<1>14. CoveredOK'
  BY <1>6, <1>12, <1>13 DEF IInv, CoveredOK
<1> QED BY <1>8, <1>9, <1>14 DEF Rest

(* A registry run ends: its lock is free, and the checkpoint is as it was  *)
(* or claims what the run has covered.                                     *)
LEMMA EndStep ==
  ASSUME IInv, NEW c \in Cycles, Running(c), Leave(c), Unlock(c), ResultsKept,
         \/ UNCHANGED checkpoint
         \/ c \in guarded /\ cycle[c].todo = {} /\ checkpoint' = cycle[c].end,
         UNCHANGED <<history, watermark, unlocked>>
  PROVE  Rest'
<1>1. TypeOK /\ cycle[c] \in CycleStates /\ Scope(c) \in Scopes
  BY DEF IInv, TypeOK, Scope, CycleStates
<1>2. /\ Phase(c)' \notin {"lock", "scan", "write"}
      /\ \A d \in Cycles \ {c} : cycle'[d] = cycle[d]
  BY <1>1, Leaves, Moved DEF Phase
<1>3. ~Running(c)'
  BY <1>2 DEF Running
<1>4. \A d \in Cycles \ {c} : /\ Running(d)' <=> Running(d)
                             /\ Scope(d)' = Scope(d)
                             /\ Phase(d)' = Phase(d)
  BY <1>2 DEF Running, Phase, Scope
<1>5. c \in guarded => holder[Scope(c)] = c
  BY DEF IInv, LocksOK
<1>6. \A s \in Scopes : holder'[s] = IF holder[s] = c THEN Nobody ELSE holder[s]
  BY <1>1, <1>5 DEF IInv, TypeOK, LocksOK, Unlock
<1>7. LocksOK'
  <2>1. ASSUME NEW s \in Scopes, holder'[s] # Nobody
        PROVE  (Running(holder[s]) /\ holder[s] \in guarded /\ Scope(holder[s]) = s)'
    <3>1. holder'[s] = holder[s] /\ holder[s] # c /\ holder[s] # Nobody
      BY <1>6, <2>1
    <3>2. holder[s] \in Cycles /\ Running(holder[s]) /\ holder[s] \in guarded /\ Scope(holder[s]) = s
      BY <1>1, <3>1 DEF IInv, TypeOK, LocksOK
    <3>3. holder[s] \in guarded'
      BY <3>1, <3>2 DEF Unlock
    <3>4. PICK d \in Cycles \ {c} : d = holder[s]
      BY <3>1, <3>2
    <3>5. Running(d)' /\ Scope(d)' = s
      BY <1>4, <3>2, <3>4
    <3> QED BY <3>1, <3>3, <3>4, <3>5 DEF Running, Phase, Scope
  <2>2. ASSUME NEW d \in guarded' PROVE (Running(d) /\ holder[Scope(d)] = d)'
    <3>1. d \in Cycles \ {c} /\ d \in guarded
      BY <1>1, <2>2 DEF Unlock, TypeOK
    <3>2. Running(d)' /\ Scope(d)' = Scope(d) /\ holder[Scope(d)] = d /\ Scope(d) \in Scopes
      BY <1>1, <1>4, <2>2, <3>1 DEF IInv, TypeOK, LocksOK, Scope, CycleStates
    <3> QED BY <1>6, <3>1, <3>2
  <2> QED BY <2>1, <2>2 DEF LocksOK
<1>8. TimesOK'
  <2>1. checkpoint' # 0 => checkpoint' \in history
    BY DEF IInv, TimesOK
  <2>2. ASSUME NEW d \in Cycles, Phase(d)' = "lock" \/ (Running(d)' /\ d \in guarded')
        PROVE  (cycle[d].end)' \in history
    BY <1>2, <1>3, <1>4, <2>2 DEF IInv, TimesOK, Unlock
  <2> QED BY <2>1, <2>2 DEF IInv, TimesOK
<1>9. ASSUME unlocked = 0, NEW d \in Cycles PROVE RunCovers(d)'
  <2>1. CASE d = c
    BY <1>3, <2>1 DEF RunCovers
  <2>2. CASE d # c
    <3>1. RunCovers(d) /\ Scope(d) \in Scopes
      BY <1>1, <1>9 DEF IInv, CoveredOK, TypeOK, CycleStates, Scope
    <3>2. cycle'[d] = cycle[d]
      BY <1>2, <2>2
    <3> QED BY <1>4, <2>2, <3>1, <3>2 DEF RunCovers, ResultsKept, Unlock
  <2> QED BY <2>1, <2>2
<1>10. ASSUME NEW s \in Scopes, NEW t, KeepsCovered(s, t) PROVE KeepsCovered(s, t)'
  BY <1>2, <1>4, <1>10 DEF KeepsCovered, Covers, ResultsKept
<1>11. ASSUME unlocked = 0, c \in guarded, cycle[c].todo = {},
              NEW s \in Scopes, s = Scope(c), NEW t, t = cycle[c].end
       PROVE  KeepsCovered(s, t)'
  <2>1. \A r \in Rules : t \in results[s][r] \/ <<s, r>> \in flawed
    BY <1>11 DEF IInv, CoveredOK, RunCovers
  <2>2. Covers(s, t)'
    BY <1>11, <2>1 DEF Covers, ResultsKept
  <2>3. ASSUME NEW d \in Cycles PROVE ~(Phase(d)' = "write" /\ Scope(d)' = s)
    <3>1. CASE d = c
      BY <1>2, <3>1
    <3>2. CASE d # c
      <4>1. Running(d) => d \in guarded /\ holder[Scope(d)] = d
        BY <1>11 DEF IInv, CoveredOK, LocksOK, RunCovers
      <4> QED BY <1>4, <1>5, <1>11, <3>2, <4>1 DEF Running
    <3> QED BY <3>1, <3>2
  <2> QED BY <2>2, <2>3 DEF KeepsCovered
<1>12. ASSUME unlocked = 0, checkpoint' # 0, NEW t, t = checkpoint' PROVE \E s \in Scopes : KeepsCovered(s, t)'
  <2>1. CASE UNCHANGED checkpoint
    <3>1. PICK s \in Scopes : KeepsCovered(s, t)
      BY <1>12, <2>1 DEF IInv, CoveredOK
    <3> QED BY <1>10, <3>1
  <2>2. CASE c \in guarded /\ cycle[c].todo = {} /\ checkpoint' = cycle[c].end
    BY <1>1, <1>11, <1>12, <2>2
  <2> QED BY <2>1, <2>2
<1>13. CoveredOK'
  <2>1. ASSUME unlocked = 0, checkpoint' # 0 PROVE (\E s \in Scopes : KeepsCovered(s, checkpoint))'
    BY <1>12, <2>1 DEF KeepsCovered, Covers
  <2> QED BY <1>9, <2>1 DEF CoveredOK
<1> QED BY <1>7, <1>8, <1>13 DEF Rest

(* An unlocked run starts, or a run loses its lock: from here on results   *)
(* may go back, and the checkpoint promises nothing.                       *)
LEMMA UnlockedStep ==
  ASSUME IInv, NEW c \in Requests,
         \/ Disconnect(c)
         \/ \E s \in Scopes, rules \in SUBSET Rules : RunRules(c, s, rules)
  PROVE  Rest'
<1>1. TypeOK /\ c \in Cycles
  BY DEF IInv, Cycles
<1>2. UNCHANGED <<history, watermark, checkpoint>> /\ unlocked' = unlocked + 1
  BY DEF Disconnect, RunRules, storeVars
<1>3. CoveredOK'
  <2>1. unlocked \in Nat
    BY <1>1, AfddAssumption DEF TypeOK
  <2> QED BY <1>2, <2>1 DEF CoveredOK
<1>4. CASE Disconnect(c)
  <2>1. c \in guarded /\ holder[Scope(c)] = c /\ Scope(c) \in Scopes /\ UNCHANGED cycle
    BY <1>1, <1>4 DEF Disconnect, IInv, LocksOK, TypeOK, Scope, CycleStates
  <2>2. /\ holder' = [holder EXCEPT ![Scope(c)] = Nobody]
        /\ guarded' = guarded \ {c}
    BY <1>4, <2>1 DEF Disconnect, Unlock
  <2>3. ASSUME NEW s \in Scopes, holder'[s] # Nobody
        PROVE  (Running(holder[s]) /\ holder[s] \in guarded /\ Scope(holder[s]) = s)'
    <3>1. holder'[s] = holder[s] /\ s # Scope(c)
      BY <1>1, <2>1, <2>2, <2>3 DEF TypeOK
    <3>2. Running(holder[s]) /\ holder[s] \in guarded /\ Scope(holder[s]) = s
      BY <2>3, <3>1 DEF IInv, LocksOK
    <3>3. holder[s] # c
      BY <3>1, <3>2
    <3> QED BY <2>1, <2>2, <3>1, <3>2, <3>3 DEF Running, Phase, Scope
  <2>4. ASSUME NEW d \in guarded' PROVE (Running(d) /\ holder[Scope(d)] = d)'
    <3>1. d \in guarded /\ d # c /\ Running(d) /\ holder[Scope(d)] = d
      BY <2>2, <2>4 DEF IInv, LocksOK
    <3>2. Scope(d) # Scope(c) /\ Scope(d) \in Scopes
      BY <1>1, <2>1, <3>1 DEF TypeOK, Scope, CycleStates
    <3> QED BY <1>1, <2>1, <2>2, <3>1, <3>2 DEF TypeOK, Running, Phase, Scope
  <2>5. LocksOK'
    BY <2>3, <2>4 DEF LocksOK
  <2>6. TimesOK'
    BY <1>2, <2>1, <2>2 DEF IInv, TimesOK, Running, Phase
  <2> QED BY <1>3, <2>5, <2>6 DEF Rest
<1>5. ASSUME NEW s \in Scopes, NEW rules \in SUBSET Rules, RunRules(c, s, rules)
      PROVE  Rest'
  <2>1. UNCHANGED <<holder, guarded>> /\ ~Running(c)
    BY <1>5 DEF RunRules, Running
  <2>2. c \notin guarded /\ \A z \in Scopes : holder[z] # c
    BY <1>1, <2>1, AfddAssumption DEF IInv, LocksOK
  <2>3. \A d \in Cycles \ {c} : cycle'[d] = cycle[d]
    BY <1>1, <1>5, RequestMoves, Moved
  <2>4. cycle'[c].phase = "scan"
    BY <1>1, <1>5 DEF RunRules, TypeOK, NoCycle
  <2>5. LocksOK'
    BY <1>1, <2>1, <2>2, <2>3 DEF IInv, TypeOK, LocksOK, Running, Phase, Scope
  <2>6. TimesOK'
    BY <1>2, <2>1, <2>2, <2>3, <2>4 DEF IInv, TimesOK, Running, Phase
  <2> QED BY <1>3, <2>5, <2>6 DEF Rest
<1> QED BY <1>4, <1>5

(* The process starts again: nothing runs, and what was being written is   *)
(* known to be flawed.                                                     *)
LEMMA CrashStep ==
  ASSUME IInv, Crash
  PROVE  Rest'
<1>1. TypeOK
  BY DEF IInv
<1>2. \A d \in Cycles : cycle'[d].phase \notin {"lock", "scan", "write"}
  BY DEF Crash, NoCycle
<1>3. UNCHANGED <<history, watermark, checkpoint, unlocked>>
  BY DEF Crash, storeVars
<1>4. holder' = [s \in Scopes |-> Nobody] /\ guarded' = {}
  BY DEF Crash
<1>5. LocksOK'
  BY <1>4 DEF LocksOK
<1>6. TimesOK'
  BY <1>2, <1>3, <1>4 DEF IInv, TimesOK, Running, Phase
<1>7. ResultsKept
  <2>1. PICK torn : /\ results' = [s \in Scopes |-> [r \in Rules |->
                                    IF <<s, r>> \in torn THEN {} ELSE results[s][r]]]
                    /\ flawed' = flawed \cup torn
    BY DEF Crash
  <2> QED BY <1>1, <2>1 DEF ResultsKept, TypeOK
<1>8. \A d \in Cycles : RunCovers(d)'
  BY <1>2 DEF RunCovers, Running, Phase
<1>9. ASSUME NEW s \in Scopes, NEW t, KeepsCovered(s, t) PROVE KeepsCovered(s, t)'
  BY <1>2, <1>7, <1>9 DEF KeepsCovered, Covers, ResultsKept, Phase
<1>10. CoveredOK'
  <2>1. ASSUME unlocked = 0, checkpoint # 0 PROVE (\E s \in Scopes : KeepsCovered(s, checkpoint))'
    BY <1>3, <1>9, <2>1 DEF IInv, CoveredOK, KeepsCovered, Covers
  <2> QED BY <1>3, <1>8, <2>1 DEF CoveredOK
<1> QED BY <1>5, <1>6, <1>10 DEF Rest

------------------------------------------------------------------------------
(* Every step keeps the invariant.                                         *)

LEMMA CycleRest ==
  ASSUME IInv, NEW c \in Cycles, CycleStep(c)
  PROVE  Rest'
<1>1. TypeOK
  BY DEF IInv
<1>2. CASE TryLock(c)
  BY <1>2, LockStep
<1>3. CASE ScanRule(c)
  BY <1>3, ScanStep
<1>4. CASE WriteRule(c) \/ RuleFails(c)
  BY <1>4, RuleStep
<1>5. CASE ScopeBusy(c)
  <2>1. ~Running(c) /\ MovesTo(c, Left(c)) /\ Left(c).phase \notin {"lock", "scan", "write"}
    BY <1>1, <1>5, Leaves DEF ScopeBusy, Running
  <2>2. UNCHANGED <<history, watermark, checkpoint, results, holder, guarded, flawed, unlocked>>
    BY <1>5 DEF ScopeBusy, storeVars, auxVars
  <2> QED BY <2>1, <2>2, AsideStep
<1>6. CASE FinishUnlocked(c)
  <2>1. /\ c \notin guarded /\ Leave(c)
        /\ UNCHANGED <<history, watermark, checkpoint, results, holder, guarded, flawed, unlocked>>
    BY <1>6 DEF FinishUnlocked, storeVars, auxVars
  <2>2. Unlock(c) /\ ResultsKept /\ Running(c)
    BY <1>1, <1>6, <2>1 DEF FinishUnlocked, RulesDone, Running, Unlock, ResultsKept, TypeOK
  <2> QED BY <2>1, <2>2, EndStep
<1>7. CASE RegistryFails(c)
  <2>1. /\ Running(c) /\ Leave(c) /\ Unlock(c)
        /\ UNCHANGED <<history, watermark, checkpoint, unlocked>>
    BY <1>7 DEF RegistryFails, RegistryError, storeVars
  <2>2. ResultsKept
    <3>1. CASE UNCHANGED <<results, flawed>>
      BY <3>1 DEF ResultsKept
    <3>2. CASE ~UNCHANGED <<results, flawed>>
      <4>1. PICK r : StoreResult(c, r, {}) /\ flawed' = flawed \cup {<<Scope(c), r>>}
        BY <1>7, <3>2 DEF RegistryFails, RegistryError
      <4> QED BY <1>1, <4>1 DEF ResultsKept, StoreResult, TypeOK
    <3> QED BY <3>1, <3>2
  <2> QED BY <2>1, <2>2, EndStep
<1>8. CASE Persist(c) \/ PersistFails(c)
  <2>1. /\ Running(c) /\ c \in guarded /\ cycle[c].todo = {} /\ Leave(c) /\ Unlock(c)
        /\ UNCHANGED <<history, watermark, results, flawed, unlocked>>
    BY <1>8 DEF Persist, PersistFails, RulesDone, Running, storeVars, auxVars
  <2>2. checkpoint' = cycle[c].end \/ UNCHANGED checkpoint
    BY <1>8 DEF Persist, PersistFails
  <2>3. ResultsKept
    BY <2>1 DEF ResultsKept
  <2> QED BY <2>1, <2>2, <2>3, EndStep
<1> QED BY <1>2, <1>3, <1>4, <1>5, <1>6, <1>7, <1>8 DEF CycleStep

LEMMA Inductive ==
  ASSUME IInv, [Next]_vars
  PROVE  IInv'
<1>1. TypeOK /\ TypeOK'
  BY TypeStep DEF IInv
<1> SUFFICES Rest'
  BY <1>1 DEF Rest, IInv
<1>2. Timer \in Cycles /\ Requests \subseteq Cycles /\ RunNowScopes \subseteq Scopes
  BY AfddAssumption DEF Cycles
<1>3. ASSUME NEW t \in Times, PersistRows(t) \/ AdvanceWatermark(t) PROVE Rest'
  <2>1. /\ history \subseteq history' /\ (watermark' = watermark \/ watermark' \in history')
        /\ UNCHANGED <<checkpoint, results, cycle, holder, guarded, flawed, unlocked>>
    BY <1>3 DEF PersistRows, AdvanceWatermark, auxVars
  <2> QED BY <2>1, TelemetryStep
<1>4. CASE Elapse \/ UNCHANGED vars
  <2>1. UNCHANGED <<history, watermark, checkpoint, results, cycle, holder, guarded, flawed, unlocked>>
    BY <1>4 DEF Elapse, vars, storeVars, auxVars
  <2> QED BY <2>1, TelemetryStep
<1>5. ASSUME ReadCheckpoint \/ PlanCycle \/ ReadFails PROVE Rest'
  <2>1. ~Running(Timer) /\ UNCHANGED <<history, watermark, checkpoint, results, holder, guarded, flawed, unlocked>>
    BY <1>5 DEF ReadCheckpoint, PlanCycle, ReadFails, Running, storeVars, auxVars
  <2>2. CASE Leave(Timer)
    <3>1. MovesTo(Timer, Left(Timer)) /\ Left(Timer).phase \notin {"lock", "scan", "write"}
      BY <1>1, <1>2, <2>2, Leaves
    <3> QED BY <1>2, <2>1, <3>1, AsideStep
  <2>3. CASE ReadCheckpoint
    <3> DEFINE x == [cycle[Timer] EXCEPT !.phase = "plan", !.known = checkpoint]
    <3>1. MovesTo(Timer, x) /\ x.phase = "plan"
      BY <1>1, <1>2, <2>3, TimerMoves DEF TypeOK, CycleStates
    <3> QED BY <1>2, <2>1, <3>1, AsideStep
  <2>4. CASE PlanCycle /\ ~Leave(Timer)
    <3> DEFINE x == [cycle[Timer] EXCEPT !.phase = "lock", !.end = watermark]
    <3>1. MovesTo(Timer, x) /\ x.phase = "lock" /\ x.end = watermark
      BY <1>1, <1>2, <2>4, TimerMoves DEF TypeOK, CycleStates
    <3>2. watermark \in history
      BY <1>1, <2>4, TimerMoves DEF IInv, TimesOK
    <3> QED BY <1>2, <2>1, <3>1, <3>2, AsideStep
  <2>5. CASE ReadFails
    BY <2>2, <2>5 DEF ReadFails
  <2> QED BY <1>5, <2>2, <2>3, <2>4, <2>5
<1>6. ASSUME NEW c \in Requests, NEW s \in RunNowScopes, RunNow(c, s) PROVE Rest'
  <2> DEFINE x == [NoCycle EXCEPT !.phase = "lock", !.scope = s, !.end = watermark]
  <2>1. MovesTo(c, x) /\ x.phase = "lock" /\ x.end = watermark
    BY <1>1, <1>2, <1>6, RequestMoves DEF NoCycle
  <2>2. ~Running(c) /\ watermark \in history
    BY <1>6 DEF RunNow, Running, IInv, TimesOK
  <2>3. UNCHANGED <<history, watermark, checkpoint, results, holder, guarded, flawed, unlocked>>
    BY <1>6 DEF RunNow, storeVars, auxVars
  <2> QED BY <1>2, <2>1, <2>2, <2>3, AsideStep
<1>7. ASSUME NEW c \in Requests, NEW s \in Scopes, NEW rules \in SUBSET Rules \ {{}}, RunRules(c, s, rules)
      PROVE  Rest'
  BY <1>7, UnlockedStep
<1>8. ASSUME NEW c \in Requests, Disconnect(c) PROVE Rest'
  BY <1>8, UnlockedStep
<1>9. ASSUME NEW c \in Cycles, CycleStep(c) PROVE Rest'
  BY <1>9, CycleRest
<1>10. CASE Crash
  BY <1>10, CrashStep
<1> QED BY <1>3, <1>4, <1>5, <1>6, <1>7, <1>8, <1>9, <1>10 DEF Next

LEMMA Invariant == Spec => []IInv
BY Initially, Inductive, PTL DEF Spec

(* The type invariant, for any scopes, requests, rules, times and bounds.  *)
THEOREM TypeCorrect == Spec => []TypeOK
<1>1. IInv => TypeOK
  BY DEF IInv
<1> QED BY <1>1, Invariant, PTL

(* A scope's lock is held by exactly the cycle whose registry run it       *)
(* guards: the guard acquired by try_lock in execute_cycle excludes other  *)
(* cycles, and every way out of it, also a crash or a dropped handler,     *)
(* gives it back.                                                          *)
THEOREM LocksSafe == Spec => []LocksMatchRuns
<1>1. IInv => LocksMatchRuns
  <2> SUFFICES ASSUME IInv, NEW s \in Scopes
               PROVE  {c \in Cycles : Running(c) /\ c \in guarded /\ Scope(c) = s}
                        = {holder[s]} \ {Nobody}
    BY DEF LocksMatchRuns
  <2>1. holder[s] \in Cycles \cup {Nobody}
    BY DEF IInv, TypeOK
  <2> QED BY <2>1, AfddAssumption DEF IInv, LocksOK
<1> QED BY <1>1, Invariant, PTL

(* The checkpoint that execute_cycle persists claims no more than the      *)
(* results of some scope show, whatever fails, crashes or arrives late, as *)
(* long as no rules run outside the lock.                                  *)
THEOREM CheckpointSafe == Spec => []CheckpointCovered
<1>1. IInv => CheckpointCovered
  BY DEF IInv, CoveredOK, KeepsCovered, CheckpointCovered
<1> QED BY <1>1, Invariant, PTL
==============================================================================
