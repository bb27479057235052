------------------------------ MODULE ActionsLog ------------------------------
(***************************************************************************)
(* The log of rule runs (services/central/src/actions.rs) and the handler  *)
(* that keeps it (fdd_run in routes.rs).                                   *)
(*                                                                         *)
(* An action is appended as running when its handler starts, and rewritten *)
(* as finished when the rules are done.  Every operation reads, changes    *)
(* and writes the file under one lock, so that it is a step here; what     *)
(* comes between are other handlers, operators, crashes and failures of    *)
(* the file system.  Appending is done in place, the text first and its    *)
(* end after it; rewriting is done beside and renamed.  Lines that cannot  *)
(* be parsed are skipped, and reading ends at one that is not even text.   *)
(***************************************************************************)
EXTENDS Naturals, Sequences, FiniteSets, Lists

CONSTANTS
    NumActions,     \* actions, numbered in the order of their start
    Cap,            \* JSONL_CAP
    MaxFaults,      \* bound: failing file operations
    MaxStops        \* bound: crashes of central

ASSUME ActionsLogAssumption ==
    /\ NumActions \in Nat
    /\ Cap \in Nat \ {0}
    /\ MaxFaults \in Nat
    /\ MaxStops \in Nat

Actions == 1..NumActions

VARIABLES
    log,        \* lines of the file, oldest first
    ragged,     \* whether the last line lacks its end, readable or not
    handler,    \* handler[a]: the request that action a belongs to
    removed,    \* actions an operator has deleted or cleared away
    faults, stops

vars == <<log, ragged, handler, removed, faults, stops>>

(* A line is an entry, an action and its status; or one that was cut short *)
(* or joined to another: junk, or garbled if the cut fell into a character *)
(* (labels have some of two bytes).                                        *)
Junk == <<0, "junk">>

Garbled == <<0, "garbled">>

Cuts == {Junk, Garbled}

Entries == Actions \X {"running", "ok", "fail"}

TypeOK ==
    /\ log \in Seq(Entries \cup Cuts)
    /\ ragged \in BOOLEAN
    /\ ragged => log # <<>>
    /\ handler \in [Actions -> {"none", "running", "unlogged", "over"}]
    /\ removed \subseteq Actions
    /\ faults \in 0..MaxFaults
    /\ stops \in 0..MaxStops

Init ==
    /\ log = <<>>
    /\ ragged = FALSE
    /\ handler = [a \in Actions |-> "none"]
    /\ removed = {}
    /\ faults = 0
    /\ stops = 0

------------------------------------------------------------------------------
IsEntry(line) == line \in Entries

(* The lines before the first that is not text. *)
Legible(lines) ==
    SubSeq(lines, 1, Cardinality({i \in DOMAIN lines : \A j \in 1..i : lines[j] # Garbled}))

(* read_all_unlocked *)
Read(lines) == Filter(Legible(lines), Entries)

Names(entries, a) == \E i \in DOMAIN entries : entries[i][1] = a

Listed(a) == Names(Read(log), a)

Without(entries, a) == Filter(entries, {line \in Entries : line[1] # a})

(* Mutant of Newest: one line too many goes. *)
NewestButOne(entries) == SubSeq(entries, Len(entries) - Cap + 2, Len(entries))

Newest(entries) == SubSeq(entries, Len(entries) - Cap + 1, Len(entries))

(* Mutant of WithStatus: the finished action is logged as the newest. *)
WithStatusLast(entries, a, status) ==
    Append(Without(entries, a), <<a, status>>)

WithStatus(entries, a, status) ==
    [i \in DOMAIN entries |-> IF entries[i][1] = a THEN <<a, status>> ELSE entries[i]]

(* The text of a line, after what is in the file: where the end of the     *)
(* last line is missing the two become one, which cannot be parsed.        *)
Appended(line) ==
    IF ragged
    THEN [log EXCEPT ![Len(log)] = IF Garbled \in {log[Len(log)], line} THEN Garbled ELSE Junk]
    ELSE Append(log, line)

Rewrite(entries) == log' = entries /\ ragged' = FALSE

Fault ==
    /\ faults < MaxFaults
    /\ faults' = faults + 1

(* The next action to be started. *)
IsNext(a) == handler[a] = "none" /\ \A b \in 1..(a - 1) : handler[b] # "none"

------------------------------------------------------------------------------
(* start_action: append, then drop the oldest entries over the cap; junk   *)
(* goes only when there is something to drop.                              *)
Start(a) ==
    /\ IsNext(a)
    /\ LET lines == Appended(<<a, "running">>)
       IN  IF Len(Read(lines)) <= Cap
           THEN log' = lines /\ ragged' = FALSE
           ELSE Rewrite(Newest(Read(lines)))
    /\ handler' = [handler EXCEPT ![a] = "running"]
    /\ UNCHANGED <<removed, faults, stops>>

(* The pruning reads only some of the lines, and takes those for the log.  *)
StartReadsShort(a) ==
    /\ IsNext(a)
    /\ Fault
    /\ LET lines == Appended(<<a, "running">>)
       IN  \E n \in 0..Len(lines) :
            LET entries == Read(SubSeq(lines, 1, n))
            IN  IF Len(entries) <= Cap
                THEN log' = lines /\ ragged' = FALSE
                ELSE Rewrite(Newest(entries))
    /\ handler' = [handler EXCEPT ![a] = "running"]
    /\ UNCHANGED <<removed, stops>>

(* The handler runs the rules all the same, without an entry it knows of:  *)
(* the line was not written, not in full, without its end, or the log was  *)
(* to be pruned and could not be rewritten.                                *)
StartFails(a) ==
    /\ IsNext(a)
    /\ Fault
    /\ LET lines == Appended(<<a, "running">>)
       IN  \/ UNCHANGED <<log, ragged>>
           \/ \E cut \in Cuts : log' = Appended(cut) /\ ragged' = TRUE
           \/ log' = lines /\ ragged' = TRUE
           \/ Len(Read(lines)) > Cap /\ log' = lines /\ ragged' = FALSE
    /\ handler' = [handler EXCEPT ![a] = "unlogged"]
    /\ UNCHANGED <<removed, stops>>

(* Mutant of Finish: an action that is not found is logged anew. *)
FinishOrAppend(a) ==
    /\ handler[a] = "running"
    /\ \E status \in {"ok", "fail"} :
        IF Listed(a)
        THEN Rewrite(WithStatus(Read(log), a, status))
        ELSE Rewrite(Append(Read(log), <<a, status>>))
    /\ handler' = [handler EXCEPT ![a] = "over"]
    /\ UNCHANGED <<removed, faults, stops>>

(* finish_action, whose error the handler does not look at. *)
Finish(a) ==
    /\ handler[a] = "running"
    /\ \E status \in {"ok", "fail"} :
        IF Listed(a)
        THEN Rewrite(WithStatus(Read(log), a, status))
        ELSE UNCHANGED <<log, ragged>>
    /\ handler' = [handler EXCEPT ![a] = "over"]
    /\ UNCHANGED <<removed, faults, stops>>

(* The file cannot be read or written; or reading stops early, and what    *)
(* was not read is not written back.                                       *)
FinishFails(a) ==
    /\ handler[a] = "running"
    /\ Fault
    /\ \/ UNCHANGED <<log, ragged>>
       \/ \E n \in 0..Len(log), status \in {"ok", "fail"} :
            /\ Names(Read(SubSeq(log, 1, n)), a)
            /\ Rewrite(WithStatus(Read(SubSeq(log, 1, n)), a, status))
    /\ handler' = [handler EXCEPT ![a] = "over"]
    /\ UNCHANGED <<removed, stops>>

FinishUnlogged(a) ==
    /\ handler[a] = "unlogged"
    /\ handler' = [handler EXCEPT ![a] = "over"]
    /\ UNCHANGED <<log, ragged, removed, faults, stops>>

(* The client goes away, and the handler with it, at its await. *)
Disconnect(a) ==
    /\ handler[a] \in {"running", "unlogged"}
    /\ handler' = [handler EXCEPT ![a] = "over"]
    /\ UNCHANGED <<log, ragged, removed, faults, stops>>

(* delete_action *)
Delete(a) ==
    /\ Listed(a)
    /\ Rewrite(Without(Read(log), a))
    /\ removed' = removed \cup {a}
    /\ UNCHANGED <<handler, faults, stops>>

(* As in FinishFails, what was not read is not written back. *)
DeleteFails(a) ==
    /\ Listed(a)
    /\ Fault
    /\ \E n \in 0..Len(log) :
        /\ Names(Read(SubSeq(log, 1, n)), a)
        /\ Rewrite(Without(Read(SubSeq(log, 1, n)), a))
    /\ removed' = removed \cup {a}
    /\ UNCHANGED <<handler, stops>>

(* clear_actions *)
Clear ==
    /\ Rewrite(<<>>)
    /\ removed' = removed \cup {a \in Actions : Listed(a)}
    /\ UNCHANGED <<handler, faults, stops>>

Stopped(started) ==
    [a \in Actions |-> IF handler[a] = "none" /\ a \notin started THEN "none" ELSE "over"]

(* Mutant of Crash: the log is rewritten in place, without a rename. *)
CrashRewriting ==
    /\ stops < MaxStops
    /\ stops' = stops + 1
    /\ \E n \in 0..Len(log) : log' = SubSeq(log, 1, n)
    /\ ragged' = FALSE
    /\ handler' = Stopped({})
    /\ UNCHANGED <<removed, faults>>

(* Central dies, perhaps while it appends a line, within the text or       *)
(* before or after its end, and nothing is done about running entries when *)
(* it starts again.                                                        *)
Crash ==
    /\ stops < MaxStops
    /\ stops' = stops + 1
    /\ \/ /\ UNCHANGED <<log, ragged>>
          /\ handler' = Stopped({})
       \/ \E a \in Actions, cut \in Cuts :
            /\ IsNext(a)
            /\ log' = Appended(cut)
            /\ ragged' = TRUE
            /\ handler' = Stopped({})
       \/ \E a \in Actions :
            /\ IsNext(a)
            /\ log' = Appended(<<a, "running">>)
            /\ ragged' \in BOOLEAN
            /\ handler' = Stopped({a})
    /\ UNCHANGED <<removed, faults>>

Next ==
    \/ \E a \in Actions :
        \/ Start(a) \/ StartReadsShort(a) \/ StartFails(a) \/ Finish(a) \/ FinishFails(a)
        \/ FinishUnlogged(a) \/ Disconnect(a) \/ Delete(a) \/ DeleteFails(a)
    \/ Clear
    \/ Crash

Spec == Init /\ [][Next]_vars
------------------------------------------------------------------------------
(* Properties                                                              *)

Shown(a, status) == \E i \in DOMAIN Read(log) : Read(log)[i] = <<a, status>>

Started(a) == handler[a] # "none"

Later(a) == {b \in Actions : a < b /\ Started(b)}

(* Entries stand in the order their actions were started in, one for each, *)
(* whatever was appended, rewritten, cut short or glued together before.   *)
OrderKept ==
    \A i, j \in DOMAIN log :
        (i < j /\ IsEntry(log[i]) /\ IsEntry(log[j])) => log[i][1] < log[j][1]

(* An action is not in the log only if an operator removed it, Cap actions *)
(* started after it, or the file system failed or central died: an entry   *)
(* that is still running goes like any other.                              *)
MissingHasCause ==
    \A a \in Actions :
        (Started(a) /\ ~Listed(a) /\ faults = 0 /\ stops = 0) =>
            \/ a \in removed
            \/ Cardinality(Later(a)) >= Cap

(* An entry that was shown goes from the list only if an operator removes  *)
(* it, Cap actions have started after it, the next line is joined to it    *)
(* for want of its end, or a part of the log was read and written back as  *)
(* the whole: neither a line that cannot be parsed nor a crash, at any     *)
(* point of an append or a rewriting, takes another entry with it.         *)
ShownStaysShown ==
    [][\A a \in Actions :
        (Listed(a) /\ ~Listed(a)') =>
            \/ a \in removed'
            \/ Cardinality(Later(a)') >= Cap
            \/ ragged /\ log[Len(log)][1] = a
            \/ \E b \in Actions : StartReadsShort(b) \/ FinishFails(b) \/ DeleteFails(b)]_vars

(* No operation brings back what was removed, or turns a finished action   *)
(* into a running one.                                                     *)
NothingComesBack ==
    [][\A a \in Actions :
        /\ (Started(a) /\ ~Listed(a)) => ~Listed(a)'
        /\ (Listed(a) /\ ~Shown(a, "running")) => ~Shown(a, "running")']_vars
=============================================================================
