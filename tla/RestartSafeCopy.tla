--------------------------- MODULE RestartSafeCopy ---------------------------
(***************************************************************************)
(* What legacy migration promises (the header of                           *)
(* crates/fdd_store/src/migration_exec.rs and the operator's               *)
(* documentation): the contents of a source to copy are fixed once, its    *)
(* pieces then come into view one by one, each once and never to vanish,   *)
(* and the source is marked done when all of them are there.  However      *)
(* often the copier stops, it goes on with the same contents.              *)
(***************************************************************************)
EXTENDS Naturals

CONSTANTS Source, Pieces, Versions, Nothing

VARIABLES
    chosen,     \* chosen[s]: the version of source s that is copied
    shown,      \* <<source, version, piece>> in view
    done        \* sources marked as copied

vars == <<chosen, shown, done>>

Whole(s) == {<<s, chosen[s], i>> : i \in 1..Pieces[s]}

Init ==
    /\ chosen = [s \in Source |-> Nothing]
    /\ shown = {}
    /\ done = {}

Choose(s) ==
    /\ chosen[s] = Nothing
    /\ \E v \in Versions : chosen' = [chosen EXCEPT ![s] = v]
    /\ UNCHANGED <<shown, done>>

Show(s) ==
    /\ \E r \in Whole(s) \ shown : shown' = shown \cup {r}
    /\ chosen[s] # Nothing
    /\ UNCHANGED <<chosen, done>>

Finish(s) ==
    /\ chosen[s] # Nothing
    /\ Whole(s) \subseteq shown
    /\ done' = done \cup {s}
    /\ UNCHANGED <<chosen, shown>>

Next == \E s \in Source : Choose(s) \/ Show(s) \/ Finish(s)

Spec == Init /\ [][Next]_vars
=============================================================================
