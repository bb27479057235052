-------------------------- MODULE WriteBehindStore --------------------------
(***************************************************************************)
(* What the live historian promises a reader of the canonical store, with  *)
(* nothing said about batches, months, thresholds or the watermark: rows   *)
(* are taken into memory, made durable some time later, and forgotten from *)
(* memory only once they are durable.  The one exception is the end of the *)
(* process, which forgets whatever had not been made durable.  Durable     *)
(* rows are never withdrawn.                                               *)
(***************************************************************************)
CONSTANT Row            \* identities of telemetry rows

VARIABLES
    volatile,           \* rows the running process holds in memory
    durable,            \* rows a reader of the store can see
    running             \* whether the process is up

vars == <<volatile, durable, running>>

Init ==
    /\ volatile = {}
    /\ durable = {}
    /\ running = TRUE

(* Rows enter memory only while the process runs. *)
Take ==
    /\ running
    /\ \E S \in SUBSET Row : volatile' = volatile \cup S
    /\ UNCHANGED <<durable, running>>

(* Some of the rows held become visible; they are still held. *)
Persist ==
    /\ running
    /\ \E S \in SUBSET volatile : durable' = durable \cup S
    /\ UNCHANGED <<volatile, running>>

(* Rows that are durable may be forgotten. *)
Release ==
    /\ running
    /\ \E S \in SUBSET (volatile \cap durable) : volatile' = volatile \ S
    /\ UNCHANGED <<durable, running>>

Stop ==
    /\ running
    /\ running' = FALSE
    /\ volatile' = {}
    /\ UNCHANGED durable

Restart ==
    /\ ~running
    /\ running' = TRUE
    /\ UNCHANGED <<volatile, durable>>

Next == Take \/ Persist \/ Release \/ Stop \/ Restart

Spec == Init /\ [][Next]_vars
=============================================================================
