----------------------------- MODULE ReadSurface -----------------------------
(***************************************************************************)
(* What a reader of one partition of the historian is promised, with       *)
(* nothing said about files: rows are added, some may be hidden for a      *)
(* while and shown again, none is lost, and none is ever seen twice.       *)
(***************************************************************************)
CONSTANT Row            \* identities of rows

VARIABLES
    shown,              \* rows a scan returns, each exactly once
    hidden              \* rows that are stored but not returned

vars == <<shown, hidden>>

Init == shown = {} /\ hidden = {}

Add ==
    /\ \E r \in Row \ (shown \cup hidden) : shown' = shown \cup {r}
    /\ UNCHANGED hidden

Hide ==
    /\ \E S \in SUBSET shown : shown' = shown \ S /\ hidden' = hidden \cup S

Show ==
    /\ \E S \in SUBSET hidden : hidden' = hidden \ S /\ shown' = shown \cup S

Next == Add \/ Hide \/ Show

Spec == Init /\ [][Next]_vars
=============================================================================
