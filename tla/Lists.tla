------------------------------- MODULE Lists --------------------------------
(***************************************************************************)
(* Sorting and filtering, as functions on positions.  The operators of the *)
(* standard modules that do the same, SortSeq and SelectSeq, are built     *)
(* into the prover, which knows no facts about them.                       *)
(***************************************************************************)
EXTENDS Naturals, Sequences, FiniteSets

(* The numbers of a finite set in increasing order. *)
InOrder(S) ==
    [i \in 1..Cardinality(S) |-> CHOOSE n \in S : Cardinality({m \in S : m <= n}) = i]

(* The lines of a sequence that are in a set, in the order of the sequence. *)
Filter(lines, S) ==
    LET kept == InOrder({i \in DOMAIN lines : lines[i] \in S})
    IN  [i \in DOMAIN kept |-> lines[kept[i]]]
=============================================================================
