----------------------------- MODULE MCMigration -----------------------------
(***************************************************************************)
(* Two legacy sources, the first of them written as two parts, and two     *)
(* runs that may overlap.                                                  *)
(***************************************************************************)
EXTENDS Migration

CONSTANTS m1, m2

MCPieces == <<2, 1>>
=============================================================================
