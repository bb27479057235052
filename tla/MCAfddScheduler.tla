--------------------------- MODULE MCAfddScheduler ----------------------------
(***************************************************************************)
(* Two scopes, the timer's and another, and one operator.                  *)
(***************************************************************************)
EXTENDS AfddScheduler

CONSTANTS all, site, op1
=============================================================================
