--------------------------- MODULE MCLiveHistorian ---------------------------
(***************************************************************************)
(* Two equipment keys and three envelopes.  a and c carry both keys; the   *)
(* schema of c's row for key 2 differs from a's, so c can be refused after *)
(* its first group was buffered, and c falls into a later month, so that a *)
(* batch of key 1 can span two partitions.  b has no identifiers to ingest *)
(* it under.                                                               *)
(***************************************************************************)
EXTENDS LiveHistorian, TLC

CONSTANTS a, b, c

MCKeys == {1, 2}
MCRoles == a :> (1 :> "plain" @@ 2 :> "plain") @@ b :> (1 :> "plain")
             @@ c :> (1 :> "plain" @@ 2 :> "wide")
MCObservedAt == a :> 1 @@ b :> 2 @@ c :> 3
MCMonthOf == a :> 1 @@ b :> 2 @@ c :> 2

(* The broker delivers a and c a second time. *)
MCDeliveries == a :> 2 @@ b :> 1 @@ c :> 2
=============================================================================
