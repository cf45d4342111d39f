------------------------------ MODULE MCNetSync ------------------------------
(* Small networks for NetSync. *)
EXTENDS NetSync, TLC

CONSTANTS b0, b1, b2, b3, p1, p2

\* A fork of b1.
MCParents == b1 :> {b0} @@ b2 :> {b1} @@ b3 :> {b1}
MCHeight == b0 :> 0 @@ b1 :> 1 @@ b2 :> 2 @@ b3 :> 2

\* p1 has one branch and gets the other one later, p2 is behind.
MCOwned == p1 :> {b1, b2} @@ p2 :> {b1}
MCGrowth == p1 :> {b3} @@ p2 :> {}

==============================================================================
