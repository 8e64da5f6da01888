--------------------------- MODULE MCActivityCache ---------------------------
(* Two processes, each with a request that reads and one that publishes     *)
EXTENDS ActivityCache, TLC

CONSTANTS p1, p2, r1, r2, b1, b2

MCProcessOf == r1 :> p1 @@ r2 :> p2 @@ b1 :> p1 @@ b2 :> p2
=============================================================================
