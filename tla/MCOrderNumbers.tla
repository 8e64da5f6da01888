--------------------------- MODULE MCOrderNumbers ---------------------------
(* Three calls around the ends of short days. *)
EXTENDS OrderNumbers, TLC

CONSTANTS n1, n2, n3

\* The calls are alike.
Alike == Permutations(Calls)
=============================================================================
