---------------------------- MODULE MCStorefront ----------------------------
(* Storefront with the bounds that the configurations name. *)
EXTENDS Storefront, TLC

CONSTANTS u1, u2, a1, x1, r1, r2, v1, p1

OneUnit == [a \in Activities |-> 1]

\* The two approval requests are alike, and so are the two users.
Alike == Permutations(Approvers) \cup Permutations(Users)
=============================================================================
