--------------------------- MODULE MCPublication ---------------------------
(* One activity, published twice around the claims of one user *)
EXTENDS Publication, TLC

CONSTANTS u1, a1, w1, c1, p1, p2

MCProcess == c1 :> w1
TwoUnits == a1 :> 2

OneCrash == [crash |-> 1, lapse |-> 0, error |-> 0, expiry |-> 0]

\* The two calls of publish are alike.
Alike == Permutations(Publishers)
=============================================================================
