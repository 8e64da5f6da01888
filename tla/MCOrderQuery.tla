---------------------------- MODULE MCOrderQuery ----------------------------
(* One user, who asks for the orders of one activity while they are settled *)
EXTENDS OrderQuery, TLC

CONSTANTS u1, a1, w1, c1, q1, q2

OneUnit == a1 :> 1
MCProcess == c1 :> w1
CrashLapseAndExpiry == [crash |-> 1, lapse |-> 1, error |-> 0, expiry |-> 1]
Alike == Permutations(Queries)
=============================================================================
