-------------------------- MODULE MCGrantDatabase --------------------------
(* Two workers over two activities, one with a single unit; u3 has no row  *)
(* in the users table.                                                     *)
EXTENDS GrantDatabase, TLC

CONSTANTS u1, u2, u3, a1, a2, w1, w2

MCUsers == {u1, u2, u3}
MCRegistered == {u1, u2}
MCActivities == {a1, a2}
MCWorkers == {w1, w2}
MCInitialStock == a1 :> 1 @@ a2 :> 2
=============================================================================
