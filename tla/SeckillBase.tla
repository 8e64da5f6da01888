---------------------------- MODULE SeckillBase ----------------------------
(***************************************************************************)
(* The vocabulary shared by the modules of the flash sale: who claims,     *)
(* what is sold, how orders are named, and which background tasks exist.   *)
(*                                                                         *)
(* An order is named by its position in the grant stream.  The program     *)
(* draws a snowflake number instead; no step of the fulfilment protocol    *)
(* compares two of them, so only their distinctness is kept here.          *)
(***************************************************************************)
EXTENDS Integers, Sequences, FiniteSets

CONSTANTS
  Users,          \* users that may claim
  Activities,     \* published activities
  InitialStock,   \* seckill_activities.initial_stock, by activity
  Registered,     \* users whose database row is still there when they are granted
  OnSale,         \* activities whose SKU is still active then
  MaxOrders,      \* bound on the number of accepted claims
  Workers,        \* grant consumer tasks
  Cancellers,     \* delayed-cancellation scanner tasks
  NoTask,         \* a lock nobody holds
  Orphan          \* a lock whose holder died without releasing it

Tasks == Workers \cup Cancellers

Orders == 1 .. MaxOrders

ASSUME BaseAssumption ==
  /\ IsFiniteSet(Users)
  /\ IsFiniteSet(Activities)
  /\ InitialStock \in [Activities -> Nat \ {0}]
  /\ Registered \subseteq Users
  /\ OnSale \subseteq Activities
  /\ MaxOrders \in Nat
  /\ Workers \cap Cancellers = {}
  /\ NoTask # Orphan
  /\ {NoTask, Orphan} \cap Tasks = {}

\* The fields of a grant message that the protocol tells apart.
Message == [id : Orders, user : Users, activity : Activities]
=============================================================================
