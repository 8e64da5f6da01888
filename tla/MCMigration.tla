---------------------------- MODULE MCMigration -----------------------------
(* The two status columns, the balance check and one more default. *)
EXTENDS Migration

CONSTANTS activities, orders, balance, skus
=============================================================================
