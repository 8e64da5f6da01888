----------------------------- MODULE QuotaSale -----------------------------
(***************************************************************************)
(* What the flash sale promises to a user who sees only the outcome of a   *)
(* claim: units are reserved one per user and activity, and a reservation  *)
(* is either granted, once and for good, or returned to the sale.  There   *)
(* is one store and every change is atomic.                                *)
(***************************************************************************)
EXTENDS Integers, Sequences

CONSTANTS
  Users,
  Activities,
  InitialStock

VARIABLES
  left,   \* units on sale, by activity
  book    \* the reservations ever made: user, activity, state

State == {"reserved", "granted", "returned"}

SaleInit ==
  /\ left = InitialStock
  /\ book = <<>>

Holds(u, a) ==
  \E o \in DOMAIN book :
    book[o].user = u /\ book[o].activity = a /\ book[o].state # "returned"

Reserve(u, a) ==
  /\ left[a] > 0
  /\ ~Holds(u, a)
  /\ left' = [left EXCEPT ![a] = @ - 1]
  /\ book' = Append(book, [user |-> u, activity |-> a, state |-> "reserved"])

Grant(o) ==
  /\ book[o].state = "reserved"
  /\ book' = [book EXCEPT ![o].state = "granted"]
  /\ UNCHANGED left

Return(o) ==
  /\ book[o].state = "reserved"
  /\ book' = [book EXCEPT ![o].state = "returned"]
  /\ left' = [left EXCEPT ![book[o].activity] = @ + 1]

SaleNext ==
  \/ \E u \in Users, a \in Activities : Reserve(u, a)
  \/ \E o \in DOMAIN book : Grant(o) \/ Return(o)

SaleSpec == SaleInit /\ [][SaleNext]_<<left, book>>
=============================================================================
