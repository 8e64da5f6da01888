---------------------------- MODULE Publication ----------------------------
(***************************************************************************)
(* Publishing an activity, for the first time and again while its sale     *)
(* runs.  Two callers exist, the administrator's route and the demo script *)
(* that publishes whenever it is started; neither asks whether the         *)
(* activity is on sale already, and nothing keeps two of them apart.       *)
(*                                                                         *)
(* publish reads the row, commits the row's status and version, and then   *)
(* writes three Redis keys one after the other.  Claims, grants, releases  *)
(* and faults of module Fulfilment run between any two of these steps.     *)
(* The commit touches nothing modelled here and is part of the read; the   *)
(* last step, the invalidation of the caches, belongs to ActivityCache.    *)
(***************************************************************************)
EXTENDS Fulfilment

CONSTANTS
  Publishers,        \* calls of publish that may overlap
  MaxPublications    \* bound on how often publish is called

ASSUME PublicationAssumption ==
  /\ IsFiniteSet(Publishers)
  /\ MaxPublications \in Nat

VARIABLES
  publishing,    \* what each call has read and does next
  published,     \* how often publish was called, by activity
  ended          \* activities whose ends_at is over

publicationVars == <<publishing, published, ended>>
allVars == <<vars, publicationVars>>

NotPublishing == [at |-> "idle"]
PublishPlaces == {"stock", "claimed", "meta"}
Publishing ==
  {NotPublishing} \cup [at : PublishPlaces, activity : Activities, seen : Nat]

PublicationTypeOK ==
  /\ FulfilmentTypeOK
  /\ publishing \in [Publishers -> Publishing]
  /\ published \in [Activities -> Nat]
  /\ ended \subseteq Activities

\* The rows of the activities exist.  Redis knows nothing of them: no meta
\* hash, no stock (which the script reads as 0), nobody claimed.
Unpublished ==
  /\ open = {}
  /\ stock = [a \in Activities |-> 0]
  /\ claimed = [a \in Activities |-> {}]
  /\ stream = <<>>
  /\ hash = [o \in Orders |-> "none"]
  /\ expired = {}
  /\ delay = {}

PublicationInit ==
  /\ Unpublished
  /\ TasksInit
  /\ publishing = [p \in Publishers |-> NotPublishing]
  /\ published = [a \in Activities |-> 0]
  /\ ended = {}

-----------------------------------------------------------------------------
\* Publisher p writes at this place, and goes to the next one.
PublishesAt(p, a, place) ==
  /\ publishing[p] # NotPublishing
  /\ publishing[p].at = place
  /\ publishing[p].activity = a

ContinueAt(p, place) == publishing' = [publishing EXCEPT ![p].at = place]

\* The row is read into an object that the commit does not expire: db_stock is
\* not looked at again.
ReadActivity(p, a) ==
  /\ publishing[p] = NotPublishing
  /\ published[a] < MaxPublications
  /\ published' = [published EXCEPT ![a] = @ + 1]
  /\ publishing' =
       [publishing EXCEPT ![p] = [at |-> "stock", activity |-> a, seen |-> dbStock[a]]]
  /\ UNCHANGED <<vars, ended>>

\* Faulty variant: the meta hash is written before the claimed set is cleared.
WriteStockAndMeta(p, a) ==
  /\ PublishesAt(p, a, "stock")
  /\ stock' = [stock EXCEPT ![a] = publishing[p].seen]
  /\ open' = (open \cup {a}) \ ended
  /\ ContinueAt(p, "claimed")
  /\ UNCHANGED <<claimed, stream, hash, expired, delay, databaseVars, groupVars,
                 taskVars, due, lock, budget, published, ended>>

\* SET stock.
WriteStock(p, a) ==
  /\ PublishesAt(p, a, "stock")
  /\ stock' = [stock EXCEPT ![a] = publishing[p].seen]
  /\ ContinueAt(p, "claimed")
  /\ UNCHANGED <<open, claimed, stream, hash, expired, delay, databaseVars, groupVars,
                 taskVars, due, lock, budget, published, ended>>

\* DEL claimed.
ClearClaimed(p, a) ==
  /\ PublishesAt(p, a, "claimed")
  /\ claimed' = [claimed EXCEPT ![a] = {}]
  /\ ContinueAt(p, "meta")
  /\ UNCHANGED <<open, stock, stream, hash, expired, delay, databaseVars, groupVars,
                 taskVars, due, lock, budget, published, ended>>

\* HSET meta: the script accepts claims from now on, unless ends_at is over.
WriteMeta(p, a) ==
  /\ PublishesAt(p, a, "meta")
  /\ open' = (open \cup {a}) \ ended
  /\ publishing' = [publishing EXCEPT ![p] = NotPublishing]
  /\ UNCHANGED <<stock, claimed, stream, hash, expired, delay, databaseVars, groupVars,
                 taskVars, due, lock, budget, published, ended>>

\* A command raises or the process dies: what is written stays, the rest is
\* left to the next call.
PublishFails(p) ==
  /\ publishing[p] # NotPublishing
  /\ publishing' = [publishing EXCEPT ![p] = NotPublishing]
  /\ UNCHANGED <<vars, published, ended>>

\* ends_at is over: the script refuses, whatever the meta hash says.
SaleEnds(a) ==
  /\ a \notin ended
  /\ ended' = ended \cup {a}
  /\ open' = open \ {a}
  /\ UNCHANGED <<stock, claimed, stream, hash, expired, delay, databaseVars, groupVars,
                 taskVars, due, lock, budget, publishing, published>>

PublisherStep(p) ==
  \/ \E a \in Activities :
       \/ ReadActivity(p, a)
       \/ WriteStock(p, a)
       \/ ClearClaimed(p, a)
       \/ WriteMeta(p, a)
  \/ PublishFails(p)

PublicationNext ==
  \/ Next /\ UNCHANGED publicationVars
  \/ \E p \in Publishers : PublisherStep(p)
  \/ \E a \in Activities : SaleEnds(a)

PublicationSpec == PublicationInit /\ [][PublicationNext]_allVars

-----------------------------------------------------------------------------
(* What survives a publication in the middle of a sale *)

Units(a) == stock[a] + Cardinality(claimed[a])

\* The scripts conserve units whatever a publication has done to the keys in
\* the meantime: a release whose member is gone returns nothing, so that only
\* SET and DEL of a publication change how many units are offered or claimed
\* (cancel.lua 25-28, compensate.lua 9-12 against seckill.py 83-84).
OnlyPublicationsChangeUnits ==
  [][\A a \in Activities : Units(a)' # Units(a) =>
       \E p \in Publishers :
         /\ \E place \in {"stock", "claimed"} : PublishesAt(p, a, place)
         /\ publishing'[p] # publishing[p]]_allVars

\* "Once per user and activity" (seckill.py 147) becomes once per publication:
\* a user has no more live orders of an activity than it was published times.
\* The claimed set must be empty before the first meta hash admits a claim
\* (seckill.py 84-85).  A lapsed lock can make a cancelled order live again and
\* is excluded.
OneClaimPerPublication ==
  budget["lapse"] = Budget["lapse"] =>
    \A u \in Users, a \in Activities :
      Cardinality({o \in OrdersFor(u, a) : Live(o)}) <= published[a]
=============================================================================
