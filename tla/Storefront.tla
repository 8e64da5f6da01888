----------------------------- MODULE Storefront -----------------------------
(***************************************************************************)
(* What a user meets before a worker does anything: claims approved        *)
(* through the assistant, claims of other users made directly, orders that *)
(* are cancelled, compensated or granted meanwhile, an activity that is    *)
(* published again while it is on sale, and open pages that follow the     *)
(* stock.  All of them share one Redis.                                    *)
(***************************************************************************)
EXTENDS Approval, StockPush

CONSTANT Publishers    \* calls of publish that may overlap

\* What each call of publish has set the stock of and clears the claims of next.
VARIABLE clearing

storefrontVars == <<redisVars, approvalVars, pushVars, clearing>>

StorefrontInit ==
  /\ RedisInit
  /\ ApprovalInit
  /\ PushInit
  /\ clearing = [p \in Publishers |-> Nothing]

-----------------------------------------------------------------------------
\* The unit of an order that is not granted comes back, once; whether a worker
\* compensates or the scanner cancels is all the same to those who watch here,
\* and a grant changes nothing they read.
Withdraw(o) == hash[o] = "processing" /\ CancelScript(o)

\* POST /claim by anybody, the background tasks, and the end of the sale.
OtherSteps ==
  /\ \/ \E u \in Users, a \in Activities : Claim(u, a)
     \/ \E o \in Accepted : Withdraw(o)
     \/ \E a \in Activities : CloseActivity(a)
  /\ UNCHANGED <<clearing, approvalVars>>

\* publish, of an activity on sale: SET stock to what the row said when it was
\* read, with no PUBLISH.  MaxFaults bounds publications and faults together.
ReplaceStock(p, a) ==
  /\ clearing[p] = Nothing
  /\ \E n \in 0 .. InitialStock[a] : stock' = [stock EXCEPT ![a] = n]
  /\ clearing' = [clearing EXCEPT ![p] = a]
  /\ SpendFault
  /\ UNCHANGED <<open, claimed, stream, hash, expired, delay, actionVars>>

\* DEL claimed.  The meta hash written next is the one that is there.
ClearClaims(p, a) ==
  /\ clearing[p] = a
  /\ claimed' = [claimed EXCEPT ![a] = {}]
  /\ clearing' = [clearing EXCEPT ![p] = Nothing]
  /\ UNCHANGED <<open, stock, stream, hash, expired, delay, approvalVars>>

\* A command raises or the process dies.
StopPublishing(p) ==
  /\ clearing[p] # Nothing
  /\ clearing' = [clearing EXCEPT ![p] = Nothing]
  /\ UNCHANGED <<redisVars, approvalVars>>

PublishAgain ==
  \E p \in Publishers :
    \/ \E a \in Activities : ReplaceStock(p, a) \/ ClearClaims(p, a)
    \/ StopPublishing(p)

StorefrontNext ==
  \/ (OtherSteps \/ PublishAgain) /\ PushFollows
  \/ ApprovalNext /\ PushFollows /\ UNCHANGED clearing
  \/ \E v \in Viewers : ViewerStep(v) /\ UNCHANGED <<redisVars, approvalVars, clearing>>

StorefrontSpec == StorefrontInit /\ [][StorefrontNext]_storefrontVars

-----------------------------------------------------------------------------
\* The types of all the parts.
StorefrontTypeOK ==
  /\ RedisTypeOK
  /\ ApprovalTypeOK
  /\ PushTypeOK
  /\ clearing \in [Publishers -> Activities \cup {Nothing}]
=============================================================================
