---------------------------- MODULE SeckillRedis ----------------------------
(***************************************************************************)
(* The Redis key space of the flash sale and the operations that change    *)
(* it: the three Lua scripts, each one atomic, and the two single commands *)
(* the background tasks send on their own.                                 *)
(*                                                                         *)
(* RedisSpec lets anybody run any operation at any time on any order.  It  *)
(* is what the scripts guarantee by themselves, before any lock or worker  *)
(* discipline is taken into account; module Fulfilment restricts the       *)
(* callers to the program's workers and scanners.                          *)
(***************************************************************************)
EXTENDS SeckillBase

VARIABLES
  open,      \* activities whose meta hash and time window accept claims
  stock,     \* token:{activity}:stock
  claimed,   \* token:{activity}:claimed
  stream,    \* the grant stream: every message ever added, in order
  hash,      \* field "status" of token:order:{order}
  expired,   \* orders whose hash, as the claim wrote it, came to its end
  delay      \* members of token:order:delay

redisVars == <<open, stock, claimed, stream, hash, expired, delay>>

\* "none" is a hash that does not exist (not yet written, or expired).
Status == {"none", "processing", "success", "failed", "cancelled"}
Settled == {"success", "failed", "cancelled"}

\* A status written after the end of the hash stands in a hash of its own,
\* without the user, the activity and the rest of what the claim had written.
Partial(o) == o \in expired /\ hash[o] # "none"

Accepted == DOMAIN stream
UserOf(o) == stream[o].user
ActivityOf(o) == stream[o].activity
MessageOf(o) == [id |-> o, user |-> UserOf(o), activity |-> ActivityOf(o)]

RedisTypeOK ==
  /\ open \subseteq Activities
  /\ stock \in [Activities -> Nat]
  /\ claimed \in [Activities -> SUBSET Users]
  /\ stream \in Seq([user : Users, activity : Activities])
  /\ Len(stream) <= MaxOrders
  /\ hash \in [Orders -> Status]
  /\ expired \subseteq Accepted
  /\ delay \subseteq Accepted

\* A first publication has completed for every activity and nobody claimed.
RedisInit ==
  /\ open = Activities
  /\ stock = InitialStock
  /\ claimed = [a \in Activities |-> {}]
  /\ stream = <<>>
  /\ hash = [o \in Orders |-> "none"]
  /\ expired = {}
  /\ delay = {}

-----------------------------------------------------------------------------
\* Faulty variant: the membership check is missing.
OutcomeWithoutDuplicateCheck(u, a) ==
  CASE a \notin open -> "not_active"
    [] a \in open /\ stock[a] <= 0 -> "sold_out"
    [] OTHER -> "accepted"

\* Faulty variant: the last unit is taken to be left when none is.
OutcomeOffByOne(u, a) ==
  CASE a \notin open -> "not_active"
    [] a \in open /\ stock[a] < 0 -> "sold_out"
    [] a \in open /\ stock[a] >= 0 /\ u \in claimed[a] -> "duplicate"
    [] OTHER -> "accepted"

\* seckill.lua's ladder of checks, in the script's order.
Outcome(u, a) ==
  CASE a \notin open -> "not_active"
    [] a \in open /\ stock[a] <= 0 -> "sold_out"
    [] a \in open /\ stock[a] > 0 /\ u \in claimed[a] -> "duplicate"
    [] OTHER -> "accepted"

\* seckill.lua, accepted: one stock, one member, one message, one order hash
\* and one delay entry.  The other outcomes write nothing.
Claim(u, a) ==
  /\ Outcome(u, a) = "accepted"
  /\ Len(stream) < MaxOrders
  /\ stock' = [stock EXCEPT ![a] = @ - 1]
  /\ claimed' = [claimed EXCEPT ![a] = @ \cup {u}]
  /\ stream' = Append(stream, [user |-> u, activity |-> a])
  /\ hash' = [hash EXCEPT ![Len(stream) + 1] = "processing"]
  /\ delay' = delay \cup {Len(stream) + 1}
  /\ UNCHANGED <<open, expired>>

\* Faulty variant: INCR whatever SREM returned.
ReleaseUnconditionally(u, a) ==
  /\ claimed' = [claimed EXCEPT ![a] = @ \ {u}]
  /\ stock' = [stock EXCEPT ![a] = @ + 1]

\* Faulty variant: SREM without INCR.
ReleaseMemberOnly(u, a) ==
  /\ claimed' = [claimed EXCEPT ![a] = @ \ {u}]
  /\ UNCHANGED stock

\* Faulty variant: INCR without SREM.
ReleaseStockOnly(u, a) ==
  /\ stock' = [stock EXCEPT ![a] = @ + 1]
  /\ UNCHANGED claimed

\* SREM, then INCR only when a member was really removed.
Release(u, a) ==
  /\ claimed' = [claimed EXCEPT ![a] = @ \ {u}]
  /\ stock' = [stock EXCEPT ![a] = IF u \in claimed[a] THEN @ + 1 ELSE @]

\* cancel.lua: the delay entry goes whatever the status; a settled order keeps
\* its stock, any other one (a missing hash included) gives it back.
CancelScript(o) ==
  /\ delay' = delay \ {o}
  /\ \/ /\ hash[o] \in Settled
        /\ UNCHANGED <<stock, claimed, hash>>
     \/ /\ hash[o] \notin Settled
        /\ Release(UserOf(o), ActivityOf(o))
        /\ hash' = [hash EXCEPT ![o] = "cancelled"]
  /\ UNCHANGED <<open, stream, expired>>

\* compensate.lua: no status check, and the delay entry stays.
CompensateScript(o) ==
  /\ Release(UserOf(o), ActivityOf(o))
  /\ hash' = [hash EXCEPT ![o] = "failed"]
  /\ UNCHANGED <<open, stream, expired, delay>>

\* HSET status success, once the database has the order.
MarkSuccess(o) ==
  /\ hash' = [hash EXCEPT ![o] = "success"]
  /\ UNCHANGED <<open, stock, claimed, stream, expired, delay>>

\* ZREM on the delay queue.
Unschedule(o) ==
  /\ delay' = delay \ {o}
  /\ UNCHANGED <<open, stock, claimed, stream, hash, expired>>

\* The order hash reaches the end of its two days.
ExpireHash(o) ==
  /\ hash[o] # "none"
  /\ hash' = [hash EXCEPT ![o] = "none"]
  /\ expired' = expired \cup {o}
  /\ UNCHANGED <<open, stock, claimed, stream, delay>>

\* The clock passes ends_at: the script answers "not active" from now on.
CloseActivity(a) ==
  /\ a \in open
  /\ open' = open \ {a}
  /\ UNCHANGED <<stock, claimed, stream, hash, expired, delay>>

RedisNext ==
  \/ \E u \in Users, a \in Activities : Claim(u, a)
  \/ \E o \in Accepted :
       \/ CancelScript(o)
       \/ CompensateScript(o)
       \/ MarkSuccess(o)
       \/ Unschedule(o)
       \/ ExpireHash(o)
  \/ \E a \in Activities : CloseActivity(a)

RedisSpec == RedisInit /\ [][RedisNext]_redisVars

-----------------------------------------------------------------------------
\* What is on sale plus who holds a claim is what was published: whatever the
\* order in which scripts are run, repeated or raced, no unit is lost and none
\* is returned twice (seckill.lua 41-42, cancel.lua 25-28, compensate.lua 9-12).
StockConserved ==
  \A a \in Activities : stock[a] + Cardinality(claimed[a]) = InitialStock[a]
=============================================================================
