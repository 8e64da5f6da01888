----------------------------- MODULE Fulfilment -----------------------------
(***************************************************************************)
(* From an accepted claim to a settled order.  Users claim through the     *)
(* Lua script; grant consumers read the stream as one consumer group and   *)
(* write the database; a delayed-cancellation scanner in the same process  *)
(* returns the stock of orders that missed their deadline.  Consumers and  *)
(* scanners of all processes meet at a lock per user.                      *)
(*                                                                         *)
(* Every step is one round trip to Redis or to the database: between two   *)
(* of them any other task may run, and the process may die.  The order a   *)
(* task works on is the smallest one left of its batch.                    *)
(*                                                                         *)
(* Time is not counted.  A deadline may pass, an unacknowledged message    *)
(* may become idle long enough to be claimed, and an orphaned lock may     *)
(* expire at any moment.  Budget bounds how often each fault happens:      *)
(* a process crash, a lock that expires in its owner's hands, a command    *)
(* that raises, an order hash that reaches its two days.                   *)
(***************************************************************************)
EXTENDS SeckillRedis, GrantDatabase

CONSTANTS
  Process,     \* the worker in whose process a scanner runs, by scanner
  BatchSize,   \* grant_batch_size
  ScanSize,    \* delay_cancel_batch_size
  Budget       \* how many faults of each kind may happen

FaultKind == {"crash", "lapse", "error", "expiry"}

ASSUME FulfilmentAssumption ==
  /\ Process \in [Cancellers -> Workers]
  /\ BatchSize \in Nat \ {0}
  /\ ScanSize \in Nat \ {0}
  /\ Budget \in [FaultKind -> Nat]

VARIABLES
  delivered,   \* messages the consumer group has handed out at least once
  pending,     \* messages handed out and not acknowledged
  stale,       \* pending messages idle for grant_pending_idle_ms
  due,         \* orders whose deadline passed while they were in the delay queue
  lock,        \* lock:grant:user:{user}
  pc,          \* what each task does next
  turn,        \* whether a worker recovers or reads when its batch is done
  todo,        \* what is left of each task's batch
  budget       \* faults that may still happen

groupVars == <<delivered, pending, stale>>
taskVars == <<pc, turn, todo>>
vars == <<redisVars, databaseVars, groupVars, taskVars, due, lock, budget>>

\* Places of a worker inside its try block, in its handler of permanent
\* errors, and of a scanner inside its try block.
TryPlaces == {"check", "begin", "grant", "mark", "unschedule", "ack"}
HandlerPlaces == {"compensate", "reject"}
ScannerTryPlaces == {"check", "cancel", "unschedule"}
LockedPlaces == TryPlaces \cup HandlerPlaces \cup {"cancel", "release", "giveup"}
Places == LockedPlaces \cup {"idle", "peek", "drop", "lock", "down"}

FulfilmentTypeOK ==
  /\ RedisTypeOK
  /\ DatabaseTypeOK
  /\ delivered \subseteq Accepted
  /\ pending \subseteq delivered
  /\ stale \subseteq pending
  /\ due \subseteq Accepted
  /\ lock \in [Users -> Tasks \cup {NoTask, Orphan}]
  /\ pc \in [Tasks -> Places]
  /\ turn \in [Workers -> {"recover", "read"}]
  /\ todo \in [Tasks -> SUBSET Accepted]
  /\ budget \in [FaultKind -> Nat]

TasksInit ==
  /\ DatabaseInit
  /\ delivered = {}
  /\ pending = {}
  /\ stale = {}
  /\ due = {}
  /\ lock = [u \in Users |-> NoTask]
  /\ pc = [t \in Tasks |-> "idle"]
  /\ turn = [w \in Workers |-> "recover"]
  /\ todo = [t \in Tasks |-> {}]
  /\ budget = Budget

Init == RedisInit /\ TasksInit

-----------------------------------------------------------------------------
\* The first k orders of a set.
FirstOf(S, k) == {o \in S : Cardinality({x \in S : x < o}) < k}

\* Task t works on order o.
Current(t, o) == o \in todo[t] /\ \A x \in todo[t] : o <= x
At(t, o, place) == pc[t] = place /\ Current(t, o)

Goto(t, place) == pc' = [pc EXCEPT ![t] = place] /\ UNCHANGED <<turn, todo>>

Entrance(t) == IF t \in Workers THEN "lock" ELSE "peek"

Fetched(t, batch) ==
  /\ todo' = [todo EXCEPT ![t] = batch]
  /\ pc' = [pc EXCEPT ![t] = IF batch = {} THEN "idle" ELSE Entrance(t)]

\* Task t is through with order o.
Done(t, o) ==
  /\ Fetched(t, todo[t] \ {o})
  /\ UNCHANGED turn

Spend(fault) ==
  /\ budget[fault] > 0
  /\ budget' = [budget EXCEPT ![fault] = @ - 1]

\* The tasks of worker w's process.  When one of the two ends, asyncio.gather
\* ends the other one with it.
ProcessOf(w) == {w} \cup {c \in Cancellers : Process[c] = w}

Halt(w) ==
  /\ pc' = [t \in Tasks |-> IF t \in ProcessOf(w) THEN "down" ELSE pc[t]]
  /\ todo' = [t \in Tasks |-> IF t \in ProcessOf(w) THEN {} ELSE todo[t]]
  /\ UNCHANGED turn
  /\ Rollback(w)

\* What becomes of the locks of worker w's process.
LocksBecome(w, value) ==
  lock' = [u \in Users |-> IF lock[u] \in ProcessOf(w) THEN value ELSE lock[u]]

\* An exception leaves run_forever: the finally blocks release what is held.
Shutdown(w) ==
  /\ Halt(w)
  /\ LocksBecome(w, NoTask)
  /\ UNCHANGED <<redisVars, groupVars, due>>

-----------------------------------------------------------------------------
(* Fetching a batch *)

\* XAUTOCLAIM: the idle time of what is claimed starts again.
Recover(w) ==
  LET batch == FirstOf(stale, BatchSize)
  IN  /\ pc[w] = "idle" /\ turn[w] = "recover"
      /\ turn' = [turn EXCEPT ![w] = "read"]
      /\ stale' = stale \ batch
      /\ Fetched(w, batch)
      /\ UNCHANGED <<redisVars, databaseVars, delivered, pending, due, lock, budget>>

\* Faulty variant: XREADGROUP with NOACK.
ReadNoAck(w) ==
  LET batch == FirstOf(Accepted \ delivered, BatchSize)
  IN  /\ pc[w] = "idle" /\ turn[w] = "read"
      /\ turn' = [turn EXCEPT ![w] = "recover"]
      /\ delivered' = delivered \cup batch
      /\ Fetched(w, batch)
      /\ UNCHANGED <<redisVars, databaseVars, pending, stale, due, lock, budget>>

\* XREADGROUP with id ">".
Read(w) ==
  LET batch == FirstOf(Accepted \ delivered, BatchSize)
  IN  /\ pc[w] = "idle" /\ turn[w] = "read"
      /\ turn' = [turn EXCEPT ![w] = "recover"]
      /\ delivered' = delivered \cup batch
      /\ pending' = pending \cup batch
      /\ Fetched(w, batch)
      /\ UNCHANGED <<redisVars, databaseVars, stale, due, lock, budget>>

\* ZRANGEBYSCORE from 0 to now.
Scan(c) ==
  LET batch == FirstOf(due \cap delay, ScanSize)
  IN  /\ pc[c] = "idle"
      /\ batch # {}
      /\ Fetched(c, batch)
      /\ UNCHANGED <<redisVars, databaseVars, groupVars, turn, due, lock, budget>>

-----------------------------------------------------------------------------
(* The user lock, taken and released the same way by both kinds of task *)

\* Faulty variant: consumers and scanners lock different keys.
AcquireOwnLock(t, o) ==
  /\ At(t, o, "lock")
  /\ lock' = [lock EXCEPT ![UserOf(o)] = t]
  /\ Goto(t, "check")
  /\ UNCHANGED <<redisVars, databaseVars, groupVars, due, budget>>

AcquireLock(t, o) ==
  /\ At(t, o, "lock")
  /\ lock[UserOf(o)] = NoTask
  /\ lock' = [lock EXCEPT ![UserOf(o)] = t]
  /\ Goto(t, "check")
  /\ UNCHANGED <<redisVars, databaseVars, groupVars, due, budget>>

\* The lock stayed busy for two seconds: the entry is left for another time.
LockBusy(t, o) ==
  /\ At(t, o, "lock")
  /\ lock[UserOf(o)] # NoTask
  /\ Done(t, o)
  /\ UNCHANGED <<redisVars, databaseVars, groupVars, due, lock, budget>>

\* Faulty variant: the lock is not released.
ReleaseLockForgotten(t, o) ==
  /\ At(t, o, "release")
  /\ lock[UserOf(o)] = t
  /\ Done(t, o)
  /\ UNCHANGED <<redisVars, databaseVars, groupVars, due, lock, budget>>

ReleaseLock(t, o) ==
  /\ At(t, o, "release")
  /\ lock[UserOf(o)] = t
  /\ lock' = [lock EXCEPT ![UserOf(o)] = NoTask]
  /\ Done(t, o)
  /\ UNCHANGED <<redisVars, databaseVars, groupVars, due, budget>>

\* The lock expired meanwhile: LockNotOwnedError.  It ends a worker's process;
\* a scanner logs it and gives up the rest of the scan.
ReleaseLost(t, o) ==
  /\ At(t, o, "release")
  /\ lock[UserOf(o)] # t
  /\ \/ /\ t \in Workers
        /\ Shutdown(t)
     \/ /\ t \in Cancellers
        /\ Fetched(t, {})
        /\ UNCHANGED <<redisVars, databaseVars, groupVars, turn, due, lock>>
  /\ UNCHANGED budget

\* Faulty variant: the status is not looked at again under the lock.
CheckStatusSkipped(t, o) ==
  /\ At(t, o, "check")
  /\ Goto(t, IF t \in Workers THEN "begin" ELSE "cancel")
  /\ UNCHANGED <<redisVars, databaseVars, groupVars, due, lock, budget>>

\* HGETALL under the lock: only a processing order is granted or cancelled.
CheckStatus(t, o) ==
  /\ At(t, o, "check")
  /\ \/ hash[o] = "processing" /\ Goto(t, IF t \in Workers THEN "begin" ELSE "cancel")
     \/ hash[o] # "processing" /\ Goto(t, "unschedule")
  /\ UNCHANGED <<redisVars, databaseVars, groupVars, due, lock, budget>>

\* ZREM; a worker goes on to acknowledge the message.
RemoveFromDelay(t, o) ==
  /\ At(t, o, "unschedule")
  /\ Unschedule(o)
  /\ Goto(t, IF t \in Workers THEN "ack" ELSE "release")
  /\ UNCHANGED <<databaseVars, groupVars, due, lock, budget>>

-----------------------------------------------------------------------------
(* The grant, at a worker *)

\* Faulty variant: success is written without waiting for the database.
BeginGrantAsDone(w, o) ==
  /\ At(w, o, "begin")
  /\ Goto(w, "mark")
  /\ UNCHANGED <<redisVars, databaseVars, groupVars, due, lock, budget>>

\* The idempotency queries: an order already there is returned as it is.
BeginGrant(w, o) ==
  /\ At(w, o, "begin")
  /\ \/ Found(MessageOf(o)) /\ Goto(w, "mark") /\ UNCHANGED databaseVars
     \/ TxnBegin(w, MessageOf(o)) /\ Goto(w, "grant")
  /\ UNCHANGED <<redisVars, groupVars, due, lock, budget>>

LockUserRow(w, o) ==
  /\ At(w, o, "grant")
  /\ TxnLock(w)
  /\ UNCHANGED <<redisVars, groupVars, taskVars, due, lock, budget>>

CommitGrant(w, o) ==
  /\ At(w, o, "grant")
  /\ TxnCommit(w)
  /\ Goto(w, "mark")
  /\ UNCHANGED <<redisVars, groupVars, due, lock, budget>>

RefuseGrant(w, o) ==
  /\ At(w, o, "grant")
  /\ TxnRefuse(w)
  /\ Goto(w, "compensate")
  /\ UNCHANGED <<redisVars, groupVars, due, lock, budget>>

\* IntegrityError is a transient failure: no acknowledgement.
ConflictGrant(w, o) ==
  /\ At(w, o, "grant")
  /\ TxnConflict(w)
  /\ Goto(w, "release")
  /\ UNCHANGED <<redisVars, groupVars, due, lock, budget>>

MarkGranted(w, o) ==
  /\ At(w, o, "mark")
  /\ MarkSuccess(o)
  /\ Goto(w, "unschedule")
  /\ UNCHANGED <<databaseVars, groupVars, due, lock, budget>>

Compensate(w, o) ==
  /\ At(w, o, "compensate")
  /\ CompensateScript(o)
  /\ Goto(w, "reject")
  /\ UNCHANGED <<databaseVars, groupVars, due, lock, budget>>

\* XACK: a message no longer pending cannot be claimed either.
Acknowledge(w, o) ==
  /\ \E place \in {"ack", "reject"} : At(w, o, place)
  /\ pending' = pending \ {o}
  /\ stale' = stale \ {o}
  /\ Goto(w, "release")
  /\ UNCHANGED <<redisVars, databaseVars, delivered, due, lock, budget>>

\* The compensation raised: the lock is released and the exception goes on.
GiveUp(w, o) ==
  /\ At(w, o, "giveup")
  /\ Shutdown(w)
  /\ UNCHANGED budget

-----------------------------------------------------------------------------
(* The cancellation, at a scanner *)

\* HGETALL before the lock: the user and the activity come from the hash.  One
\* that does not hold them raises KeyError, and the scan is over.
Peek(c, o) ==
  /\ At(c, o, "peek")
  /\ \/ hash[o] = "none" /\ Goto(c, "drop")
     \/ hash[o] # "none" /\ ~Partial(o) /\ Goto(c, "lock")
     \/ Partial(o) /\ Fetched(c, {}) /\ UNCHANGED turn
  /\ UNCHANGED <<redisVars, databaseVars, groupVars, due, lock, budget>>

\* No hash: the entry is removed, without a lock and without any release.
DropEntry(c, o) ==
  /\ At(c, o, "drop")
  /\ Unschedule(o)
  /\ Done(c, o)
  /\ UNCHANGED <<databaseVars, groupVars, due, lock, budget>>

Cancel(c, o) ==
  /\ At(c, o, "cancel")
  /\ CancelScript(o)
  /\ Goto(c, "release")
  /\ UNCHANGED <<databaseVars, groupVars, due, lock, budget>>

-----------------------------------------------------------------------------
(* Failures *)

\* A command inside the try block raises: the transaction rolls back, the
\* lock is released, the message stays pending.
ErrorInTry(w, o) ==
  /\ \E place \in TryPlaces : At(w, o, place)
  /\ Spend("error")
  /\ Goto(w, "release")
  /\ Rollback(w)
  /\ UNCHANGED <<redisVars, groupVars, due, lock>>

\* A command of the PermanentGrantError handler raises.
ErrorInHandler(w, o) ==
  /\ \E place \in HandlerPlaces : At(w, o, place)
  /\ Spend("error")
  /\ Goto(w, "giveup")
  /\ UNCHANGED <<redisVars, databaseVars, groupVars, due, lock>>

\* A command outside of both raises and ends the process.
ErrorOutside(w) ==
  /\ pc[w] \in {"idle", "lock"}
  /\ Spend("error")
  /\ Shutdown(w)

\* A command of the scanner raises: run_forever logs it and the scan is over,
\* after the lock is released if it was held; a release that raises leaves it
\* to its timeout.
ErrorInScan(c, o) ==
  /\ Spend("error")
  /\ \/ /\ \E place \in {"peek", "drop", "lock"} : At(c, o, place)
        /\ Fetched(c, {})
        /\ UNCHANGED lock
     \/ /\ \E place \in ScannerTryPlaces : At(c, o, place)
        /\ todo' = [todo EXCEPT ![c] = {o}]
        /\ pc' = [pc EXCEPT ![c] = "release"]
        /\ UNCHANGED lock
     \/ /\ At(c, o, "release")
        /\ lock[UserOf(o)] = c
        /\ Fetched(c, {})
        /\ lock' = [lock EXCEPT ![UserOf(o)] = Orphan]
  /\ UNCHANGED <<redisVars, databaseVars, groupVars, turn, due>>

\* The process is killed: nothing is released.
Crash(w) ==
  /\ pc[w] # "down"
  /\ Spend("crash")
  /\ Halt(w)
  /\ LocksBecome(w, Orphan)
  /\ UNCHANGED <<redisVars, groupVars, due>>

Restart(w) ==
  /\ pc[w] = "down"
  /\ pc' = [t \in Tasks |-> IF t \in ProcessOf(w) THEN "idle" ELSE pc[t]]
  /\ turn' = [turn EXCEPT ![w] = "recover"]
  /\ UNCHANGED <<redisVars, databaseVars, groupVars, todo, due, lock, budget>>

\* The thirty seconds of a lock are over while its owner still works.
Lapse(u) ==
  /\ lock[u] \in Tasks
  /\ Spend("lapse")
  /\ lock' = [lock EXCEPT ![u] = NoTask]
  /\ UNCHANGED <<redisVars, databaseVars, groupVars, taskVars, due>>

\* Faulty variant: the lock is taken without a timeout.
OrphanStays(u) == FALSE

OrphanExpires(u) ==
  /\ lock[u] = Orphan
  /\ lock' = [lock EXCEPT ![u] = NoTask]
  /\ UNCHANGED <<redisVars, databaseVars, groupVars, taskVars, due, budget>>

-----------------------------------------------------------------------------
(* Users and the clock *)

UserClaims(u, a) ==
  /\ Claim(u, a)
  /\ UNCHANGED <<databaseVars, groupVars, taskVars, due, lock, budget>>

DeadlinePasses(o) ==
  /\ o \in delay \ due
  /\ due' = due \cup {o}
  /\ UNCHANGED <<redisVars, databaseVars, groupVars, taskVars, lock, budget>>

MessageAges(o) ==
  /\ o \in pending \ stale
  /\ stale' = stale \cup {o}
  /\ UNCHANGED <<redisVars, databaseVars, delivered, pending, taskVars, due, lock, budget>>

\* Two days, so long after the deadline of an order still in the delay queue;
\* a task may have the order in its hands all the same.
HashExpires(o) ==
  /\ o \in delay => o \in due
  /\ Spend("expiry")
  /\ ExpireHash(o)
  /\ UNCHANGED <<databaseVars, groupVars, taskVars, due, lock>>

-----------------------------------------------------------------------------
LockStep(t, o) ==
  \/ AcquireLock(t, o)
  \/ LockBusy(t, o)
  \/ CheckStatus(t, o)
  \/ RemoveFromDelay(t, o)
  \/ ReleaseLock(t, o)
  \/ ReleaseLost(t, o)

WorkerStep(w) ==
  \/ Recover(w)
  \/ Read(w)
  \/ \E o \in todo[w] :
       \/ LockStep(w, o)
       \/ BeginGrant(w, o)
       \/ LockUserRow(w, o)
       \/ CommitGrant(w, o)
       \/ RefuseGrant(w, o)
       \/ ConflictGrant(w, o)
       \/ MarkGranted(w, o)
       \/ Compensate(w, o)
       \/ Acknowledge(w, o)
       \/ GiveUp(w, o)

CancellerStep(c) ==
  \/ Scan(c)
  \/ \E o \in todo[c] :
       \/ LockStep(c, o)
       \/ Peek(c, o)
       \/ DropEntry(c, o)
       \/ Cancel(c, o)

\* While the budget has something left of any kind.
Fault ==
  /\ \E kind \in FaultKind : budget[kind] > 0
  /\ \/ \E w \in Workers :
          \/ \E o \in todo[w] : ErrorInTry(w, o) \/ ErrorInHandler(w, o)
          \/ ErrorOutside(w)
          \/ Crash(w)
     \/ \E c \in Cancellers : \E o \in todo[c] : ErrorInScan(c, o)
     \/ \E u \in Users : Lapse(u)
     \/ \E o \in Accepted : HashExpires(o)

Next ==
  \/ \E u \in Users, a \in Activities : UserClaims(u, a)
  \/ \E w \in Workers : WorkerStep(w)
  \/ \E c \in Cancellers : CancellerStep(c)
  \/ \E w \in Workers : Restart(w)
  \/ \E u \in Users : OrphanExpires(u)
  \/ \E o \in Accepted : MessageAges(o) \/ DeadlinePasses(o)
  \/ Fault

Spec == Init /\ [][Next]_vars

\* Tasks are asyncio tasks that are always rescheduled, a dead process is
\* started again, and time passes.  Nobody has to claim and nothing has to fail.
Fairness ==
  /\ \A w \in Workers : WF_vars(WorkerStep(w)) /\ WF_vars(Restart(w))
  /\ \A c \in Cancellers : WF_vars(CancellerStep(c))
  /\ \A u \in Users : WF_vars(OrphanExpires(u))
  /\ \A o \in Orders :
       /\ WF_vars(o \in Accepted /\ MessageAges(o))
       /\ WF_vars(o \in Accepted /\ DeadlinePasses(o))

FairSpec == Spec /\ Fairness

-----------------------------------------------------------------------------
(* What the fulfilment of an order promises *)

OrdersFor(u, a) == {o \in Accepted : UserOf(o) = u /\ ActivityOf(o) = a}
Live(o) == hash[o] \in {"processing", "success"}

\* An order shown as success is backed by a grant of that activity to that
\* user, whatever crashes, lapses or is delivered twice: HSET success comes
\* after the commit (grant_consumer.py 130-138).
SuccessIsBacked ==
  \A o \in Accepted :
    hash[o] = "success" =>
      \E r \in rows : r.user = UserOf(o) /\ r.activity = ActivityOf(o)

\* An order nobody has settled is still known to both sides that could settle
\* it: the consumer group will hand its message out (again), and the delay
\* queue holds its entry.  No order of writes and no failure in between loses
\* it (grant_consumer.py 122-145, order_timeout.py 73-92).
NoOrderForgotten ==
  \A o \in Accepted :
    hash[o] = "processing" =>
      o \in delay /\ (o \in delivered => o \in pending)

\* "The orders of one user are handled one at a time" (grant_consumer.py 108,
\* order_timeout.py 80): between taking and releasing the lock of a user no
\* other consumer or scanner works on an order of that user.
OneHandlerPerUser ==
  \A s, t \in Tasks : \A o \in todo[s], p \in todo[t] :
    /\ s # t
    /\ Current(s, o) /\ pc[s] \in LockedPlaces
    /\ Current(t, p) /\ pc[t] \in LockedPlaces
    => UserOf(o) # UserOf(p)

\* A user is a member of the claimed set exactly as long as one of the user's
\* orders is being processed or granted, and two never are (seckill.lua 32-64
\* against the releases of cancel.lua and compensate.lua).
ClaimMatchesOrders ==
  \A u \in Users, a \in Activities :
    Cardinality({o \in OrdersFor(u, a) : Live(o)}) = (IF u \in claimed[a] THEN 1 ELSE 0)

\* A settled order keeps its status: a redelivered message, a late scan and a
\* repeated compensation find it and leave it (grant_consumer.py 119-128,
\* order_timeout.py 86-90).
FinalStatusStable ==
  [][\A o \in Accepted : hash[o] \in Settled => hash'[o] = hash[o]]_vars

\* "An order already granted must not have its stock released"
\* (order_timeout.py 87, cancel.lua 14): an order taken back has no row.
GrantedKeepsStock ==
  \A o \in Accepted : hash[o] \in {"failed", "cancelled"} => ~HasRow(o)

\* A unit held by a claim is either granted or on its way to be granted or
\* released: "orders that qualified and are not granted for long are released by
\* the delayed cancellation, so that no stock is deducted for ever" (README.md 13,
\* order_timeout.py 71-100).
NoUnitStranded ==
  \A a \in Activities : \A u \in claimed[a] : \E o \in OrdersFor(u, a) :
    HasRow(o) \/ o \in delay

Quiet ==
  /\ \A t \in Tasks : pc[t] = "idle"
  /\ delivered = Accepted /\ pending = {}
  /\ delay = {}

\* scripts/reconcile.py 24-62 finds nothing to report once the queues have
\* drained: the stock Redis sells from, the database stock and the orders
\* written agree.
Reconciled ==
  Quiet => \A a \in Activities :
    /\ stock[a] = dbStock[a]
    /\ stock[a] = InitialStock[a] - Cardinality(RowsOf(a))

\* Every accepted order is settled at last, by the consumer or by the scanner,
\* whatever died or raised on the way; it leaves the delay queue and its message
\* is acknowledged, for good: no entry is retried for ever and no order is left
\* processing with nobody to look at it.  (MaxOrders bounds the claims, so there
\* is a last one.)
EventuallySettled ==
  <>[](\A o \in Accepted :
         hash[o] # "processing" /\ o \in delivered /\ o \notin pending /\ o \notin delay)

\* Nobody keeps the lock of a user for ever, a dead process included.
LocksAreFreed ==
  \A u \in Users : []<>(lock[u] = NoTask)

-----------------------------------------------------------------------------
\* The database decides a grant, the scripts a return.
StateOf(o) ==
  CASE HasRow(o) -> "granted"
    [] ~HasRow(o) /\ hash[o] \in {"failed", "cancelled"} -> "returned"
    [] OTHER -> "reserved"

Sale == INSTANCE QuotaSale WITH
  left <- stock,
  book <- [o \in Accepted |->
             [user |-> UserOf(o), activity |-> ActivityOf(o), state |-> StateOf(o)]]

\* As long as no process dies, no lock lapses and no command raises, the two
\* stores and all the tasks together are one atomic ledger of reservations.
ImplementsQuotaSale == Sale!SaleSpec
=============================================================================
