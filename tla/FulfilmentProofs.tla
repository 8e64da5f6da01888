-------------------------- MODULE FulfilmentProofs --------------------------
(***************************************************************************)
(* For every number of processes, users, activities and orders, every      *)
(* batch size and any number of faults of any kind: the fulfilment runs    *)
(* the scripts and the transactions as their modules allow, so that what   *)
(* is proved of those holds of it; no unsettled order is ever forgotten;   *)
(* and, as long as no lock lapses, the orders of a user are handled one    *)
(* after the other.                                                        *)
(***************************************************************************)
EXTENDS Fulfilment, StoresProofs

-----------------------------------------------------------------------------
(* Every step is a step of the scripts and a step of the database *)

\* The invariant the step lemmas rest on: the types, and only an open
\* transaction holds a row.
TypesOK == FulfilmentTypeOK /\ RowsHeldByTxns

\* A task only handles orders that were accepted.
LEMMA BatchAccepted ==
  ASSUME FulfilmentTypeOK, NEW t \in Tasks, NEW o \in todo[t]
  PROVE  o \in Accepted
BY DEF FulfilmentTypeOK

LEMMA FaultRedisStep ==
  ASSUME TypesOK, Fault
  PROVE  [RedisNext]_redisVars
<1>1. ASSUME NEW o \in Accepted, HashExpires(o) PROVE RedisNext
  BY <1>1 DEF HashExpires, RedisNext
<1> QED
  BY <1>1 DEF Fault, ErrorInTry, ErrorInHandler, ErrorOutside, Shutdown, Crash,
              ErrorInScan, Lapse

LEMMA TaskRedisStep ==
  ASSUME TypesOK, NEW t \in Tasks, NEW o \in todo[t],
         \/ LockStep(t, o)
         \/ MarkGranted(t, o)
         \/ Compensate(t, o)
         \/ DropEntry(t, o)
         \/ Cancel(t, o)
  PROVE  [RedisNext]_redisVars
<1>1. o \in Accepted
  BY BatchAccepted DEF TypesOK
<1>2. CASE MarkSuccess(o) \/ CompensateScript(o) \/ Unschedule(o) \/ CancelScript(o)
  BY <1>1, <1>2 DEF RedisNext
<1>3. CASE UNCHANGED redisVars
  BY <1>3
<1> QED
  BY <1>2, <1>3 DEF LockStep, AcquireLock, LockBusy, CheckStatus, RemoveFromDelay,
                    ReleaseLock, ReleaseLost, Shutdown, MarkGranted, Compensate,
                    DropEntry, Cancel

LEMMA RedisSimulation ==
  ASSUME TypesOK, [Next]_vars
  PROVE  [RedisNext]_redisVars
<1>1. ASSUME NEW w \in Workers, WorkerStep(w) PROVE [RedisNext]_redisVars
  <2>1. ASSUME NEW o \in todo[w],
               LockStep(w, o) \/ MarkGranted(w, o) \/ Compensate(w, o)
        PROVE  [RedisNext]_redisVars
    BY <2>1, TaskRedisStep DEF Tasks
  <2> QED
    BY <1>1, <2>1 DEF WorkerStep, Recover, Read, BeginGrant, LockUserRow, CommitGrant,
                      RefuseGrant, ConflictGrant, Acknowledge, GiveUp, Shutdown
<1>2. ASSUME NEW c \in Cancellers, CancellerStep(c) PROVE [RedisNext]_redisVars
  <2>1. ASSUME NEW o \in todo[c], LockStep(c, o) \/ DropEntry(c, o) \/ Cancel(c, o)
        PROVE  [RedisNext]_redisVars
    BY <2>1, TaskRedisStep DEF Tasks
  <2> QED
    BY <1>2, <2>1 DEF CancellerStep, Scan, Peek
<1>3. ASSUME NEW u \in Users, NEW a \in Activities, UserClaims(u, a) PROVE RedisNext
  BY <1>3 DEF UserClaims, RedisNext
<1>4. CASE Fault
  BY <1>4, FaultRedisStep
<1>5. CASE UNCHANGED vars
  BY <1>5 DEF vars
<1> QED
  BY <1>1, <1>2, <1>3, <1>4, <1>5
  DEF Next, Restart, OrphanExpires, MessageAges, DeadlinePasses

LEMMA FaultDatabaseStep ==
  ASSUME TypesOK, Fault
  PROVE  [DatabaseNext]_databaseVars
<1>1. ASSUME NEW w \in Workers, Rollback(w) PROVE [DatabaseNext]_databaseVars
  BY <1>1, RollbackIsAbort DEF TypesOK, FulfilmentTypeOK
<1> QED
  BY <1>1 DEF Fault, ErrorInTry, ErrorInHandler, ErrorOutside, Shutdown, Crash, Halt,
              ErrorInScan, Lapse, HashExpires

LEMMA WorkerDatabaseStep ==
  ASSUME TypesOK, NEW w \in Workers, WorkerStep(w)
  PROVE  [DatabaseNext]_databaseVars
<1>1. ASSUME Rollback(w) PROVE [DatabaseNext]_databaseVars
  BY <1>1, RollbackIsAbort DEF TypesOK, FulfilmentTypeOK
<1>2. ASSUME NEW o \in todo[w], BeginGrant(w, o) PROVE [DatabaseNext]_databaseVars
  <2>1. MessageOf(o) \in Message
    BY BatchAccepted, OrderFields DEF TypesOK, FulfilmentTypeOK, Tasks, MessageOf, Message
  <2> QED
    BY <1>2, <2>1 DEF BeginGrant, DatabaseNext
<1>3. CASE TxnLock(w) \/ TxnCommit(w) \/ TxnRefuse(w) \/ TxnConflict(w)
  BY <1>3 DEF DatabaseNext
<1> QED
  BY <1>1, <1>2, <1>3
  DEF WorkerStep, Recover, Read, LockStep, AcquireLock, LockBusy, CheckStatus,
      RemoveFromDelay, ReleaseLock, ReleaseLost, Shutdown, Halt, LockUserRow,
      CommitGrant, RefuseGrant, ConflictGrant, MarkGranted, Compensate,
      Acknowledge, GiveUp

LEMMA DatabaseSimulation ==
  ASSUME TypesOK, [Next]_vars
  PROVE  [DatabaseNext]_databaseVars
<1>1. ASSUME NEW c \in Cancellers, CancellerStep(c) PROVE UNCHANGED databaseVars
  <2>1. c \notin Workers
    BY BaseAssumption DEF BaseAssumption
  <2> QED
    BY <1>1, <2>1
    DEF CancellerStep, Scan, Peek, DropEntry, Cancel, LockStep, AcquireLock, LockBusy,
        CheckStatus, RemoveFromDelay, ReleaseLock, ReleaseLost
<1>2. CASE UNCHANGED databaseVars
  BY <1>2
<1>3. CASE \E u \in Users, a \in Activities : UserClaims(u, a)
  BY <1>3 DEF UserClaims
<1>4. CASE UNCHANGED vars
  BY <1>4 DEF vars
<1> QED
  BY <1>1, <1>2, <1>3, <1>4, WorkerDatabaseStep, FaultDatabaseStep
  DEF Next, Restart, OrphanExpires, MessageAges, DeadlinePasses

-----------------------------------------------------------------------------
(* Types *)

\* The part of the type invariant that is about tasks, locks and time.
TasksTypeOK ==
  /\ delivered \subseteq Accepted
  /\ pending \subseteq delivered
  /\ stale \subseteq pending
  /\ due \subseteq Accepted
  /\ lock \in [Users -> Tasks \cup {NoTask, Orphan}]
  /\ pc \in [Tasks -> Places]
  /\ turn \in [Workers -> {"recover", "read"}]
  /\ todo \in [Tasks -> SUBSET Accepted]
  /\ budget \in [FaultKind -> Nat]

LEMMA FirstOfSubset ==
  ASSUME NEW S, NEW k
  PROVE  FirstOf(S, k) \subseteq S
BY DEF FirstOf

LEMMA GotoType ==
  ASSUME TasksTypeOK, Accepted \subseteq Accepted',
         NEW t \in Tasks, NEW place \in Places, Goto(t, place)
  PROVE  /\ pc' \in [Tasks -> Places]
         /\ turn' \in [Workers -> {"recover", "read"}]
         /\ todo' \in [Tasks -> SUBSET Accepted']
BY DEF TasksTypeOK, Goto

LEMMA FetchedType ==
  ASSUME TasksTypeOK, Accepted \subseteq Accepted',
         NEW t \in Tasks, NEW batch, batch \subseteq Accepted, Fetched(t, batch)
  PROVE  /\ pc' \in [Tasks -> Places]
         /\ todo' \in [Tasks -> SUBSET Accepted']
<1>1. "idle" \in Places /\ Entrance(t) \in Places
  BY DEF Entrance, Places
<1> QED
  BY <1>1 DEF TasksTypeOK, Fetched

LEMMA HaltType ==
  ASSUME TasksTypeOK, Accepted \subseteq Accepted', NEW w \in Workers, Halt(w)
  PROVE  /\ pc' \in [Tasks -> Places]
         /\ turn' \in [Workers -> {"recover", "read"}]
         /\ todo' \in [Tasks -> SUBSET Accepted']
<1>1. "down" \in Places
  BY DEF Places
<1> QED
  BY <1>1 DEF TasksTypeOK, Halt

LEMMA LocksBecomeType ==
  ASSUME TasksTypeOK, NEW w, NEW value \in {NoTask, Orphan}, LocksBecome(w, value)
  PROVE  lock' \in [Users -> Tasks \cup {NoTask, Orphan}]
BY DEF TasksTypeOK, LocksBecome

LEMMA SpendType ==
  ASSUME TasksTypeOK, NEW fault \in FaultKind, Spend(fault)
  PROVE  budget' \in [FaultKind -> Nat]
<1>1. budget[fault] \in Nat /\ budget[fault] - 1 \in Nat
  BY DEF TasksTypeOK, Spend
<1> QED
  BY <1>1 DEF TasksTypeOK, Spend

\* A task moves on and nothing else of this part changes.
LEMMA MoveType ==
  ASSUME TasksTypeOK, Accepted \subseteq Accepted',
         NEW t \in Tasks, NEW place \in Places, Goto(t, place),
         UNCHANGED <<groupVars, due, lock, budget>>
  PROVE  TasksTypeOK'
BY GotoType DEF TasksTypeOK, groupVars

LEMMA ShutdownType ==
  ASSUME TasksTypeOK, Accepted \subseteq Accepted', NEW w \in Workers, Shutdown(w),
         budget' \in [FaultKind -> Nat]
  PROVE  TasksTypeOK'
<1>1. lock' \in [Users -> Tasks \cup {NoTask, Orphan}]
  BY LocksBecomeType DEF Shutdown
<1> QED
  BY <1>1, HaltType DEF TasksTypeOK, Shutdown, groupVars

LEMMA LockStepType ==
  ASSUME TasksTypeOK, Accepted \subseteq Accepted',
         NEW t \in Tasks, NEW o \in todo[t], LockStep(t, o)
  PROVE  TasksTypeOK'
<1> USE DEF LockStep
<1>1. todo[t] \subseteq Accepted
  BY DEF TasksTypeOK
<1>2. {"check", "begin", "cancel", "unschedule", "ack", "release"} \subseteq Places
  BY DEF Places, LockedPlaces, TryPlaces
<1>3. CASE AcquireLock(t, o)
  BY <1>2, <1>3, GotoType DEF AcquireLock, TasksTypeOK, groupVars
<1>4. CASE LockBusy(t, o)
  BY <1>1, <1>4, FetchedType DEF LockBusy, Done, TasksTypeOK, groupVars
<1>5. CASE CheckStatus(t, o)
  BY <1>2, <1>5, MoveType DEF CheckStatus
<1>6. CASE RemoveFromDelay(t, o)
  BY <1>2, <1>6, MoveType DEF RemoveFromDelay
<1>7. CASE ReleaseLock(t, o)
  BY <1>1, <1>7, FetchedType DEF ReleaseLock, Done, TasksTypeOK, groupVars
<1>8. CASE ReleaseLost(t, o)
  <2>1. budget' \in [FaultKind -> Nat]
    BY <1>8 DEF ReleaseLost, TasksTypeOK
  <2>2. CASE t \in Workers /\ Shutdown(t)
    BY <2>1, <2>2, ShutdownType
  <2>3. CASE Fetched(t, {}) /\ UNCHANGED <<groupVars, turn, due, lock>>
    BY <2>1, <2>3, FetchedType DEF TasksTypeOK, groupVars
  <2> QED
    BY <1>8, <2>2, <2>3 DEF ReleaseLost
<1> QED
  BY <1>3, <1>4, <1>5, <1>6, <1>7, <1>8

LEMMA WorkerStepType ==
  ASSUME TasksTypeOK, Accepted \subseteq Accepted', NEW w \in Workers, WorkerStep(w)
  PROVE  TasksTypeOK'
<1>1. w \in Tasks
  BY DEF Tasks
<1>2. {"mark", "grant", "compensate", "release", "unschedule", "reject"} \subseteq Places
  BY DEF Places, LockedPlaces, TryPlaces, HandlerPlaces
<1>3. CASE Recover(w)
  <2>1. FirstOf(stale, BatchSize) \subseteq Accepted
    BY FirstOfSubset DEF TasksTypeOK
  <2> QED
    BY <1>1, <1>3, <2>1, FetchedType DEF Recover, TasksTypeOK
<1>4. CASE Read(w)
  <2>1. FirstOf(Accepted \ delivered, BatchSize) \subseteq Accepted
    BY FirstOfSubset
  <2> QED
    BY <1>1, <1>4, <2>1, FetchedType DEF Read, TasksTypeOK
<1>5. ASSUME NEW o \in todo[w], LockStep(w, o) PROVE TasksTypeOK'
  BY <1>1, <1>5, LockStepType
<1>6. ASSUME NEW o \in todo[w],
             \/ BeginGrant(w, o)
             \/ CommitGrant(w, o)
             \/ RefuseGrant(w, o)
             \/ ConflictGrant(w, o)
             \/ MarkGranted(w, o)
             \/ Compensate(w, o)
      PROVE  TasksTypeOK'
  BY <1>1, <1>2, <1>6, MoveType
  DEF BeginGrant, CommitGrant, RefuseGrant, ConflictGrant, MarkGranted, Compensate
<1>7. ASSUME NEW o \in todo[w], LockUserRow(w, o) PROVE TasksTypeOK'
  BY <1>7 DEF LockUserRow, TasksTypeOK, groupVars, taskVars
<1>8. ASSUME NEW o \in todo[w], Acknowledge(w, o) PROVE TasksTypeOK'
  BY <1>1, <1>2, <1>8, GotoType DEF Acknowledge, TasksTypeOK
<1>9. ASSUME NEW o \in todo[w], GiveUp(w, o) PROVE TasksTypeOK'
  BY <1>9, ShutdownType DEF GiveUp, TasksTypeOK
<1> QED
  BY <1>3, <1>4, <1>5, <1>6, <1>7, <1>8, <1>9 DEF WorkerStep

\* A scanner that still has the order after its look goes on with it.
LEMMA PeekGoesOn ==
  ASSUME TasksTypeOK, NEW c \in Tasks, NEW o, Peek(c, o), todo'[c] # {}
  PROVE  \/ hash[o] = "none" /\ Goto(c, "drop") /\ pc'[c] = "drop"
         \/ hash[o] # "none" /\ Goto(c, "lock") /\ pc'[c] = "lock"
BY DEF Peek, Fetched, Goto, TasksTypeOK

LEMMA CancellerStepType ==
  ASSUME TasksTypeOK, Accepted \subseteq Accepted', NEW c \in Cancellers, CancellerStep(c)
  PROVE  TasksTypeOK'
<1>1. c \in Tasks
  BY DEF Tasks
<1>2. {"drop", "lock", "release"} \subseteq Places
  BY DEF Places, LockedPlaces
<1>3. CASE Scan(c)
  <2>1. FirstOf(due \cap delay, ScanSize) \subseteq Accepted
    BY FirstOfSubset DEF TasksTypeOK
  <2> QED
    BY <1>1, <1>3, <2>1, FetchedType DEF Scan, TasksTypeOK, groupVars
<1>4. ASSUME NEW o \in todo[c], LockStep(c, o) PROVE TasksTypeOK'
  BY <1>1, <1>4, LockStepType
<1>5. ASSUME NEW o \in todo[c], Peek(c, o) \/ Cancel(c, o) PROVE TasksTypeOK'
  BY <1>1, <1>2, <1>5, MoveType, FetchedType DEF Peek, Cancel, TasksTypeOK, groupVars
<1>6. ASSUME NEW o \in todo[c], DropEntry(c, o) PROVE TasksTypeOK'
  <2>1. todo[c] \ {o} \subseteq Accepted
    BY <1>1 DEF TasksTypeOK
  <2> QED
    BY <1>1, <1>6, <2>1, FetchedType DEF DropEntry, Done, TasksTypeOK, groupVars
<1> QED
  BY <1>3, <1>4, <1>5, <1>6 DEF CancellerStep

LEMMA FaultType ==
  ASSUME TasksTypeOK, Accepted \subseteq Accepted', Fault
  PROVE  TasksTypeOK'
<1>1. {"crash", "lapse", "error", "expiry"} \subseteq FaultKind
  BY DEF FaultKind
<1>2. {"release", "giveup"} \subseteq Places
  BY DEF Places, LockedPlaces
<1>3. Workers \subseteq Tasks /\ Cancellers \subseteq Tasks
  BY DEF Tasks
<1>4. ASSUME NEW w \in Workers, NEW o \in todo[w], ErrorInTry(w, o) \/ ErrorInHandler(w, o)
      PROVE  TasksTypeOK'
  <2>1. budget' \in [FaultKind -> Nat]
    BY <1>1, <1>4, SpendType DEF ErrorInTry, ErrorInHandler
  <2> QED
    BY <1>2, <1>3, <1>4, <2>1, GotoType DEF ErrorInTry, ErrorInHandler, TasksTypeOK, groupVars
<1>5. ASSUME NEW w \in Workers, ErrorOutside(w) PROVE TasksTypeOK'
  BY <1>1, <1>5, SpendType, ShutdownType DEF ErrorOutside
<1>6. ASSUME NEW w \in Workers, Crash(w) PROVE TasksTypeOK'
  <2>1. budget' \in [FaultKind -> Nat] /\ lock' \in [Users -> Tasks \cup {NoTask, Orphan}]
    BY <1>1, <1>6, SpendType, LocksBecomeType DEF Crash
  <2> QED
    BY <1>6, <2>1, HaltType DEF Crash, TasksTypeOK, groupVars
<1>7. ASSUME NEW c \in Cancellers, NEW o \in todo[c], ErrorInScan(c, o) PROVE TasksTypeOK'
  <2>1. budget' \in [FaultKind -> Nat]
    BY <1>1, <1>7, SpendType DEF ErrorInScan
  <2>2. lock' \in [Users -> Tasks \cup {NoTask, Orphan}]
    BY <1>7 DEF ErrorInScan, TasksTypeOK
  <2>3. pc' \in [Tasks -> Places] /\ todo' \in [Tasks -> SUBSET Accepted']
    <3>1. CASE Fetched(c, {})
      BY <1>3, <3>1, FetchedType
    <3>2. CASE todo' = [todo EXCEPT ![c] = {o}] /\ pc' = [pc EXCEPT ![c] = "release"]
      BY <1>2, <1>3, <3>2 DEF TasksTypeOK
    <3> QED
      BY <1>7, <3>1, <3>2 DEF ErrorInScan
  <2> QED
    BY <1>7, <2>1, <2>2, <2>3 DEF ErrorInScan, TasksTypeOK, groupVars
<1>8. ASSUME NEW u \in Users, Lapse(u) PROVE TasksTypeOK'
  BY <1>1, <1>8, SpendType DEF Lapse, TasksTypeOK, groupVars, taskVars
<1>9. ASSUME NEW o \in Accepted, HashExpires(o) PROVE TasksTypeOK'
  BY <1>1, <1>9, SpendType DEF HashExpires, TasksTypeOK, groupVars, taskVars
<1> QED
  BY <1>4, <1>5, <1>6, <1>7, <1>8, <1>9 DEF Fault

LEMMA TasksTypeStep ==
  ASSUME TasksTypeOK, Accepted \subseteq Accepted', [Next]_vars
  PROVE  TasksTypeOK'
<1>1. CASE \E u \in Users, a \in Activities : UserClaims(u, a)
  BY <1>1 DEF UserClaims, TasksTypeOK, groupVars, taskVars
<1>2. ASSUME NEW w \in Workers, Restart(w) PROVE TasksTypeOK'
  <2>1. "idle" \in Places
    BY DEF Places
  <2> QED
    BY <1>2, <2>1 DEF Restart, TasksTypeOK, groupVars
<1>3. ASSUME NEW u \in Users, OrphanExpires(u) PROVE TasksTypeOK'
  BY <1>3 DEF OrphanExpires, TasksTypeOK, groupVars, taskVars
<1>4. ASSUME NEW o \in Accepted, MessageAges(o) \/ DeadlinePasses(o) PROVE TasksTypeOK'
  BY <1>4 DEF MessageAges, DeadlinePasses, TasksTypeOK, groupVars, taskVars
<1>5. CASE UNCHANGED vars
  BY <1>5 DEF vars, groupVars, taskVars, TasksTypeOK
<1> QED
  BY <1>1, <1>2, <1>3, <1>4, <1>5, WorkerStepType, CancellerStepType, FaultType DEF Next

LEMMA TypesStep ==
  ASSUME TypesOK, [Next]_vars
  PROVE  TypesOK'
<1>1. RedisTypeOK /\ DatabaseTypeOK /\ TasksTypeOK /\ RowsHeldByTxns
  BY DEF TypesOK, FulfilmentTypeOK, TasksTypeOK
<1>2. RedisTypeOK' /\ Accepted \subseteq Accepted'
  BY <1>1, RedisSimulation, RedisStepType, StreamGrows
<1>3. DatabaseTypeOK' /\ RowsHeldByTxns'
  BY <1>1, DatabaseSimulation, DatabaseStepType, RowsHeldByTxnsStep
<1>4. TasksTypeOK'
  BY <1>1, <1>2, TasksTypeStep
<1> QED
  BY <1>2, <1>3, <1>4 DEF TypesOK, FulfilmentTypeOK, TasksTypeOK

LEMMA TypesInit == Init => TypesOK
<1>1. ASSUME Init PROVE TasksTypeOK
  <2>1. "idle" \in Places
    BY DEF Places
  <2> QED
    BY <1>1, <2>1, FulfilmentAssumption DEF Init, TasksInit, TasksTypeOK, FulfilmentAssumption
<1> QED
  BY <1>1, RedisInitType, DatabaseInitType, RowsHeldByTxnsInit
  DEF Init, TasksInit, TypesOK, FulfilmentTypeOK, TasksTypeOK

LEMMA TypesAlways == Spec => []TypesOK
BY TypesInit, TypesStep, PTL DEF Spec

\* The whole state stays well formed under every fault.
THEOREM FulfilmentTypeCorrect == Spec => []FulfilmentTypeOK
BY TypesAlways, PTL DEF TypesOK

\* Consumers, scanners and users only ever run the scripts and the
\* transactions as those allow: what the two component specifications promise
\* holds of the composed system, whatever fails.
THEOREM FulfilmentUsesScripts == Spec => RedisSpec
<1>1. Init => RedisInit
  BY DEF Init, TasksInit
<1> QED
  BY <1>1, TypesAlways, RedisSimulation, PTL DEF Spec, RedisSpec

\* The same of the database: whatever a consumer is cut off by, what it leaves
\* there are transactions as grant.py 60-125 runs them.
THEOREM FulfilmentUsesTransactions == Spec => DatabaseSpec
<1>1. Init => DatabaseInit
  BY DEF Init, TasksInit
<1> QED
  BY <1>1, TypesAlways, DatabaseSimulation, PTL DEF Spec, DatabaseSpec

\* Hence no crash, lapse, error or expiry, in any number, loses or duplicates a
\* unit on either side, or a credit.
THEOREM FulfilmentConserves ==
  Spec => [](StockConserved /\ NoOversell /\ OneGrantPerUser /\ LedgerExplainsBalance)
BY FulfilmentUsesScripts, FulfilmentUsesTransactions, StockIsConserved,
   NeverOversold, GrantsAreUnique, LedgerIsExact, PTL

-----------------------------------------------------------------------------
(* How a task comes to where it is *)

\* A task works on one order at a time.
LEMMA CurrentUnique ==
  ASSUME TasksTypeOK, RedisTypeOK, NEW t \in Tasks, NEW o, NEW p,
         Current(t, o), Current(t, p)
  PROVE  o = p
<1>1. todo[t] \subseteq Nat
  BY LenProperties DEF TasksTypeOK, RedisTypeOK, Accepted
<1> QED
  BY <1>1 DEF Current

\* Places a task reaches only by moving on with the order it has.
Inner == LockedPlaces \cup {"drop"}

LEMMA OuterPlaces == {"idle", "lock", "peek", "down"} \cap Inner = {}
BY DEF Inner, LockedPlaces, TryPlaces, HandlerPlaces

LEMMA GotoArrival ==
  ASSUME TasksTypeOK, NEW t \in Tasks, NEW place, Goto(t, place),
         NEW s \in Tasks, NEW o, Current(s, o)'
  PROVE  /\ Current(s, o)
         /\ pc'[s] = IF s = t THEN place ELSE pc[s]
BY DEF TasksTypeOK, Goto, Current

LEMMA FetchedArrival ==
  ASSUME TasksTypeOK, NEW t \in Tasks, NEW batch, Fetched(t, batch),
         NEW s \in Tasks, NEW o, Current(s, o)', pc'[s] \in Inner
  PROVE  s # t /\ Current(s, o) /\ pc'[s] = pc[s]
<1>1. pc'[t] \in {"idle", "lock", "peek"}
  BY DEF TasksTypeOK, Fetched, Entrance
<1>2. s # t
  BY <1>1, OuterPlaces
<1> QED
  BY <1>2 DEF TasksTypeOK, Fetched, Current

LEMMA HaltArrival ==
  ASSUME TasksTypeOK, NEW w \in Workers, Halt(w),
         NEW s \in Tasks, NEW o, Current(s, o)', pc'[s] \in Inner
  PROVE  s \notin ProcessOf(w) /\ Current(s, o) /\ pc'[s] = pc[s]
<1>1. s \notin ProcessOf(w)
  BY OuterPlaces DEF Halt
<1> QED
  BY <1>1 DEF Halt, Current

\* The steps of task s on order o that lead from one inner place to another,
\* or into the first one.
Advance(s, o) ==
  \/ AcquireLock(s, o)
  \/ CheckStatus(s, o)
  \/ RemoveFromDelay(s, o)
  \/ Peek(s, o)
  \/ /\ s \in Workers
     /\ \/ BeginGrant(s, o)
        \/ CommitGrant(s, o)
        \/ RefuseGrant(s, o)
        \/ MarkGranted(s, o)
        \/ Compensate(s, o)

\* What task s may have done when it ends up at an inner place with order o.
Arrives(s, o) ==
  /\ Current(s, o)
  /\ \/ pc'[s] = pc[s]
     \/ Advance(s, o)
     \/ pc'[s] \in {"release", "giveup"} /\ pc[s] \in LockedPlaces

LEMMA LockStepArrival ==
  ASSUME TasksTypeOK, RedisTypeOK, NEW t \in Tasks, NEW p \in todo[t], LockStep(t, p),
         NEW s \in Tasks, NEW o, Current(s, o)', pc'[s] \in Inner
  PROVE  Arrives(s, o)
<1>1. CASE AcquireLock(t, p) \/ CheckStatus(t, p) \/ RemoveFromDelay(t, p)
  <2>1. \E place : Goto(t, place) /\ Current(t, p)
    BY <1>1 DEF AcquireLock, CheckStatus, RemoveFromDelay, At
  <2>2. Current(s, o) /\ (s # t => pc'[s] = pc[s])
    BY <2>1, GotoArrival
  <2>3. CASE s = t
    BY <1>1, <2>1, <2>2, <2>3, CurrentUnique DEF Arrives, Advance
  <2> QED
    BY <2>2, <2>3 DEF Arrives
<1>2. CASE LockBusy(t, p) \/ ReleaseLock(t, p)
  <2>1. \E batch : Fetched(t, batch)
    BY <1>2 DEF LockBusy, ReleaseLock, Done
  <2> QED
    BY <2>1, FetchedArrival DEF Arrives
<1>3. CASE ReleaseLost(t, p)
  BY <1>3, FetchedArrival, HaltArrival DEF ReleaseLost, Shutdown, Arrives
<1> QED
  BY <1>1, <1>2, <1>3 DEF LockStep

LEMMA WorkerArrival ==
  ASSUME TasksTypeOK, RedisTypeOK, NEW w \in Workers, WorkerStep(w),
         NEW s \in Tasks, NEW o, Current(s, o)', pc'[s] \in Inner
  PROVE  Arrives(s, o)
<1>1. w \in Tasks
  BY DEF Tasks
<1>2. CASE Recover(w) \/ Read(w)
  <2>1. \E batch : Fetched(w, batch)
    BY <1>2 DEF Recover, Read
  <2> QED
    BY <1>1, <2>1, FetchedArrival DEF Arrives
<1>3. ASSUME NEW p \in todo[w], LockStep(w, p) PROVE Arrives(s, o)
  BY <1>1, <1>3, LockStepArrival
<1>4. ASSUME NEW p \in todo[w],
             \/ BeginGrant(w, p)
             \/ CommitGrant(w, p)
             \/ RefuseGrant(w, p)
             \/ MarkGranted(w, p)
             \/ Compensate(w, p)
      PROVE  Arrives(s, o)
  <2>1. \E place : Goto(w, place) /\ Current(w, p)
    BY <1>4 DEF BeginGrant, CommitGrant, RefuseGrant, MarkGranted, Compensate, At
  <2>2. Current(s, o) /\ (s # w => pc'[s] = pc[s])
    BY <1>1, <2>1, GotoArrival
  <2>3. CASE s = w
    BY <1>1, <1>4, <2>1, <2>2, <2>3, CurrentUnique DEF Arrives, Advance
  <2> QED
    BY <2>2, <2>3 DEF Arrives
<1>5. ASSUME NEW p \in todo[w], ConflictGrant(w, p) \/ Acknowledge(w, p)
      PROVE  Arrives(s, o)
  <2>1. Goto(w, "release") /\ pc[w] \in LockedPlaces
    BY <1>5 DEF ConflictGrant, Acknowledge, At, LockedPlaces, TryPlaces, HandlerPlaces
  <2> QED
    BY <1>1, <2>1, GotoArrival DEF Arrives
<1>6. ASSUME NEW p \in todo[w], LockUserRow(w, p) PROVE Arrives(s, o)
  BY <1>6 DEF LockUserRow, taskVars, Arrives, Current
<1>7. ASSUME NEW p \in todo[w], GiveUp(w, p) PROVE Arrives(s, o)
  BY <1>7, HaltArrival DEF GiveUp, Shutdown, Arrives
<1> QED
  BY <1>2, <1>3, <1>4, <1>5, <1>6, <1>7, WorkerStep(w) DEF WorkerStep

LEMMA CancellerArrival ==
  ASSUME TasksTypeOK, RedisTypeOK, NEW c \in Cancellers, CancellerStep(c),
         NEW s \in Tasks, NEW o, Current(s, o)', pc'[s] \in Inner
  PROVE  Arrives(s, o)
<1>1. c \in Tasks
  BY DEF Tasks
<1>2. CASE Scan(c)
  BY <1>1, <1>2, FetchedArrival DEF Scan, Arrives
<1>3. ASSUME NEW p \in todo[c], LockStep(c, p) PROVE Arrives(s, o)
  BY <1>1, <1>3, LockStepArrival
<1>4. ASSUME NEW p \in todo[c], Peek(c, p) PROVE Arrives(s, o)
  <2>1. CASE \E place : Goto(c, place) /\ Current(c, p)
    <3>1. Current(s, o) /\ (s # c => pc'[s] = pc[s])
      BY <1>1, <2>1, GotoArrival
    <3>2. CASE s = c
      BY <1>1, <1>4, <2>1, <3>1, <3>2, CurrentUnique DEF Arrives, Advance
    <3> QED
      BY <3>1, <3>2 DEF Arrives
  <2>2. CASE Fetched(c, {})
    BY <1>1, <2>2, FetchedArrival DEF Arrives
  <2> QED
    BY <1>4, <2>1, <2>2 DEF Peek, At
<1>5. ASSUME NEW p \in todo[c], DropEntry(c, p) PROVE Arrives(s, o)
  BY <1>1, <1>5, FetchedArrival DEF DropEntry, Done, Arrives
<1>6. ASSUME NEW p \in todo[c], Cancel(c, p) PROVE Arrives(s, o)
  <2>1. Goto(c, "release") /\ pc[c] \in LockedPlaces
    BY <1>6 DEF Cancel, At, LockedPlaces
  <2> QED
    BY <1>1, <2>1, GotoArrival DEF Arrives
<1> QED
  BY <1>2, <1>3, <1>4, <1>5, <1>6, CancellerStep(c) DEF CancellerStep

LEMMA FaultArrival ==
  ASSUME TasksTypeOK, RedisTypeOK, Fault,
         NEW s \in Tasks, NEW o, Current(s, o)', pc'[s] \in Inner
  PROVE  Arrives(s, o)
<1>1. ASSUME NEW w \in Workers, NEW p \in todo[w], ErrorInTry(w, p) \/ ErrorInHandler(w, p)
      PROVE  Arrives(s, o)
  <2>1. /\ w \in Tasks /\ pc[w] \in LockedPlaces
        /\ \E place \in {"release", "giveup"} : Goto(w, place)
    BY <1>1 DEF ErrorInTry, ErrorInHandler, At, LockedPlaces, Tasks
  <2> QED
    BY <2>1, GotoArrival DEF Arrives
<1>2. ASSUME NEW w \in Workers, Halt(w) PROVE Arrives(s, o)
  BY <1>2, HaltArrival DEF Arrives
<1>3. ASSUME NEW c \in Cancellers, NEW p \in todo[c], ErrorInScan(c, p) PROVE Arrives(s, o)
  <2>1. c \in Tasks
    BY DEF Tasks
  <2>2. CASE Fetched(c, {})
    BY <2>1, <2>2, FetchedArrival DEF Arrives
  <2>3. CASE /\ \E place \in ScannerTryPlaces : At(c, p, place)
             /\ todo' = [todo EXCEPT ![c] = {p}]
             /\ pc' = [pc EXCEPT ![c] = "release"]
    <3>1. Current(c, p) /\ pc[c] \in LockedPlaces
      BY <2>3 DEF At, ScannerTryPlaces, LockedPlaces, TryPlaces
    <3>2. CASE s = c
      <4>1. todo'[c] = {p} /\ pc'[c] = "release"
        BY <2>1, <2>3 DEF TasksTypeOK
      <4>2. o = p
        BY <3>2, <4>1 DEF Current
      <4> QED
        BY <3>1, <3>2, <4>1, <4>2 DEF Arrives
    <3>3. CASE s # c
      BY <2>3, <3>3 DEF TasksTypeOK, Arrives, Current
    <3> QED
      BY <3>2, <3>3
  <2> QED
    BY <1>3, <2>2, <2>3 DEF ErrorInScan
<1>4. CASE UNCHANGED taskVars
  BY <1>4 DEF taskVars, Arrives, Current
<1> QED
  BY <1>1, <1>2, <1>3, <1>4, Fault
  DEF Fault, ErrorOutside, Shutdown, Crash, Lapse, HashExpires

LEMMA Arrival ==
  ASSUME TypesOK, [Next]_vars,
         NEW s \in Tasks, NEW o, Current(s, o)', pc'[s] \in Inner
  PROVE  Arrives(s, o)
<1>1. TasksTypeOK /\ RedisTypeOK
  BY DEF TypesOK, FulfilmentTypeOK, TasksTypeOK
<1>2. ASSUME NEW w \in Workers, Restart(w) PROVE Arrives(s, o)
  <2>1. s \notin ProcessOf(w)
    BY <1>2, OuterPlaces DEF Restart
  <2> QED
    BY <1>2, <2>1 DEF Restart, Arrives, Current
<1>3. CASE UNCHANGED taskVars
  BY <1>3 DEF taskVars, Arrives, Current
<1> QED
  BY <1>1, <1>2, <1>3, WorkerArrival, CancellerArrival, FaultArrival
  DEF Next, UserClaims, OrphanExpires, MessageAges, DeadlinePasses, vars

-----------------------------------------------------------------------------
(* No unsettled order is forgotten *)

\* The places a task reaches only after the order in its hands was settled or
\* lost its hash, and where it removes the traces of the order.
CleaningPlaces == {"unschedule", "ack", "reject", "drop"}

\* What makes NoOrderForgotten inductive: a task cleans up settled orders only.
CleansSettledOnly ==
  \A t \in Tasks : \A o \in todo[t] :
    Current(t, o) /\ pc[t] \in CleaningPlaces => hash[o] # "processing"

\* No script makes an accepted order a processing one again.
LEMMA NeverProcessingAgain ==
  ASSUME RedisTypeOK, [RedisNext]_redisVars, NEW o \in Accepted, hash'[o] = "processing"
  PROVE  hash[o] = "processing"
<1>1. o \in Orders /\ o \in 1 .. Len(stream) /\ Len(stream) \in Nat
  BY OrderFields, LenProperties DEF RedisTypeOK, Accepted
<1>2. ASSUME NEW u \in Users, NEW a \in Activities, Claim(u, a) PROVE hash'[o] = hash[o]
  BY <1>1, <1>2 DEF Claim, RedisTypeOK
<1> QED
  BY <1>1, <1>2
  DEF RedisNext, CancelScript, CompensateScript, MarkSuccess, Unschedule, ExpireHash,
      CloseActivity, redisVars, RedisTypeOK

LEMMA CleansSettledOnlyStep ==
  ASSUME TypesOK, CleansSettledOnly, [Next]_vars
  PROVE  CleansSettledOnly'
<1> SUFFICES ASSUME NEW s \in Tasks, NEW o \in todo'[s], Current(s, o)',
                    pc'[s] \in CleaningPlaces
             PROVE  hash'[o] # "processing"
  BY DEF CleansSettledOnly
<1>1. pc'[s] \in Inner
  BY DEF CleaningPlaces, Inner, LockedPlaces, TryPlaces, HandlerPlaces
<1>2. Arrives(s, o)
  BY <1>1, Arrival
<1>3. Current(s, o) /\ o \in todo[s] /\ o \in Accepted /\ o \in Orders /\ s \in Tasks
  BY <1>2, BatchAccepted, OrderFields DEF Arrives, Current, TypesOK, FulfilmentTypeOK
<1>4. hash[o] # "processing" => hash'[o] # "processing"
  BY <1>3, RedisSimulation, NeverProcessingAgain DEF TypesOK, FulfilmentTypeOK
<1>5. CASE pc'[s] = pc[s]
  BY <1>3, <1>4, <1>5 DEF CleansSettledOnly
<1>6. CASE AcquireLock(s, o) \/ BeginGrant(s, o) \/ CommitGrant(s, o) \/ RefuseGrant(s, o)
  <2>1. pc'[s] \in {"check", "mark", "grant", "compensate"}
    BY <1>3, <1>6
    DEF AcquireLock, BeginGrant, CommitGrant, RefuseGrant, Goto, TypesOK, FulfilmentTypeOK
  <2> QED
    BY <2>1 DEF CleaningPlaces
<1>7. CASE CheckStatus(s, o)
  <2>1. CASE hash[o] # "processing"
    BY <1>4, <2>1
  <2>2. CASE hash[o] = "processing"
    <3>1. pc'[s] \in {"begin", "cancel"}
      BY <1>3, <1>7, <2>2 DEF CheckStatus, Goto, TypesOK, FulfilmentTypeOK
    <3> QED
      BY <3>1 DEF CleaningPlaces
  <2> QED
    BY <2>1, <2>2
<1>8. CASE RemoveFromDelay(s, o)
  BY <1>3, <1>4, <1>8 DEF RemoveFromDelay, At, CleansSettledOnly, CleaningPlaces
<1>9. CASE Peek(s, o)
  <2>1. CASE hash[o] = "none"
    BY <1>4, <2>1
  <2>2. CASE hash[o] # "none"
    <3>1. pc'[s] = "lock"
      BY <1>3, <1>9, <2>2, PeekGoesOn DEF TypesOK, FulfilmentTypeOK, TasksTypeOK
    <3> QED
      BY <3>1 DEF CleaningPlaces
  <2> QED
    BY <2>1, <2>2
<1>10. CASE MarkGranted(s, o) \/ Compensate(s, o)
  BY <1>3, <1>10
  DEF MarkGranted, MarkSuccess, Compensate, CompensateScript, TypesOK, FulfilmentTypeOK,
      RedisTypeOK
<1>11. CASE pc'[s] \in {"release", "giveup"}
  BY <1>11 DEF CleaningPlaces
<1> QED
  BY <1>2, <1>5, <1>6, <1>7, <1>8, <1>9, <1>10, <1>11 DEF Arrives, Advance

LEMMA CleansSettledOnlyInit == Init => CleansSettledOnly
BY DEF Init, TasksInit, CleansSettledOnly

\* The entry of an order leaves the delay queue only once it is settled.
LEMMA DelayKept ==
  ASSUME TypesOK, CleansSettledOnly, [Next]_vars,
         NEW o \in Accepted, o \in delay, hash'[o] = "processing"
  PROVE  o \in delay'
<1>1. o \in Orders /\ hash[o] = "processing"
  BY OrderFields, RedisSimulation, NeverProcessingAgain DEF TypesOK, FulfilmentTypeOK
<1>2. ASSUME NEW t \in Tasks, NEW p \in todo[t], RemoveFromDelay(t, p) \/ DropEntry(t, p)
      PROVE  o \in delay'
  <2>1. hash[p] # "processing"
    BY <1>2 DEF RemoveFromDelay, DropEntry, At, CleansSettledOnly, CleaningPlaces
  <2> QED
    BY <1>1, <1>2, <2>1 DEF RemoveFromDelay, DropEntry, Unschedule
<1>3. ASSUME NEW t \in Tasks, NEW p \in todo[t], Cancel(t, p) PROVE o \in delay'
  <2>1. o # p
    BY <1>1, <1>3 DEF Cancel, CancelScript, Settled, TypesOK, FulfilmentTypeOK, RedisTypeOK
  <2> QED
    BY <1>3, <2>1 DEF Cancel, CancelScript
<1>4. CASE \E u \in Users, a \in Activities : UserClaims(u, a)
  BY <1>4 DEF UserClaims, Claim
<1>5. CASE UNCHANGED delay
  BY <1>5
<1>6. ASSUME NEW t \in Tasks, NEW p \in todo[t], LockStep(t, p) PROVE o \in delay'
  BY <1>2, <1>6
  DEF LockStep, AcquireLock, LockBusy, CheckStatus, ReleaseLock, ReleaseLost, Shutdown,
      redisVars
<1>7. ASSUME NEW w \in Workers, WorkerStep(w) PROVE o \in delay'
  BY <1>6, <1>7
  DEF Tasks, WorkerStep, Recover, Read, BeginGrant, LockUserRow, CommitGrant, RefuseGrant,
      ConflictGrant, MarkGranted, MarkSuccess, Compensate, CompensateScript, Acknowledge,
      GiveUp, Shutdown, redisVars
<1>8. ASSUME NEW c \in Cancellers, CancellerStep(c) PROVE o \in delay'
  BY <1>2, <1>3, <1>6, <1>8 DEF Tasks, CancellerStep, Scan, Peek, redisVars
<1>9. CASE Fault
  BY <1>9
  DEF Fault, ErrorInTry, ErrorInHandler, ErrorOutside, Crash, ErrorInScan, Lapse,
      HashExpires, ExpireHash, Shutdown, redisVars
<1> QED
  BY <1>4, <1>5, <1>7, <1>8, <1>9
  DEF Next, Restart, OrphanExpires, MessageAges, DeadlinePasses, vars, redisVars

\* What is handed out is pending; only a settled order's message stops being so.
LEMMA PendingKept ==
  ASSUME TypesOK, CleansSettledOnly, [Next]_vars,
         NEW o \in Accepted, hash[o] = "processing",
         o \in delivered => o \in pending, o \in delivered'
  PROVE  o \in pending'
<1>1. ASSUME NEW w \in Workers, NEW p \in todo[w], Acknowledge(w, p) PROVE o \in pending'
  <2>1. hash[p] # "processing"
    BY <1>1 DEF Acknowledge, At, CleansSettledOnly, CleaningPlaces, Tasks
  <2> QED
    BY <1>1, <2>1 DEF Acknowledge
<1>2. ASSUME NEW w \in Workers, Read(w) PROVE o \in pending'
  BY <1>2 DEF Read
<1>3. CASE UNCHANGED <<delivered, pending>>
  BY <1>3
<1>4. ASSUME NEW t \in Tasks, NEW p \in todo[t], LockStep(t, p)
      PROVE  UNCHANGED <<delivered, pending>>
  BY <1>4
  DEF LockStep, AcquireLock, LockBusy, CheckStatus, RemoveFromDelay, ReleaseLock,
      ReleaseLost, Shutdown, groupVars
<1>5. ASSUME NEW w \in Workers, WorkerStep(w) PROVE o \in pending'
  BY <1>1, <1>2, <1>3, <1>4, <1>5
  DEF Tasks, WorkerStep, Recover, BeginGrant, LockUserRow, CommitGrant, RefuseGrant,
      ConflictGrant, MarkGranted, Compensate, GiveUp, Shutdown, groupVars
<1>6. ASSUME NEW c \in Cancellers, CancellerStep(c) PROVE o \in pending'
  BY <1>3, <1>4, <1>6 DEF Tasks, CancellerStep, Scan, Peek, DropEntry, Cancel, groupVars
<1>7. CASE Fault
  BY <1>3, <1>7
  DEF Fault, ErrorInTry, ErrorInHandler, ErrorOutside, Crash, ErrorInScan, Lapse,
      HashExpires, Shutdown, groupVars
<1> QED
  BY <1>3, <1>5, <1>6, <1>7
  DEF Next, UserClaims, Restart, OrphanExpires, MessageAges, DeadlinePasses, vars,
      groupVars

\* An order accepted by this very step is scheduled and not handed out yet.
LEMMA NewOrderKnown ==
  ASSUME TypesOK, [Next]_vars, NEW o \in Accepted', o \notin Accepted
  PROVE  o \in delay' /\ o \notin delivered'
<1>1. ASSUME NEW u \in Users, NEW a \in Activities, Claim(u, a)
      PROVE  o = Len(stream) + 1
  <2>1. /\ stream' = Append(stream, [user |-> u, activity |-> a])
        /\ stream \in Seq([user : Users, activity : Activities])
    BY <1>1 DEF Claim, TypesOK, FulfilmentTypeOK, RedisTypeOK
  <2>2. Len(stream') = Len(stream) + 1 /\ Len(stream) \in Nat
    BY <2>1, AppendProperties, LenProperties
  <2>3. Accepted = 1 .. Len(stream) /\ Accepted' = 1 .. Len(stream')
    BY <2>1 DEF Accepted
  <2> QED
    BY <2>2, <2>3
<1>2. ASSUME UNCHANGED stream PROVE FALSE
  BY <1>2 DEF Accepted
<1>3. PICK u \in Users, a \in Activities : UserClaims(u, a)
  <2>1. ASSUME NEW w \in Workers, WorkerStep(w) PROVE UNCHANGED stream
    BY <2>1
    DEF WorkerStep, LockStep, AcquireLock, LockBusy, CheckStatus, RemoveFromDelay,
        ReleaseLock, ReleaseLost, Recover, Read, BeginGrant, LockUserRow, CommitGrant,
        RefuseGrant, ConflictGrant, MarkGranted, MarkSuccess, Compensate,
        CompensateScript, Acknowledge, GiveUp, Shutdown, Unschedule, redisVars
  <2>2. ASSUME NEW c \in Cancellers, CancellerStep(c) PROVE UNCHANGED stream
    BY <2>2
    DEF CancellerStep, LockStep, AcquireLock, LockBusy, CheckStatus, RemoveFromDelay,
        ReleaseLock, ReleaseLost, Scan, Peek, DropEntry, Cancel, CancelScript, Shutdown,
        Unschedule, redisVars
  <2>3. CASE Fault
    BY <1>2, <2>3
    DEF Fault, ErrorInTry, ErrorInHandler, ErrorOutside, Crash, ErrorInScan, Lapse,
        HashExpires, ExpireHash, Shutdown, redisVars
  <2> QED
    BY <1>2, <2>1, <2>2, <2>3
    DEF Next, Restart, OrphanExpires, MessageAges, DeadlinePasses, vars, redisVars
<1>4. o = Len(stream) + 1
  BY <1>1, <1>3 DEF UserClaims
<1> QED
  BY <1>3, <1>4
  DEF UserClaims, Claim, groupVars, TypesOK, FulfilmentTypeOK

LEMMA NoOrderForgottenStep ==
  ASSUME TypesOK, CleansSettledOnly, NoOrderForgotten, [Next]_vars
  PROVE  NoOrderForgotten'
<1> SUFFICES ASSUME NEW o \in Accepted', hash'[o] = "processing"
             PROVE  o \in delay' /\ (o \in delivered' => o \in pending')
  BY DEF NoOrderForgotten
<1>1. CASE o \in Accepted
  <2>1. hash[o] = "processing"
    BY <1>1, RedisSimulation, NeverProcessingAgain DEF TypesOK, FulfilmentTypeOK
  <2> QED
    BY <1>1, <2>1, DelayKept, PendingKept DEF NoOrderForgotten
<1>2. CASE o \notin Accepted
  BY <1>2, NewOrderKnown
<1> QED
  BY <1>1, <1>2

\* Whatever dies, raises, lapses or expires, and however often: an order that is
\* still processing is in the delay queue, and its message is either not handed
\* out yet or pending, so somebody will come back to it.
THEOREM NothingForgotten == Spec => []NoOrderForgotten
<1>1. Init => NoOrderForgotten
  BY DEF Init, TasksInit, RedisInit, NoOrderForgotten, Accepted
<1> QED
  BY <1>1, TypesAlways, CleansSettledOnlyInit, CleansSettledOnlyStep,
     NoOrderForgottenStep, PTL DEF Spec

-----------------------------------------------------------------------------
(* One handler per user: whatever crashes, raises or expires, as long as no
   lock expires in its owner's hands *)

\* What makes OneHandlerPerUser inductive: a task between taking and releasing
\* the lock of a user owns it ...
LocksHeld ==
  \A t \in Tasks : \A o \in todo[t] :
    Current(t, o) /\ pc[t] \in LockedPlaces => lock[UserOf(o)] = t

\* ... and no more lapse is to come.
LockHeld == LocksHeld /\ budget["lapse"] = 0

\* No step gives a fault back, and one that happens is counted.
LEMMA FaultsCount ==
  ASSUME TypesOK, [Next]_vars, NEW kind \in FaultKind
  PROVE  /\ {budget[kind], budget'[kind]} \subseteq Nat
         /\ budget'[kind] <= budget[kind]
         /\ Spend(kind) => budget'[kind] < budget[kind]
<1> DEFINE Falls == /\ {budget[kind], budget'[kind]} \subseteq Nat
                    /\ budget'[kind] <= budget[kind]
<1>1. budget \in [FaultKind -> Nat]
  BY DEF TypesOK, FulfilmentTypeOK
<1>2. ASSUME NEW fault \in FaultKind, Spend(fault)
      PROVE  Falls /\ (fault = kind => budget'[kind] < budget[kind])
  BY <1>1, <1>2 DEF Spend
<1>3. CASE UNCHANGED budget
  <2>1. ~Spend(kind)
    BY <1>1, <1>3 DEF Spend
  <2> QED
    BY <1>1, <1>3, <2>1
<1>4. {"crash", "lapse", "error", "expiry"} \subseteq FaultKind
  BY DEF FaultKind
<1>5. CASE Fault
  <2>1. \E fault \in FaultKind : Spend(fault)
    BY <1>4, <1>5
    DEF Fault, ErrorInTry, ErrorInHandler, ErrorOutside, Crash, ErrorInScan, Lapse,
        HashExpires
  <2> QED
    BY <1>2, <2>1
<1>6. ASSUME NEW t \in Tasks, NEW o \in todo[t], LockStep(t, o) PROVE UNCHANGED budget
  BY <1>6
  DEF LockStep, AcquireLock, LockBusy, CheckStatus, RemoveFromDelay, ReleaseLock,
      ReleaseLost
<1>7. ASSUME NEW w \in Workers, WorkerStep(w) PROVE UNCHANGED budget
  BY <1>6, <1>7
  DEF Tasks, WorkerStep, Recover, Read, BeginGrant, LockUserRow, CommitGrant, RefuseGrant,
      ConflictGrant, MarkGranted, Compensate, Acknowledge, GiveUp
<1>8. ASSUME NEW c \in Cancellers, CancellerStep(c) PROVE UNCHANGED budget
  BY <1>6, <1>8 DEF Tasks, CancellerStep, Scan, Peek, DropEntry, Cancel
<1> QED
  BY <1>3, <1>5, <1>7, <1>8
  DEF Next, UserClaims, Restart, OrphanExpires, MessageAges, DeadlinePasses, vars

\* A kind that is used up stays so and cannot happen.
LEMMA SpentStays ==
  ASSUME TypesOK, [Next]_vars, NEW kind \in FaultKind, budget[kind] = 0
  PROVE  budget'[kind] = 0 /\ ~Spend(kind)
BY FaultsCount DEF Spend

\* Nothing lapses in a step that leaves as many lapses to come.
LEMMA NoLapseStep ==
  ASSUME TypesOK, [Next]_vars, budget'["lapse"] = budget["lapse"]
  PROVE  \A u \in Users : ~Lapse(u)
<1>1. "lapse" \in FaultKind
  BY DEF FaultKind
<1>2. ~Spend("lapse")
  BY <1>1, FaultsCount
<1> QED
  BY <1>2 DEF Lapse

\* The lock of a user changes hands only when its owner lets go of the order.
LEMMA OwnedLockKept ==
  ASSUME TypesOK, [Next]_vars, budget'["lapse"] = budget["lapse"],
         NEW s \in Tasks, NEW o \in todo[s], Current(s, o), lock[UserOf(o)] = s,
         Current(s, o)', pc'[s] \in LockedPlaces
  PROVE  lock'[UserOf(o)] = s
<1> DEFINE u == UserOf(o)
<1>1. /\ TasksTypeOK /\ RedisTypeOK
      /\ u \in Users
      /\ s # NoTask /\ s # Orphan
  BY BatchAccepted, OrderFields, BaseAssumption
  DEF TypesOK, FulfilmentTypeOK, TasksTypeOK, BaseAssumption
<1>2. pc'[s] \in Inner /\ {"idle", "lock", "peek", "down"} \cap LockedPlaces = {}
  BY DEF Inner, LockedPlaces, TryPlaces, HandlerPlaces
<1>3. ASSUME NEW w \in Workers, Halt(w), NEW value, LocksBecome(w, value)
      PROVE  lock'[u] = s
  BY <1>1, <1>2, <1>3, HaltArrival DEF LocksBecome
<1>4. CASE UNCHANGED lock
  BY <1>4
<1>5. ASSUME NEW t \in Tasks, NEW p \in todo[t], LockStep(t, p) PROVE lock'[u] = s
  <2>1. CASE AcquireLock(t, p)
    BY <1>1, <2>1 DEF AcquireLock, TasksTypeOK
  <2>2. CASE ReleaseLock(t, p)
    <3>1. CASE UserOf(p) = u
      <4>1. s = t /\ o = p
        BY <1>1, <2>2, <3>1, CurrentUnique DEF ReleaseLock, At
      <4>2. todo'[s] = todo[s] \ {o}
        BY <1>1, <2>2, <4>1 DEF ReleaseLock, Done, Fetched, TasksTypeOK
      <4> QED
        BY <4>2 DEF Current
    <3>2. CASE UserOf(p) # u
      BY <1>1, <2>2, <3>2 DEF ReleaseLock, TasksTypeOK
    <3> QED
      BY <3>1, <3>2
  <2>3. CASE ReleaseLost(t, p)
    BY <1>3, <2>3 DEF ReleaseLost, Shutdown
  <2> QED
    BY <1>5, <2>1, <2>2, <2>3 DEF LockStep, LockBusy, CheckStatus, RemoveFromDelay
<1>6. ASSUME NEW w \in Workers, WorkerStep(w) PROVE lock'[u] = s
  BY <1>3, <1>5, <1>6
  DEF Tasks, WorkerStep, Recover, Read, BeginGrant, LockUserRow, CommitGrant, RefuseGrant,
      ConflictGrant, MarkGranted, Compensate, Acknowledge, GiveUp, Shutdown
<1>7. ASSUME NEW c \in Cancellers, CancellerStep(c) PROVE lock'[u] = s
  BY <1>5, <1>7 DEF Tasks, CancellerStep, Scan, Peek, DropEntry, Cancel
<1>8. ASSUME NEW c \in Cancellers, NEW p \in todo[c], ErrorInScan(c, p) PROVE lock'[u] = s
  <2>1. CASE UNCHANGED lock
    BY <2>1
  <2>2. CASE /\ lock[UserOf(p)] = c
             /\ Fetched(c, {})
             /\ lock' = [lock EXCEPT ![UserOf(p)] = Orphan]
    <3>1. s # c
      BY <1>1, <1>2, <2>2, FetchedArrival DEF Tasks
    <3>2. UserOf(p) # u
      BY <2>2, <3>1
    <3> QED
      BY <1>1, <2>2, <3>2 DEF TasksTypeOK
  <2> QED
    BY <1>8, <2>1, <2>2 DEF ErrorInScan
<1>9. CASE Fault
  BY <1>3, <1>8, <1>9, NoLapseStep
  DEF Fault, ErrorInTry, ErrorInHandler, ErrorOutside, Crash, HashExpires, Shutdown
<1>10. ASSUME NEW v \in Users, OrphanExpires(v) PROVE lock'[u] = s
  BY <1>1, <1>10 DEF OrphanExpires, TasksTypeOK
<1> QED
  BY <1>4, <1>6, <1>7, <1>9, <1>10
  DEF Next, UserClaims, Restart, MessageAges, DeadlinePasses, vars

LEMMA LocksHeldStep ==
  ASSUME TypesOK, LocksHeld, [Next]_vars, budget'["lapse"] = budget["lapse"]
  PROVE  LocksHeld'
<1> SUFFICES ASSUME NEW s \in Tasks, NEW o \in todo'[s], Current(s, o)',
                    pc'[s] \in LockedPlaces
             PROVE  lock'[UserOf(o)'] = s
  BY DEF LocksHeld
<1>2. Arrives(s, o)
  BY Arrival DEF Inner
<1>3. /\ Current(s, o) /\ o \in todo[s] /\ o \in Accepted /\ UserOf(o) \in Users
      /\ TasksTypeOK
  BY <1>2, BatchAccepted, OrderFields
  DEF Arrives, Current, TypesOK, FulfilmentTypeOK, TasksTypeOK
<1>4. UserOf(o)' = UserOf(o)
  BY <1>3, RedisSimulation, StreamGrows DEF TypesOK, FulfilmentTypeOK
<1>5. CASE AcquireLock(s, o)
  BY <1>3, <1>4, <1>5 DEF AcquireLock, TasksTypeOK
<1>6. CASE pc[s] \in LockedPlaces
  <2>1. lock[UserOf(o)] = s
    BY <1>3, <1>6 DEF LocksHeld
  <2> QED
    BY <1>3, <1>4, <2>1, OwnedLockKept
<1>7. CASE Peek(s, o)
  <2>1. pc'[s] \in {"drop", "lock"}
    BY <1>3, <1>7, PeekGoesOn
  <2> QED
    BY <2>1 DEF LockedPlaces, TryPlaces, HandlerPlaces
<1>8. CASE Advance(s, o)
  <2>1. CASE \E place \in TryPlaces \cup HandlerPlaces : At(s, o, place)
    BY <1>6, <2>1 DEF At, LockedPlaces
  <2> QED
    BY <1>5, <1>7, <1>8, <2>1
    DEF Advance, CheckStatus, RemoveFromDelay, BeginGrant, CommitGrant, RefuseGrant,
        MarkGranted, Compensate, TryPlaces, HandlerPlaces
<1> QED
  BY <1>2, <1>6, <1>8 DEF Arrives

LEMMA LockHeldStep ==
  ASSUME TypesOK, LockHeld, [Next]_vars
  PROVE  LockHeld'
BY LocksHeldStep, SpentStays DEF LockHeld, FaultKind

LEMMA LockHeldInit ==
  ASSUME Budget["lapse"] = 0, Init
  PROVE  LockHeld
BY DEF Init, TasksInit, LockHeld, LocksHeld, Current

LEMMA LockHeldExcludes ==
  ASSUME LockHeld
  PROVE  OneHandlerPerUser
BY DEF LockHeld, LocksHeld, OneHandlerPerUser

\* "The orders of one user are handled one at a time" (grant_consumer.py 108,
\* order_timeout.py 80), whatever crashes, raises or expires, for as long as the
\* thirty seconds of a lock outlast the work under it.
THEOREM OneAtATime ==
  ASSUME Budget["lapse"] = 0
  PROVE  Spec => []OneHandlerPerUser
BY TypesAlways, LockHeldInit, LockHeldStep, LockHeldExcludes, PTL DEF Spec
=============================================================================
