-------------------------- MODULE SettlementProofs --------------------------
(***************************************************************************)
(* How orders are settled, for every number of processes, users and        *)
(* orders.  Whatever fails: an order shown as success is backed by a row.  *)
(* As long as no lock lapses and no order hash expires, in any number of   *)
(* crashes and errors: an order settled stays settled, what users are told *)
(* of it stands, and the claimed sets mirror the live orders.  As long as  *)
(* nothing fails: the stores are one ledger, the one of module QuotaSale.  *)
(* The last part is about publications in the middle of a sale: a          *)
(* publication writes stock, claimed and open only, and each invariant     *)
(* that does not depend on these survives it.                              *)
(***************************************************************************)
EXTENDS Publication, OrderQuery, FulfilmentProofs

Backed(o) == \E r \in rows : r.user = UserOf(o) /\ r.activity = ActivityOf(o)

\* What makes SuccessIsBacked inductive.  The message a worker grants is the
\* one of the order in its hands ...
GrantsOrderInHand ==
  \A w \in Workers : \A o \in todo[w] :
    Current(w, o) /\ pc[w] = "grant" => InTxn(w) /\ txn[w].msg = MessageOf(o)

\* ... a row is written for the user and the activity of its order ...
RowsAreMessages == \A r \in rows : r.id \in Accepted /\ r = MessageOf(r.id)

\* ... and a worker about to write success has seen or written a row.
BackedBeforeSuccess ==
  \A w \in Workers : \A o \in todo[w] :
    Current(w, o) /\ pc[w] = "mark" => Backed(o)

Backing == GrantsOrderInHand /\ RowsAreMessages /\ BackedBeforeSuccess /\ SuccessIsBacked

-----------------------------------------------------------------------------
(* Rows and transactions *)

\* Only the commit of a grant adds a row, the one of the order in hand.
LEMMA RowsStep ==
  ASSUME TypesOK, GrantsOrderInHand, [Next]_vars
  PROVE  \/ UNCHANGED rows
         \/ \E w \in Workers : \E o \in todo[w] :
              CommitGrant(w, o) /\ o \in Accepted /\ rows' = rows \cup {MessageOf(o)}
<1>1. ASSUME NEW w \in Workers, NEW o \in todo[w], CommitGrant(w, o)
      PROVE  o \in Accepted /\ rows' = rows \cup {MessageOf(o)}
  <2>1. o \in Accepted /\ txn[w].msg = MessageOf(o)
    BY <1>1, BatchAccepted DEF CommitGrant, At, GrantsOrderInHand, TypesOK, Tasks
  <2> QED
    BY <1>1, <2>1 DEF CommitGrant, TxnCommit
<1>2. ASSUME NEW t \in Tasks, NEW o \in todo[t], LockStep(t, o) PROVE UNCHANGED rows
  BY <1>2
  DEF LockStep, AcquireLock, LockBusy, CheckStatus, RemoveFromDelay, ReleaseLock,
      ReleaseLost, Shutdown, Halt, Rollback, databaseVars
<1>3. ASSUME NEW w \in Workers, WorkerStep(w)
      PROVE  UNCHANGED rows \/ \E o \in todo[w] : CommitGrant(w, o)
  BY <1>2, <1>3
  DEF Tasks, WorkerStep, Recover, Read, BeginGrant, TxnBegin, LockUserRow, TxnLock,
      RefuseGrant, TxnRefuse, ConflictGrant, TxnConflict, MarkGranted, Compensate,
      Acknowledge, GiveUp, Shutdown, Halt, Rollback, databaseVars
<1>4. ASSUME NEW c \in Cancellers, CancellerStep(c) PROVE UNCHANGED rows
  BY <1>2, <1>4 DEF Tasks, CancellerStep, Scan, Peek, DropEntry, Cancel, databaseVars
<1>5. CASE Fault
  BY <1>5
  DEF Fault, ErrorInTry, ErrorInHandler, ErrorOutside, Crash, ErrorInScan, Lapse,
      HashExpires, Shutdown, Halt, Rollback, databaseVars
<1> QED
  BY <1>1, <1>3, <1>4, <1>5
  DEF Next, UserClaims, Restart, OrphanExpires, MessageAges, DeadlinePasses, vars,
      databaseVars

\* A worker that stays at the grant keeps its transaction and its message.
LEMMA TxnKept ==
  ASSUME TypesOK, [Next]_vars, NEW s \in Workers, InTxn(s),
         pc[s] = "grant", pc'[s] = "grant"
  PROVE  InTxn(s)' /\ txn'[s].msg = txn[s].msg
<1>1. TasksTypeOK /\ DatabaseTypeOK /\ s \in Tasks /\ s \notin Cancellers
  BY BaseAssumption DEF TypesOK, FulfilmentTypeOK, TasksTypeOK, Tasks, BaseAssumption
<1>2. CASE txn'[s] = txn[s]
  BY <1>2 DEF InTxn
<1>3. ASSUME NEW w \in Workers, TxnLock(w) PROVE InTxn(s)' /\ txn'[s].msg = txn[s].msg
  <2>1. CASE w = s
    <3>1. txn[s] \in [phase : {"checked", "locked"}, msg : Message, seen : Nat]
      BY <1>1, OpenTxn
    <3>2. txn'[s].msg = txn[s].msg /\ txn'[s].phase = "locked"
      BY <1>1, <1>3, <2>1, <3>1 DEF TxnLock, DatabaseTypeOK
    <3> QED
      BY <3>2 DEF InTxn, NoTxn
  <2>2. CASE w # s
    BY <1>1, <1>2, <1>3, <2>2 DEF TxnLock, DatabaseTypeOK
  <2> QED
    BY <2>1, <2>2
<1>4. ASSUME NEW w \in Workers, EndTxn(w), w # s PROVE txn'[s] = txn[s]
  BY <1>1, <1>4 DEF EndTxn, DatabaseTypeOK
<1>5. ASSUME NEW w \in Workers, Halt(w) PROVE txn'[s] = txn[s]
  <2>1. w # s
    BY <1>1, <1>5 DEF Halt, ProcessOf
  <2> QED
    BY <1>4, <1>5, <2>1 DEF Halt, Rollback
<1>6. ASSUME NEW w \in Workers, NEW place, Goto(w, place), place # "grant" PROVE w # s
  BY <1>1, <1>6 DEF Goto, TasksTypeOK
<1>7. ASSUME NEW t \in Tasks, NEW o \in todo[t], LockStep(t, o) PROVE txn'[s] = txn[s]
  BY <1>5, <1>7
  DEF LockStep, AcquireLock, LockBusy, CheckStatus, RemoveFromDelay, ReleaseLock,
      ReleaseLost, Shutdown, databaseVars
<1>8. ASSUME NEW w \in Workers, NEW o \in todo[w], BeginGrant(w, o) PROVE txn'[s] = txn[s]
  <2>1. w # s
    BY <1>8 DEF BeginGrant, At
  <2> QED
    BY <1>1, <1>8, <2>1 DEF BeginGrant, TxnBegin, DatabaseTypeOK, databaseVars
<1>9. ASSUME NEW w \in Workers, NEW o \in todo[w],
             CommitGrant(w, o) \/ RefuseGrant(w, o) \/ ConflictGrant(w, o)
      PROVE  txn'[s] = txn[s]
  <2>1. w # s /\ EndTxn(w)
    BY <1>6, <1>9
    DEF CommitGrant, TxnCommit, RefuseGrant, TxnRefuse, ConflictGrant, TxnConflict, Rollback
  <2> QED
    BY <1>4, <2>1
<1>10. ASSUME NEW w \in Workers, WorkerStep(w) PROVE InTxn(s)' /\ txn'[s].msg = txn[s].msg
  BY <1>2, <1>3, <1>5, <1>7, <1>8, <1>9, <1>10
  DEF Tasks, WorkerStep, Recover, Read, LockUserRow, MarkGranted, Compensate, Acknowledge,
      GiveUp, Shutdown, databaseVars
<1>11. ASSUME NEW c \in Cancellers, CancellerStep(c) PROVE txn'[s] = txn[s]
  BY <1>7, <1>11 DEF Tasks, CancellerStep, Scan, Peek, DropEntry, Cancel, databaseVars
<1>12. ASSUME NEW w \in Workers, NEW o \in todo[w], ErrorInTry(w, o) PROVE txn'[s] = txn[s]
  BY <1>4, <1>6, <1>12 DEF ErrorInTry, Rollback
<1>13. CASE Fault
  BY <1>2, <1>5, <1>12, <1>13
  DEF Fault, ErrorInHandler, ErrorOutside, Crash, ErrorInScan, Lapse, HashExpires,
      Shutdown, databaseVars
<1> QED
  BY <1>2, <1>10, <1>11, <1>13
  DEF Next, UserClaims, Restart, OrphanExpires, MessageAges, DeadlinePasses, vars,
      databaseVars

-----------------------------------------------------------------------------
(* The steps of the invariant *)

LEMMA GrantsOrderInHandStep ==
  ASSUME TypesOK, GrantsOrderInHand, [Next]_vars
  PROVE  GrantsOrderInHand'
<1> SUFFICES ASSUME NEW s \in Workers, NEW o \in todo'[s], Current(s, o)', pc'[s] = "grant"
             PROVE  InTxn(s)' /\ txn'[s].msg = MessageOf(o)'
  BY DEF GrantsOrderInHand
<1>1. s \in Tasks /\ pc'[s] \in Inner
  BY DEF Tasks, Inner, LockedPlaces, TryPlaces
<1>2. Arrives(s, o)
  BY <1>1, Arrival
<1>3. Current(s, o) /\ o \in todo[s] /\ o \in Accepted
  BY <1>1, <1>2, BatchAccepted DEF Arrives, Current, TypesOK
<1>4. MessageOf(o)' = MessageOf(o)
  BY <1>3, RedisSimulation, StreamGrows DEF TypesOK, FulfilmentTypeOK
<1>5. pc \in [Tasks -> Places] /\ txn \in [Workers -> Txn]
  BY DEF TypesOK, FulfilmentTypeOK, DatabaseTypeOK
<1>6. CASE pc[s] = "grant"
  BY <1>3, <1>4, <1>6, TxnKept DEF GrantsOrderInHand
<1>7. CASE BeginGrant(s, o)
  <2>1. TxnBegin(s, MessageOf(o))
    BY <1>1, <1>5, <1>7 DEF BeginGrant, Goto
  <2>2. txn'[s] = [phase |-> "checked", msg |-> MessageOf(o), seen |-> 0]
    BY <1>5, <2>1 DEF TxnBegin
  <2> QED
    BY <1>4, <2>2 DEF InTxn, NoTxn
<1>8. CASE Advance(s, o) /\ ~BeginGrant(s, o)
  <2>1. ~Peek(s, o)
    BY <1>1, PeekGoesOn DEF TypesOK, FulfilmentTypeOK, TasksTypeOK
  <2> QED
    BY <1>1, <1>5, <1>8, <2>1
    DEF Advance, AcquireLock, CheckStatus, RemoveFromDelay, CommitGrant, RefuseGrant,
        MarkGranted, Compensate, Goto
<1> QED
  BY <1>2, <1>6, <1>7, <1>8 DEF Arrives

LEMMA RowsAreMessagesStep ==
  ASSUME TypesOK, GrantsOrderInHand, RowsAreMessages, [Next]_vars
  PROVE  RowsAreMessages'
<1> SUFFICES ASSUME NEW r \in rows'
             PROVE  r.id \in Accepted' /\ r = MessageOf(r.id)'
  BY DEF RowsAreMessages
<1>1. r.id \in Accepted /\ r = MessageOf(r.id)
  <2>1. ASSUME NEW o \in Accepted, r = MessageOf(o)
        PROVE  r.id \in Accepted /\ r = MessageOf(r.id)
    BY <2>1 DEF MessageOf
  <2> QED
    BY <2>1, RowsStep DEF RowsAreMessages
<1> QED
  BY <1>1, RedisSimulation, StreamGrows DEF TypesOK, FulfilmentTypeOK

\* A row never goes away and an order keeps its user and its activity.
LEMMA BackedKept ==
  ASSUME TypesOK, GrantsOrderInHand, [Next]_vars, NEW o \in Accepted, Backed(o)
  PROVE  Backed(o)'
<1>1. UserOf(o)' = UserOf(o) /\ ActivityOf(o)' = ActivityOf(o)
  BY RedisSimulation, StreamGrows DEF TypesOK, FulfilmentTypeOK
<1>2. rows \subseteq rows'
  BY RowsStep
<1> QED
  BY <1>1, <1>2 DEF Backed

LEMMA FoundIsBacked ==
  ASSUME RowsAreMessages, NEW o \in Accepted, Found(MessageOf(o))
  PROVE  Backed(o)
<1>1. PICK r \in rows : \/ r.id = o
                        \/ r.user = UserOf(o) /\ r.activity = ActivityOf(o)
  BY DEF Found, MessageOf
<1>2. r = MessageOf(r.id)
  BY DEF RowsAreMessages
<1> QED
  BY <1>1, <1>2 DEF Backed, MessageOf

LEMMA BackedBeforeSuccessStep ==
  ASSUME TypesOK, GrantsOrderInHand, RowsAreMessages, BackedBeforeSuccess, [Next]_vars
  PROVE  BackedBeforeSuccess'
<1> SUFFICES ASSUME NEW s \in Workers, NEW o \in todo'[s], Current(s, o)', pc'[s] = "mark"
             PROVE  Backed(o)'
  BY DEF BackedBeforeSuccess
<1>1. s \in Tasks /\ pc'[s] \in Inner
  BY DEF Tasks, Inner, LockedPlaces, TryPlaces
<1>2. Arrives(s, o)
  BY <1>1, Arrival
<1>3. Current(s, o) /\ o \in todo[s] /\ o \in Accepted
  BY <1>1, <1>2, BatchAccepted DEF Arrives, Current, TypesOK
<1>4. pc \in [Tasks -> Places]
  BY DEF TypesOK, FulfilmentTypeOK
<1>5. CASE pc[s] = "mark"
  BY <1>3, <1>5, BackedKept DEF BackedBeforeSuccess
<1>6. CASE BeginGrant(s, o)
  <2>1. Found(MessageOf(o))
    BY <1>1, <1>4, <1>6 DEF BeginGrant, Goto
  <2> QED
    BY <1>3, <2>1, FoundIsBacked, BackedKept
<1>7. CASE CommitGrant(s, o)
  <2>1. MessageOf(o) \in rows'
    BY <1>3, <1>7 DEF CommitGrant, At, TxnCommit, GrantsOrderInHand
  <2>2. MessageOf(o).user = UserOf(o)' /\ MessageOf(o).activity = ActivityOf(o)'
    BY <1>3, RedisSimulation, StreamGrows DEF MessageOf, TypesOK, FulfilmentTypeOK
  <2> QED
    BY <2>1, <2>2 DEF Backed
<1>8. CASE Advance(s, o) /\ ~BeginGrant(s, o) /\ ~CommitGrant(s, o)
  <2>1. ~Peek(s, o)
    BY <1>1, PeekGoesOn DEF TypesOK, FulfilmentTypeOK, TasksTypeOK
  <2> QED
    BY <1>1, <1>4, <1>8, <2>1
    DEF Advance, AcquireLock, CheckStatus, RemoveFromDelay, RefuseGrant, MarkGranted,
        Compensate, Goto
<1> QED
  BY <1>2, <1>5, <1>6, <1>7, <1>8 DEF Arrives

\* Only MarkGranted writes success.
LEMMA SuccessIsWritten ==
  ASSUME TypesOK, [Next]_vars, NEW o \in Accepted, hash'[o] = "success"
  PROVE  \/ hash[o] = "success"
         \/ \E w \in Workers : o \in todo[w] /\ MarkGranted(w, o)
<1>1. /\ RedisTypeOK
      /\ o \in Orders
      /\ Len(stream) \in Nat /\ o \in 1 .. Len(stream)
  BY OrderFields, LenProperties DEF TypesOK, FulfilmentTypeOK, RedisTypeOK, Accepted
<1>2. CASE UNCHANGED hash
  BY <1>2
<1>3. ASSUME NEW w \in Workers, NEW p \in todo[w], MarkGranted(w, p)
      PROVE  hash[o] = "success" \/ MarkGranted(w, o)
  BY <1>1, <1>3 DEF MarkGranted, MarkSuccess, RedisTypeOK
<1>4. ASSUME NEW p, CompensateScript(p) \/ CancelScript(p) \/ ExpireHash(p)
      PROVE  hash[o] = "success"
  BY <1>1, <1>4 DEF CompensateScript, CancelScript, ExpireHash, RedisTypeOK
<1>5. ASSUME NEW u \in Users, NEW a \in Activities, UserClaims(u, a)
      PROVE  hash[o] = "success"
  BY <1>1, <1>5 DEF UserClaims, Claim, RedisTypeOK
<1>6. ASSUME NEW t \in Tasks, NEW p \in todo[t], LockStep(t, p) PROVE UNCHANGED hash
  BY <1>6
  DEF LockStep, AcquireLock, LockBusy, CheckStatus, RemoveFromDelay, Unschedule,
      ReleaseLock, ReleaseLost, Shutdown, redisVars
<1>7. ASSUME NEW w \in Workers, WorkerStep(w)
      PROVE  hash[o] = "success" \/ (o \in todo[w] /\ MarkGranted(w, o))
  <2>1. ASSUME NEW p \in todo[w], MarkGranted(w, p)
        PROVE  hash[o] = "success" \/ (o \in todo[w] /\ MarkGranted(w, o))
    BY <1>3, <2>1 DEF MarkGranted, At, Current
  <2> QED
    BY <1>2, <1>4, <1>6, <1>7, <2>1
    DEF Tasks, WorkerStep, Recover, Read, BeginGrant, LockUserRow, CommitGrant, RefuseGrant,
        ConflictGrant, Compensate, Acknowledge, GiveUp, Shutdown, redisVars
<1>8. ASSUME NEW c \in Cancellers, CancellerStep(c) PROVE hash[o] = "success"
  BY <1>2, <1>4, <1>6, <1>8
  DEF Tasks, CancellerStep, Scan, Peek, DropEntry, Unschedule, Cancel, redisVars
<1>9. CASE Fault
  BY <1>2, <1>4, <1>9
  DEF Fault, ErrorInTry, ErrorInHandler, ErrorOutside, Crash, ErrorInScan, Lapse,
      HashExpires, Shutdown, redisVars
<1> QED
  BY <1>2, <1>5, <1>7, <1>8, <1>9
  DEF Next, Restart, OrphanExpires, MessageAges, DeadlinePasses, vars, redisVars

\* An order accepted by this very step is a processing one.
LEMMA NewOrderProcessing ==
  ASSUME TypesOK, [Next]_vars, NEW o \in Accepted', hash'[o] = "success"
  PROVE  o \in Accepted
<1>1. [RedisNext]_redisVars /\ RedisTypeOK
  BY RedisSimulation DEF TypesOK, FulfilmentTypeOK
<1>2. ASSUME NEW u \in Users, NEW a \in Activities, Claim(u, a) PROVE o \in Accepted
  <2>1. stream' = Append(stream, [user |-> u, activity |-> a])
    BY <1>2 DEF Claim
  <2>2. stream \in Seq([user : Users, activity : Activities])
    BY <1>1 DEF RedisTypeOK
  <2>3. Len(stream') = Len(stream) + 1 /\ Len(stream) \in Nat
    BY <2>1, <2>2, AppendProperties, LenProperties
  <2>4. Accepted = 1 .. Len(stream) /\ Accepted' = 1 .. Len(stream')
    BY <2>1, <2>2 DEF Accepted
  <2>5. o = Len(stream) + 1 => hash'[o] = "processing"
    <3>1. Len(stream) + 1 \in Orders
      BY <1>2, <2>3, BaseAssumption DEF Claim, Orders, BaseAssumption
    <3> QED
      BY <1>1, <1>2, <3>1 DEF Claim, RedisTypeOK
  <2> QED
    BY <2>3, <2>4, <2>5
<1>3. CASE UNCHANGED stream
  BY <1>3 DEF Accepted
<1> QED
  BY <1>1, <1>2, <1>3
  DEF RedisNext, CancelScript, CompensateScript, MarkSuccess, Unschedule, ExpireHash,
      CloseActivity, redisVars

LEMMA SuccessIsBackedStep ==
  ASSUME TypesOK, Backing, [Next]_vars
  PROVE  SuccessIsBacked'
<1> SUFFICES ASSUME NEW o \in Accepted', hash'[o] = "success"
             PROVE  Backed(o)'
  BY DEF SuccessIsBacked, Backed
<1>1. o \in Accepted
  BY NewOrderProcessing
<1>2. Backed(o)
  <2>1. ASSUME NEW w \in Workers, o \in todo[w], MarkGranted(w, o) PROVE Backed(o)
    BY <2>1 DEF MarkGranted, At, Backing, BackedBeforeSuccess
  <2>2. CASE hash[o] = "success"
    BY <1>1, <2>2 DEF Backing, SuccessIsBacked, Backed
  <2> QED
    BY <1>1, <2>1, <2>2, SuccessIsWritten
<1> QED
  BY <1>1, <1>2, BackedKept DEF Backing

LEMMA BackingStep ==
  ASSUME TypesOK, Backing, [Next]_vars
  PROVE  Backing'
BY GrantsOrderInHandStep, RowsAreMessagesStep, BackedBeforeSuccessStep,
   SuccessIsBackedStep
DEF Backing

LEMMA BackingInit == Init => Backing
<1> SUFFICES ASSUME Init PROVE Backing
  OBVIOUS
<1>1. Accepted = {} /\ rows = {}
  BY DEF Init, TasksInit, RedisInit, DatabaseInit, Accepted
<1>2. \A w \in Workers : todo[w] = {}
  BY DEF Init, TasksInit, Tasks
<1> QED
  BY <1>1, <1>2
  DEF Backing, GrantsOrderInHand, RowsAreMessages, BackedBeforeSuccess, SuccessIsBacked

\* What a user is told stands in the books: an order shown as success has a row
\* of that user and activity, whatever crashes, raises, lapses, expires or is
\* delivered twice (grant_consumer.py 130-138).
THEOREM SuccessAlwaysBacked == Spec => []SuccessIsBacked
BY TypesAlways, BackingInit, BackingStep, PTL DEF Spec, Backing

-----------------------------------------------------------------------------
(* A settled order keeps its status, as long as no lock lapses and no hash
   expires *)

\* Between the look at the status under the lock and the step that settles the
\* order.
SettlingPlaces == {"begin", "grant", "mark", "compensate", "cancel"}

\* What the look under the lock is for: nobody else has settled the order of
\* whoever is about to.  Its hash may be over meanwhile.
SettlesUnsettled ==
  \A t \in Tasks : \A o \in todo[t] :
    Current(t, o) /\ pc[t] \in SettlingPlaces => hash[o] \in {"processing", "none"}

\* The steps that touch the claims or an order hash.
LEMMA SettlingSteps ==
  ASSUME TypesOK, [Next]_vars
  PROVE  \/ UNCHANGED <<stock, claimed, stream, hash>>
         \/ \E u \in Users, a \in Activities : UserClaims(u, a)
         \/ \E w \in Workers : \E o \in todo[w] : MarkGranted(w, o) \/ Compensate(w, o)
         \/ \E c \in Cancellers : \E o \in todo[c] : Cancel(c, o)
         \/ \E o \in Accepted : HashExpires(o)
<1> DEFINE Kept == UNCHANGED <<stock, claimed, stream, hash>>
<1>1. ASSUME NEW t \in Tasks, NEW o \in todo[t], LockStep(t, o) PROVE Kept
  BY <1>1
  DEF LockStep, AcquireLock, LockBusy, CheckStatus, RemoveFromDelay, Unschedule,
      ReleaseLock, ReleaseLost, Shutdown, redisVars
<1>2. ASSUME NEW w \in Workers, WorkerStep(w)
      PROVE  Kept \/ \E o \in todo[w] : MarkGranted(w, o) \/ Compensate(w, o)
  BY <1>1, <1>2
  DEF Tasks, WorkerStep, Recover, Read, BeginGrant, LockUserRow, CommitGrant, RefuseGrant,
      ConflictGrant, Acknowledge, GiveUp, Shutdown, redisVars
<1>3. ASSUME NEW c \in Cancellers, CancellerStep(c)
      PROVE  Kept \/ \E o \in todo[c] : Cancel(c, o)
  BY <1>1, <1>3 DEF Tasks, CancellerStep, Scan, Peek, DropEntry, Unschedule, redisVars
<1>4. CASE Fault
  BY <1>4
  DEF Fault, ErrorInTry, ErrorInHandler, ErrorOutside, Crash, ErrorInScan, Lapse,
      Shutdown, redisVars
<1> QED
  BY <1>2, <1>3, <1>4
  DEF Next, Restart, OrphanExpires, MessageAges, DeadlinePasses, vars, redisVars

\* Two tasks that handle one order under its lock are one task.
LEMMA HolderUnique ==
  ASSUME LocksHeld, NEW s \in Tasks, NEW t \in Tasks, NEW o \in todo[s], o \in todo[t],
         Current(s, o), pc[s] \in LockedPlaces, Current(t, o), pc[t] \in LockedPlaces
  PROVE  s = t
BY DEF LocksHeld

\* A step that settles an order takes the task that handles it onwards.
LEMMA SettledByHandler ==
  ASSUME TypesOK, LocksHeld, NEW t \in Tasks, NEW p \in todo[t],
         \/ t \in Workers /\ (MarkGranted(t, p) \/ Compensate(t, p))
         \/ t \in Cancellers /\ Cancel(t, p)
  PROVE  /\ Current(t, p) /\ pc[t] \in SettlingPlaces \cap LockedPlaces
         /\ pc'[t] \notin SettlingPlaces
         /\ p \in Accepted /\ p \in Orders
         /\ \A o \in Orders : o # p => hash'[o] = hash[o]
         /\ UNCHANGED stream
<1>1. TasksTypeOK /\ RedisTypeOK /\ p \in Accepted /\ p \in Orders
  BY BatchAccepted, OrderFields DEF TypesOK, FulfilmentTypeOK, TasksTypeOK
<1>2. CASE MarkGranted(t, p)
  BY <1>1, <1>2
  DEF MarkGranted, MarkSuccess, At, Goto, SettlingPlaces, LockedPlaces, TryPlaces,
      TasksTypeOK, RedisTypeOK
<1>3. CASE Compensate(t, p)
  BY <1>1, <1>3
  DEF Compensate, CompensateScript, At, Goto, SettlingPlaces, LockedPlaces, HandlerPlaces,
      TasksTypeOK, RedisTypeOK
<1>4. CASE Cancel(t, p)
  BY <1>1, <1>4
  DEF Cancel, CancelScript, At, Goto, SettlingPlaces, LockedPlaces, TasksTypeOK, RedisTypeOK
<1> QED
  BY <1>2, <1>3, <1>4

\* A new order does not touch the hash of another one.
LEMMA ClaimKeepsHashes ==
  ASSUME RedisTypeOK, NEW u \in Users, NEW a \in Activities, Claim(u, a), NEW o \in Accepted
  PROVE  hash'[o] = hash[o]
<1>1. o \in Orders /\ o \in 1 .. Len(stream) /\ Len(stream) \in Nat
  BY OrderFields, LenProperties DEF RedisTypeOK, Accepted
<1> QED
  BY <1>1 DEF Claim, RedisTypeOK

\* The order in a task's hands is settled by that task or by nobody.
LEMMA UnsettledInHand ==
  ASSUME TypesOK, LocksHeld, [Next]_vars,
         NEW s \in Tasks, NEW o \in todo[s], Current(s, o), pc[s] \in LockedPlaces,
         pc'[s] \in SettlingPlaces
  PROVE  hash'[o] \in {hash[o], "none"}
<1>1. RedisTypeOK /\ o \in Accepted /\ o \in Orders
  BY BatchAccepted, OrderFields DEF TypesOK, FulfilmentTypeOK
<1>2. ASSUME NEW t \in Tasks, NEW p \in todo[t],
             \/ t \in Workers /\ (MarkGranted(t, p) \/ Compensate(t, p))
             \/ t \in Cancellers /\ Cancel(t, p)
      PROVE  hash'[o] = hash[o]
  <2>1. o # p
    BY <1>2, SettledByHandler, HolderUnique
  <2> QED
    BY <1>1, <1>2, <2>1, SettledByHandler
<1>3. ASSUME NEW p \in Accepted, HashExpires(p) PROVE hash'[o] \in {hash[o], "none"}
  BY <1>1, <1>3 DEF HashExpires, ExpireHash, RedisTypeOK
<1>4. ASSUME NEW u \in Users, NEW a \in Activities, UserClaims(u, a)
      PROVE  hash'[o] = hash[o]
  BY <1>1, <1>4, ClaimKeepsHashes DEF UserClaims
<1> QED
  BY <1>2, <1>3, <1>4, SettlingSteps DEF Tasks

\* A task comes to a settling place from another one, or from its look under the
\* lock, which found the order processing.
LEMMA SettlesNext ==
  ASSUME TypesOK, [Next]_vars, NEW s \in Tasks, NEW o \in todo'[s], Current(s, o)',
         pc'[s] \in SettlingPlaces
  PROVE  /\ Current(s, o) /\ o \in todo[s]
         /\ \/ pc[s] \in SettlingPlaces
            \/ hash[o] = "processing" /\ hash' = hash
<1>1. SettlingPlaces \subseteq LockedPlaces /\ LockedPlaces \subseteq Inner
  BY DEF SettlingPlaces, Inner, LockedPlaces, TryPlaces, HandlerPlaces
<1>2. Arrives(s, o)
  BY <1>1, Arrival
<1>3. Current(s, o) /\ o \in todo[s] /\ pc \in [Tasks -> Places] /\ TasksTypeOK
  BY <1>2 DEF Arrives, Current, TypesOK, FulfilmentTypeOK, TasksTypeOK
<1>4. CASE CheckStatus(s, o)
  BY <1>3, <1>4 DEF CheckStatus, Goto, SettlingPlaces, redisVars
<1>5. CASE AcquireLock(s, o) \/ RemoveFromDelay(s, o)
  BY <1>3, <1>5 DEF AcquireLock, RemoveFromDelay, Goto, SettlingPlaces
<1>6. CASE Peek(s, o)
  BY <1>3, <1>6, PeekGoesOn DEF SettlingPlaces
<1>7. CASE \/ BeginGrant(s, o) \/ CommitGrant(s, o) \/ RefuseGrant(s, o)
           \/ MarkGranted(s, o) \/ Compensate(s, o)
  BY <1>3, <1>7
  DEF BeginGrant, CommitGrant, RefuseGrant, MarkGranted, Compensate, At, SettlingPlaces
<1>8. pc'[s] \notin {"release", "giveup"}
  BY DEF SettlingPlaces
<1> QED
  BY <1>2, <1>3, <1>4, <1>5, <1>6, <1>7, <1>8 DEF Arrives, Advance

LEMMA SettlesUnsettledStep ==
  ASSUME TypesOK, LocksHeld, SettlesUnsettled, [Next]_vars
  PROVE  SettlesUnsettled'
<1> SUFFICES ASSUME NEW s \in Tasks, NEW o \in todo'[s], Current(s, o)',
                    pc'[s] \in SettlingPlaces
             PROVE  hash'[o] \in {"processing", "none"}
  BY DEF SettlesUnsettled
<1>1. SettlingPlaces \subseteq LockedPlaces
  BY DEF SettlingPlaces, LockedPlaces, TryPlaces, HandlerPlaces
<1>2. CASE hash[o] = "processing" /\ hash' = hash
  BY <1>2
<1>3. CASE Current(s, o) /\ o \in todo[s] /\ pc[s] \in SettlingPlaces
  <2>1. hash[o] \in {"processing", "none"}
    BY <1>3 DEF SettlesUnsettled
  <2>2. hash'[o] \in {hash[o], "none"}
    BY <1>1, <1>3, UnsettledInHand
  <2> QED
    BY <2>1, <2>2
<1> QED
  BY <1>2, <1>3, SettlesNext

\* No lock has lapsed; everything else may have happened.
Handled == LocksHeld /\ SettlesUnsettled

LEMMA HandledStep ==
  ASSUME TypesOK, Handled, [Next]_vars, budget'["lapse"] = budget["lapse"]
  PROVE  Handled'
BY LocksHeldStep, SettlesUnsettledStep DEF Handled

LEMMA HandledInit == Init => Handled
BY DEF Handled, LocksHeld, SettlesUnsettled, Init, TasksInit

\* No hash has disappeared.
HashesExist == \A o \in Accepted : hash[o] # "none"

\* No lock lapses and no hash expires: what is assumed of the faults from here
\* on.  Crashes and errors may still happen, in any number.
Settling == Handled /\ HashesExist /\ budget["lapse"] = 0 /\ budget["expiry"] = 0

LEMMA NoHashExpires ==
  ASSUME TypesOK, budget["expiry"] = 0, [Next]_vars
  PROVE  budget'["expiry"] = 0 /\ \A o \in Accepted : ~HashExpires(o)
BY SpentStays DEF FaultKind, HashExpires

LEMMA HashesExistStep ==
  ASSUME TypesOK, LocksHeld, HashesExist, [Next]_vars, \A o \in Accepted : ~HashExpires(o)
  PROVE  HashesExist'
<1>1. RedisTypeOK /\ \A o \in Accepted : o \in Orders
  BY OrderFields DEF TypesOK, FulfilmentTypeOK
<1>2. ASSUME NEW u \in Users, NEW a \in Activities, UserClaims(u, a) PROVE HashesExist'
  <2>1. PICK n : n = Len(stream) + 1
    OBVIOUS
  <2>2. /\ Accepted' = Accepted \cup {n} /\ hash'[n] = "processing"
        /\ \A o \in Accepted : hash'[o] = hash[o]
    BY <1>1, <1>2, <2>1, NewOrder DEF UserClaims
  <2> QED
    BY <2>2 DEF HashesExist
<1>3. ASSUME NEW p \in Accepted, MarkSuccess(p) \/ CompensateScript(p) \/ CancelScript(p)
      PROVE  HashesExist'
  BY <1>1, <1>3
  DEF MarkSuccess, CompensateScript, CancelScript, HashesExist, RedisTypeOK, Accepted
<1>4. \A t \in Tasks : \A o \in todo[t] : o \in Accepted
  BY BatchAccepted DEF TypesOK
<1>5. CASE UNCHANGED <<stock, claimed, stream, hash>>
  BY <1>5 DEF HashesExist, Accepted
<1> QED
  BY <1>2, <1>3, <1>4, <1>5, SettlingSteps DEF MarkGranted, Compensate, Cancel, Tasks

LEMMA SettlingStep ==
  ASSUME TypesOK, Settling, [Next]_vars
  PROVE  Settling' /\ \A o \in Accepted : ~HashExpires(o)
<1>1. budget'["lapse"] = 0
  BY SpentStays DEF Settling, FaultKind
<1>2. budget'["expiry"] = 0 /\ \A o \in Accepted : ~HashExpires(o)
  BY NoHashExpires DEF Settling
<1> QED
  BY <1>1, <1>2, HandledStep, HashesExistStep DEF Settling, Handled

LEMMA SettlingInit ==
  ASSUME Budget["lapse"] = 0, Budget["expiry"] = 0, Init
  PROVE  Settling
BY HandledInit DEF Settling, Init, TasksInit, RedisInit, HashesExist, Accepted

\* Whoever is about to settle an order finds it as it was under the lock.
LEMMA SettlesProcessing ==
  ASSUME TypesOK, Settling, NEW t \in Tasks, NEW o, Current(t, o), pc[t] \in SettlingPlaces
  PROVE  o \in todo[t] /\ o \in Accepted /\ hash[o] = "processing"
<1>1. o \in todo[t] /\ o \in Accepted
  BY BatchAccepted DEF Current, TypesOK
<1> QED
  BY <1>1 DEF Settling, Handled, SettlesUnsettled, HashesExist

\* A hash that says how an order was settled changes no more, until it ends.
LEMMA SettledUntilExpiry ==
  ASSUME TypesOK, Handled, [Next]_vars, NEW o \in Accepted, hash[o] \in Settled
  PROVE  hash'[o] = hash[o] \/ HashExpires(o)
<1>1. RedisTypeOK /\ o \in Orders /\ hash[o] \notin {"processing", "none"}
  BY OrderFields DEF TypesOK, FulfilmentTypeOK, Settled
<1>2. ASSUME NEW t \in Tasks, NEW p \in todo[t],
             \/ t \in Workers /\ (MarkGranted(t, p) \/ Compensate(t, p))
             \/ t \in Cancellers /\ Cancel(t, p)
      PROVE  hash'[o] = hash[o]
  <2>1. o # p
    BY <1>1, <1>2, SettledByHandler DEF Handled, SettlesUnsettled
  <2> QED
    BY <1>1, <1>2, <2>1, SettledByHandler DEF Handled
<1>3. ASSUME NEW u \in Users, NEW a \in Activities, UserClaims(u, a)
      PROVE  hash'[o] = hash[o]
  BY <1>1, <1>3, ClaimKeepsHashes DEF UserClaims
<1>4. ASSUME NEW p \in Accepted, HashExpires(p) PROVE hash'[o] = hash[o] \/ HashExpires(o)
  BY <1>1, <1>4 DEF HashExpires, ExpireHash, RedisTypeOK
<1> QED
  BY <1>2, <1>3, <1>4, SettlingSteps DEF Tasks

LEMMA SettledKept ==
  ASSUME TypesOK, Settling, [Next]_vars, NEW o \in Accepted, hash[o] \in Settled
  PROVE  hash'[o] = hash[o]
BY SettledUntilExpiry, SettlingStep DEF Settling

\* A redelivered message, a late scan and a repeated compensation find a settled
\* order and leave it, for any number of crashes and errors: what they read
\* under the lock is what they act on (grant_consumer.py 119-128,
\* order_timeout.py 86-90).
THEOREM SettledForGood ==
  ASSUME Budget["lapse"] = 0, Budget["expiry"] = 0
  PROVE  Spec => FinalStatusStable
<1>1. ASSUME TypesOK, Settling, [Next]_vars
      PROVE  \A o \in Accepted : hash[o] \in Settled => hash'[o] = hash[o]
  BY <1>1, SettledKept
<1> QED
  BY <1>1, TypesAlways, SettlingInit, SettlingStep, PTL DEF Spec, FinalStatusStable

-----------------------------------------------------------------------------
(* The claimed set mirrors the orders *)

\* What makes ClaimMatchesOrders inductive, without counting: the members of the
\* claimed set are the users of the live orders, one order each.
LiveOrdersMatch ==
  /\ \A o \in Accepted : Live(o) => UserOf(o) \in claimed[ActivityOf(o)]
  /\ \A a \in Activities : \A u \in claimed[a] : \E o \in OrdersFor(u, a) : Live(o)
  /\ \A o, p \in Accepted :
       Live(o) /\ Live(p) /\ UserOf(o) = UserOf(p) /\ ActivityOf(o) = ActivityOf(p)
         => o = p

\* Compensated or cancelled, an order that was not settled gives its claim back.
TakenBack(p) ==
  /\ p \in Accepted /\ hash[p] \in {"processing", "none"}
  /\ Release(UserOf(p), ActivityOf(p))
  /\ \E status \in {"failed", "cancelled"} : hash' = [hash EXCEPT ![p] = status]
  /\ UNCHANGED stream

LEMMA SettledInHand ==
  ASSUME TypesOK, Handled, NEW t \in Tasks, NEW p \in todo[t]
  PROVE  /\ p \in Accepted
         /\ \/ t \in Workers /\ (MarkGranted(t, p) \/ Compensate(t, p))
            \/ t \in Cancellers /\ Cancel(t, p)
            => Current(t, p) /\ pc[t] \in SettlingPlaces /\ hash[p] \in {"processing", "none"}
         /\ t \in Workers /\ Compensate(t, p) => TakenBack(p)
         /\ t \in Cancellers /\ Cancel(t, p) => TakenBack(p)
<1>1. p \in Accepted
  BY BatchAccepted DEF TypesOK
<1>2. \/ t \in Workers /\ (MarkGranted(t, p) \/ Compensate(t, p))
      \/ t \in Cancellers /\ Cancel(t, p)
      => Current(t, p) /\ pc[t] \in SettlingPlaces
  BY DEF MarkGranted, Compensate, Cancel, At, SettlingPlaces
<1>3. Current(t, p) /\ pc[t] \in SettlingPlaces
      => hash[p] \in {"processing", "none"} /\ hash[p] \notin Settled
  BY DEF Handled, SettlesUnsettled, Settled
<1>4. t \in Workers /\ Compensate(t, p) => TakenBack(p)
  BY <1>1, <1>2, <1>3 DEF Compensate, CompensateScript, TakenBack
<1>5. t \in Cancellers /\ Cancel(t, p) => TakenBack(p)
  BY <1>1, <1>2, <1>3 DEF Cancel, CancelScript, TakenBack
<1> QED
  BY <1>1, <1>2, <1>3, <1>4, <1>5

\* What a step means for the orders and the claims.
LEMMA OrderSteps ==
  ASSUME TypesOK, Settling, [Next]_vars
  PROVE  \/ UNCHANGED <<stock, claimed, stream, hash>>
         \/ \E u \in Users, a \in Activities : UserClaims(u, a)
         \/ \E w \in Workers : \E o \in todo[w] :
              MarkGranted(w, o) /\ o \in Accepted /\ hash[o] = "processing"
         \/ \E o \in Accepted : TakenBack(o) /\ hash[o] = "processing"
BY SettlingSteps, SettlingStep, SettledInHand DEF Settling, HashesExist, Tasks, TakenBack

LEMMA LiveOrdersMatchStep ==
  ASSUME TypesOK, Settling, LiveOrdersMatch, [Next]_vars
  PROVE  LiveOrdersMatch'
<1> USE DEF LiveOrdersMatch, OrdersFor
<1>1. /\ RedisTypeOK
      /\ \A o \in Accepted : /\ o \in Orders
                              /\ UserOf(o) \in Users
                              /\ ActivityOf(o) \in Activities
  BY OrderFields DEF TypesOK, FulfilmentTypeOK
<1>2. CASE UNCHANGED <<claimed, stream, hash>>
  BY <1>2 DEF Accepted, UserOf, ActivityOf, Live
<1>3. ASSUME NEW u \in Users, NEW a \in Activities, UserClaims(u, a)
      PROVE  LiveOrdersMatch'
  <2>0. PICK n : n = Len(stream) + 1
    OBVIOUS
  <2>1. /\ n \notin Accepted
        /\ Accepted' = Accepted \cup {n}
        /\ stream'[n] = [user |-> u, activity |-> a]
        /\ hash'[n] = "processing"
        /\ \A o \in Accepted : stream'[o] = stream[o] /\ hash'[o] = hash[o]
        /\ u \notin claimed[a]
    BY <1>1, <1>3, <2>0, NewOrder DEF UserClaims
  <2>2. /\ claimed'[a] = claimed[a] \cup {u}
        /\ \A b \in Activities : b # a => claimed'[b] = claimed[b]
    BY <1>1, <1>3 DEF UserClaims, Claim, RedisTypeOK
  <2>3. \A o \in Accepted : UserOf(o)' = UserOf(o) /\ ActivityOf(o)' = ActivityOf(o)
                             /\ (Live(o)' <=> Live(o))
    BY <2>1 DEF UserOf, ActivityOf, Live
  <2>4. UserOf(n)' = u /\ ActivityOf(n)' = a /\ Live(n)'
    BY <2>1 DEF UserOf, ActivityOf, Live
  <2>5. \A o \in Accepted : Live(o) => ~(UserOf(o) = u /\ ActivityOf(o) = a)
    BY <2>1
  <2>6. \A o \in Accepted' : Live(o)' => UserOf(o)' \in claimed'[ActivityOf(o)']
    BY <1>1, <2>1, <2>2, <2>3, <2>4
  <2>7. \A b \in Activities : \A v \in claimed'[b] : \E o \in OrdersFor(v, b)' : Live(o)'
    BY <2>1, <2>2, <2>3, <2>4
  <2>8. \A o, p \in Accepted' :
          /\ Live(o)' /\ Live(p)' /\ UserOf(o)' = UserOf(p)'
          /\ ActivityOf(o)' = ActivityOf(p)'
          => o = p
    BY <2>1, <2>3, <2>4, <2>5
  <2> QED
    BY <2>6, <2>7, <2>8
<1>4. ASSUME NEW o \in Accepted, hash[o] = "processing", MarkSuccess(o)
      PROVE  LiveOrdersMatch'
  <2>1. \A p \in Accepted : Live(p)' <=> Live(p)
    BY <1>1, <1>4 DEF MarkSuccess, Live, RedisTypeOK
  <2> QED
    BY <1>4, <2>1 DEF MarkSuccess, Accepted, UserOf, ActivityOf
<1>5. ASSUME NEW p \in Accepted, TakenBack(p), hash[p] = "processing"
      PROVE  LiveOrdersMatch'
  <2>1. /\ Accepted' = Accepted
        /\ \A o \in Accepted : UserOf(o)' = UserOf(o) /\ ActivityOf(o)' = ActivityOf(o)
    BY <1>5 DEF TakenBack, Accepted, UserOf, ActivityOf
  <2>2. Live(p) /\ \A o \in Accepted : Live(o)' <=> Live(o) /\ o # p
    BY <1>1, <1>5 DEF TakenBack, Live, RedisTypeOK
  <2>3. /\ claimed'[ActivityOf(p)] = claimed[ActivityOf(p)] \ {UserOf(p)}
        /\ \A b \in Activities : b # ActivityOf(p) => claimed'[b] = claimed[b]
    BY <1>1, <1>5 DEF TakenBack, Release, RedisTypeOK
  <2>4. \A o \in Accepted : Live(o)' => UserOf(o)' \in claimed'[ActivityOf(o)']
    BY <1>1, <2>1, <2>2, <2>3
  <2>5. \A b \in Activities : \A v \in claimed'[b] : \E o \in OrdersFor(v, b)' : Live(o)'
    BY <2>1, <2>2, <2>3
  <2> QED
    BY <2>1, <2>2, <2>4, <2>5
<1> QED
  BY <1>2, <1>3, <1>4, <1>5, OrderSteps DEF MarkGranted

LEMMA LiveOrdersMatchInit == Init => LiveOrdersMatch
BY DEF Init, RedisInit, LiveOrdersMatch, Accepted

LEMMA LiveOrdersCount ==
  ASSUME LiveOrdersMatch
  PROVE  ClaimMatchesOrders
<1> SUFFICES ASSUME NEW u \in Users, NEW a \in Activities
             PROVE  Cardinality({o \in OrdersFor(u, a) : Live(o)}) =
                      IF u \in claimed[a] THEN 1 ELSE 0
  BY DEF ClaimMatchesOrders
<1>1. CASE u \in claimed[a]
  <2>1. PICK o \in OrdersFor(u, a) : Live(o)
    BY <1>1 DEF LiveOrdersMatch
  <2>2. {p \in OrdersFor(u, a) : Live(p)} = {o}
    BY <2>1 DEF LiveOrdersMatch, OrdersFor
  <2> QED
    BY <1>1, <2>2, FS_Singleton
<1>2. CASE u \notin claimed[a]
  <2>1. {p \in OrdersFor(u, a) : Live(p)} = {}
    BY <1>2 DEF LiveOrdersMatch, OrdersFor
  <2> QED
    BY <1>2, <2>1, FS_EmptySet
<1> QED
  BY <1>1, <1>2

\* The claimed set of an activity says of every user how many orders that are
\* processing or granted the user has, which is never two: no retry, crash or
\* late scan lets a user claim again while an order lives, nor keeps a user out
\* after the last one is gone (seckill.lua 32-64, cancel.lua 25-28,
\* compensate.lua 9-12).
THEOREM ClaimsMatchOrders ==
  ASSUME Budget["lapse"] = 0, Budget["expiry"] = 0
  PROVE  Spec => []ClaimMatchesOrders
BY TypesAlways, SettlingInit, SettlingStep, LiveOrdersMatchInit, LiveOrdersMatchStep,
   LiveOrdersCount, PTL DEF Spec

\* A live order has its row or is still in the delay queue.
LEMMA LiveIsReachable ==
  ASSUME NoOrderForgotten, Backing, LiveOrdersMatch
  PROVE  NoUnitStranded
<1> SUFFICES ASSUME NEW a \in Activities, NEW u \in claimed[a]
             PROVE  \E o \in OrdersFor(u, a) : HasRow(o) \/ o \in delay
  BY DEF NoUnitStranded
<1>1. PICK o \in OrdersFor(u, a) : Live(o)
  BY DEF LiveOrdersMatch
<1>2. CASE hash[o] = "processing"
  BY <1>1, <1>2 DEF NoOrderForgotten, OrdersFor
<1>3. CASE hash[o] = "success"
  <2>1. PICK r \in rows : r.user = u /\ r.activity = a
    BY <1>1, <1>3 DEF Backing, SuccessIsBacked, OrdersFor
  <2>2. r.id \in Accepted /\ UserOf(r.id) = u /\ ActivityOf(r.id) = a
    BY <2>1 DEF Backing, RowsAreMessages, MessageOf
  <2> QED
    BY <2>1, <2>2 DEF OrdersFor, HasRow
<1> QED
  BY <1>1, <1>2, <1>3 DEF Live

\* Every unit that a claim holds belongs to an order that was granted or that
\* somebody will come back to, for any number of crashes and errors
\* (cancel.lua 24).
THEOREM UnitsAccountedFor ==
  ASSUME Budget["lapse"] = 0, Budget["expiry"] = 0
  PROVE  Spec => []NoUnitStranded
BY TypesAlways, SettlingInit, SettlingStep, LiveOrdersMatchInit, LiveOrdersMatchStep,
   NothingForgotten, BackingInit, BackingStep, LiveIsReachable, PTL DEF Spec

-----------------------------------------------------------------------------
(* What is answered, one query after the other, as long as no lock lapses *)

\* A worker or a scanner is about to settle the order.
InSettlement(o) == \E t \in Tasks : Current(t, o) /\ pc[t] \in SettlingPlaces

\* The hash says that the order was settled this way, or it ended when nobody
\* was about to settle the order any more.
Over(o, status) ==
  \/ hash[o] = status
  \/ hash[o] = "none" /\ o \in expired /\ ~InSettlement(o)

\* What makes AnswersStand inductive: every final answer was the row, or it
\* stands in the hash as long as there is one ...
AnswersBacked ==
  \A o \in Accepted : \A status \in told[o] :
    (status = "success" /\ HasRow(o)) \/ Over(o, status)

\* ... there is one of them only, besides the row's ...
OneAnswer ==
  \A o \in Accepted : \A s, t \in told[o] :
    s = t \/ (HasRow(o) /\ "success" \in {s, t})

\* ... nothing is told of an order before there is one ...
ToldOfAccepted == \A o \in Orders \ Accepted : told[o] = {}

\* ... and a request that goes on to the hash asks for an order there is, and
\* finds success in it if somebody was told so before.
AsksAccepted ==
  \A q \in Queries :
    query[q].asking =>
      /\ query[q].order \in Accepted
      /\ query[q].knew =>
           hash[query[q].order] = "success" \/ query[q].order \in expired

Answers == AnswersBacked /\ OneAnswer /\ ToldOfAccepted /\ AsksAccepted

QueriesInv == TypesOK /\ Backing /\ Handled /\ OrderQueryTypeOK /\ Answers

\* A lock that has lapsed ends all this, and is excluded by the properties.
UntilLapse ==
  /\ TypesOK /\ Backing
  /\ budget["lapse"] \in Nat /\ budget["lapse"] <= Budget["lapse"]
  /\ budget["lapse"] = Budget["lapse"] => QueriesInv

LEMMA InSettlementUnsettled ==
  ASSUME Handled, NEW o, InSettlement(o)
  PROVE  hash[o] \in {"processing", "none"}
BY DEF InSettlement, Handled, SettlesUnsettled, Current

\* An order is settled once.
LEMMA OverKept ==
  ASSUME TypesOK, Handled, [Next]_vars, NEW o \in Accepted, NEW status \in Settled,
         Over(o, status)
  PROVE  Over(o, status)'
<1>1. RedisTypeOK /\ o \in Orders /\ [RedisNext]_redisVars
  BY OrderFields, RedisSimulation DEF TypesOK, FulfilmentTypeOK
<1>2. CASE hash[o] = status
  <2>1. CASE HashExpires(o)
    <3>1. hash'[o] = "none" /\ o \in expired' /\ UNCHANGED <<pc, todo>>
      BY <1>1, <2>1 DEF HashExpires, ExpireHash, RedisTypeOK, taskVars
    <3>2. ~InSettlement(o)
      BY <1>2, InSettlementUnsettled DEF Settled
    <3>3. ~InSettlement(o)'
      BY <3>1, <3>2 DEF InSettlement, Current
    <3> QED
      BY <3>1, <3>3 DEF Over
  <2>2. CASE ~HashExpires(o)
    BY <1>2, <2>2, SettledUntilExpiry DEF Over
  <2> QED
    BY <2>1, <2>2
<1>3. CASE hash[o] = "none" /\ o \in expired /\ ~InSettlement(o)
  <2>1. ASSUME NEW t \in Tasks, NEW p \in todo[t],
               \/ t \in Workers /\ (MarkGranted(t, p) \/ Compensate(t, p))
               \/ t \in Cancellers /\ Cancel(t, p)
        PROVE  hash'[o] = hash[o]
    <3>1. o # p
      BY <1>3, <2>1, SettledInHand DEF InSettlement
    <3> QED
      BY <1>1, <2>1, <3>1, SettledByHandler DEF Handled
  <2>2. ASSUME NEW p \in Accepted, HashExpires(p) PROVE hash'[o] = "none"
    BY <1>1, <1>3, <2>2 DEF HashExpires, ExpireHash, RedisTypeOK
  <2>3. ASSUME NEW u \in Users, NEW a \in Activities, UserClaims(u, a)
        PROVE  hash'[o] = hash[o]
    BY <1>1, <2>3, ClaimKeepsHashes DEF UserClaims
  <2>4. hash'[o] = "none"
    BY <1>3, <2>1, <2>2, <2>3, SettlingSteps DEF Tasks
  <2>5. expired \subseteq expired'
    BY <1>1
    DEF RedisNext, Claim, CancelScript, CompensateScript, MarkSuccess, Unschedule,
        ExpireHash, CloseActivity, redisVars
  <2>6. ~InSettlement(o)'
    BY <1>3, SettlesNext DEF InSettlement, Current
  <2> QED
    BY <1>3, <2>4, <2>5, <2>6 DEF Over
<1> QED
  BY <1>2, <1>3 DEF Over

\* An accepted order is an order, now and after the next step.
LEMMA AcceptedAreOrdersNext ==
  RedisTypeOK' => \A o \in Accepted' : o \in Orders
<1>1. RedisTypeOK => \A o \in Accepted : o \in Orders
  BY OrderFields
<1>2. (RedisTypeOK => \A o \in Accepted : o \in Orders)'
  BY <1>1, PTL
<1> QED
  BY <1>2

\* The fulfilment takes no answer back.
LEMMA AnswersStandStill ==
  ASSUME QueriesInv, [Next]_vars, UNCHANGED queryVars
  PROVE  Answers'
<1>1. /\ TypesOK /\ Backing /\ Handled /\ RedisTypeOK /\ OrderQueryTypeOK /\ Answers
      /\ [RedisNext]_redisVars /\ UNCHANGED <<query, told>>
  BY RedisSimulation DEF QueriesInv, TypesOK, FulfilmentTypeOK, queryVars
<1>2. Accepted \subseteq Accepted' /\ \A o \in Accepted' : o \in Orders
  <2>1. RedisTypeOK'
    BY <1>1, RedisStepType
  <2> QED
    BY <1>1, <2>1, AcceptedAreOrdersNext, StreamGrows
<1>3. \A o : HasRow(o) => HasRow(o)'
  <2>1. rows \subseteq rows'
    BY <1>1, RowsStep DEF Backing
  <2> QED
    BY <2>1 DEF HasRow
<1>4. \A o \in Accepted' \ Accepted : told'[o] = {}
  BY <1>1, <1>2 DEF Answers, ToldOfAccepted
<1>5. AnswersBacked'
  <2>1. ASSUME NEW o \in Accepted, NEW status \in told[o]
        PROVE  (status = "success" /\ HasRow(o)') \/ Over(o, status)'
    <3>1. o \in Orders /\ status \in Settled
      BY <1>1, <1>2 DEF OrderQueryTypeOK
    <3> QED
      BY <1>1, <1>3, <3>1, OverKept DEF Answers, AnswersBacked
  <2> QED
    BY <1>1, <1>4, <2>1 DEF AnswersBacked
<1>6. OneAnswer'
  BY <1>1, <1>3, <1>4 DEF Answers, OneAnswer
<1>7. ToldOfAccepted'
  BY <1>1, <1>2 DEF Answers, ToldOfAccepted
<1>8. AsksAccepted'
  <2>1. ASSUME NEW o \in Accepted, hash[o] = "success" \/ o \in expired
        PROVE  hash'[o] = "success" \/ o \in expired'
    <3>1. expired \subseteq expired'
      BY <1>1
      DEF RedisNext, Claim, CancelScript, CompensateScript, MarkSuccess, Unschedule,
          ExpireHash, CloseActivity, redisVars
    <3>2. hash[o] = "success" => hash'[o] = "success" \/ o \in expired'
      BY <1>1, SettledUntilExpiry DEF Settled, HashExpires, ExpireHash
    <3> QED
      BY <2>1, <3>1, <3>2
  <2> QED
    BY <1>1, <1>2, <2>1 DEF Answers, AsksAccepted
<1> QED
  BY <1>5, <1>6, <1>7, <1>8 DEF Answers

\* A query adds an answer that agrees with the ones given before.
LEMMA QueryAgrees ==
  ASSUME QueriesInv, NEW q \in Queries, QueryStep(q), UNCHANGED vars
  PROVE  OrderQueryTypeOK' /\ Answers'
<1>1. /\ RedisTypeOK /\ OrderQueryTypeOK
      /\ AnswersBacked /\ OneAnswer /\ ToldOfAccepted /\ AsksAccepted
      /\ UNCHANGED <<stream, hash, expired, rows, pc, todo>>
  BY DEF QueriesInv, TypesOK, FulfilmentTypeOK, vars, redisVars, databaseVars, taskVars,
         Answers
<1>2. /\ Accepted' = Accepted
      /\ \A o : (HasRow(o)' <=> HasRow(o)) /\ \A status : Over(o, status)' <=> Over(o, status)
  BY <1>1 DEF Accepted, HasRow, Over, InSettlement, Current
<1>3. \A r \in Queries : query[r] = NotAsking \/ query[r] \in Asking
  BY <1>1 DEF OrderQueryTypeOK
<1>4. ASSUME UNCHANGED told
      PROVE  AnswersBacked' /\ OneAnswer' /\ ToldOfAccepted' /\ told' \in [Orders -> SUBSET Settled]
  BY <1>1, <1>2, <1>4 DEF AnswersBacked, OneAnswer, ToldOfAccepted, OrderQueryTypeOK
<1>5. ASSUME NEW o \in Accepted, NEW status, Tell(o, status),
             status \in Settled => (status = "success" /\ HasRow(o)) \/ hash[o] = status
      PROVE  AnswersBacked' /\ OneAnswer' /\ ToldOfAccepted' /\ told' \in [Orders -> SUBSET Settled]
  <2>1. /\ o \in Orders
        /\ told'[o] = told[o] \cup ({status} \cap Settled)
        /\ \A p \in Orders : p # o => told'[p] = told[p]
        /\ told' \in [Orders -> SUBSET Settled]
    BY <1>1, <1>5, OrderFields DEF Tell, OrderQueryTypeOK
  <2>2. \A p \in Accepted : p \in Orders
    BY <1>1, OrderFields
  <2>3. AnswersBacked'
    <3>1. \A p \in Accepted : \A x \in told'[p] : (x = "success" /\ HasRow(p)) \/ Over(p, x)
      BY <1>1, <1>5, <2>1, <2>2 DEF AnswersBacked, Over
    <3> QED
      BY <1>2, <3>1 DEF AnswersBacked
  <2>4. OneAnswer'
    <3>1. ASSUME NEW x \in told[o], status \in Settled
          PROVE  x = status \/ (HasRow(o) /\ "success" \in {x, status})
      <4>1. (x = "success" /\ HasRow(o)) \/ Over(o, x)
        BY <1>1 DEF AnswersBacked
      <4> QED
        BY <1>5, <3>1, <4>1 DEF Over, Settled
    <3>2. \A p \in Accepted : \A x, y \in told'[p] :
            x = y \/ (HasRow(p) /\ "success" \in {x, y})
      BY <1>1, <2>1, <2>2, <3>1 DEF OneAnswer
    <3> QED
      BY <1>2, <3>2 DEF OneAnswer
  <2>5. ToldOfAccepted'
    BY <1>1, <1>2, <1>5, <2>1 DEF ToldOfAccepted
  <2> QED
    BY <2>1, <2>3, <2>4, <2>5
<1>6. ASSUME NEW next \in {NotAsking} \cup Asking, query' = [query EXCEPT ![q] = next],
             next.asking =>
               /\ next.order \in Accepted
               /\ next.knew => hash[next.order] = "success" \/ next.order \in expired
      PROVE  AsksAccepted' /\ query' \in [Queries -> {NotAsking} \cup Asking]
  BY <1>1, <1>2, <1>6 DEF AsksAccepted, OrderQueryTypeOK
<1>7. ASSUME UNCHANGED query
      PROVE  AsksAccepted' /\ query' \in [Queries -> {NotAsking} \cup Asking]
  BY <1>1, <1>2, <1>7 DEF AsksAccepted, OrderQueryTypeOK
<1>8. NotAsking \in {NotAsking} \cup Asking /\ ~NotAsking.asking
  BY DEF NotAsking
<1>9. ASSUME NEW o \in Accepted, AskRow(q, o) PROVE OrderQueryTypeOK' /\ Answers'
  <2>1. CASE RowAnswers(o) /\ Tell(o, "success") /\ UNCHANGED query
    BY <1>5, <1>7, <2>1 DEF RowAnswers, OrderQueryTypeOK, Answers
  <2>2. CASE ~RowAnswers(o)
    <3>1. PICK next : next = [asking |-> TRUE, order |-> o, knew |-> "success" \in told[o]]
      OBVIOUS
    <3>2. next \in Asking /\ query' = [query EXCEPT ![q] = next] /\ UNCHANGED told
      BY <1>1, <1>9, <2>2, <3>1, OrderFields DEF AskRow, Asking
    <3>3. next.knew => hash[o] = "success" \/ o \in expired
      BY <1>1, <2>2, <3>1 DEF AnswersBacked, Over, RowAnswers
    <3>4. next.order = o
      BY <3>1
    <3> QED
      BY <1>4, <1>6, <3>2, <3>3, <3>4 DEF OrderQueryTypeOK, Answers
  <2> QED
    BY <1>9, <2>1, <2>2 DEF AskRow
<1>10. ASSUME NEW o \in Accepted, AskHash(q, o) PROVE OrderQueryTypeOK' /\ Answers'
  BY <1>4, <1>5, <1>6, <1>8, <1>10 DEF AskHash, OrderQueryTypeOK, Answers
<1>11. CASE QueryFails(q)
  BY <1>4, <1>6, <1>8, <1>11 DEF QueryFails, OrderQueryTypeOK, Answers
<1> QED
  BY <1>9, <1>10, <1>11 DEF QueryStep

LEMMA QueriesStep ==
  ASSUME QueriesInv, [OrderQueryNext]_queryAllVars, budget'["lapse"] = budget["lapse"]
  PROVE  QueriesInv'
<1>1. CASE [Next]_vars /\ UNCHANGED queryVars
  <2>1. TypesOK' /\ Backing'
    BY <1>1, TypesStep, BackingStep DEF QueriesInv
  <2>2. Handled' /\ Answers'
    BY <1>1, <2>1, HandledStep, AnswersStandStill DEF QueriesInv
  <2> QED
    BY <1>1, <2>1, <2>2 DEF QueriesInv, OrderQueryTypeOK, queryVars
<1>2. ASSUME NEW q \in Queries, QueryStep(q), UNCHANGED vars PROVE QueriesInv'
  <2>1. [Next]_vars /\ UNCHANGED budget
    BY <1>2 DEF vars
  <2>2. TypesOK' /\ Backing' /\ Handled'
    BY <2>1, TypesStep, BackingStep, HandledStep DEF QueriesInv
  <2> QED
    BY <1>2, <2>1, <2>2, QueryAgrees DEF QueriesInv
<1> QED
  BY <1>1, <1>2 DEF OrderQueryNext, queryAllVars

LEMMA UntilLapseStep ==
  ASSUME UntilLapse, [OrderQueryNext]_queryAllVars
  PROVE  UntilLapse'
<1>1. [Next]_vars
  BY DEF OrderQueryNext, queryAllVars, vars
<1>2. TypesOK' /\ Backing'
  BY <1>1, TypesStep, BackingStep DEF UntilLapse
<1>3. /\ {budget["lapse"], budget'["lapse"], Budget["lapse"]} \subseteq Nat
      /\ budget'["lapse"] <= budget["lapse"]
  BY <1>1, FaultsCount, FulfilmentAssumption DEF UntilLapse, FulfilmentAssumption, FaultKind
<1>4. CASE budget'["lapse"] = Budget["lapse"]
  <2>1. budget'["lapse"] = budget["lapse"] /\ QueriesInv
    BY <1>3, <1>4 DEF UntilLapse
  <2> QED
    BY <1>2, <1>3, <2>1, QueriesStep DEF UntilLapse
<1> QED
  BY <1>2, <1>3, <1>4 DEF UntilLapse

LEMMA UntilLapseInit ==
  ASSUME OrderQueryInit
  PROVE  UntilLapse
<1>1. TypesOK /\ Backing /\ Handled
  BY TypesInit, BackingInit, HandledInit DEF OrderQueryInit
<1>2. Accepted = {} /\ budget = Budget
  BY DEF OrderQueryInit, Init, RedisInit, TasksInit, Accepted
<1>3. OrderQueryTypeOK /\ Answers
  BY <1>2
  DEF OrderQueryInit, OrderQueryTypeOK, Answers, AnswersBacked, OneAnswer, ToldOfAccepted,
      AsksAccepted, NotAsking
<1> QED
  BY <1>1, <1>2, <1>3, FulfilmentAssumption
  DEF UntilLapse, QueriesInv, FulfilmentAssumption, FaultKind

LEMMA UntilLapseAlways == OrderQuerySpec => []UntilLapse
BY UntilLapseInit, UntilLapseStep, PTL DEF OrderQuerySpec

LEMMA ContradictionNeedsRow ==
  ASSUME UntilLapse
  PROVE  AnswersStand
<1> SUFFICES ASSUME QueriesInv, NEW o \in Accepted, Cardinality(told[o]) > 1
             PROVE  HasRow(o) /\ hash[o] \in {"failed", "cancelled", "none"}
  BY DEF AnswersStand, UntilLapse
<1>1. told[o] \subseteq Settled
  BY OrderFields DEF QueriesInv, OrderQueryTypeOK, TypesOK, FulfilmentTypeOK
<1>2. \E s, t \in told[o] : s # t
  <2>1. CASE told[o] = {}
    BY <2>1, FS_EmptySet
  <2>2. ASSUME NEW s \in told[o], \A t \in told[o] : s = t PROVE FALSE
    <3>1. told[o] = {s}
      BY <2>2
    <3> QED
      BY <3>1, FS_Singleton
  <2> QED
    BY <2>1, <2>2
<1>3. HasRow(o) /\ \E s \in told[o] : s # "success"
  BY <1>2 DEF QueriesInv, Answers, OneAnswer
<1>4. PICK s \in told[o] : s # "success"
  BY <1>3
<1>5. Over(o, s) /\ s \in {"failed", "cancelled"}
  BY <1>1, <1>4 DEF QueriesInv, Answers, AnswersBacked, Settled
<1> QED
  BY <1>3, <1>5 DEF Over

\* Two final answers for one order contradict one another only if its grant was
\* committed and it was taken back all the same, for any number of queries,
\* crashes and errors, between the two reads of a query too, until a lock lapses
\* (orders.py 19-38).
THEOREM NoContradiction == OrderQuerySpec => []AnswersStand
BY UntilLapseAlways, ContradictionNeedsRow, PTL

\* Nobody who was told of success is told anything else as long as the order has
\* a row or a hash and until a lock lapses under its owner, whatever commits, dies
\* or is cancelled between the two reads (orders.py 20-38, grant_consumer.py 130-138).
THEOREM SuccessIsFinal == OrderQuerySpec => []SuccessStands
<1>1. UntilLapse => SuccessStands
  BY DEF UntilLapse, QueriesInv, Answers, AsksAccepted, SuccessStands
<1> QED
  BY <1>1, UntilLapseAlways, PTL

-----------------------------------------------------------------------------
(* Nothing fails: granted orders keep their stock *)

FaultFree == \A kind \in FaultKind : budget[kind] = 0

\* What makes GrantedKeepsStock inductive: while nothing fails, a row whose order
\* is not marked yet is in the hands of the worker that goes on to mark it.
GrantsInHand ==
  \A o \in Accepted : HasRow(o) =>
    \/ hash[o] = "success"
    \/ \E w \in Workers : Current(w, o) /\ pc[w] = "mark"

LEMMA FaultFreeStep ==
  ASSUME TypesOK, FaultFree, [Next]_vars
  PROVE  FaultFree' /\ ~Fault
<1>1. FaultFree' /\ \A kind \in FaultKind : ~Spend(kind)
  BY SpentStays DEF FaultFree
<1>2. {"crash", "lapse", "error", "expiry"} \subseteq FaultKind
  BY DEF FaultKind
<1> QED
  BY <1>1, <1>2
  DEF Fault, ErrorInTry, ErrorInHandler, ErrorOutside, Crash, ErrorInScan, Lapse,
      HashExpires

\* A worker about to mark an order does so, and nobody makes it let go before.
LEMMA MarkFollows ==
  ASSUME TypesOK, FaultFree, [Next]_vars,
         NEW w \in Workers, NEW o, Current(w, o), pc[w] = "mark"
  PROVE  MarkGranted(w, o) \/ (pc'[w] = "mark" /\ todo'[w] = todo[w])
<1> DEFINE Stays == pc'[w] = "mark" /\ todo'[w] = todo[w]
<1>1. TasksTypeOK /\ RedisTypeOK /\ w \in Tasks /\ w \notin Cancellers
  BY BaseAssumption DEF TypesOK, FulfilmentTypeOK, TasksTypeOK, Tasks, BaseAssumption
<1>2. ASSUME NEW t \in Tasks, t # w, NEW place, Goto(t, place) PROVE Stays
  BY <1>1, <1>2 DEF Goto, TasksTypeOK
<1>3. ASSUME NEW t \in Tasks, t # w, NEW batch, Fetched(t, batch) PROVE Stays
  BY <1>1, <1>3 DEF Fetched, TasksTypeOK
<1>4. ASSUME NEW v \in Workers, v # w, Halt(v) PROVE Stays
  BY <1>1, <1>4 DEF Halt, ProcessOf
<1>5. ASSUME UNCHANGED taskVars PROVE Stays
  BY <1>5 DEF taskVars
<1>6. ASSUME NEW t \in Tasks, NEW p \in todo[t], LockStep(t, p) PROVE Stays
  <2>1. t # w
    BY <1>6
    DEF LockStep, AcquireLock, LockBusy, CheckStatus, RemoveFromDelay, ReleaseLock,
        ReleaseLost, At
  <2> QED
    BY <1>2, <1>3, <1>4, <1>6, <2>1
    DEF LockStep, AcquireLock, LockBusy, CheckStatus, RemoveFromDelay, ReleaseLock,
        ReleaseLost, Done, Shutdown
<1>7. ASSUME NEW v \in Workers, NEW p \in todo[v], MarkGranted(v, p)
      PROVE  MarkGranted(w, o) \/ Stays
  <2>1. CASE v = w
    BY <1>1, <1>7, <2>1, CurrentUnique DEF MarkGranted, At
  <2>2. CASE v # w
    BY <1>2, <1>7, <2>2 DEF MarkGranted, Tasks
  <2> QED
    BY <2>1, <2>2
<1>8. ASSUME NEW v \in Workers, NEW p \in todo[v],
             \/ BeginGrant(v, p) \/ CommitGrant(v, p) \/ RefuseGrant(v, p)
             \/ ConflictGrant(v, p) \/ Compensate(v, p) \/ Acknowledge(v, p)
      PROVE  Stays
  <2>1. v # w
    BY <1>8
    DEF BeginGrant, CommitGrant, RefuseGrant, ConflictGrant, Compensate, Acknowledge, At
  <2>2. \E place : Goto(v, place)
    BY <1>8 DEF BeginGrant, CommitGrant, RefuseGrant, ConflictGrant, Compensate, Acknowledge
  <2> QED
    BY <1>2, <2>1, <2>2 DEF Tasks
<1>9. ASSUME NEW v \in Workers, NEW p \in todo[v], LockUserRow(v, p) PROVE Stays
  BY <1>5, <1>9 DEF LockUserRow
<1>10. ASSUME NEW v \in Workers, NEW p \in todo[v], GiveUp(v, p) PROVE Stays
  BY <1>4, <1>10 DEF GiveUp, At, Shutdown
<1>11. ASSUME NEW v \in Workers, Recover(v) \/ Read(v) PROVE Stays
  BY <1>3, <1>11 DEF Recover, Read, Tasks
<1>12. ASSUME NEW v \in Workers, WorkerStep(v) PROVE MarkGranted(w, o) \/ Stays
  BY <1>6, <1>7, <1>8, <1>9, <1>10, <1>11, <1>12 DEF WorkerStep, Tasks
<1>13. ASSUME NEW c \in Cancellers, CancellerStep(c) PROVE Stays
  BY <1>1, <1>2, <1>3, <1>6, <1>13
  DEF CancellerStep, Scan, Peek, DropEntry, Done, Cancel, Tasks
<1>14. ASSUME NEW v \in Workers, Restart(v) PROVE Stays
  BY <1>1, <1>14 DEF Restart, ProcessOf
<1> QED
  BY <1>5, <1>12, <1>13, <1>14, FaultFreeStep
  DEF Next, UserClaims, OrphanExpires, MessageAges, DeadlinePasses, vars, taskVars

LEMMA GrantsInHandStep ==
  ASSUME TypesOK, Settling, FaultFree, Backing, GrantsInHand, [Next]_vars
  PROVE  GrantsInHand'
<1> SUFFICES ASSUME NEW o \in Accepted', HasRow(o)'
             PROVE  \/ hash'[o] = "success"
                    \/ \E w \in Workers : Current(w, o)' /\ pc'[w] = "mark"
  BY DEF GrantsInHand
<1>1. /\ TasksTypeOK /\ RedisTypeOK
      /\ \A w \in Workers : w \in Tasks
  BY DEF TypesOK, FulfilmentTypeOK, TasksTypeOK, Tasks
<1>2. CASE HasRow(o)
  <2>1. o \in Accepted
    BY <1>2 DEF HasRow, Backing, RowsAreMessages
  <2>2. CASE hash[o] = "success"
    BY <2>1, <2>2, SettledKept DEF Settled
  <2>3. ASSUME NEW w \in Workers, Current(w, o), pc[w] = "mark",
               pc'[w] = "mark", todo'[w] = todo[w]
        PROVE  Current(w, o)' /\ pc'[w] = "mark"
    BY <2>3 DEF Current
  <2>4. ASSUME NEW w \in Workers, MarkGranted(w, o) PROVE hash'[o] = "success"
    BY <1>1, <2>1, <2>4, OrderFields DEF MarkGranted, MarkSuccess, RedisTypeOK
  <2> QED
    BY <1>2, <2>1, <2>2, <2>3, <2>4, MarkFollows DEF GrantsInHand
<1>3. CASE ~HasRow(o)
  <2>1. PICK w \in Workers : \E p \in todo[w] :
          CommitGrant(w, p) /\ rows' = rows \cup {MessageOf(p)}
    BY <1>3, RowsStep DEF Backing, HasRow
  <2>2. PICK p \in todo[w] : CommitGrant(w, p) /\ rows' = rows \cup {MessageOf(p)}
    BY <2>1
  <2>3. o = p
    BY <1>3, <2>2 DEF HasRow, MessageOf
  <2> QED
    BY <1>1, <2>2, <2>3 DEF CommitGrant, At, Goto, Current, TasksTypeOK
<1> QED
  BY <1>2, <1>3

\* An order whose row is written is marked or about to be, and nobody else may
\* settle it meanwhile.
LEMMA GrantedNotTakenBack ==
  SettlesUnsettled /\ GrantsInHand => GrantedKeepsStock
<1> SUFFICES ASSUME SettlesUnsettled, GrantsInHand,
                    NEW o \in Accepted, hash[o] \in {"failed", "cancelled"}, HasRow(o)
             PROVE  FALSE
  BY DEF GrantedKeepsStock
<1>1. PICK w \in Workers : Current(w, o) /\ pc[w] = "mark"
  BY DEF GrantsInHand
<1> QED
  BY <1>1 DEF SettlesUnsettled, SettlingPlaces, Current, Tasks

\* What holds throughout when nothing fails.
FaultFreeInv == Settling /\ FaultFree /\ Backing /\ LiveOrdersMatch /\ GrantsInHand

LEMMA FaultFreeInvInit ==
  ASSUME \A kind \in FaultKind : Budget[kind] = 0, Init
  PROVE  FaultFreeInv
<1>1. GrantsInHand
  BY DEF Init, TasksInit, DatabaseInit, GrantsInHand, HasRow
<1>2. Budget["lapse"] = 0 /\ Budget["expiry"] = 0 /\ FaultFree
  BY DEF FaultKind, FaultFree, Init, TasksInit
<1> QED
  BY <1>1, <1>2, SettlingInit, BackingInit, LiveOrdersMatchInit DEF FaultFreeInv

LEMMA FaultFreeInvStep ==
  ASSUME TypesOK, FaultFreeInv, [Next]_vars
  PROVE  FaultFreeInv'
BY SettlingStep, FaultFreeStep, BackingStep, LiveOrdersMatchStep, GrantsInHandStep
DEF FaultFreeInv

LEMMA FaultFreeAlways ==
  ASSUME \A kind \in FaultKind : Budget[kind] = 0
  PROVE  Spec => [](TypesOK /\ FaultFreeInv)
BY TypesAlways, FaultFreeInvInit, FaultFreeInvStep, PTL DEF Spec

\* As long as nothing fails, no order that was granted has its stock released,
\* however consumers and scanners race for it (order_timeout.py 87,
\* cancel.lua 14).
THEOREM GrantedOrdersKeepStock ==
  ASSUME \A kind \in FaultKind : Budget[kind] = 0
  PROVE  Spec => []GrantedKeepsStock
BY FaultFreeAlways, GrantedNotTakenBack, PTL DEF FaultFreeInv, Settling, Handled

-----------------------------------------------------------------------------
(* Nothing fails: the books agree once the queues have drained *)

\* When everything is idle, whoever holds a claim of an activity has a row of
\* it, and the other way round.
LEMMA QuietHolders ==
  ASSUME TypesOK, FaultFreeInv, NoOrderForgotten, Quiet, NEW a \in Activities
  PROVE  claimed[a] = {r.user : r \in RowsOf(a)}
<1>1. ASSUME NEW u \in claimed[a] PROVE \E r \in RowsOf(a) : r.user = u
  <2>1. PICK o \in OrdersFor(u, a) : Live(o)
    BY DEF FaultFreeInv, LiveOrdersMatch
  <2>2. hash[o] = "success"
    BY <2>1 DEF Quiet, NoOrderForgotten, OrdersFor, Live
  <2> QED
    BY <2>1, <2>2 DEF FaultFreeInv, Backing, SuccessIsBacked, OrdersFor, RowsOf
<1>2. ASSUME NEW r \in RowsOf(a) PROVE r.user \in claimed[a]
  <2>1. /\ r.id \in Accepted /\ HasRow(r.id)
        /\ r.user = UserOf(r.id) /\ a = ActivityOf(r.id)
    BY DEF RowsOf, HasRow, FaultFreeInv, Backing, RowsAreMessages, MessageOf
  <2>2. hash[r.id] = "success"
    BY <2>1 DEF Quiet, FaultFreeInv, GrantsInHand, Tasks
  <2> QED
    BY <2>1, <2>2 DEF FaultFreeInv, LiveOrdersMatch, Live
<1> QED
  BY <1>1, <1>2

\* One row per user and activity: as many rows as users who have one.
LEMMA RowsCountUsers ==
  ASSUME OneGrantPerUser, FiniteTables, NEW a \in Activities
  PROVE  Cardinality({r.user : r \in RowsOf(a)}) = Cardinality(RowsOf(a))
<1> DEFINE R == RowsOf(a)
           U == {r.user : r \in R}
           f == [r \in R |-> r.user]
<1>1. IsFiniteSet(R)
  BY FS_Subset DEF RowsOf, FiniteTables
<1>2. f \in [R -> U] /\ \A r, s \in R : f[r] = f[s] => r = s
  BY DEF RowsOf, OneGrantPerUser
<1>3. \A u \in U : \E r \in R : r.user = u
  OBVIOUS
<1>4. \A u \in U : \E r \in R : f[r] = u
  BY <1>3
<1> HIDE DEF R, U, f
<1>5. f \in Injection(R, U) /\ f \in Surjection(R, U)
  BY <1>2, <1>4 DEF Injection, Surjection, IsInjective
<1>6. Cardinality(U) = Cardinality(R)
  BY <1>1, <1>5, FS_Bijection DEF Bijection, ExistsBijection
<1> QED
  BY <1>6 DEF R, U

LEMMA QuietAgrees ==
  ASSUME TypesOK, FaultFreeInv, NoOrderForgotten, StockConserved, NoOversell,
         OneGrantPerUser, FiniteTables
  PROVE  Reconciled
<1> SUFFICES ASSUME Quiet, NEW a \in Activities
             PROVE  /\ stock[a] = dbStock[a]
                    /\ stock[a] = InitialStock[a] - Cardinality(RowsOf(a))
  BY DEF Reconciled
<1>1. Cardinality(claimed[a]) = Cardinality(RowsOf(a))
  BY QuietHolders, RowsCountUsers
<1>2. IsFiniteSet(RowsOf(a))
  BY FS_Subset DEF RowsOf, FiniteTables
<1>3. /\ Cardinality(RowsOf(a)) \in Nat
      /\ stock[a] \in Nat /\ dbStock[a] \in Nat /\ InitialStock[a] \in Nat
  BY <1>2, FS_CardinalityType, BaseAssumption
  DEF TypesOK, FulfilmentTypeOK, RedisTypeOK, DatabaseTypeOK, BaseAssumption
<1>4. /\ stock[a] + Cardinality(claimed[a]) = InitialStock[a]
      /\ dbStock[a] + Cardinality(RowsOf(a)) = InitialStock[a]
  BY DEF StockConserved, NoOversell
<1> QED
  BY <1>1, <1>3, <1>4

LEMMA TablesStayFinite == Spec => []FiniteTables
<1>1. Init => FiniteTables
  BY FiniteInit DEF Init, TasksInit
<1> QED
  BY <1>1, TypesAlways, DatabaseSimulation, FiniteStep, PTL DEF Spec

\* After a sale in which nothing failed the reconciliation script finds nothing:
\* Redis sells from the same stock as the database, less exactly one unit per
\* order written (scripts/reconcile.py 24-62).
THEOREM BooksAgree ==
  ASSUME \A kind \in FaultKind : Budget[kind] = 0
  PROVE  Spec => []Reconciled
BY FaultFreeAlways, NothingForgotten, FulfilmentConserves, TablesStayFinite,
   QuietAgrees, PTL

-----------------------------------------------------------------------------
(* Nothing fails: the two stores are one ledger of reservations *)

Booking == [user : Users, activity : Activities, state : {"reserved", "granted", "returned"}]

\* What the refinement mapping shows of the orders.
Book ==
  [o \in Accepted |-> [user |-> UserOf(o), activity |-> ActivityOf(o), state |-> StateOf(o)]]

LEMMA BookType ==
  TypesOK => /\ Book \in Seq(Booking) /\ Len(Book) = Len(stream)
             /\ DOMAIN Book = Accepted /\ Len(stream) \in Nat /\ Accepted = 1 .. Len(stream)
<1> SUFFICES ASSUME TypesOK
             PROVE  /\ Book \in Seq(Booking) /\ Len(Book) = Len(stream)
                    /\ DOMAIN Book = Accepted /\ Len(stream) \in Nat
                    /\ Accepted = 1 .. Len(stream)
  OBVIOUS
<1>1. /\ stream \in Seq([user : Users, activity : Activities])
      /\ \A o \in Accepted : UserOf(o) \in Users /\ ActivityOf(o) \in Activities
  BY OrderFields DEF TypesOK, FulfilmentTypeOK, RedisTypeOK
<1>2. Accepted = 1 .. Len(stream) /\ Len(stream) \in Nat
  BY <1>1, LenProperties DEF Accepted
<1>3. Book \in [1 .. Len(stream) -> Booking]
  BY <1>1, <1>2 DEF Book, Booking, StateOf
<1>4. Book \in Seq(Booking)
  BY <1>2, <1>3, SeqDef
<1>5. Len(Book) = Len(stream)
  BY <1>2, <1>3, <1>4, LenProperties
<1> QED
  BY <1>2, <1>3, <1>4, <1>5 DEF Book

\* A new order is a new reservation, for somebody who holds none.
LEMMA ClaimReserves ==
  ASSUME TypesOK, TypesOK', FaultFreeInv, NEW u \in Users, NEW a \in Activities, UserClaims(u, a)
  PROVE  Sale!Reserve(u, a)
<1>1. PICK n : n = Len(stream) + 1
  OBVIOUS
<1>2. /\ RedisTypeOK
      /\ \A o \in Accepted : o \in Orders
      /\ rows' = rows
  BY OrderFields DEF TypesOK, FulfilmentTypeOK, UserClaims, databaseVars
<1>3. /\ n \notin Accepted
      /\ Accepted' = Accepted \cup {n}
      /\ stream'[n] = [user |-> u, activity |-> a]
      /\ hash'[n] = "processing"
      /\ \A o \in Accepted : stream'[o] = stream[o] /\ hash'[o] = hash[o]
      /\ u \notin claimed[a] /\ stock[a] > 0
  BY <1>1, <1>2, NewOrder DEF UserClaims
<1>4. ~HasRow(n)'
  BY <1>2, <1>3 DEF HasRow, FaultFreeInv, Backing, RowsAreMessages
<1>5. ASSUME NEW o \in DOMAIN Book, Book[o].user = u, Book[o].activity = a
      PROVE  Book[o].state = "returned"
  <2>1. o \in Accepted /\ UserOf(o) = u /\ ActivityOf(o) = a
    BY <1>5 DEF Book
  <2>2. ~Live(o)
    BY <1>3, <2>1 DEF FaultFreeInv, LiveOrdersMatch
  <2>3. hash[o] \in {"failed", "cancelled"}
    BY <1>2, <2>1, <2>2
    DEF FaultFreeInv, Settling, HashesExist, Live, RedisTypeOK, Status
  <2>4. ~HasRow(o)
    BY <2>1, <2>3, GrantedNotTakenBack DEF FaultFreeInv, Settling, Handled, GrantedKeepsStock
  <2> QED
    BY <2>1, <2>3, <2>4 DEF Book, StateOf
<1>6. Book' = Append(Book, [user |-> u, activity |-> a, state |-> "reserved"])
  <2> DEFINE b == [user |-> u, activity |-> a, state |-> "reserved"]
  <2>1. /\ Book \in Seq(Booking) /\ Len(Book) = Len(stream) /\ b \in Booking
        /\ DOMAIN Book = Accepted /\ Len(stream) \in Nat /\ Accepted = 1 .. Len(stream)
    BY BookType DEF Booking
  <2>2. /\ Append(Book, b) \in Seq(Booking)
        /\ Len(Append(Book, b)) = n
        /\ \A i \in Accepted : Append(Book, b)[i] = Book[i]
        /\ Append(Book, b)[n] = b
    BY <1>1, <2>1, AppendProperties
  <2>3. Book' \in Seq(Booking) /\ Accepted' = 1 .. Len(Book')
    <3>1. (Book \in Seq(Booking) /\ Len(Book) = Len(stream) /\ Accepted = 1 .. Len(stream))'
      BY BookType, PTL
    <3> QED
      BY <3>1 DEF Booking
  <2>4. Len(Book') = n
    <3>1. Len(Book') \in Nat
      BY <2>3, LenProperties
    <3> QED
      BY <1>1, <1>3, <2>1, <2>3, <3>1
  <2>5. ASSUME NEW i \in Accepted PROVE Book'[i] = Book[i]
    <3>1. /\ UserOf(i)' = UserOf(i) /\ ActivityOf(i)' = ActivityOf(i)
          /\ StateOf(i)' = StateOf(i)
      BY <1>2, <1>3 DEF UserOf, ActivityOf, StateOf, HasRow
    <3> QED
      BY <1>3, <3>1 DEF Book
  <2>6. Book'[n] = b
    <3>1. UserOf(n)' = u /\ ActivityOf(n)' = a /\ StateOf(n)' = "reserved"
      BY <1>3, <1>4 DEF UserOf, ActivityOf, StateOf
    <3> QED
      BY <1>3, <3>1 DEF Book
  <2>7. \A i \in 1 .. n : Book'[i] = Append(Book, b)[i]
    BY <1>3, <2>2, <2>3, <2>4, <2>5, <2>6
  <2> HIDE DEF b
  <2>8. Book' = Append(Book, b)
    BY <2>2, <2>3, <2>4, <2>7, SeqEqual
  <2> QED
    BY <2>8 DEF b
<1>7. stock' = [stock EXCEPT ![a] = @ - 1]
  BY DEF UserClaims, Claim
<1> QED
  BY <1>3, <1>5, <1>6, <1>7 DEF Sale!Reserve, Sale!Holds, Book

LEMMA BookChange ==
  ASSUME UNCHANGED stream, NEW p \in Accepted, NEW state, StateOf(p)' = state,
         \A o \in Accepted : o # p => StateOf(o)' = StateOf(o)
  PROVE  Book' = [Book EXCEPT ![p].state = state]
<1>1. /\ Accepted' = Accepted
      /\ \A o \in Accepted : UserOf(o)' = UserOf(o) /\ ActivityOf(o)' = ActivityOf(o)
  BY DEF Accepted, UserOf, ActivityOf
<1>2. Book' = [o \in Accepted |-> [user |-> UserOf(o), activity |-> ActivityOf(o),
                                   state |-> StateOf(o)']]
  BY <1>1 DEF Book
<1>3. [Book EXCEPT ![p].state = state] =
        [o \in Accepted |-> [user |-> UserOf(o), activity |-> ActivityOf(o),
                             state |-> IF o = p THEN state ELSE StateOf(o)]]
  <2>1. [Book[p] EXCEPT !.state = state] =
          [user |-> UserOf(p), activity |-> ActivityOf(p), state |-> state]
    BY DEF Book
  <2>2. [Book EXCEPT ![p].state = state] =
          [o \in Accepted |-> IF o = p THEN [Book[p] EXCEPT !.state = state] ELSE Book[o]]
    BY DEF Book
  <2>3. \A o \in Accepted : Book[o] = [user |-> UserOf(o), activity |-> ActivityOf(o),
                                      state |-> StateOf(o)]
    BY DEF Book
  <2> QED
    BY <2>1, <2>2, <2>3
<1> QED
  BY <1>2, <1>3

\* A compensation and a cancellation return one unit, of an order not granted.
LEMMA TakenBackReturns ==
  ASSUME TypesOK, FaultFreeInv, GrantedKeepsStock', UNCHANGED rows,
         NEW p \in Accepted, TakenBack(p), hash[p] = "processing"
  PROVE  Sale!Return(p)
<1>1. /\ RedisTypeOK
      /\ \A o \in Accepted : o \in Orders
      /\ UserOf(p) \in Users /\ ActivityOf(p) \in Activities
      /\ UNCHANGED stream
  BY OrderFields DEF TypesOK, FulfilmentTypeOK, TakenBack
<1>2. /\ hash[p] = "processing" /\ hash'[p] \in {"failed", "cancelled"}
      /\ \A o \in Accepted : o # p => hash'[o] = hash[o]
  BY <1>1 DEF TakenBack, RedisTypeOK
<1>3. ~HasRow(p) /\ \A o : HasRow(o)' <=> HasRow(o)
  <2>1. Accepted' = Accepted
    BY <1>1 DEF Accepted
  <2> QED
    BY <1>2, <2>1 DEF GrantedKeepsStock, HasRow
<1>4. StateOf(p) = "reserved" /\ StateOf(p)' = "returned"
  BY <1>2, <1>3 DEF StateOf
<1>5. \A o \in Accepted : o # p => StateOf(o)' = StateOf(o)
  BY <1>2, <1>3 DEF StateOf
<1>6. Book' = [Book EXCEPT ![p].state = "returned"]
  BY <1>1, <1>4, <1>5, BookChange
<1>7. UserOf(p) \in claimed[ActivityOf(p)]
  BY <1>2 DEF FaultFreeInv, LiveOrdersMatch, Live
<1>8. stock' = [stock EXCEPT ![ActivityOf(p)] = @ + 1]
  BY <1>1, <1>7 DEF TakenBack, Release
<1>9. Book[p].state = "reserved" /\ Book[p].activity = ActivityOf(p)
  BY <1>4 DEF Book
<1> QED
  BY <1>6, <1>8, <1>9 DEF Sale!Return, Book

\* The commit grants, and nothing before or after it does.
LEMMA CommitGrants ==
  ASSUME TypesOK, FaultFreeInv,
         NEW w \in Workers, NEW p \in todo[w], CommitGrant(w, p), p \in Accepted,
         rows' = rows \cup {MessageOf(p)}
  PROVE  Sale!Grant(p)
<1>1. UNCHANGED <<stream, stock, hash>>
  BY DEF CommitGrant, redisVars
<1>2. Current(w, p) /\ pc[w] = "grant" /\ w \in Tasks
  BY DEF CommitGrant, At, Tasks
<1>3. hash[p] = "processing" /\ ~HasRow(p)
  <2>1. txn[w].msg = MessageOf(p)
    BY <1>2 DEF FaultFreeInv, Backing, GrantsOrderInHand
  <2> QED
    BY <1>2, <2>1, SettlesProcessing
    DEF CommitGrant, TxnCommit, Found, HasRow, MessageOf, FaultFreeInv, SettlingPlaces
<1>4. HasRow(p)' /\ \A o : o # p => (HasRow(o)' <=> HasRow(o))
  <2>1. PICK m : m = MessageOf(p)
    OBVIOUS
  <2>2. m.id = p /\ rows' = rows \cup {m}
    BY <2>1 DEF MessageOf
  <2> QED
    BY <2>2 DEF HasRow
<1>5. /\ StateOf(p) = "reserved" /\ StateOf(p)' = "granted"
      /\ \A o \in Accepted : o # p => StateOf(o)' = StateOf(o)
  BY <1>1, <1>3, <1>4 DEF StateOf
<1>6. Book' = [Book EXCEPT ![p].state = "granted"] /\ Book[p].state = "reserved"
  BY <1>1, <1>5, BookChange DEF Book
<1> QED
  BY <1>1, <1>6 DEF Sale!Grant, Book

\* The mark changes nothing of what was decided.
LEMMA MarkIsInvisible ==
  ASSUME TypesOK, UNCHANGED rows,
         NEW p \in Accepted, hash[p] = "processing", MarkSuccess(p)
  PROVE  UNCHANGED <<stock, Book>>
<1>1. /\ RedisTypeOK
      /\ \A o \in Accepted : o \in Orders
  BY OrderFields DEF TypesOK, FulfilmentTypeOK
<1>2. /\ hash'[p] = "success"
      /\ \A o \in Accepted : o # p => hash'[o] = hash[o]
      /\ UNCHANGED <<stream, stock>>
  BY <1>1 DEF MarkSuccess, RedisTypeOK
<1>3. \A o \in Accepted : StateOf(o)' = StateOf(o)
  BY <1>2 DEF StateOf, HasRow
<1> QED
  BY <1>2, <1>3 DEF Book, Accepted, UserOf, ActivityOf

LEMMA SaleStep ==
  ASSUME TypesOK, TypesOK', FaultFreeInv, FaultFreeInv', [Next]_vars
  PROVE  [Sale!SaleNext]_<<stock, Book>>
<1>1. GrantedKeepsStock'
  <2>1. (SettlesUnsettled /\ GrantsInHand => GrantedKeepsStock)'
    BY GrantedNotTakenBack, PTL
  <2> QED
    BY <2>1 DEF FaultFreeInv, Settling, Handled
<1>2. DOMAIN Book = Accepted
  BY DEF Book
<1>3. ASSUME NEW w \in Workers, NEW p \in todo[w], CommitGrant(w, p), p \in Accepted,
             rows' = rows \cup {MessageOf(p)}
      PROVE  Sale!SaleNext
  BY <1>2, <1>3, CommitGrants DEF Sale!SaleNext, Book
<1>4. CASE UNCHANGED rows
  <2>1. CASE UNCHANGED <<stock, claimed, stream, hash>>
    BY <1>4, <2>1 DEF Book, Accepted, UserOf, ActivityOf, StateOf, HasRow
  <2>2. ASSUME NEW u \in Users, NEW a \in Activities, UserClaims(u, a)
        PROVE  Sale!SaleNext
    BY <2>2, ClaimReserves DEF Sale!SaleNext
  <2>3. ASSUME NEW p \in Accepted, TakenBack(p), hash[p] = "processing"
        PROVE  Sale!SaleNext
    BY <1>1, <1>2, <1>4, <2>3, TakenBackReturns DEF Sale!SaleNext, Book
  <2>4. ASSUME NEW p \in Accepted, hash[p] = "processing", MarkSuccess(p)
        PROVE  UNCHANGED <<stock, Book>>
    BY <1>4, <2>4, MarkIsInvisible
  <2> QED
    BY <2>1, <2>2, <2>3, <2>4, OrderSteps DEF FaultFreeInv, MarkGranted
<1> QED
  BY <1>3, <1>4, RowsStep DEF FaultFreeInv, Backing

\* As long as nothing fails, consumers, scanners, locks, transactions and two
\* stores together are one atomic ledger: a unit is reserved for a user who
\* holds none, granted at the commit, or returned, and never both.
THEOREM FulfilmentIsOneLedger ==
  ASSUME \A kind \in FaultKind : Budget[kind] = 0
  PROVE  Spec => ImplementsQuotaSale
<1>1. Init => Sale!SaleInit
  <2>1. Init => stock = InitialStock /\ stream = << >>
    BY DEF Init, RedisInit
  <2>2. stream = << >> => Book = << >>
    BY DEF Book, Accepted
  <2> QED
    BY <2>1, <2>2 DEF Sale!SaleInit, Book
<1>2. TypesOK /\ FaultFreeInv /\ [Next]_vars /\ TypesOK' /\ FaultFreeInv' =>
        [Sale!SaleNext]_<<stock, Book>>
  BY SaleStep
<1> QED
  BY <1>1, <1>2, FaultFreeAlways, PTL
  DEF Spec, ImplementsQuotaSale, Sale!SaleSpec, Book

-----------------------------------------------------------------------------
(* Publications in the middle of a sale *)

\* What a publication leaves alone.
BesidesPublication ==
  <<stream, hash, expired, delay, databaseVars, groupVars, taskVars, due, lock, budget>>

LEMMA PublicationSteps ==
  ASSUME [PublicationNext]_allVars
  PROVE  [Next]_vars \/ UNCHANGED BesidesPublication
BY DEF PublicationNext, PublisherStep, ReadActivity, WriteStock, ClearClaimed, WriteMeta,
       PublishFails, SaleEnds, allVars, vars, redisVars, BesidesPublication

-----------------------------------------------------------------------------
(* Types *)

PublishersTypeOK ==
  /\ publishing \in [Publishers -> Publishing]
  /\ published \in [Activities -> Nat]
  /\ ended \subseteq Activities

PublicationTypesOK == TypesOK /\ PublishersTypeOK

\* A publisher past its read remembers a number of units.
LEMMA SeenIsNat ==
  ASSUME PublishersTypeOK, NEW p \in Publishers, publishing[p] # NotPublishing
  PROVE  /\ publishing[p] \in [at : PublishPlaces, activity : Activities, seen : Nat]
         /\ publishing[p].seen \in Nat
BY DEF PublishersTypeOK, Publishing

LEMMA ContinueType ==
  ASSUME PublishersTypeOK, NEW p \in Publishers, publishing[p] # NotPublishing,
         NEW place \in PublishPlaces, ContinueAt(p, place)
  PROVE  publishing' \in [Publishers -> Publishing]
<1>1. [publishing[p] EXCEPT !.at = place]
        \in [at : PublishPlaces, activity : Activities, seen : Nat]
  BY SeenIsNat
<1> QED
  BY <1>1 DEF PublishersTypeOK, ContinueAt, Publishing

LEMMA PublishersTypeStep ==
  ASSUME PublicationTypesOK, [PublicationNext]_allVars
  PROVE  PublishersTypeOK'
<1> USE DEF PublicationTypesOK, PublishersTypeOK
<1>1. ASSUME NEW p \in Publishers, NEW a \in Activities, ReadActivity(p, a)
      PROVE  PublishersTypeOK'
  <2>1. dbStock[a] \in Nat
    BY DEF TypesOK, FulfilmentTypeOK, DatabaseTypeOK
  <2>2. [at |-> "stock", activity |-> a, seen |-> dbStock[a]] \in Publishing
    BY <2>1 DEF Publishing, PublishPlaces
  <2> QED
    BY <1>1, <2>2 DEF ReadActivity
<1>2. ASSUME NEW p \in Publishers, NEW a \in Activities,
             WriteStock(p, a) \/ ClearClaimed(p, a)
      PROVE  PublishersTypeOK'
  BY <1>2, ContinueType DEF WriteStock, ClearClaimed, PublishesAt, PublishPlaces
<1>3. ASSUME NEW p \in Publishers, NEW a \in Activities, WriteMeta(p, a)
      PROVE  PublishersTypeOK'
  BY <1>3 DEF WriteMeta, Publishing
<1>4. ASSUME NEW p \in Publishers, PublishFails(p) PROVE PublishersTypeOK'
  BY <1>4 DEF PublishFails, Publishing
<1>5. ASSUME NEW a \in Activities, SaleEnds(a) PROVE PublishersTypeOK'
  BY <1>5 DEF SaleEnds
<1>6. CASE UNCHANGED publicationVars
  BY <1>6 DEF publicationVars
<1> QED
  BY <1>1, <1>2, <1>3, <1>4, <1>5, <1>6 DEF PublicationNext, PublisherStep, allVars

\* The three keys stay well formed: SET writes a number read from db_stock.
LEMMA PublicationKeysType ==
  ASSUME PublicationTypesOK, [PublicationNext]_allVars, UNCHANGED BesidesPublication
  PROVE  RedisTypeOK'
<1>1. RedisTypeOK /\ PublishersTypeOK
  BY DEF PublicationTypesOK, TypesOK, FulfilmentTypeOK
<1>2. Accepted' = Accepted
  BY DEF BesidesPublication, Accepted
<1>3. CASE [Next]_vars
  BY <1>3, RedisSimulation, RedisStepType, <1>1 DEF PublicationTypesOK
<1>4. ASSUME NEW p \in Publishers, NEW a \in Activities, WriteStock(p, a)
      PROVE  RedisTypeOK'
  <2>1. publishing[p].seen \in Nat
    BY <1>1, <1>4, SeenIsNat DEF WriteStock, PublishesAt
  <2> QED
    BY <1>1, <1>2, <1>4, <2>1 DEF WriteStock, RedisTypeOK
<1>5. ASSUME NEW p \in Publishers, NEW a \in Activities, ClearClaimed(p, a)
      PROVE  RedisTypeOK'
  BY <1>1, <1>2, <1>5 DEF ClearClaimed, RedisTypeOK
<1>6. ASSUME NEW p \in Publishers, NEW a \in Activities, WriteMeta(p, a)
      PROVE  RedisTypeOK'
  BY <1>1, <1>2, <1>6 DEF WriteMeta, RedisTypeOK
<1>7. ASSUME NEW a \in Activities, SaleEnds(a) PROVE RedisTypeOK'
  BY <1>1, <1>2, <1>7 DEF SaleEnds, RedisTypeOK
<1> QED
  BY <1>3, <1>4, <1>5, <1>6, <1>7
  DEF PublicationNext, PublisherStep, ReadActivity, PublishFails, allVars, vars

LEMMA PublicationTypesStep ==
  ASSUME PublicationTypesOK, [PublicationNext]_allVars
  PROVE  PublicationTypesOK'
<1>1. PublishersTypeOK'
  BY PublishersTypeStep
<1>2. CASE [Next]_vars
  BY <1>1, <1>2, TypesStep DEF PublicationTypesOK
<1>3. CASE UNCHANGED BesidesPublication
  <2>1. RedisTypeOK'
    BY <1>3, PublicationKeysType
  <2>2. Accepted' = Accepted
    BY <1>3 DEF BesidesPublication, Accepted
  <2>3. DatabaseTypeOK' /\ RowsHeldByTxns'
    BY <1>3 DEF PublicationTypesOK, TypesOK, FulfilmentTypeOK, DatabaseTypeOK,
                RowsHeldByTxns, InTxn, BesidesPublication, databaseVars
  <2> QED
    BY <1>1, <1>3, <2>1, <2>2, <2>3
    DEF PublicationTypesOK, TypesOK, FulfilmentTypeOK, BesidesPublication, groupVars,
        taskVars
<1> QED
  BY <1>2, <1>3, PublicationSteps

LEMMA PublicationTypesInit == PublicationInit => PublicationTypesOK
<1> SUFFICES ASSUME PublicationInit PROVE PublicationTypesOK
  OBVIOUS
<1>1. RedisTypeOK
  BY BaseAssumption DEF BaseAssumption, PublicationInit, Unpublished, RedisTypeOK, Status,
                        Accepted
<1>2. DatabaseTypeOK /\ RowsHeldByTxns
  BY DatabaseInitType, RowsHeldByTxnsInit DEF PublicationInit, TasksInit
<1>3. TasksTypeOK
  <2>1. \A t \in Tasks : t \in Workers \/ t \in Cancellers
    BY DEF Tasks
  <2> QED
    BY <2>1, FulfilmentAssumption
    DEF PublicationInit, TasksInit, TasksTypeOK, FulfilmentAssumption, Places
<1>4. PublishersTypeOK
  BY DEF PublicationInit, PublishersTypeOK, Publishing
<1> QED
  BY <1>1, <1>2, <1>3, <1>4
  DEF PublicationTypesOK, TypesOK, FulfilmentTypeOK, TasksTypeOK

LEMMA PublicationTypesAlways == PublicationSpec => []PublicationTypesOK
BY PublicationTypesInit, PublicationTypesStep, PTL DEF PublicationSpec

\* Types of the sale with publications; Redis stock is never negative, whatever
\* a publication writes into it and when (seckill.py 83-94).
THEOREM PublicationTypeCorrect == PublicationSpec => []PublicationTypeOK
BY PublicationTypesAlways, PTL
DEF PublicationTypesOK, PublishersTypeOK, PublicationTypeOK, TypesOK

-----------------------------------------------------------------------------
(* The books *)

Books == FiniteTables /\ NoOversell /\ OneGrantPerUser

LEMMA BooksStep ==
  ASSUME PublicationTypesOK, Books, [PublicationNext]_allVars
  PROVE  Books'
<1>1. DatabaseTypeOK
  BY DEF PublicationTypesOK, TypesOK, FulfilmentTypeOK
<1>2. CASE [Next]_vars
  BY <1>1, <1>2, DatabaseSimulation, FiniteStep, NoOversellStep, OneGrantStep
  DEF PublicationTypesOK, Books
<1>3. CASE UNCHANGED BesidesPublication
  BY <1>3
  DEF BesidesPublication, databaseVars, Books, FiniteTables, NoOversell, RowsOf,
      OneGrantPerUser
<1> QED
  BY <1>2, <1>3, PublicationSteps

LEMMA BooksInit == PublicationInit => Books
<1>1. PublicationInit => DatabaseInit
  BY DEF PublicationInit, TasksInit
<1> QED
  BY <1>1, FiniteInit, NoOversellInit DEF Books, OneGrantPerUser, DatabaseInit

\* However often and at whatever moment an activity is published again, the
\* database sells no unit twice and grants a user once: what Redis offers too
\* much is refused there (grant.py 63-102 against seckill.py 83-84).
THEOREM RepublishedNeverOversold == PublicationSpec => [](NoOversell /\ OneGrantPerUser)
BY PublicationTypesAlways, BooksInit, BooksStep, PTL DEF PublicationSpec, Books

-----------------------------------------------------------------------------
(* Orders in flight *)

InFlight == CleansSettledOnly /\ NoOrderForgotten

LEMMA InFlightStep ==
  ASSUME PublicationTypesOK, InFlight, [PublicationNext]_allVars
  PROVE  InFlight'
<1>1. CASE [Next]_vars
  BY <1>1, CleansSettledOnlyStep, NoOrderForgottenStep DEF PublicationTypesOK, InFlight
<1>2. CASE UNCHANGED BesidesPublication
  <2>1. CleansSettledOnly'
    BY <1>2 DEF BesidesPublication, taskVars, InFlight, CleansSettledOnly, Current
  <2>2. NoOrderForgotten'
    BY <1>2 DEF BesidesPublication, groupVars, InFlight, NoOrderForgotten, Accepted
  <2> QED
    BY <2>1, <2>2 DEF InFlight
<1> QED
  BY <1>1, <1>2, PublicationSteps

LEMMA InFlightInit == PublicationInit => InFlight
BY DEF PublicationInit, Unpublished, TasksInit, InFlight, CleansSettledOnly,
       NoOrderForgotten, Accepted

\* A publication that empties the claimed set of orders in flight forgets none
\* of them: each is still settled by consumer or scanner (seckill.py 84).
THEOREM RepublishedForgetsNothing == PublicationSpec => []NoOrderForgotten
BY PublicationTypesAlways, InFlightInit, InFlightStep, PTL DEF PublicationSpec, InFlight

LEMMA PublishedBackingStep ==
  ASSUME PublicationTypesOK, Backing, [PublicationNext]_allVars
  PROVE  Backing'
<1>1. CASE [Next]_vars
  BY <1>1, BackingStep DEF PublicationTypesOK
<1>2. CASE UNCHANGED BesidesPublication
  <2>1. UNCHANGED <<stream, hash, rows, txn, pc, todo>>
    BY <1>2 DEF BesidesPublication, databaseVars, taskVars
  <2>2. GrantsOrderInHand' /\ RowsAreMessages'
    BY <2>1
    DEF Backing, GrantsOrderInHand, RowsAreMessages, Current, InTxn, MessageOf, UserOf,
        ActivityOf, Accepted
  <2>3. BackedBeforeSuccess' /\ SuccessIsBacked'
    BY <2>1
    DEF Backing, BackedBeforeSuccess, SuccessIsBacked, Backed, Current, UserOf,
        ActivityOf, Accepted
  <2> QED
    BY <2>2, <2>3 DEF Backing
<1> QED
  BY <1>1, <1>2, PublicationSteps

LEMMA PublishedBackingInit == PublicationInit => Backing
<1> SUFFICES ASSUME PublicationInit PROVE Backing
  OBVIOUS
<1>1. Accepted = {} /\ rows = {}
  BY DEF PublicationInit, Unpublished, TasksInit, DatabaseInit, Accepted
<1>2. \A w \in Workers : todo[w] = {}
  BY DEF PublicationInit, TasksInit, Tasks
<1> QED
  BY <1>1, <1>2
  DEF Backing, GrantsOrderInHand, RowsAreMessages, BackedBeforeSuccess, SuccessIsBacked

\* A second order of a user, admitted because a publication emptied the claimed
\* set, becomes a success only if the first one was granted (grant.py 68-78).
THEOREM RepublishedSuccessBacked == PublicationSpec => []SuccessIsBacked
BY PublicationTypesAlways, PublishedBackingInit, PublishedBackingStep, PTL
DEF PublicationSpec, Backing

-----------------------------------------------------------------------------
(* Units *)

LEMMA UnitsStep ==
  ASSUME PublicationTypesOK, [PublicationNext]_allVars, NEW a \in Activities,
         Units(a)' # Units(a)
  PROVE  \E p \in Publishers :
           /\ \E place \in {"stock", "claimed"} : PublishesAt(p, a, place)
           /\ publishing'[p] # publishing[p]
<1>1. RedisTypeOK /\ PublishersTypeOK
  BY DEF PublicationTypesOK, TypesOK, FulfilmentTypeOK
<1>2. ~[Next]_vars
  BY <1>1, RedisSimulation, RedisStepKeepsUnits DEF PublicationTypesOK, Units
<1>3. \E p \in Publishers, b \in Activities : WriteStock(p, b) \/ ClearClaimed(p, b)
  BY <1>2
  DEF PublicationNext, PublisherStep, ReadActivity, WriteMeta, PublishFails, SaleEnds,
      allVars, vars, Units
<1>4. PICK p \in Publishers, b \in Activities : WriteStock(p, b) \/ ClearClaimed(p, b)
  BY <1>3
<1>5. b = a
  BY <1>1, <1>4 DEF WriteStock, ClearClaimed, Units, RedisTypeOK
<1>6. publishing[p] \in [at : PublishPlaces, activity : Activities, seen : Nat]
  BY <1>1, <1>4, SeenIsNat DEF WriteStock, ClearClaimed, PublishesAt
<1>7. publishing'[p].at # publishing[p].at
  BY <1>1, <1>4, <1>6
  DEF WriteStock, ClearClaimed, PublishesAt, ContinueAt, PublishersTypeOK
<1> QED
  BY <1>4, <1>5, <1>7 DEF WriteStock, ClearClaimed

\* No release gives back a unit that a publication has taken off its books
\* already: between publications, and between the keys of one, offered and
\* claimed units stay what they are (cancel.lua 25-28, compensate.lua 9-12).
THEOREM UnitsChangeByPublication == PublicationSpec => OnlyPublicationsChangeUnits
<1>1. PublicationTypesOK /\ [PublicationNext]_allVars
        => [\A a \in Activities : Units(a)' # Units(a) =>
              \E p \in Publishers :
                /\ \E place \in {"stock", "claimed"} : PublishesAt(p, a, place)
                /\ publishing'[p] # publishing[p]]_allVars
  BY UnitsStep
<1> QED
  BY <1>1, PublicationTypesAlways, PTL DEF PublicationSpec, OnlyPublicationsChangeUnits

-----------------------------------------------------------------------------
(* One claim per publication *)

\* The live orders, and the ones whose hash ended in the hands of a task that
\* will still settle them.
Held(o) == Live(o) \/ (hash[o] = "none" /\ InSettlement(o))
HeldOrders(u, a) == {o \in OrdersFor(u, a) : Held(o)}

\* Publications that have read the row of an activity and not cleared its
\* claimed set yet.
Awaiting(a) ==
  {p \in Publishers :
     \E place \in {"stock", "claimed"} : PublishesAt(p, a, place)}

\* What makes OneClaimPerPublication inductive.  Before the first claimed set is
\* cleared nobody can claim ...
NeverCleared(a) ==
  /\ claimed[a] = {}
  /\ \A u \in Users : HeldOrders(u, a) = {}
  /\ a \notin open
  /\ \A p \in Publishers : ~PublishesAt(p, a, "meta")
  /\ Cardinality(Awaiting(a)) <= published[a]

\* ... and from then on there has been a publication for each live order of a
\* user, for each one that is about to admit the user again, and for the claim
\* that the user may make now.
Admits(u, a) ==
  Cardinality(HeldOrders(u, a)) + Cardinality(Awaiting(a))
    + (IF u \in claimed[a] THEN 0 ELSE 1) <= published[a]

ClaimsAdmitted == \A a \in Activities : NeverCleared(a) \/ \A u \in Users : Admits(u, a)

LEMMA HeldOrdersFinite ==
  RedisTypeOK => \A u, a : /\ IsFiniteSet(HeldOrders(u, a))
                           /\ Cardinality(HeldOrders(u, a)) \in Nat
<1> SUFFICES ASSUME RedisTypeOK, NEW u, NEW a
             PROVE  /\ IsFiniteSet(HeldOrders(u, a))
                    /\ Cardinality(HeldOrders(u, a)) \in Nat
  OBVIOUS
<1>1. IsFiniteSet(1 .. Len(stream))
  <2>1. Len(stream) \in Nat
    BY LenProperties DEF RedisTypeOK
  <2> QED
    BY <2>1, FS_Interval
<1>2. HeldOrders(u, a) \subseteq 1 .. Len(stream)
  BY LenProperties DEF HeldOrders, OrdersFor, Accepted, RedisTypeOK
<1> QED
  BY <1>1, <1>2, FS_Subset, FS_CardinalityType

LEMMA HeldOrdersFiniteNext ==
  RedisTypeOK' => \A u, a : Cardinality(HeldOrders(u, a)') \in Nat
<1>1. RedisTypeOK => \A u, a : Cardinality(HeldOrders(u, a)) \in Nat
  BY HeldOrdersFinite
<1>2. (RedisTypeOK => \A u, a : Cardinality(HeldOrders(u, a)) \in Nat)'
  BY <1>1, PTL
<1> QED
  BY <1>2

LEMMA AwaitingFinite ==
  ASSUME NEW a
  PROVE  IsFiniteSet(Awaiting(a)) /\ Cardinality(Awaiting(a)) \in Nat
<1>1. Awaiting(a) \in SUBSET Publishers
  BY DEF Awaiting
<1> QED
  BY <1>1, PublicationAssumption, FS_Subset, FS_CardinalityType DEF PublicationAssumption

\* No step but a claim makes somebody hold an order.
LEMMA HeldKept ==
  ASSUME TypesOK, Handled, [Next]_vars, NEW o \in Accepted, Held(o)'
  PROVE  Held(o)
<1>1. RedisTypeOK /\ o \in Orders
  BY OrderFields DEF TypesOK, FulfilmentTypeOK
<1>2. ASSUME NEW t \in Tasks, NEW p \in todo[t],
             \/ t \in Workers /\ (MarkGranted(t, p) \/ Compensate(t, p))
             \/ t \in Cancellers /\ Cancel(t, p)
      PROVE  \/ hash'[o] = hash[o]
             \/ InSettlement(o) /\ hash[o] \in {"processing", "none"}
  <2>1. CASE o = p
    BY <1>2, <2>1, SettledInHand DEF InSettlement
  <2>2. CASE o # p
    BY <1>1, <1>2, <2>2, SettledByHandler DEF Handled, Tasks
  <2> QED
    BY <2>1, <2>2
<1>3. ASSUME NEW p \in Accepted, HashExpires(p)
      PROVE  /\ hash'[o] = hash[o] \/ hash'[o] = "none"
             /\ InSettlement(o)' => InSettlement(o)
  BY <1>1, <1>3
  DEF HashExpires, ExpireHash, RedisTypeOK, taskVars, InSettlement, Current
<1>4. ASSUME NEW u \in Users, NEW a \in Activities, UserClaims(u, a)
      PROVE  hash'[o] = hash[o]
  BY <1>1, <1>4, ClaimKeepsHashes DEF UserClaims
<1>5. \/ hash'[o] = hash[o]
      \/ InSettlement(o) /\ hash[o] \in {"processing", "none"}
      \/ hash'[o] = "none" /\ (InSettlement(o)' => InSettlement(o))
  BY <1>2, <1>3, <1>4, SettlingSteps DEF Tasks
<1>6. CASE InSettlement(o)'
  <2>1. PICK s \in Tasks : Current(s, o)' /\ pc'[s] \in SettlingPlaces
    BY <1>6 DEF InSettlement
  <2>2. InSettlement(o) \/ hash[o] = "processing"
    BY <2>1, SettlesNext DEF InSettlement, Current
  <2>3. InSettlement(o) => hash[o] \in {"processing", "none"}
    BY DEF InSettlement, Handled, SettlesUnsettled, Current
  <2>4. CASE hash[o] = "processing"
    BY <2>4 DEF Held, Live
  <2>5. CASE hash[o] = "none" /\ InSettlement(o)
    BY <2>5 DEF Held
  <2> QED
    BY <2>2, <2>3, <2>4, <2>5
<1>7. CASE ~InSettlement(o)'
  BY <1>5, <1>7 DEF Held, Live
<1> QED
  BY <1>6, <1>7

\* What a step of the sale means for the orders a user holds.
LEMMA HeldOrdersClaim ==
  ASSUME TypesOK, Handled, NEW u \in Users, NEW a \in Activities, UserClaims(u, a)
  PROVE  /\ \E n \in Nat : HeldOrders(u, a)' = HeldOrders(u, a) \cup {n}
         /\ \A v, b : <<v, b>> # <<u, a>> => HeldOrders(v, b)' = HeldOrders(v, b)
<1>1. PICK n : n = Len(stream) + 1
  OBVIOUS
<1>2. /\ n \in Orders /\ n \notin Accepted /\ Accepted' = Accepted \cup {n}
      /\ stream'[n] = [user |-> u, activity |-> a] /\ hash'[n] = "processing"
      /\ \A o \in Accepted : stream'[o] = stream[o] /\ hash'[o] = hash[o]
      /\ UNCHANGED <<pc, todo>>
  BY <1>1, NewOrder DEF UserClaims, taskVars, TypesOK, FulfilmentTypeOK
<1>3. UserOf(n)' = u /\ ActivityOf(n)' = a /\ Live(n)' /\ n \in Nat
  BY <1>2, BaseAssumption DEF UserOf, ActivityOf, Live, Orders, BaseAssumption
<1>4. \A o \in Accepted :
        UserOf(o)' = UserOf(o) /\ ActivityOf(o)' = ActivityOf(o) /\ (Held(o)' <=> Held(o))
  BY <1>2 DEF UserOf, ActivityOf, Held, Live, InSettlement, Current
<1> QED
  BY <1>2, <1>3, <1>4 DEF HeldOrders, OrdersFor, Held

\* Any other step leaves the orders a user holds, or takes some away.
LEMMA HeldOrdersKept ==
  ASSUME TypesOK, Handled, [Next]_vars, UNCHANGED stream, NEW u, NEW a
  PROVE  HeldOrders(u, a)' \subseteq HeldOrders(u, a)
BY HeldKept DEF HeldOrders, OrdersFor, Accepted, UserOf, ActivityOf

LEMMA HeldOrdersTakenBack ==
  ASSUME TypesOK, NEW p \in Accepted, TakenBack(p), Held(p)
  PROVE  /\ p \in HeldOrders(UserOf(p), ActivityOf(p))
         /\ \A u, a : p \notin HeldOrders(u, a)'
<1>1. RedisTypeOK /\ p \in Orders
  BY OrderFields DEF TypesOK, FulfilmentTypeOK
<1>2. hash'[p] \in {"failed", "cancelled"}
  BY <1>1 DEF TakenBack, RedisTypeOK
<1> QED
  BY <1>2 DEF HeldOrders, OrdersFor, Held, Live

\* The orders a user holds never outgrow what the publications admitted.
LEMMA SaleAdmits ==
  ASSUME PublicationTypesOK, ClaimsAdmitted, Handled, [Next]_vars,
         budget'["lapse"] = budget["lapse"], UNCHANGED publicationVars
  PROVE  ClaimsAdmitted'
<1>1. TypesOK /\ RedisTypeOK /\ RedisTypeOK' /\ PublishersTypeOK
  BY TypesStep DEF PublicationTypesOK, TypesOK, FulfilmentTypeOK
<1>2. UNCHANGED <<publishing, published>> /\ open' \subseteq open
  <2>1. [RedisNext]_redisVars
    BY <1>1, RedisSimulation
  <2> QED
    BY <2>1
    DEF RedisNext, Claim, CancelScript, CompensateScript, MarkSuccess, Unschedule,
        ExpireHash, CloseActivity, redisVars, publicationVars
<1>3. \A a : Awaiting(a)' = Awaiting(a)
  BY <1>2 DEF Awaiting, PublishesAt
<1>4. ASSUME \A u \in Users, a \in Activities :
               /\ HeldOrders(u, a)' \subseteq HeldOrders(u, a)
               /\ claimed'[a] = claimed[a]
      PROVE  ClaimsAdmitted'
  <2>1. \A u \in Users, a \in Activities :
          Cardinality(HeldOrders(u, a)') <= Cardinality(HeldOrders(u, a))
    BY <1>1, <1>4, HeldOrdersFinite, FS_Subset
  <2> SUFFICES ASSUME NEW a \in Activities
               PROVE  NeverCleared(a)' \/ \A u \in Users : Admits(u, a)'
    BY DEF ClaimsAdmitted
  <2>2. CASE NeverCleared(a)
    BY <1>2, <1>3, <1>4, <2>2 DEF NeverCleared, PublishesAt
  <2>3. ASSUME \A u \in Users : Admits(u, a), NEW u \in Users PROVE Admits(u, a)'
    <3>1. /\ {Cardinality(HeldOrders(u, a)), Cardinality(HeldOrders(u, a)'),
              Cardinality(Awaiting(a)), published[a]} \subseteq Nat
      BY <1>1, HeldOrdersFinite, AwaitingFinite, HeldOrdersFiniteNext DEF PublishersTypeOK
    <3> QED
      BY <1>2, <1>3, <1>4, <2>1, <2>3, <3>1 DEF Admits
  <2> QED
    BY <2>2, <2>3 DEF ClaimsAdmitted
<1>5. CASE UNCHANGED <<claimed, stream>>
  BY <1>1, <1>4, <1>5, HeldOrdersKept
<1>6. ASSUME NEW u \in Users, NEW a \in Activities, UserClaims(u, a)
      PROVE  ClaimsAdmitted'
  <2>1. a \in open /\ u \notin claimed[a] /\ claimed' = [claimed EXCEPT ![a] = @ \cup {u}]
    BY <1>1, <1>6 DEF UserClaims, Claim, Outcome, RedisTypeOK
  <2>2. PICK n \in Nat : HeldOrders(u, a)' = HeldOrders(u, a) \cup {n}
    BY <1>1, <1>6, HeldOrdersClaim
  <2>3. \A v, b : <<v, b>> # <<u, a>> => HeldOrders(v, b)' = HeldOrders(v, b)
    BY <1>1, <1>6, HeldOrdersClaim
  <2>4. Cardinality(HeldOrders(u, a)') <= Cardinality(HeldOrders(u, a)) + 1
    <3>1. IsFiniteSet(HeldOrders(u, a)) /\ Cardinality(HeldOrders(u, a)) \in Nat
      BY <1>1, HeldOrdersFinite
    <3>2. Cardinality(HeldOrders(u, a) \cup {n}) <= Cardinality(HeldOrders(u, a)) + 1
      <4>1. Cardinality(HeldOrders(u, a) \cup {n}) =
              IF n \in HeldOrders(u, a) THEN Cardinality(HeldOrders(u, a))
                                       ELSE Cardinality(HeldOrders(u, a)) + 1
        BY <3>1, FS_AddElement
      <4> QED
        BY <3>1, <4>1
    <3> QED
      BY <2>2, <3>2
  <2>5. ASSUME NEW b \in Activities, b # a
        PROVE  NeverCleared(b)' \/ \A v \in Users : Admits(v, b)'
    BY <1>1, <1>2, <1>3, <2>1, <2>3, <2>5
    DEF ClaimsAdmitted, NeverCleared, Admits, PublishesAt, RedisTypeOK
  <2>6. ASSUME NEW v \in Users PROVE Admits(v, a)'
    <3>1. Admits(v, a)
      BY <2>1 DEF ClaimsAdmitted, NeverCleared
    <3>2. CASE v = u
      <4>1. /\ {Cardinality(HeldOrders(u, a)), Cardinality(HeldOrders(u, a)'),
                Cardinality(Awaiting(a)), published[a]} \subseteq Nat
        BY <1>1, HeldOrdersFinite, AwaitingFinite, HeldOrdersFiniteNext DEF PublishersTypeOK
      <4>2. u \in claimed'[a]
        BY <1>1, <2>1 DEF RedisTypeOK
      <4> QED
        BY <1>2, <1>3, <2>1, <2>4, <3>1, <3>2, <4>1, <4>2 DEF Admits
    <3>3. CASE v # u
      <4>1. v \in claimed'[a] <=> v \in claimed[a]
        BY <1>1, <2>1, <3>3 DEF RedisTypeOK
      <4> QED
        BY <1>2, <1>3, <2>3, <3>1, <3>3, <4>1 DEF Admits
    <3> QED
      BY <3>2, <3>3
  <2> QED
    BY <2>5, <2>6 DEF ClaimsAdmitted
<1>7. ASSUME NEW o \in Accepted, TakenBack(o), Held(o) PROVE ClaimsAdmitted'
  <2>0. PICK u \in Users, a \in Activities : u = UserOf(o) /\ a = ActivityOf(o)
    BY <1>1, OrderFields
  <2>1. claimed' = [claimed EXCEPT ![a] = @ \ {u}] /\ UNCHANGED stream
    BY <1>7, <2>0 DEF TakenBack, Release
  <2>2. /\ \A v, b : HeldOrders(v, b)' \subseteq HeldOrders(v, b) \ {o}
        /\ o \in HeldOrders(u, a)
    BY <1>1, <1>7, <2>0, <2>1, HeldOrdersKept, HeldOrdersTakenBack
  <2>3. \A v, b : /\ Cardinality(HeldOrders(v, b)') <= Cardinality(HeldOrders(v, b))
                  /\ {Cardinality(HeldOrders(v, b)'), Cardinality(HeldOrders(v, b))}
                       \subseteq Nat
    BY <1>1, <2>2, HeldOrdersFinite, HeldOrdersFiniteNext, FS_Subset
  <2>4. Cardinality(HeldOrders(u, a)') <= Cardinality(HeldOrders(u, a)) - 1
    <3>1. IsFiniteSet(HeldOrders(u, a))
      BY <1>1, HeldOrdersFinite
    <3>2. /\ IsFiniteSet(HeldOrders(u, a) \ {o})
          /\ Cardinality(HeldOrders(u, a) \ {o}) = Cardinality(HeldOrders(u, a)) - 1
      BY <2>2, <3>1, FS_RemoveElement
    <3> QED
      BY <2>2, <3>2, FS_Subset
  <2>5. ASSUME NEW b \in Activities, b # a
        PROVE  NeverCleared(b)' \/ \A v \in Users : Admits(v, b)'
    <3>1. claimed'[b] = claimed[b]
      BY <1>1, <2>1, <2>5 DEF RedisTypeOK
    <3>2. CASE NeverCleared(b)
      BY <1>2, <1>3, <2>2, <3>1, <3>2 DEF NeverCleared, PublishesAt
    <3>3. ASSUME NEW v \in Users, Admits(v, b) PROVE Admits(v, b)'
      <4>1. {Cardinality(Awaiting(b)), published[b]} \subseteq Nat
        BY <1>1, AwaitingFinite DEF PublishersTypeOK
      <4> QED
        BY <1>2, <1>3, <2>3, <3>1, <3>3, <4>1 DEF Admits
    <3> QED
      BY <3>2, <3>3 DEF ClaimsAdmitted
  <2>6. ASSUME NEW v \in Users PROVE Admits(v, a)'
    <3>1. Admits(v, a)
      BY <2>2 DEF ClaimsAdmitted, NeverCleared
    <3>2. {Cardinality(Awaiting(a)), published[a]} \subseteq Nat
      BY <1>1, AwaitingFinite DEF PublishersTypeOK
    <3>3. CASE v = u
      BY <1>2, <1>3, <2>3, <2>4, <3>1, <3>2, <3>3 DEF Admits
    <3>4. CASE v # u
      <4>1. v \in claimed'[a] <=> v \in claimed[a]
        BY <1>1, <2>1, <3>4 DEF RedisTypeOK
      <4> QED
        BY <1>2, <1>3, <2>3, <3>1, <3>2, <4>1 DEF Admits
    <3> QED
      BY <3>3, <3>4
  <2> QED
    BY <2>5, <2>6 DEF ClaimsAdmitted
<1>8. ASSUME NEW t \in Tasks, NEW o \in todo[t],
             \/ t \in Workers /\ (MarkGranted(t, o) \/ Compensate(t, o))
             \/ t \in Cancellers /\ Cancel(t, o)
      PROVE  ClaimsAdmitted'
  <2>1. /\ o \in Accepted
        /\ t \in Workers /\ Compensate(t, o) => TakenBack(o)
        /\ t \in Cancellers /\ Cancel(t, o) => TakenBack(o)
    BY <1>1, <1>8, SettledInHand
  <2>2. Held(o)
    BY <1>1, <1>8, SettledInHand DEF Held, Live, InSettlement
  <2>3. t \in Workers /\ MarkGranted(t, o) => UNCHANGED <<claimed, stream>>
    BY DEF MarkGranted, MarkSuccess
  <2> QED
    BY <1>5, <1>7, <1>8, <2>1, <2>2, <2>3
<1>9. ASSUME NEW o \in Accepted, HashExpires(o) PROVE ClaimsAdmitted'
  BY <1>5, <1>9 DEF HashExpires, ExpireHash
<1> QED
  BY <1>1, <1>5, <1>6, <1>8, <1>9, SettlingSteps DEF Tasks

\* A publisher that takes its next step, or fails, leaves every other one and
\* the live orders alone.
LEMMA AwaitingStep ==
  ASSUME PublishersTypeOK, NEW p \in Publishers, NEW next,
         publishing' = [publishing EXCEPT ![p] = next]
  PROVE  \A b : /\ Awaiting(b)' \ {p} = Awaiting(b) \ {p}
                /\ (p \in Awaiting(b)' <=> p \in Awaiting(b)) => Awaiting(b)' = Awaiting(b)
<1>1. \A b : Awaiting(b)' \ {p} = Awaiting(b) \ {p}
  BY DEF PublishersTypeOK, Awaiting, PublishesAt
<1> QED
  BY <1>1

LEMMA PublishersAdmit ==
  ASSUME PublicationTypesOK, ClaimsAdmitted,
         UNCHANGED <<stream, hash, pc, todo>>,
         \/ \E p \in Publishers : PublisherStep(p)
         \/ \E b \in Activities : SaleEnds(b)
  PROVE  ClaimsAdmitted'
<1>1. RedisTypeOK /\ PublishersTypeOK
  BY DEF PublicationTypesOK, TypesOK, FulfilmentTypeOK
<1>2. \A u, a : HeldOrders(u, a)' = HeldOrders(u, a)
  BY DEF HeldOrders, OrdersFor, Accepted, UserOf, ActivityOf, Held, Live, InSettlement,
         Current
<1>3. \A u, a : /\ Cardinality(HeldOrders(u, a)) \in Nat
                /\ IsFiniteSet(Awaiting(a)) /\ Cardinality(Awaiting(a)) \in Nat
  BY <1>1, HeldOrdersFinite, AwaitingFinite
<1>4. \A a \in Activities : published[a] \in Nat
  BY <1>1 DEF PublishersTypeOK
<1>5. ASSUME NEW p \in Publishers, NEW a \in Activities, ReadActivity(p, a)
      PROVE  ClaimsAdmitted'
  <2>1. PICK next : /\ next = [at |-> "stock", activity |-> a, seen |-> dbStock[a]]
                    /\ publishing' = [publishing EXCEPT ![p] = next]
    BY <1>5 DEF ReadActivity
  <2>2. publishing[p] = NotPublishing /\ published' = [published EXCEPT ![a] = @ + 1]
        /\ UNCHANGED <<claimed, open>>
    BY <1>5 DEF ReadActivity, vars, redisVars
  <2>3. \A b : p \notin Awaiting(b) /\ ~PublishesAt(p, b, "meta")
    BY <2>2 DEF Awaiting, PublishesAt
  <2>4. next # NotPublishing /\ next.at = "stock" /\ next.activity = a
    BY <2>1 DEF NotPublishing
  <2>5. publishing'[p] = next
    BY <1>1, <2>1 DEF PublishersTypeOK
  <2>6. /\ p \in Awaiting(a)'
        /\ \A b \in Activities : b # a => p \notin Awaiting(b)'
    BY <2>4, <2>5 DEF Awaiting, PublishesAt
  <2>7. Awaiting(a)' = Awaiting(a) \cup {p}
    BY <1>1, <2>1, <2>3, <2>6, AwaitingStep
  <2>8. \A b \in Activities : b # a => Awaiting(b)' = Awaiting(b)
    BY <1>1, <2>1, <2>3, <2>6, AwaitingStep
  <2>9. Cardinality(Awaiting(a)') = Cardinality(Awaiting(a)) + 1
    BY <1>3, <2>3, <2>7, FS_AddElement
  <2>10. \A q \in Publishers, b \in Activities :
           PublishesAt(q, b, "meta")' => PublishesAt(q, b, "meta")
    BY <1>1, <2>1, <2>4, <2>5 DEF PublishesAt, PublishersTypeOK
  <2>11. published'[a] = published[a] + 1
         /\ \A b \in Activities : b # a => published'[b] = published[b]
    BY <1>1, <2>2 DEF PublishersTypeOK
  <2>12. ASSUME NEW b \in Activities, NeverCleared(b) PROVE NeverCleared(b)'
    <3>1. Cardinality(Awaiting(b)') <= published'[b]
      BY <1>3, <1>4, <2>8, <2>9, <2>11, <2>12 DEF NeverCleared
    <3> QED
      BY <1>2, <2>2, <2>10, <2>12, <3>1 DEF NeverCleared
  <2>13. ASSUME NEW b \in Activities, NEW u \in Users, Admits(u, b) PROVE Admits(u, b)'
    BY <1>2, <1>3, <1>4, <2>2, <2>8, <2>9, <2>11, <2>13 DEF Admits
  <2> QED
    BY <2>12, <2>13 DEF ClaimsAdmitted
<1>6. ASSUME NEW p \in Publishers, NEW a \in Activities, WriteStock(p, a)
      PROVE  ClaimsAdmitted'
  <2>1. PICK next : /\ next = [publishing[p] EXCEPT !.at = "claimed"]
                    /\ publishing' = [publishing EXCEPT ![p] = next]
    BY <1>6 DEF WriteStock, ContinueAt
  <2>2. /\ next.at = "claimed" /\ next.activity = a /\ next # NotPublishing
        /\ PublishesAt(p, a, "stock")
    <3>1. publishing[p] \in [at : PublishPlaces, activity : Activities, seen : Nat]
      BY <1>1, <1>6, SeenIsNat DEF WriteStock, PublishesAt
    <3> QED
      BY <1>6, <2>1, <3>1 DEF WriteStock, PublishesAt, NotPublishing
  <2>3. publishing'[p] = next
    BY <1>1, <2>1 DEF PublishersTypeOK
  <2>4. \A b : p \in Awaiting(b)' <=> p \in Awaiting(b)
    BY <2>2, <2>3 DEF Awaiting, PublishesAt
  <2>5. \A b : Awaiting(b)' = Awaiting(b)
    BY <1>1, <2>1, <2>4, AwaitingStep
  <2>6. \A q \in Publishers, b \in Activities :
          PublishesAt(q, b, "meta")' => PublishesAt(q, b, "meta")
    BY <1>1, <2>1, <2>2, <2>3 DEF PublishesAt, PublishersTypeOK
  <2> QED
    BY <1>2, <1>6, <2>5, <2>6 DEF WriteStock, ClaimsAdmitted, NeverCleared, Admits
<1>7. ASSUME NEW p \in Publishers, NEW a \in Activities, ClearClaimed(p, a)
      PROVE  ClaimsAdmitted'
  <2>1. PICK next : /\ next = [publishing[p] EXCEPT !.at = "meta"]
                    /\ publishing' = [publishing EXCEPT ![p] = next]
    BY <1>7 DEF ClearClaimed, ContinueAt
  <2>2. next.at = "meta" /\ next.activity = a /\ p \in Awaiting(a)
    <3>1. publishing[p] \in [at : PublishPlaces, activity : Activities, seen : Nat]
      BY <1>1, <1>7, SeenIsNat DEF ClearClaimed, PublishesAt
    <3> QED
      BY <1>7, <2>1, <3>1 DEF ClearClaimed, PublishesAt, Awaiting
  <2>3. publishing'[p] = next
    BY <1>1, <2>1 DEF PublishersTypeOK
  <2>4. /\ \A b : p \notin Awaiting(b)'
        /\ \A b : b # a => p \notin Awaiting(b)
    BY <1>7, <2>2, <2>3 DEF ClearClaimed, Awaiting, PublishesAt
  <2>5. Awaiting(a)' = Awaiting(a) \ {p} /\ \A b : b # a => Awaiting(b)' = Awaiting(b)
    <3>1. \A b : Awaiting(b)' \ {p} = Awaiting(b) \ {p}
      BY <1>1, <2>1, AwaitingStep
    <3>2. Awaiting(a)' = Awaiting(a) \ {p}
      BY <2>4, <3>1
    <3>3. \A b : b # a => Awaiting(b)' = Awaiting(b)
      BY <1>1, <2>1, <2>4, AwaitingStep
    <3> QED
      BY <3>2, <3>3
  <2>6. Cardinality(Awaiting(a)') = Cardinality(Awaiting(a)) - 1
    BY <1>3, <2>2, <2>5, FS_RemoveElement
  <2>7. /\ UNCHANGED <<published, open>>
        /\ \A b \in Activities : b # a => claimed'[b] = claimed[b]
    BY <1>7 DEF ClearClaimed
  <2>8. ASSUME NEW b \in Activities, b # a
        PROVE  NeverCleared(b)' \/ \A u \in Users : Admits(u, b)'
    <3>1. \A q \in Publishers : PublishesAt(q, b, "meta")' => PublishesAt(q, b, "meta")
      BY <1>1, <2>1, <2>2, <2>3, <2>8 DEF PublishesAt, PublishersTypeOK
    <3> QED
      BY <1>2, <2>5, <2>7, <2>8, <3>1 DEF ClaimsAdmitted, NeverCleared, Admits
  <2>9. ASSUME NEW u \in Users PROVE Admits(u, a)'
    <3>1. Cardinality(HeldOrders(u, a)) + Cardinality(Awaiting(a)) <= published[a]
      <4>1. CASE NeverCleared(a)
        BY <1>3, <1>4, <4>1, FS_EmptySet DEF NeverCleared
      <4>2. CASE Admits(u, a)
        BY <1>3, <1>4, <4>2 DEF Admits
      <4> QED
        BY <4>1, <4>2 DEF ClaimsAdmitted
    <3> QED
      BY <1>2, <1>3, <1>4, <2>6, <2>7, <3>1 DEF Admits
  <2> QED
    BY <2>8, <2>9 DEF ClaimsAdmitted
<1>8. ASSUME NEW p \in Publishers,
             \/ \E a \in Activities : WriteMeta(p, a)
             \/ PublishFails(p)
      PROVE  ClaimsAdmitted'
  <2>1. publishing' = [publishing EXCEPT ![p] = NotPublishing] /\ UNCHANGED <<claimed, published>>
    BY <1>8 DEF WriteMeta, PublishFails, vars, redisVars
  <2>2. publishing'[p] = NotPublishing
    BY <1>1, <2>1 DEF PublishersTypeOK
  <2>3. \A b : Awaiting(b)' \in SUBSET Awaiting(b)
    <3>1. \A b : p \notin Awaiting(b)'
      BY <2>2 DEF Awaiting, PublishesAt
    <3> QED
      BY <1>1, <2>1, <3>1, AwaitingStep
  <2>4. \A b : Cardinality(Awaiting(b)') <= Cardinality(Awaiting(b))
               /\ Cardinality(Awaiting(b)') \in Nat
    BY <1>3, <2>3, FS_Subset, FS_CardinalityType
  <2>5. \A q \in Publishers, b \in Activities :
          PublishesAt(q, b, "meta")' => PublishesAt(q, b, "meta")
    BY <1>1, <2>1, <2>2 DEF PublishesAt, PublishersTypeOK
  <2>6. ASSUME NEW b \in Activities, NeverCleared(b) PROVE NeverCleared(b)'
    <3>1. b \notin open'
      BY <1>8, <2>6 DEF NeverCleared, WriteMeta, PublishFails, vars, redisVars
    <3>2. Cardinality(Awaiting(b)') <= published'[b]
      BY <1>3, <1>4, <2>1, <2>4, <2>6 DEF NeverCleared
    <3> QED
      BY <1>2, <2>1, <2>5, <2>6, <3>1, <3>2 DEF NeverCleared
  <2>7. ASSUME NEW b \in Activities, NEW u \in Users, Admits(u, b) PROVE Admits(u, b)'
    BY <1>2, <1>3, <1>4, <2>1, <2>4, <2>7 DEF Admits
  <2> QED
    BY <2>6, <2>7 DEF ClaimsAdmitted
<1>9. ASSUME NEW b \in Activities, SaleEnds(b) PROVE ClaimsAdmitted'
  BY <1>2, <1>9
  DEF SaleEnds, ClaimsAdmitted, NeverCleared, Admits, Awaiting, PublishesAt
<1> QED
  BY <1>5, <1>6, <1>7, <1>8, <1>9 DEF PublisherStep

\* As long as no lock has lapsed.
AdmittedInv ==
  /\ budget["lapse"] \in Nat /\ budget["lapse"] <= Budget["lapse"]
  /\ budget["lapse"] = Budget["lapse"] => Handled /\ ClaimsAdmitted

LEMMA AdmittedStep ==
  ASSUME PublicationTypesOK, AdmittedInv, [PublicationNext]_allVars
  PROVE  AdmittedInv'
<1>1. TypesOK /\ Budget["lapse"] \in Nat /\ "lapse" \in FaultKind
  BY FulfilmentAssumption DEF PublicationTypesOK, FulfilmentAssumption, FaultKind
<1>2. CASE [Next]_vars /\ UNCHANGED publicationVars
  <2>1. {budget["lapse"], budget'["lapse"]} \subseteq Nat /\ budget'["lapse"] <= budget["lapse"]
    BY <1>1, <1>2, FaultsCount
  <2>2. CASE budget'["lapse"] = Budget["lapse"]
    <3>1. budget'["lapse"] = budget["lapse"] /\ Handled /\ ClaimsAdmitted
      BY <1>1, <2>1, <2>2 DEF AdmittedInv
    <3> QED
      BY <1>1, <1>2, <2>1, <2>2, <3>1, HandledStep, SaleAdmits DEF AdmittedInv
  <2> QED
    BY <1>1, <2>1, <2>2 DEF AdmittedInv
<1>3. CASE \/ \E p \in Publishers : PublisherStep(p)
           \/ \E b \in Activities : SaleEnds(b)
  <2>1. UNCHANGED BesidesPublication
    BY <1>3
    DEF PublisherStep, ReadActivity, WriteStock, ClearClaimed, WriteMeta, PublishFails,
        SaleEnds, vars, redisVars, BesidesPublication
  <2>2. Handled => Handled'
    BY <2>1
    DEF BesidesPublication, taskVars, Handled, LocksHeld, SettlesUnsettled, Current, UserOf
  <2>3. ClaimsAdmitted => ClaimsAdmitted'
    BY <1>3, <2>1, PublishersAdmit DEF BesidesPublication, taskVars
  <2> QED
    BY <2>1, <2>2, <2>3 DEF BesidesPublication, AdmittedInv
<1> QED
  BY <1>2, <1>3 DEF PublicationNext, allVars

LEMMA AdmittedInit == PublicationInit => AdmittedInv
<1> SUFFICES ASSUME PublicationInit PROVE AdmittedInv
  OBVIOUS
<1>1. Handled
  BY DEF PublicationInit, TasksInit, Handled, LocksHeld, SettlesUnsettled
<1>2. Accepted = {}
  BY DEF PublicationInit, Unpublished, Accepted
<1>3. \A a : Awaiting(a) = {} /\ \A p \in Publishers : ~PublishesAt(p, a, "meta")
  BY DEF PublicationInit, Awaiting, PublishesAt
<1>4. ClaimsAdmitted
  <2>1. \A u, a : HeldOrders(u, a) = {}
    BY <1>2 DEF HeldOrders, OrdersFor
  <2>2. \A a \in Activities : Cardinality(Awaiting(a)) = 0 /\ published[a] = 0
    BY <1>3, FS_EmptySet DEF PublicationInit
  <2> QED
    BY <1>3, <2>1, <2>2 DEF PublicationInit, Unpublished, ClaimsAdmitted, NeverCleared
<1> QED
  BY <1>1, <1>4, FulfilmentAssumption
  DEF PublicationInit, TasksInit, AdmittedInv, FulfilmentAssumption, FaultKind

LEMMA AdmittedIsEnough ==
  ASSUME PublicationTypesOK, AdmittedInv
  PROVE  OneClaimPerPublication
<1> SUFFICES ASSUME budget["lapse"] = Budget["lapse"], NEW u \in Users, NEW a \in Activities
             PROVE  Cardinality({o \in OrdersFor(u, a) : Live(o)}) <= published[a]
  BY DEF OneClaimPerPublication
<1>0. /\ {Cardinality({o \in OrdersFor(u, a) : Live(o)}), Cardinality(HeldOrders(u, a))}
           \subseteq Nat
      /\ Cardinality({o \in OrdersFor(u, a) : Live(o)}) <= Cardinality(HeldOrders(u, a))
  <2>1. IsFiniteSet(HeldOrders(u, a))
    BY HeldOrdersFinite DEF PublicationTypesOK, TypesOK, FulfilmentTypeOK
  <2>2. {o \in OrdersFor(u, a) : Live(o)} \in SUBSET HeldOrders(u, a)
    BY DEF HeldOrders, Held
  <2> QED
    BY <2>1, <2>2, FS_Subset, FS_CardinalityType
<1>1. /\ {Cardinality(HeldOrders(u, a)), Cardinality(Awaiting(a)), published[a]} \subseteq Nat
  BY HeldOrdersFinite, AwaitingFinite
  DEF PublicationTypesOK, TypesOK, FulfilmentTypeOK, PublishersTypeOK
<1>2. CASE NeverCleared(a)
  BY <1>0, <1>1, <1>2, FS_EmptySet DEF NeverCleared
<1>3. CASE Admits(u, a)
  BY <1>0, <1>1, <1>3 DEF Admits
<1> QED
  BY <1>2, <1>3 DEF AdmittedInv, ClaimsAdmitted

\* "Once per user and activity" becomes once per publication, for every number
\* of overlapping publications that fail or die at any of their steps, and as
\* long as no lock lapses: a user never has more live orders of an activity than
\* it was published times (seckill.py 84-85, 147).
THEOREM OncePerPublication == PublicationSpec => []OneClaimPerPublication
BY PublicationTypesAlways, AdmittedInit, AdmittedStep, AdmittedIsEnough, PTL
DEF PublicationSpec
=============================================================================
