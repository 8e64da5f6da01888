---------------------------- MODULE StoresProofs ----------------------------
(***************************************************************************)
(* For every set of users and activities, every initial stock, any number  *)
(* of orders and any number of callers: the scripts keep the Redis key     *)
(* space well formed and conserve the stock, whoever runs them and in      *)
(* whatever order; and overlapping grant transactions neither oversell,    *)
(* nor grant twice, nor lose a credit.                                     *)
(***************************************************************************)
EXTENDS SeckillRedis, GrantDatabase, FiniteSetTheorems, SequenceTheorems, TLAPS

-----------------------------------------------------------------------------
(* Redis: the scripts *)

\* Accepting a claim keeps the types: the new order is the next position of
\* the stream, below MaxOrders (seckill.lua 41-67).
LEMMA ClaimType ==
  ASSUME RedisTypeOK, NEW u \in Users, NEW a \in Activities, Claim(u, a)
  PROVE  RedisTypeOK'
<1>1. stock[a] \in Nat /\ stock[a] > 0 /\ stock' = [stock EXCEPT ![a] = @ - 1]
  BY DEF RedisTypeOK, Claim, Outcome
<1>2. stock' \in [Activities -> Nat]
  BY <1>1 DEF RedisTypeOK
<1>3. claimed' \in [Activities -> SUBSET Users]
  BY DEF RedisTypeOK, Claim
<1>4. /\ stream' \in Seq([user : Users, activity : Activities])
      /\ Len(stream') = Len(stream) + 1
      /\ Len(stream') <= MaxOrders
      /\ Len(stream') \in Orders
  BY BaseAssumption DEF RedisTypeOK, Claim, Orders, BaseAssumption
<1>5. hash' \in [Orders -> Status]
  BY DEF RedisTypeOK, Claim, Status
<1>6. delay' \subseteq Accepted' /\ expired' \subseteq Accepted'
  BY <1>4 DEF RedisTypeOK, Claim, Accepted
<1> QED
  BY <1>2, <1>3, <1>4, <1>5, <1>6 DEF RedisTypeOK, Claim

\* SREM followed by a conditional INCR keeps the types.
LEMMA ReleaseType ==
  ASSUME RedisTypeOK, NEW u \in Users, NEW a \in Activities, Release(u, a)
  PROVE  stock' \in [Activities -> Nat] /\ claimed' \in [Activities -> SUBSET Users]
BY DEF RedisTypeOK, Release

\* An accepted order has a user, an activity and a hash of its own.
LEMMA OrderFields ==
  ASSUME RedisTypeOK, NEW o \in Accepted
  PROVE  o \in Orders /\ UserOf(o) \in Users /\ ActivityOf(o) \in Activities
<1>1. o \in 1 .. Len(stream) /\ stream \in Seq([user : Users, activity : Activities])
  BY DEF RedisTypeOK, Accepted
<1>2. stream[o] \in [user : Users, activity : Activities]
  BY <1>1, ElementOfSeq
<1>3. Len(stream) \in Nat /\ Len(stream) <= MaxOrders /\ MaxOrders \in Nat
  BY <1>1, BaseAssumption DEF RedisTypeOK, BaseAssumption
<1> QED
  BY <1>1, <1>2, <1>3 DEF Orders, UserOf, ActivityOf

LEMMA RedisStepType ==
  ASSUME RedisTypeOK, [RedisNext]_redisVars
  PROVE  RedisTypeOK'
<1>1. CASE \E u \in Users, a \in Activities : Claim(u, a)
  BY <1>1, ClaimType
<1>2. ASSUME NEW o \in Accepted, CancelScript(o) PROVE RedisTypeOK'
  <2>1. CASE hash[o] \in Settled
    BY <1>2, <2>1 DEF RedisTypeOK, CancelScript, Accepted
  <2>2. CASE hash[o] \notin Settled
    <3>1. Release(UserOf(o), ActivityOf(o)) /\ hash' = [hash EXCEPT ![o] = "cancelled"]
      BY <1>2, <2>2 DEF CancelScript
    <3>2. stock' \in [Activities -> Nat] /\ claimed' \in [Activities -> SUBSET Users]
      BY <1>2, <3>1, OrderFields, ReleaseType
    <3> QED
      BY <1>2, <3>1, <3>2 DEF RedisTypeOK, CancelScript, Status, Accepted
  <2> QED
    BY <2>1, <2>2
<1>3. ASSUME NEW o \in Accepted, CompensateScript(o) PROVE RedisTypeOK'
  <2>1. stock' \in [Activities -> Nat] /\ claimed' \in [Activities -> SUBSET Users]
    BY <1>3, OrderFields, ReleaseType DEF CompensateScript
  <2> QED
    BY <1>3, <2>1 DEF RedisTypeOK, CompensateScript, Status, Accepted
<1>4. ASSUME NEW o \in Accepted, MarkSuccess(o) PROVE RedisTypeOK'
  BY <1>4 DEF RedisTypeOK, MarkSuccess, Status, Accepted
<1>5. ASSUME NEW o \in Accepted, Unschedule(o) PROVE RedisTypeOK'
  BY <1>5 DEF RedisTypeOK, Unschedule, Accepted
<1>6. ASSUME NEW o \in Accepted, ExpireHash(o) PROVE RedisTypeOK'
  BY <1>6 DEF RedisTypeOK, ExpireHash, Status, Accepted
<1>7. ASSUME NEW a \in Activities, CloseActivity(a) PROVE RedisTypeOK'
  BY <1>7 DEF RedisTypeOK, CloseActivity, Accepted
<1>8. CASE UNCHANGED redisVars
  BY <1>8 DEF RedisTypeOK, redisVars, Accepted
<1> QED
  BY <1>1, <1>2, <1>3, <1>4, <1>5, <1>6, <1>7, <1>8 DEF RedisNext

LEMMA RedisInitType == RedisInit => RedisTypeOK
BY BaseAssumption DEF BaseAssumption, RedisInit, RedisTypeOK, Status, Accepted

\* The Redis key space stays well formed; in particular the stock never goes
\* below zero (seckill.lua 26-29, 41).
THEOREM RedisTypeCorrect == RedisSpec => []RedisTypeOK
BY RedisInitType, RedisStepType, PTL DEF RedisSpec

-----------------------------------------------------------------------------
\* The stock and the claims of one activity, before and after a release: a
\* member leaves and a unit comes back, or nothing happens at all.
LEMMA ReleaseKeepsUnits ==
  ASSUME RedisTypeOK, NEW u \in Users, NEW a \in Activities, Release(u, a),
         NEW b \in Activities
  PROVE  stock'[b] + Cardinality(claimed'[b]) = stock[b] + Cardinality(claimed[b])
<1>1. IsFiniteSet(claimed[b])
  BY BaseAssumption, FS_Subset DEF BaseAssumption, RedisTypeOK
<1>2. Cardinality(claimed[b]) \in Nat
  BY <1>1, FS_CardinalityType
<1>3. Cardinality(claimed[b] \ {u}) =
        IF u \in claimed[b] THEN Cardinality(claimed[b]) - 1 ELSE Cardinality(claimed[b])
  BY <1>1, FS_RemoveElement
<1>4. stock[b] \in Nat
  BY DEF RedisTypeOK
<1>5. CASE b = a
  <2>1. /\ claimed'[b] = claimed[b] \ {u}
        /\ stock'[b] = IF u \in claimed[b] THEN stock[b] + 1 ELSE stock[b]
    BY <1>5 DEF Release, RedisTypeOK
  <2> QED
    BY <2>1, <1>2, <1>3, <1>4
<1>6. CASE b # a
  BY <1>6 DEF Release, RedisTypeOK
<1> QED
  BY <1>5, <1>6

\* A claim takes a unit and adds a member that was not there.
LEMMA ClaimKeepsUnits ==
  ASSUME RedisTypeOK, NEW u \in Users, NEW a \in Activities, Claim(u, a),
         NEW b \in Activities
  PROVE  stock'[b] + Cardinality(claimed'[b]) = stock[b] + Cardinality(claimed[b])
<1>1. IsFiniteSet(claimed[b])
  BY BaseAssumption, FS_Subset DEF BaseAssumption, RedisTypeOK
<1>2. Cardinality(claimed[b]) \in Nat
  BY <1>1, FS_CardinalityType
<1>3. u \notin claimed[a]
  BY stock[a] \in Nat DEF Claim, Outcome, RedisTypeOK
<1>4. stock[b] \in Nat
  BY DEF RedisTypeOK
<1>5. CASE b = a
  <2>1. claimed'[b] = claimed[b] \cup {u} /\ stock'[b] = stock[b] - 1
    BY <1>5 DEF Claim, RedisTypeOK
  <2>2. Cardinality(claimed[b] \cup {u}) = Cardinality(claimed[b]) + 1
    BY <1>1, <1>3, <1>5, FS_AddElement
  <2> QED
    BY <2>1, <2>2, <1>2, <1>4
<1>6. CASE b # a
  BY <1>6 DEF Claim, RedisTypeOK
<1> QED
  BY <1>5, <1>6

\* No operation creates or loses a unit, in whatever state it is run.
LEMMA RedisStepKeepsUnits ==
  ASSUME RedisTypeOK, [RedisNext]_redisVars, NEW b \in Activities
  PROVE  stock'[b] + Cardinality(claimed'[b]) = stock[b] + Cardinality(claimed[b])
<1> DEFINE Kept == stock'[b] + Cardinality(claimed'[b]) = stock[b] + Cardinality(claimed[b])
<1>1. CASE \E u \in Users, a \in Activities : Claim(u, a)
  BY <1>1, ClaimKeepsUnits
<1>2. ASSUME NEW o \in Accepted, CancelScript(o) PROVE Kept
  <2>1. CASE UNCHANGED <<stock, claimed>>
    BY <2>1
  <2>2. CASE Release(UserOf(o), ActivityOf(o))
    BY <2>2, OrderFields, ReleaseKeepsUnits
  <2> QED
    BY <1>2, <2>1, <2>2 DEF CancelScript
<1>3. ASSUME NEW o \in Accepted, CompensateScript(o) PROVE Kept
  BY <1>3, OrderFields, ReleaseKeepsUnits DEF CompensateScript
<1>4. CASE UNCHANGED <<stock, claimed>>
  BY <1>4
<1> QED
  BY <1>1, <1>2, <1>3, <1>4
  DEF RedisNext, MarkSuccess, Unschedule, ExpireHash, CloseActivity, redisVars

LEMMA RedisStepConserves ==
  ASSUME RedisTypeOK, StockConserved, [RedisNext]_redisVars
  PROVE  StockConserved'
BY RedisStepKeepsUnits DEF StockConserved

LEMMA RedisInitConserves == RedisInit => StockConserved
<1>1. Cardinality({}) = 0
  BY FS_EmptySet
<1> QED
  BY <1>1, BaseAssumption DEF BaseAssumption, RedisInit, StockConserved

\* However the scripts are run, repeated or raced, every unit is either on
\* sale or held by exactly one member of the claimed set (seckill.lua 41-42,
\* cancel.lua 25-28, compensate.lua 9-12).
THEOREM StockIsConserved == RedisSpec => []StockConserved
BY RedisInitType, RedisStepType, RedisInitConserves, RedisStepConserves, PTL
DEF RedisSpec

-----------------------------------------------------------------------------
\* What accepting a claim adds: one processing order of that user and activity,
\* for somebody who held no claim, while a unit was left.
LEMMA NewOrder ==
  ASSUME RedisTypeOK, NEW u \in Users, NEW a \in Activities, Claim(u, a),
         NEW n, n = Len(stream) + 1
  PROVE  /\ n \in Orders /\ n \notin Accepted
         /\ Accepted' = Accepted \cup {n}
         /\ stream'[n] = [user |-> u, activity |-> a]
         /\ hash'[n] = "processing"
         /\ \A o \in Accepted : stream'[o] = stream[o] /\ hash'[o] = hash[o]
         /\ u \notin claimed[a] /\ stock[a] > 0
<1>1. /\ stream \in Seq([user : Users, activity : Activities])
      /\ stream' = Append(stream, [user |-> u, activity |-> a])
      /\ stock[a] \in Nat
  BY DEF RedisTypeOK, Claim
<1>2. /\ Len(stream) \in Nat /\ Len(stream') = n
      /\ \A o \in 1 .. Len(stream) : stream'[o] = stream[o]
      /\ stream'[n] = [user |-> u, activity |-> a]
  BY <1>1, AppendProperties, LenProperties
<1>3. Accepted = 1 .. Len(stream) /\ Accepted' = 1 .. n
  BY <1>1, <1>2, ClaimType DEF Accepted, RedisTypeOK
<1>4. n \in Orders /\ n \notin Accepted /\ Accepted' = Accepted \cup {n}
  BY <1>2, <1>3, BaseAssumption DEF Claim, Orders, BaseAssumption
<1>5. \A o \in Accepted : o \in Orders
  BY OrderFields
<1>6. hash'[n] = "processing" /\ \A o \in Accepted : hash'[o] = hash[o]
  BY <1>4, <1>5 DEF Claim, RedisTypeOK
<1>7. u \notin claimed[a] /\ stock[a] > 0
  BY <1>1 DEF Claim, Outcome
<1> QED
  BY <1>2, <1>3, <1>4, <1>6, <1>7

\* The stream only grows, and a message never changes.
LEMMA StreamGrows ==
  ASSUME RedisTypeOK, [RedisNext]_redisVars
  PROVE  /\ Accepted \subseteq Accepted'
         /\ \A o \in Accepted : /\ UserOf(o)' = UserOf(o)
                                 /\ ActivityOf(o)' = ActivityOf(o)
                                 /\ MessageOf(o)' = MessageOf(o)
<1>1. ASSUME NEW u \in Users, NEW a \in Activities, Claim(u, a)
      PROVE  /\ Accepted \subseteq Accepted'
             /\ \A o \in Accepted : stream'[o] = stream[o]
  <2>1. stream' = Append(stream, [user |-> u, activity |-> a])
    BY <1>1 DEF Claim
  <2>2. stream \in Seq([user : Users, activity : Activities])
    BY DEF RedisTypeOK
  <2>3. Len(stream') = Len(stream) + 1 /\ Len(stream) \in Nat
    BY <2>1, <2>2, AppendProperties, LenProperties
  <2>4. \A o \in 1 .. Len(stream) : stream'[o] = stream[o]
    BY <2>1, <2>2, AppendProperties
  <2>5. Accepted = 1 .. Len(stream) /\ Accepted' = 1 .. Len(stream')
    BY <2>1, <2>2 DEF Accepted
  <2> QED
    BY <2>3, <2>4, <2>5
<1>2. CASE UNCHANGED stream
  BY <1>2 DEF Accepted, UserOf, ActivityOf, MessageOf
<1>3. CASE \E u \in Users, a \in Activities : Claim(u, a)
  BY <1>1, <1>3 DEF UserOf, ActivityOf, MessageOf
<1> QED
  BY <1>2, <1>3 DEF RedisNext, CancelScript, CompensateScript, MarkSuccess,
                    Unschedule, ExpireHash, CloseActivity, redisVars

-----------------------------------------------------------------------------
(* The database: the grant transaction *)

\* A transaction that is open is a record with a message of the stream.
LEMMA OpenTxn ==
  ASSUME DatabaseTypeOK, NEW w \in Workers, InTxn(w)
  PROVE  /\ txn[w] \in [phase : {"checked", "locked"}, msg : Message, seen : Nat]
         /\ txn[w].msg \in Message
         /\ txn[w].seen \in Nat
<1>1. txn[w] \in [phase : {"checked", "locked"}, msg : Message, seen : Nat]
  BY DEF DatabaseTypeOK, Txn, InTxn
<1> QED
  BY <1>1

\* Ending a transaction keeps the types.
LEMMA EndTxnType ==
  ASSUME DatabaseTypeOK, NEW w \in Workers, EndTxn(w)
  PROVE  txn' \in [Workers -> Txn] /\ rowLock' \in [Users -> Workers \cup {NoTask}]
BY DEF DatabaseTypeOK, EndTxn, Txn

LEMMA CommitType ==
  ASSUME DatabaseTypeOK, NEW w \in Workers, TxnCommit(w)
  PROVE  DatabaseTypeOK'
<1> DEFINE m == txn[w].msg
<1>1. m \in Message /\ txn[w].seen \in Nat
  BY OpenTxn DEF TxnCommit
<1>2. m.id \in Orders /\ m.user \in Users /\ m.activity \in Activities
  BY <1>1 DEF Message
<1>3. dbStock' \in [Activities -> Nat]
  <2>1. dbStock[m.activity] \in Nat /\ dbStock[m.activity] # 0
    BY <1>2 DEF TxnCommit, Refused, DatabaseTypeOK
  <2> QED
    BY <1>2, <2>1 DEF TxnCommit, TakeDbStock, DatabaseTypeOK
<1>4. rows' \subseteq Message
  BY <1>1 DEF TxnCommit, DatabaseTypeOK
<1>5. ledger' \subseteq Entry
  BY <1>1, <1>2 DEF TxnCommit, DatabaseTypeOK, Entry
<1>6. balance' \in [Users -> Nat]
  BY <1>1, <1>2 DEF TxnCommit, DatabaseTypeOK
<1>7. txn' \in [Workers -> Txn] /\ rowLock' \in [Users -> Workers \cup {NoTask}]
  BY EndTxnType DEF TxnCommit
<1> QED
  BY <1>3, <1>4, <1>5, <1>6, <1>7 DEF DatabaseTypeOK

LEMMA DatabaseStepType ==
  ASSUME DatabaseTypeOK, [DatabaseNext]_databaseVars
  PROVE  DatabaseTypeOK'
<1>1. ASSUME NEW w \in Workers, NEW m \in Message, TxnBegin(w, m)
      PROVE  DatabaseTypeOK'
  BY <1>1 DEF DatabaseTypeOK, TxnBegin, Txn
<1>2. ASSUME NEW w \in Workers, TxnLock(w) PROVE DatabaseTypeOK'
  <2>1. /\ txn[w] \in [phase : {"checked", "locked"}, msg : Message, seen : Nat]
        /\ txn[w].msg.user \in Users
    BY <1>2, OpenTxn DEF TxnLock, Message
  <2>2. balance[txn[w].msg.user] \in Nat
    BY <2>1 DEF DatabaseTypeOK
  <2>3. txn' \in [Workers -> Txn]
    BY <1>2, <2>1, <2>2 DEF TxnLock, DatabaseTypeOK, Txn
  <2>4. rowLock' \in [Users -> Workers \cup {NoTask}]
    BY <1>2, <2>1 DEF TxnLock, DatabaseTypeOK
  <2> QED
    BY <1>2, <2>3, <2>4 DEF TxnLock, DatabaseTypeOK
<1>3. ASSUME NEW w \in Workers, Rollback(w) PROVE DatabaseTypeOK'
  BY <1>3, EndTxnType DEF DatabaseTypeOK, Rollback
<1>4. ASSUME NEW w \in Workers, TxnCommit(w) PROVE DatabaseTypeOK'
  BY <1>4, CommitType
<1>5. CASE UNCHANGED databaseVars
  BY <1>5 DEF DatabaseTypeOK, databaseVars
<1> QED
  BY <1>1, <1>2, <1>3, <1>4, <1>5
  DEF DatabaseNext, TxnRefuse, TxnConflict, TxnAbort

LEMMA DatabaseInitType == DatabaseInit => DatabaseTypeOK
BY BaseAssumption DEF BaseAssumption, DatabaseInit, DatabaseTypeOK, Txn

\* The tables stay well formed; in particular db_stock never goes below zero,
\* as the check constraint at models.py 125 asks (grant.py 89-102).
THEOREM DatabaseTypeCorrect == DatabaseSpec => []DatabaseTypeOK
BY DatabaseInitType, DatabaseStepType, PTL DEF DatabaseSpec

-----------------------------------------------------------------------------
\* Every step but a commit leaves the tables alone.
LEMMA OnlyCommitWrites ==
  ASSUME [DatabaseNext]_databaseVars,
         \A w \in Workers : ~TxnCommit(w)
  PROVE  UNCHANGED <<dbStock, rows, ledger, balance>>
BY DEF DatabaseNext, TxnBegin, TxnLock, TxnRefuse, TxnConflict, TxnAbort,
       Rollback, databaseVars

\* A commit adds a row that clashes with none.
LEMMA OneGrantStep ==
  ASSUME OneGrantPerUser, [DatabaseNext]_databaseVars
  PROVE  OneGrantPerUser'
<1>1. ASSUME NEW w \in Workers, TxnCommit(w) PROVE OneGrantPerUser'
  BY <1>1 DEF TxnCommit, Found, OneGrantPerUser
<1>2. CASE \A w \in Workers : ~TxnCommit(w)
  BY <1>2, OnlyCommitWrites DEF OneGrantPerUser
<1> QED
  BY <1>1, <1>2

\* A user is granted an activity at most once and an order is written at most
\* once, whatever messages are processed again or at the same time (grant.py
\* 63-78, models.py 156).
THEOREM GrantsAreUnique == DatabaseSpec => []OneGrantPerUser
<1>1. DatabaseInit => OneGrantPerUser
  BY DEF DatabaseInit, OneGrantPerUser
<1> QED
  BY <1>1, OneGrantStep, PTL DEF DatabaseSpec

-----------------------------------------------------------------------------
\* The tables are finite: what Cardinality needs.
FiniteTables == IsFiniteSet(rows) /\ IsFiniteSet(ledger)

LEMMA FiniteStep ==
  ASSUME FiniteTables, [DatabaseNext]_databaseVars
  PROVE  FiniteTables'
<1>1. ASSUME NEW w \in Workers, TxnCommit(w) PROVE FiniteTables'
  BY <1>1, FS_AddElement DEF TxnCommit, FiniteTables
<1>2. CASE \A w \in Workers : ~TxnCommit(w)
  BY <1>2, OnlyCommitWrites DEF FiniteTables
<1> QED
  BY <1>1, <1>2

LEMMA FiniteInit == DatabaseInit => FiniteTables
BY FS_EmptySet DEF DatabaseInit, FiniteTables

LEMMA NoOversellStep ==
  ASSUME DatabaseTypeOK, FiniteTables, NoOversell, [DatabaseNext]_databaseVars
  PROVE  NoOversell'
<1>1. ASSUME NEW w \in Workers, TxnCommit(w) PROVE NoOversell'
  <2> DEFINE m == txn[w].msg
  <2> SUFFICES ASSUME NEW a \in Activities
               PROVE  dbStock'[a] + Cardinality(RowsOf(a)') = InitialStock[a]
    BY DEF NoOversell
  <2>1. m \in Message /\ m.activity \in Activities
    BY <1>1, OpenTxn DEF TxnCommit, Message
  <2>2. m \notin rows /\ rows' = rows \cup {m}
    BY <1>1 DEF TxnCommit, Found
  <2>3. IsFiniteSet(RowsOf(a)) /\ Cardinality(RowsOf(a)) \in Nat
    BY FS_Subset, FS_CardinalityType DEF FiniteTables, RowsOf
  <2>4. dbStock[a] \in Nat /\ dbStock[a] + Cardinality(RowsOf(a)) = InitialStock[a]
    BY DEF DatabaseTypeOK, NoOversell
  <2>5. CASE a = m.activity
    <3>1. RowsOf(a)' = RowsOf(a) \cup {m} /\ m \notin RowsOf(a)
      BY <2>2, <2>5 DEF RowsOf
    <3>2. dbStock'[a] = dbStock[a] - 1
      BY <1>1, <2>1, <2>5 DEF TxnCommit, TakeDbStock, DatabaseTypeOK
    <3>3. Cardinality(RowsOf(a) \cup {m}) = Cardinality(RowsOf(a)) + 1
      BY <2>3, <3>1, FS_AddElement
    <3> QED
      BY <3>1, <3>2, <3>3, <2>3, <2>4
  <2>6. CASE a # m.activity
    <3>1. RowsOf(a)' = RowsOf(a)
      BY <2>2, <2>6 DEF RowsOf
    <3>2. dbStock'[a] = dbStock[a]
      BY <1>1, <2>1, <2>6 DEF TxnCommit, TakeDbStock, DatabaseTypeOK
    <3> QED
      BY <3>1, <3>2, <2>4
  <2> QED
    BY <2>5, <2>6
<1>2. CASE \A w \in Workers : ~TxnCommit(w)
  BY <1>2, OnlyCommitWrites DEF NoOversell, RowsOf
<1> QED
  BY <1>1, <1>2

LEMMA NoOversellInit == DatabaseInit => NoOversell
<1>1. ASSUME DatabaseInit PROVE NoOversell
  <2>1. \A a \in Activities : RowsOf(a) = {}
    BY <1>1 DEF DatabaseInit, RowsOf
  <2> QED
    BY <1>1, <2>1, FS_EmptySet, BaseAssumption
    DEF BaseAssumption, DatabaseInit, NoOversell
<1> QED
  BY <1>1

\* Units left in the database and orders written always add up to what was
\* published: nothing is oversold and no decrement is lost (grant.py 88-115).
THEOREM NeverOversold == DatabaseSpec => []NoOversell
BY DatabaseInitType, DatabaseStepType, FiniteInit, FiniteStep,
   NoOversellInit, NoOversellStep, PTL DEF DatabaseSpec

-----------------------------------------------------------------------------
\* What SELECT ... FOR UPDATE gives a transaction until it ends: it holds the
\* user row, and the balance it read is still the current one.
CreditUnderLock ==
  \A w \in Workers :
    InTxn(w) /\ txn[w].phase = "locked" =>
      /\ rowLock[txn[w].msg.user] = w
      /\ txn[w].seen = balance[txn[w].msg.user]

\* Ending another transaction does not touch the rows this one holds.
LEMMA EndTxnKeepsOthers ==
  ASSUME DatabaseTypeOK, CreditUnderLock, NEW w \in Workers, EndTxn(w),
         NEW v \in Workers, InTxn(v)', txn'[v].phase = "locked"
  PROVE  /\ v # w /\ InTxn(v) /\ txn[v].phase = "locked" /\ txn'[v] = txn[v]
         /\ txn[v].msg.user \in Users
         /\ rowLock[txn[v].msg.user] = v
         /\ rowLock'[txn[v].msg.user] = v
         /\ txn[v].seen = balance[txn[v].msg.user]
<1>1. v # w /\ txn'[v] = txn[v] /\ InTxn(v) /\ txn[v].phase = "locked"
  BY DEF EndTxn, DatabaseTypeOK, InTxn
<1>2. txn[v].msg.user \in Users
  BY <1>1, OpenTxn DEF Message
<1>3. rowLock[txn[v].msg.user] = v /\ txn[v].seen = balance[txn[v].msg.user]
  BY <1>1 DEF CreditUnderLock
<1>4. rowLock'[txn[v].msg.user] = v
  BY <1>1, <1>2, <1>3 DEF EndTxn
<1> QED
  BY <1>1, <1>2, <1>3, <1>4

LEMMA CreditUnderLockStep ==
  ASSUME DatabaseTypeOK, CreditUnderLock, [DatabaseNext]_databaseVars
  PROVE  CreditUnderLock'
<1> SUFFICES ASSUME NEW v \in Workers, InTxn(v)', txn'[v].phase = "locked"
             PROVE  /\ rowLock'[txn'[v].msg.user] = v
                    /\ txn'[v].seen = balance'[txn'[v].msg.user]
  BY DEF CreditUnderLock, InTxn
<1>1. ASSUME NEW w \in Workers, NEW m \in Message, TxnBegin(w, m)
      PROVE  /\ rowLock'[txn'[v].msg.user] = v
             /\ txn'[v].seen = balance'[txn'[v].msg.user]
  <2>1. v # w
    BY <1>1 DEF TxnBegin, DatabaseTypeOK
  <2>2. txn'[v] = txn[v] /\ InTxn(v)
    BY <1>1, <2>1 DEF TxnBegin, DatabaseTypeOK, InTxn
  <2> QED
    BY <1>1, <2>2 DEF TxnBegin, CreditUnderLock
<1>2. ASSUME NEW w \in Workers, TxnLock(w)
      PROVE  /\ rowLock'[txn'[v].msg.user] = v
             /\ txn'[v].seen = balance'[txn'[v].msg.user]
  <2> DEFINE u == txn[w].msg.user
  <2>1. /\ txn[w] \in [phase : {"checked", "locked"}, msg : Message, seen : Nat]
        /\ u \in Users
    BY <1>2, OpenTxn DEF TxnLock, Message
  <2>2. CASE v = w
    <3>1. /\ txn'[w].msg = txn[w].msg
          /\ txn'[w].seen = balance[u]
      BY <1>2, <2>1 DEF TxnLock, DatabaseTypeOK
    <3>2. rowLock'[u] = w
      BY <1>2, <2>1 DEF TxnLock, DatabaseTypeOK
    <3> QED
      BY <1>2, <2>2, <3>1, <3>2 DEF TxnLock
  <2>3. CASE v # w
    <3>1. txn'[v] = txn[v] /\ InTxn(v)
      BY <1>2, <2>3 DEF TxnLock, DatabaseTypeOK, InTxn
    <3>2. rowLock[txn[v].msg.user] = v /\ txn[v].seen = balance[txn[v].msg.user]
      BY <3>1 DEF CreditUnderLock
    <3>3. txn[v].msg.user \in Users
      BY <3>1, OpenTxn DEF Message
    <3>4. v # NoTask
      BY BaseAssumption DEF BaseAssumption, Tasks
    <3>5. txn[v].msg.user # u
      BY <1>2, <3>2, <3>4 DEF TxnLock
    <3>6. rowLock'[txn[v].msg.user] = v
      BY <1>2, <2>1, <3>2, <3>3, <3>5 DEF TxnLock, DatabaseTypeOK
    <3> QED
      BY <1>2, <3>1, <3>2, <3>6 DEF TxnLock
  <2> QED
    BY <2>2, <2>3
<1>3. ASSUME NEW w \in Workers, Rollback(w)
      PROVE  /\ rowLock'[txn'[v].msg.user] = v
             /\ txn'[v].seen = balance'[txn'[v].msg.user]
  BY <1>3, EndTxnKeepsOthers DEF Rollback
<1>4. ASSUME NEW w \in Workers, TxnCommit(w)
      PROVE  /\ rowLock'[txn'[v].msg.user] = v
             /\ txn'[v].seen = balance'[txn'[v].msg.user]
  <2>1. EndTxn(w)
    BY <1>4 DEF TxnCommit
  <2>2. /\ v # w /\ txn'[v] = txn[v] /\ txn[v].msg.user \in Users
        /\ rowLock[txn[v].msg.user] = v /\ rowLock'[txn[v].msg.user] = v
        /\ txn[v].seen = balance[txn[v].msg.user]
    BY <2>1, EndTxnKeepsOthers
  <2>3. rowLock[txn[w].msg.user] = w
    BY <1>4 DEF TxnCommit, CreditUnderLock
  <2>4. txn[v].msg.user # txn[w].msg.user
    BY <2>2, <2>3
  <2>5. balance'[txn[v].msg.user] = balance[txn[v].msg.user]
    BY <1>4, <2>2, <2>4 DEF TxnCommit, DatabaseTypeOK
  <2> QED
    BY <2>2, <2>5
<1>5. CASE UNCHANGED databaseVars
  BY <1>5 DEF databaseVars, CreditUnderLock, InTxn
<1> QED
  BY <1>1, <1>2, <1>3, <1>4, <1>5
  DEF DatabaseNext, TxnRefuse, TxnConflict, TxnAbort

LEMMA CreditUnderLockInit == DatabaseInit => CreditUnderLock
BY DEF DatabaseInit, CreditUnderLock, InTxn

LEMMA LedgerStep ==
  ASSUME DatabaseTypeOK, FiniteTables, CreditUnderLock, LedgerExplainsBalance,
         [DatabaseNext]_databaseVars
  PROVE  LedgerExplainsBalance'
<1>1. ASSUME NEW w \in Workers, TxnCommit(w) PROVE LedgerExplainsBalance'
  <2> DEFINE m == txn[w].msg
             e == [order |-> m.id, user |-> m.user, after |-> txn[w].seen + 1]
  <2> SUFFICES ASSUME NEW u \in Users
               PROVE  /\ Cardinality(EntriesOf(u)') = balance'[u]
                      /\ {x.after : x \in EntriesOf(u)'} = 1 .. balance'[u]
    BY DEF LedgerExplainsBalance, EntriesOf
  <2>1. m.user \in Users /\ txn[w].seen = balance[m.user]
    BY <1>1, OpenTxn DEF TxnCommit, Message, CreditUnderLock
  <2>2. ledger' = ledger \cup {e} /\ balance' = [balance EXCEPT ![m.user] = txn[w].seen + 1]
    BY <1>1 DEF TxnCommit
  <2>3. /\ balance[u] \in Nat
        /\ Cardinality(EntriesOf(u)) = balance[u]
        /\ {x.after : x \in EntriesOf(u)} = 1 .. balance[u]
    BY DEF DatabaseTypeOK, LedgerExplainsBalance
  <2>4. CASE u = m.user
    <3>1. EntriesOf(u)' = EntriesOf(u) \cup {e}
      BY <2>2, <2>4 DEF EntriesOf
    <3>2. balance'[u] = balance[u] + 1 /\ e.after = balance[u] + 1
      BY <2>1, <2>2, <2>4 DEF DatabaseTypeOK
    <3>3. e \notin EntriesOf(u)
      <4>1. e.after \notin 1 .. balance[u]
        BY <2>3, <3>2
      <4> QED
        BY <2>3, <4>1
    <3>4. IsFiniteSet(EntriesOf(u))
      BY FS_Subset DEF FiniteTables, EntriesOf
    <3>5. Cardinality(EntriesOf(u) \cup {e}) = balance[u] + 1
      BY <2>3, <3>3, <3>4, FS_AddElement
    <3>6. {x.after : x \in EntriesOf(u) \cup {e}} = {x.after : x \in EntriesOf(u)} \cup {e.after}
      OBVIOUS
    <3>7. (1 .. balance[u]) \cup {balance[u] + 1} = 1 .. (balance[u] + 1)
      BY <2>3
    <3> QED
      BY <2>3, <3>1, <3>2, <3>5, <3>6, <3>7
  <2>5. CASE u # m.user
    <3>1. EntriesOf(u)' = EntriesOf(u)
      BY <2>2, <2>5 DEF EntriesOf
    <3>2. balance'[u] = balance[u]
      BY <2>1, <2>2, <2>5 DEF DatabaseTypeOK
    <3> QED
      BY <2>3, <3>1, <3>2
  <2> QED
    BY <2>4, <2>5
<1>2. CASE \A w \in Workers : ~TxnCommit(w)
  BY <1>2, OnlyCommitWrites DEF LedgerExplainsBalance, EntriesOf
<1> QED
  BY <1>1, <1>2

LEMMA LedgerInit == DatabaseInit => LedgerExplainsBalance
<1>1. ASSUME DatabaseInit PROVE LedgerExplainsBalance
  <2>1. \A u \in Users : EntriesOf(u) = {} /\ balance[u] = 0
    BY <1>1 DEF DatabaseInit, EntriesOf
  <2>2. 1 .. 0 = {}
    OBVIOUS
  <2> QED
    BY <2>1, <2>2, FS_EmptySet DEF LedgerExplainsBalance
<1> QED
  BY <1>1

\* The balance of a user is what the ledger adds up to, entry by entry: two
\* grants of one user that overlap never lose a credit, because the row lock
\* keeps the balance read by one from changing before it commits (grant.py
\* 81-83, 105-120).
THEOREM LedgerIsExact == DatabaseSpec => []LedgerExplainsBalance
BY DatabaseInitType, DatabaseStepType, FiniteInit, FiniteStep,
   CreditUnderLockInit, CreditUnderLockStep, LedgerInit, LedgerStep, PTL
DEF DatabaseSpec

-----------------------------------------------------------------------------
\* Only an open transaction holds a user row.
RowsHeldByTxns ==
  \A u \in Users, w \in Workers : rowLock[u] = w => InTxn(w)

LEMMA RowsHeldByTxnsStep ==
  ASSUME DatabaseTypeOK, RowsHeldByTxns, [DatabaseNext]_databaseVars
  PROVE  RowsHeldByTxns'
<1> SUFFICES ASSUME NEW u \in Users, NEW v \in Workers, rowLock'[u] = v
             PROVE  txn'[v] # NoTxn
  BY DEF RowsHeldByTxns, InTxn
<1>0. v # NoTask
  BY BaseAssumption DEF BaseAssumption, Tasks
<1>1. ASSUME NEW w \in Workers, NEW m \in Message, TxnBegin(w, m) PROVE txn'[v] # NoTxn
  BY <1>1 DEF TxnBegin, DatabaseTypeOK, RowsHeldByTxns, InTxn, NoTxn
<1>2. ASSUME NEW w \in Workers, TxnLock(w) PROVE txn'[v] # NoTxn
  <2>1. CASE v = w
    <3>1. txn[w] \in [phase : {"checked", "locked"}, msg : Message, seen : Nat]
      BY <1>2, OpenTxn DEF TxnLock
    <3>2. txn'[w].phase = "locked"
      BY <1>2, <3>1 DEF TxnLock, DatabaseTypeOK
    <3> QED
      BY <2>1, <3>2 DEF NoTxn
  <2>2. CASE v # w
    BY <1>2, <2>2 DEF TxnLock, DatabaseTypeOK, RowsHeldByTxns, InTxn
  <2> QED
    BY <2>1, <2>2
<1>3. ASSUME NEW w \in Workers, EndTxn(w) PROVE txn'[v] # NoTxn
  <2>1. rowLock[u] = v /\ v # w
    BY <1>0, <1>3 DEF EndTxn
  <2> QED
    BY <1>3, <2>1 DEF EndTxn, DatabaseTypeOK, RowsHeldByTxns, InTxn
<1>4. CASE UNCHANGED databaseVars
  BY <1>4 DEF databaseVars, RowsHeldByTxns, InTxn
<1> QED
  BY <1>1, <1>2, <1>3, <1>4
  DEF DatabaseNext, TxnRefuse, TxnCommit, TxnConflict, TxnAbort, Rollback

LEMMA RowsHeldByTxnsInit == DatabaseInit => RowsHeldByTxns
BY BaseAssumption DEF BaseAssumption, Tasks, DatabaseInit, RowsHeldByTxns

\* Rolling back is a step of the database, or nothing if nothing is open.
LEMMA RollbackIsAbort ==
  ASSUME DatabaseTypeOK, RowsHeldByTxns, NEW w \in Workers, Rollback(w)
  PROVE  [DatabaseNext]_databaseVars
<1>1. CASE InTxn(w)
  BY <1>1 DEF DatabaseNext, TxnAbort
<1>2. CASE ~InTxn(w)
  <2>1. txn' = txn
    BY <1>2 DEF Rollback, EndTxn, InTxn, DatabaseTypeOK
  <2>2. \A u \in Users : rowLock[u] # w
    BY <1>2 DEF RowsHeldByTxns
  <2>3. rowLock' = rowLock
    BY <2>2 DEF Rollback, EndTxn, DatabaseTypeOK
  <2> QED
    BY <2>1, <2>3 DEF Rollback, databaseVars
<1> QED
  BY <1>1, <1>2
=============================================================================
