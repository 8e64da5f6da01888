--------------------------- MODULE GrantDatabase ---------------------------
(***************************************************************************)
(* The relational side of a grant: GrantService.process as a transaction   *)
(* on MySQL, run by any number of concurrent callers with any message.     *)
(*                                                                         *)
(* A transaction is cut where another one can come in between: after the   *)
(* unlocked snapshot reads (the two idempotency checks), and after         *)
(* SELECT ... FOR UPDATE on the user.  The conditional stock UPDATE, the   *)
(* INSERTs and the COMMIT are one step: the UPDATE holds the activity      *)
(* row until the commit, so no other transaction sees a state in between.  *)
(* Balances are counted in packs.                                          *)
(***************************************************************************)
EXTENDS SeckillBase

VARIABLES
  dbStock,    \* seckill_activities.db_stock
  rows,       \* grant_orders
  ledger,     \* token_ledger: order, user, balance_after
  balance,    \* users.token_balance
  txn,        \* the transaction each worker has open
  rowLock     \* who holds FOR UPDATE on a user row

databaseVars == <<dbStock, rows, ledger, balance, txn, rowLock>>

Entry == [order : Orders, user : Users, after : Nat]

NoTxn == [phase |-> "none"]
Txn ==
  {NoTxn} \cup
  [phase : {"checked", "locked"}, msg : Message, seen : Nat]

InTxn(w) == txn[w] # NoTxn

\* Faulty variant: only the primary key protects the table.
FoundById(m) == \E r \in rows : r.id = m.id

\* What the two idempotency queries look for, and what the primary key and
\* the (user, activity) unique constraint refuse.
Found(m) ==
  \E r \in rows : r.id = m.id \/ (r.user = m.user /\ r.activity = m.activity)

DatabaseTypeOK ==
  /\ dbStock \in [Activities -> Nat]
  /\ rows \subseteq Message
  /\ ledger \subseteq Entry
  /\ balance \in [Users -> Nat]
  /\ txn \in [Workers -> Txn]
  /\ rowLock \in [Users -> Workers \cup {NoTask}]

DatabaseInit ==
  /\ dbStock = InitialStock
  /\ rows = {}
  /\ ledger = {}
  /\ balance = [u \in Users |-> 0]
  /\ txn = [w \in Workers |-> NoTxn]
  /\ rowLock = [u \in Users |-> NoTask]

-----------------------------------------------------------------------------
\* The snapshot shows no order for this message.
TxnBegin(w, m) ==
  /\ ~InTxn(w)
  /\ ~Found(m)
  /\ txn' = [txn EXCEPT ![w] =
               [phase |-> "checked", msg |-> m, seen |-> 0]]
  /\ UNCHANGED <<dbStock, rows, ledger, balance, rowLock>>

\* Faulty variant: SELECT without FOR UPDATE.
TxnLockWithoutForUpdate(w) ==
  /\ InTxn(w) /\ txn[w].phase = "checked"
  /\ txn' = [txn EXCEPT ![w].phase = "locked",
                        ![w].seen = balance[txn[w].msg.user]]
  /\ UNCHANGED <<dbStock, rows, ledger, balance, rowLock>>

\* SELECT ... FOR UPDATE on the user row; the balance read is the current one.
TxnLock(w) ==
  /\ InTxn(w) /\ txn[w].phase = "checked"
  /\ rowLock[txn[w].msg.user] = NoTask
  /\ rowLock' = [rowLock EXCEPT ![txn[w].msg.user] = w]
  /\ txn' = [txn EXCEPT ![w].phase = "locked",
                        ![w].seen = balance[txn[w].msg.user]]
  /\ UNCHANGED <<dbStock, rows, ledger, balance>>

\* The transaction ends and its row lock with it.
EndTxn(w) ==
  /\ txn' = [txn EXCEPT ![w] = NoTxn]
  /\ rowLock' = [u \in Users |-> IF rowLock[u] = w THEN NoTask ELSE rowLock[u]]

Rollback(w) ==
  /\ EndTxn(w)
  /\ UNCHANGED <<dbStock, rows, ledger, balance>>

\* Faulty variant: the stock UPDATE has no "db_stock > 0".
RefusedWithoutStock(m) == m.user \notin Registered \/ m.activity \notin OnSale

\* PermanentGrantError, raised in this order: no such user, SKU off sale, or
\* UPDATE ... db_stock > 0 matched no row.  No constraint is looked at before.
Refused(m) ==
  \/ m.user \notin Registered
  \/ m.activity \notin OnSale
  \/ dbStock[m.activity] = 0

TxnRefuse(w) ==
  /\ InTxn(w) /\ txn[w].phase = "locked"
  /\ Refused(txn[w].msg)
  /\ Rollback(w)

\* Faulty variant: UPDATE ... SET db_stock = db_stock - 1 is forgotten.
TakeDbStockForgotten(a) == UNCHANGED dbStock

TakeDbStock(a) == dbStock' = [dbStock EXCEPT ![a] = @ - 1]

\* UPDATE one unit away, INSERT order and ledger entry, UPDATE the balance
\* from the value read under the lock, COMMIT.
TxnCommit(w) ==
  LET m == txn[w].msg
      credited == txn[w].seen + 1
  IN  /\ InTxn(w) /\ txn[w].phase = "locked"
      /\ ~Refused(m)
      /\ ~Found(m)
      /\ TakeDbStock(m.activity)
      /\ rows' = rows \cup {m}
      /\ ledger' = ledger \cup
                     {[order |-> m.id, user |-> m.user, after |-> credited]}
      /\ balance' = [balance EXCEPT ![m.user] = credited]
      /\ EndTxn(w)

\* The flush hits the primary key or the unique constraint: IntegrityError.
TxnConflict(w) ==
  /\ InTxn(w) /\ txn[w].phase = "locked"
  /\ ~Refused(txn[w].msg)
  /\ Found(txn[w].msg)
  /\ Rollback(w)

\* The connection or the caller is lost: the server rolls back.
TxnAbort(w) ==
  /\ InTxn(w)
  /\ Rollback(w)

DatabaseNext ==
  \E w \in Workers :
    \/ \E m \in Message : TxnBegin(w, m)
    \/ TxnLock(w)
    \/ TxnRefuse(w)
    \/ TxnCommit(w)
    \/ TxnConflict(w)
    \/ TxnAbort(w)

DatabaseSpec == DatabaseInit /\ [][DatabaseNext]_databaseVars

-----------------------------------------------------------------------------
RowsOf(a) == {r \in rows : r.activity = a}
EntriesOf(u) == {e \in ledger : e.user = u}
HasRow(o) == \E r \in rows : r.id = o

\* The database never sells more than initial_stock and never forgets a sale,
\* however many transactions overlap (grant.py 88-102).
NoOversell ==
  \A a \in Activities : dbStock[a] + Cardinality(RowsOf(a)) = InitialStock[a]

\* One order per user and activity, one row per order id: overlapping
\* deliveries of the same or of two orders of a user grant once (grant.py 63-78
\* and the unique constraint at models.py 156).
OneGrantPerUser ==
  \A r, s \in rows :
    (r.id = s.id \/ (r.user = s.user /\ r.activity = s.activity)) => r = s

\* The balance is the sum of the ledger and balance_after numbers the entries
\* without a gap: no credit overwrites another one, even when grants of two
\* activities of one user overlap (grant.py 81, 105, 117-120).
LedgerExplainsBalance ==
  \A u \in Users :
    /\ Cardinality(EntriesOf(u)) = balance[u]
    /\ {e.after : e \in EntriesOf(u)} = 1 .. balance[u]
=============================================================================
