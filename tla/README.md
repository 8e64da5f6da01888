# TokenSeckill: a verification project

TokenSeckill sells a limited number of token packs in a flash sale. A claim is
decided by a Lua script in Redis and fulfilled later, in a relational database,
by background workers. This directory holds TLA+ modules of that system, the
TLC configurations that check them, and proofs that TLAPS checks. Line numbers
are those of the repository; `services/...`, `workers/...` and `resources/...`
are below `src/token_seckill/`.

## 1. The system

| Component | State it keeps | Operations |
|---|---|---|
| Lua scripts, `services/seckill.py`, `resources/*.lua` | Redis: stock, claimed set, meta hash of an activity; grant stream; order hash; delay queue | claim, cancel, compensate, publish |
| Grant transaction, `services/grant.py`, `db/models.py` | `seckill_activities.db_stock`, `grant_orders`, `token_ledger`, `users.token_balance` | `process(message)` in one transaction |
| Grant consumer, `workers/grant_consumer.py` | consumer group (delivered and pending messages), lock per user | recover, read, process one entry, acknowledge |
| Cancellation scanner, `services/order_timeout.py` | nothing of its own; runs in the consumer's process | scan the delay queue, cancel one order |
| Admission, `services/rate_limit.py`, `api/routes/activities.py` | Redis: one sorted set per user, address and activity; challenge answers | check three windows, issue and verify a challenge, show a window |
| Activity cache, `services/activity_cache.py` | a TTL cache per process, Memcached (optional), Redis | get through all layers, invalidate |
| Publication, `services/seckill.py` 53-96, `scripts/seed_demo.py` | row status and version; then the Redis keys and the cache | publish, for the first time or again |
| Agent approvals, `agents/quota_agent.py` | approval hash, lock per action, chat history | prepare, approve, invoke |
| Stock push, `api/routes/activities.py` 63-120 | a Pub/Sub subscription per page | first frame, then one frame per message |
| Order numbers, `services/seckill.py` 198-204 | a counter per day in Redis | draw a number |
| Enum migration, `scripts/migrate_enum_lowercase.py` | rows, collations, CHECKs and defaults of the schema | four phases |
| Order query, `api/routes/orders.py` 16-38, `agents/quota_agent.py` 216-250 | nothing | the row, then in a second round trip the order hash |
| Reconciliation, user/SKU administration, start-up, metrics | reads, single inserts, wiring | |

How they interact. An API request passes the admission windows and runs
`seckill.lua`, which in one atomic step takes a unit, records the user, adds a
message to the stream, writes the order hash and puts the order into the delay
queue. A consumer reads the message, takes the lock of the user, looks at the
status, runs the database transaction, writes `success`, removes the delay entry
and acknowledges. A scanner in the same process takes due orders from the delay
queue, takes the same lock, looks at the status again and runs `cancel.lua`. A
grant the database refuses for good is undone by `compensate.lua`. The two stores
are joined by nothing but the order of these commands and the lock.

An approval of the assistant's runs the same claim, under a lock of its own. Pages
that follow the stock hear what the script publishes. Whoever asks for an order is
answered from its row or, where there is none, from its hash. The administrator, and the
demo script whenever it is started, publish an activity: they write the keys that
the scripts work on, one after the other.

What is hard here:

* Consumer and scanner race for one order, in several round trips each.
* The process may die between any two commands. The database commit and the Redis
  status are two of them.
* Messages are delivered again after a crash, a busy lock or an error, and may be
  taken over while their first consumer still works on them.
* The lock expires after thirty seconds whether its owner is finished or not.
* The order hash expires after two days whether the order is settled or not, and
  while a task may be at work on it.
* The answer for an order comes from two stores that are read one after the other and
  never written together.
* Units return to the sale from three places and must return once.
* A publication in the middle of a sale rewrites stock and claimed set under it.
* An approval may be asked for twice at once, and be cut off between its claim and
  the record of it.
* Order numbers come from clocks that differ and from a counter that expires.
* Every ALTER of the migration commits by itself, and what one phase can see
  depends on what a later one has done.
* Rate-limit windows, challenges and caches are read and written in separate
  commands by requests that overlap.

What makes it correct, by component: a unit is never lost or doubled (scripts);
never more rows than stock, one row per user and activity, balances that match
the ledger (transaction); no order is forgotten, one handler per user at a time,
a settled order stays settled, a success is backed by a row, every order is
settled at last (consumer and scanner); both stores together behave as one atomic
sale (composition); limits, single use and the end of lockouts (admission); old
versions do not survive (cache); one approved action is one order, and everybody
who asks is told the same (approvals); a page ends up with the right stock (push);
numbers are unique; a migration that says it is complete is complete.
`PROJECT.json` lists each hazard at its line with the properties that watch it.

## 2. The modules

```
SeckillBase -- GrantDatabase --+
           \                   +-- Fulfilment ----- implements QuotaSale
            +- SeckillRedis ---+        \
                   |                     +-- Publication    OrderQuery
                   +-- Approval ---+
                   +-- StockPush --+-- Storefront

Admission      ActivityCache      OrderNumbers      Migration
```

* **SeckillBase**: users, activities, orders, tasks and the assumptions on them.
  Orders are named by their place in the stream, which is sound because their
  numbers are only compared for equality and are unique (`OrderNumbers`).
* **SeckillRedis**: the key space and one action per script or single command.
  `RedisSpec` lets anybody run anything on any order at any time. Each Lua script
  is one step, as Redis runs it. `expired` remembers the orders whose hash, as the
  claim wrote it, has come to its end: an HSET or a script that comes later leaves a
  hash with a status and nothing else (`Partial`).
* **GrantDatabase**: `GrantService.process`, cut after its snapshot reads and after
  `SELECT ... FOR UPDATE`. The conditional UPDATE takes the row lock of the
  activity until the commit, so UPDATE, INSERTs and COMMIT are one step. The unique
  constraints turn a second insert into a conflict. `DatabaseSpec` allows any
  messages from any number of workers. MySQL (InnoDB, repeatable read) is the
  database modelled; SQLite, the development default, is not. `Registered`
  and `OnSale` say which rows the transaction finds: the
  routes look for the user too, and nothing in the repository removes a user or
  withdraws a SKU, but the transaction handles both.
* **Fulfilment** extends both and adds the consumers, the scanners, the consumer
  group, the lock, the clock and the faults. One action is one round trip. `pc[t]`
  is the place of a task in `process_entry` or `cancel_one`, `todo[t]` what is left
  of its batch.

  | place | code |
  |---|---|
  | `idle` | between two batches (`run_forever`, `scan_once`) |
  | `peek`, `drop` | `cancel_one` 73-77, before the lock |
  | `lock` | `lock.acquire()` |
  | `check` | status read under the lock |
  | `begin`, `grant` | `grant_service.process` |
  | `mark`, `unschedule`, `ack` | HSET success, ZREM, XACK |
  | `compensate`, `reject` | `except PermanentGrantError`: script, XACK |
  | `cancel` | `cancel_timeout` |
  | `release`, `giveup` | `finally`: release, normally or with an exception on its way out |
  | `down` | the process is not running |

  A release that raises in a consumer ends its process with the lock still held,
  which is the effect of a crash at that place. The end of an activity's time
  window only stops claims; it is an action of `SeckillRedis` and not repeated
  here. A hash may end while a task has its order in hand (`HashExpires`); what
  `cancel_one` makes of a `Partial` hash, a KeyError on `user_id`, ends the scan.
* **OrderQuery** extends `Fulfilment` by requests that ask for an order: `AskRow` is
  the lookup of the row, `AskHash` the HGETALL of those that found none, and anything
  may happen between the two. The route and the assistant's tool read alike. `told`
  is what has been answered so far.
* **QuotaSale**: what a user is promised. `Fulfilment!Sale` instantiates it with
  Redis stock as what is left and the stream as the book; the database decides
  whether a reservation is granted, the order hash whether it was returned.
* **Publication** extends `Fulfilment` by calls of `publish`: the row is read and
  committed, then SET stock, DEL claimed and HSET meta follow as three steps. Any
  number of calls overlap with each other, with claims and with the tasks; each may
  fail between two steps. The sale begins unpublished here, where `Fulfilment`
  begins with what one undisturbed publication leaves.
* **Approval** extends `SeckillRedis`: `Prepare` is the assistant's tool, and a
  request goes through `lock`, `read`, `claim`, `status`, `order` and `release`, the
  round trips of `approve`. The claim is the script. History variables remember
  which action an order was claimed for and what was answered.
* **StockPush**: a page is away, has loaded its first frame, or is subscribed, with
  the frames on their way to it. `PushFollows` says what a step on the keys means
  for the pages, so that a composing module conjoins it: the claim script publishes
  what is left, a release and the SET of a publication publish nothing.
* **Storefront** composes the two over one Redis, next to direct claims, orders that
  are withdrawn, publications of the activity while it is on sale, and the end of the
  sale. Withdrawal stands for compensation and timeout alike; which one it was does
  not show here. Of a publication there is what approvals and pages meet: SET stock to
  any number up to the initial stock (what the row says is the database's business),
  then DEL claimed; the meta hash it writes last is the one that is there.
* **OrderNumbers**: time in seconds, a clock per host off by at most `MaxSkew`, calls
  that last at most `MaxStall`. INCR and EXPIRE are two steps; a call may die between.
* **Migration**: the schema as sets of columns (rows in upper case, binary collation,
  default) and of CHECKs; `phase` and `todo` are where the script is. An ALTER is
  committed by itself. Any old schema is an initial state, a fresh one too.
* **Admission**: the claim route up to the script. A window is a count of marks by
  age, so that the clock can tick for ever in finitely many states.
* **ActivityCache**: one activity's entry in every layer, as the version of the
  row it was filled from.
* **MC...**: instances for TLC. **...Proofs**: theorems and their proofs.

Operators marked "Faulty variant" are plausible mistakes in the code they stand
next to. No specification uses them; each property is known to fail when its
variant replaces the original.

## 3. The runs

| Run | Instance | Checks | Shows |
|---|---|---|---|
| `grant_database` | 2 workers, 3 users of which one has no row, 2 activities (1 and 2 units), 3 order ids | `DatabaseTypeOK`, `NoOversell`, `OneGrantPerUser`, `LedgerExplainsBalance` | overlapping grants, duplicates, conflicts and aborts |
| `fulfil_clean` | 2 workers, 1 scanner, 2 users (one is refused), 2 activities (2 units and 1), 2 claims, no fault | `GrantedKeepsStock`, `Reconciled`, `ImplementsQuotaSale` | two stores and three tasks act as one atomic sale |
| `fulfil_recovery` | 1 worker, 1 scanner, 1 user, 2 activities of which one is off sale, 2 claims, a crash and an error, fairness | `NoOrderForgotten`, `OneHandlerPerUser`, `ClaimMatchesOrders`, `NoUnitStranded`, `StockConserved`, `FinalStatusStable`, `EventuallySettled`, `LocksAreFreed` | recovery; nothing is lost, settled twice or stuck |
| `order_query` | 2 queries, 1 worker, 1 scanner, 1 user, 1 unit, 2 claims, a crash, a lapsed lock and an expired hash | `AnswersStand`, `SuccessStands`, `SuccessIsBacked` | what users may be told, one answer after the other; what holds without mutual exclusion |
| `publication` | 2 callers of publish, 1 worker, 1 scanner, 1 user, 2 units, 3 claims, a crash | `OneClaimPerPublication`, `OnlyPublicationsChangeUnits` | what a second publication can and cannot disturb |
| `admission` | 2 overlapping requests, limits 1, windows of 2, 1 and 1 ticks, of which the diagnostic route keeps 1, 1 challenge | `AdmissionTypeOK`, `OvershootBounded`, `GuessesBounded`, `MarksKept`, `LockoutsEnd` | limits under overlap |
| `activity_cache` | 2 processes, 2 readers, 2 publishers, 3 versions | `CacheTypeOK`, `InvalidationClears`, `EventuallyFresh` | staleness ends |
| `storefront` | 2 users, 1 unit, 2 claims, 1 action, 2 approval requests, 1 page, 1 fault or publication | `StorefrontTypeOK`, `AnswersAgree`, `OneOrderPerAction`, `ApprovedByOwner`, `NamedOrderIsTheActions`, `ShownIsCurrent` | one action is one order; the page ends up right |
| `order_numbers` | 3 calls, days of 3 seconds, keys of 6, stall and skew of 1, 3 days | `UniqueNumbers`, `CounterKept` | no number twice |
| `migration` | 2 status columns, 1 other CHECK, 1 other default, any old schema, 2 cut-off runs, fairness | `StrictCheckHolds`, `CompletedMeansMigrated`, `ProgressKept`, `EventuallyMigrated` | repetition gets there and takes nothing back |
| `granted_then_cancelled` | 1 worker, 1 scanner, 1 unit, 1 crash | violates `GrantedKeepsStock` | finding 1 |
| `migration_first_run` | as `migration` | violates `RunIsNotRefused` | finding 2 |

Bounds. Races here are between two tasks over one order or one user's orders, so
two workers and one scanner, two users and two orders show them. `MaxOrders`
bounds the claims, `Budget` and `MaxFaults` the faults: one of each kind is enough
to leave every intermediate state behind, and one fault in `storefront` (a crash,
an error or a lapsed lock) is all an approval of five commands needs to be cut
anywhere. `MaxFaults` bounds faults and publications of `storefront` together: the
run has either of them at every point, not both in one behaviour. One unit is
enough there for a sold-out sale, for a unit that returns and for one that a
publication puts back. The second activity of `fulfil_clean` has one unit, so a
claim meets a sold-out sale. Two publications of one activity let the second fall
anywhere into the first and into the sale; `MaxOrders` is three in `publication`,
one more than the publications, and there is a unit for each claim between them,
so that the bound of `OneClaimPerPublication` could be exceeded after the second
publication as well. In `order_query` the second claim is the one a user makes
after a cancellation. Of the runs with consumers and scanners it is the one in
which locks lapse and hashes end; in `fulfil_recovery` the budget has neither,
because half of what it checks needs both to be absent. The first window of
`admission` is longer than what the diagnostic route keeps. `order_numbers` keeps
the proportions of the code, where a key lives for two days: the run has calls on
both sides of midnight and a counter that expires as soon as nobody can draw from
it. `SequenceSpace` stands for the 32 bits of the counter: it bounds the claims of
one day, and nothing in the code enforces it. `LastVersion`, `MaxLag`, `OldestAge`
and `Horizon` bound versions, ages and time. Deadlock checking is off in
`grant_database`, which stops when every message is granted or refused, and in
`order_numbers`, which stops at its horizon.

Fairness. In `FairSpec` of `Fulfilment` each task keeps taking steps (asyncio
reschedules it; that every command returns or raises is an assumption on Redis and
the network, because the clients set no socket timeout), a dead process is started
again (by whoever supervises it: the repository contains no supervisor, so this is
an assumption on the deployment), an orphaned lock expires, and time passes for
idle messages and due orders. Claims and faults are never forced;
`EventuallySettled` relies on claims coming to an end, as `MaxOrders` makes them.
In `Admission` requests are carried through and the clock ticks; in
`ActivityCache` requests are carried through and every entry has a TTL. In
`Migration` the operator starts the script again until it says that it is
complete.

## 4. Findings

1. **A granted order can be cancelled.** The process dies after the database commit
   and before `HSET status success` (`grant_consumer.py` 130-132). The hash still
   says processing; if the order's deadline is over before the message is delivered
   again, the scanner cancels it and puts its unit back on sale, against
   `order_timeout.py` 87 and `cancel.lua` 14. The database still refuses to oversell
   (`NoOversell` is proved), so a later buyer of that unit is refused there. Whoever
  asks for the order just then, and looked for the row before the commit, is told that
  it was cancelled; whoever asks afterwards finds the row and is told of success.
  `AnswersStand` says that only an order that was taken back in spite of its row is
  ever answered both ways.
2. **The first run of the migration rewrites nothing.** Its UPDATE compares
   `status <> LOWER(status)` (line 141) under the collation that ignores case, which
   the script itself is there to replace: no row matches. Once the column is binary
   the CHECK is refused because of the rows left in upper case, and the script
   raises, against its docstring (8, 10-14). A second run finds the rows and
   completes: `EventuallyMigrated` holds.

Observations, where the code does what it says but a reader may expect more:

* The user lock lasts thirty seconds and is not extended (`grant_consumer.py` 111).
  Once it lapses two tasks handle one user; `SuccessIsBacked` and `NoOrderForgotten`
  still hold then, `OneHandlerPerUser` does not.
* When an order hash has expired, scanner and consumer both drop the order without
  releasing its unit (`order_timeout.py` 73-77, `grant_consumer.py` 119-121), although
  the README (line 13) says that a late order is released and `cancel.lua` 24 would
  release one whose status is missing. It takes a standstill of two days.
  `NoUnitStranded` needs `Budget["expiry"] = 0`.
* A hash that ends between a task's read and its HSET comes back with a status only
  (`grant_consumer.py` 132). It is "not found" for the order query. If the order is
  still in the delay queue, because the worker died before its ZREM, `cancel_one`
  raises a KeyError (line 78), which ends that scan and every later one at this entry.
* A rate-limit window admits more than its limit when requests overlap;
  `OvershootBounded` says by how much at most.
* The diagnostic route trims the window it shows to sixty seconds (`rate_limit.py`
  134), whatever its length is, which is a setting (`config.py` 50-54). With a longer
  window a look at it gives places back, although it is meant to be a view
  (`rate_limit.py` 130, `rate.py` 25). `MarksKept` names this as the only exception.
* A publication during a sale lets a user claim again; the second order finds the
  first one's row and is shown as success without a grant of its own. Redis stock
  drifts in both directions: a unit released between SET and DEL is offered on top
  of the fresh stock, and one claimed between them and cancelled later does not come
  back, because its user is no longer in the claimed set. Units in flight are offered
  again and refused by the database. `seed_demo.py` publishes at every start.
* An approval cut off between its claim and its HSETs stays pending, and its
  repetition is answered `duplicate` without an order; cut off between the two HSETs
  it is answered `accepted` without an order. `AnswersAgree` and `OneOrderPerAction`
  are about the others. An action whose ten minutes end while it is approved comes
  back as a hash without owner and expiry, which nobody can read as his own
  (`ApprovedByOwner` has no exception).
* Nothing is published when a unit returns, nor when a publication sets the stock of
  an activity on sale (`services/seckill.py` 83): an open page shows the old stock
  until the next claim; `missed` in `StockPush` names the pages concerned.

## 5. The proofs

TLAPS proves the following for every set of users, activities, workers, scanners,
callers, requests and pages, every stock, every batch size, limit and window, and
any number of faults, calls and runs, within the named `ASSUME`s of the modules.
Those say what the constants are, and that publishers and requests are finite sets,
since a property or its invariant counts them. An additional hypothesis of a theorem is named
below. The safety invariants and action properties of all passing runs are stated
by a theorem.

**The two stores** (`StoresProofs`)

* `RedisTypeCorrect`, and `StockIsConserved`. The invariant is inductive together
  with the types; the work is in the cardinality of the claimed set under SADD and
  SREM.
* `DatabaseTypeCorrect`, `GrantsAreUnique`, `NeverOversold`, `LedgerIsExact`. The
  last one needs `CreditUnderLock`: a transaction past its SELECT FOR UPDATE holds
  the row, and the balance it has seen is the current one, so a commit adds exactly
  the next number. Without the row lock two transactions see the same balance, which
  is the mutant of `LedgerExplainsBalance`.

**Consumers and scanners** (`FulfilmentProofs`)

* `FulfilmentTypeCorrect`; `FulfilmentUsesScripts` and `FulfilmentUsesTransactions`,
  which say that every step of the composed system is a step of `RedisSpec` and of
  `DatabaseSpec` or leaves them alone, so that `FulfilmentConserves` carries the
  invariants over.
* `NothingForgotten`. `NoOrderForgotten` is not inductive: a ZREM or XACK would
  break it if its task held an unsettled order. `CleansSettledOnly` strengthens it: a
  task at one of the cleaning places has an order in hand that is not processing any
  more, and no script makes it so again. The lemma `Arrival` says how a task can have
  come to its place, so that the proof has one step per way in.
* `OneAtATime`, if `Budget["lapse"] = 0`: without it the statement is false.
  `LocksHeld` strengthens it: a task between taking and releasing the lock of a user
  owns it. `OwnedLockKept` goes through every step that writes a lock; the owner
  loses it only together with its order or its life.

**How an order is settled** (`SettlementProofs`, first part)

| Hypothesis | Theorem | Property |
|---|---|---|
| none | `SuccessAlwaysBacked` | `SuccessIsBacked` |
| none; the properties speak of the time before a lock lapses | `NoContradiction`, `SuccessIsFinal` (over `OrderQuerySpec`) | `AnswersStand`, `SuccessStands` |
| no lapsed lock, no expired hash; any crashes and errors | `SettledForGood`, `ClaimsMatchOrders`, `UnitsAccountedFor` | `FinalStatusStable`, `ClaimMatchesOrders`, `NoUnitStranded` |
| no fault | `GrantedOrdersKeepStock`, `BooksAgree`, `FulfilmentIsOneLedger` | `GrantedKeepsStock`, `Reconciled`, `ImplementsQuotaSale` |

* With any faults. `Backing`: a worker at the grant has an open transaction for the
  message of the order in its hands, every row is the message of its order, and a
  worker about to write success has seen or written the row. A lapsed lock does not
  disturb any of them, which is why this promise survives what breaks
  `OneHandlerPerUser`.
* While locks last and hashes stay. `SettlesProcessing` says what the second look at
  the status, under the lock, is for: whoever is about to settle an order finds it
  processing still, because the only other task that could settle it would need the
  same lock (`ProcessingInHand`). Hence settled orders stay settled, and SADD and SREM
  keep one claim for one live order (`LiveOrdersMatch`); `NoUnitStranded` joins that
  with `NoOrderForgotten`. These theorems assume the two budgets to
  be zero because they are false otherwise: a task whose lock has lapsed settles an
  order for the second time, and an expired hash strands its unit.
* What is answered, for any number of queries, crashes, errors and expired hashes.
  `AnswersBacked`: an answer was the row, or it is `Over`: it stands in the hash, or
  the hash has ended when nobody was about to settle the order any more, so that no
  other status can follow. `OneAnswer`: two different answers need the row, because a
  hash that is settled is settled once. `AsksAccepted` follows a request from one
  round trip to the next: if somebody had been told of success when it found no row,
  he was told from the hash, which says so still or has ended.
* While nothing fails. `GrantsInHand`: an order with a row says success, or its worker
  is about to say so. A crash at this point is finding 1, so the hypothesis cannot be
  dropped. `BooksAgree` counts rows against live orders. `FulfilmentIsOneLedger` is the
  refinement, step by step: a claim is `Reserve`, the commit is `Grant`, the two
  scripts that release are `Return`, everything else stutters. The row counts as
  granted from the commit on, before the hash says so; `GrantsInHand` and
  `SettlesProcessing` are what makes a release of it impossible.

**Publications during a sale** (`SettlementProofs`, second part)

* A publication writes `stock`, `claimed` and `open` only; `PublicationSteps` says that
  every step is one of `Fulfilment` or leaves all else alone, so an invariant that
  does not mention these three survives: `RepublishedNeverOversold`,
  `RepublishedForgetsNothing`, `RepublishedSuccessBacked`, and
  `PublicationTypeCorrect` for the types. `UnitsChangeByPublication` is the converse
  for what they do mention: the scripts never change how many units there are, in
  whatever state a publication has left the keys. `StockConserved` and
  `ClaimMatchesOrders` are the ones that do not survive.
* `OncePerPublication` is what is left of "once per user and activity". Nothing relates
  claimed set and live orders any more, so the invariant counts: live orders of a
  user, plus publications that will still empty the claimed set, plus the claim the
  user may make now, are no more than the publications so far (`Admits`). Before the
  first meta hash nobody can claim (`NeverCleared`). A release frees one place and
  takes one order away. Crashes, errors and expired hashes are allowed; only a lapsed
  lock is excluded, by the property itself.

**Approvals and pages** (`StorefrontProofs`, over `StorefrontSpec`, no hypothesis)

* `StorefrontTypeCorrect`. `StepsTyped` is the part of it that the claim and the two
  HSETs need.
* `OrdersAreApproved` and `NamedOrdersBelong` hold under every fault and expiry. What
  was prepared is kept beside the hash (`PreparedFor`), so that a hash recreated
  without an owner does not hide whose action it was; every request carries what it
  read at the time.
* `EverybodyToldTheSame` and `ActionsClaimOnce`, for actions that no fault has hit, as
  the properties say. `LockKept`: requests between lock and release of an action
  without a lapse own its lock. `NothingBeforeClaim`: while an action is pending, no
  order comes from it. `OneOutcome` and `HalfRecorded` say what may be seen between
  the two HSETs and who sees it: the holder of the lock only.
* `PagesEndRight`. `PagesFollow`: the last frame on its way to a page, or what it shows
  if there is none, is the stock, unless the page has missed a change; the property is
  about pages that have shown all their frames only, and not inductive. A publication
  and a release change the stock and make every page that watches it one that has
  missed a change; the next claim makes it right again.
  The run has one activity and one publication; that a claim of another activity
  concerns none of a page's frames, and any number of publications, are part of the
  theorem.
* A publication shares the stock, the claimed set and the bound on faults with the
  rest and nothing else: `RedisStays` and `ApprovalOrNot` say so, and the theorems on
  approvals hold however often the activity is published meanwhile.

**Activity cache** (`ActivityCacheProofs`)

* `CacheTypeCorrect` and `PublicationIsSeen`. `ClearsAlone` says of a publication that
  nothing overlaps that what it has passed is empty behind it; `HoldsNoOther` that
  afterwards each layer, and each request with something in hand, has it from the row
  or from a layer that has.

**Admission** (`AdmissionProofs`)

* `AdmissionTypeCorrect` and `MarksStay`, an action property, for windows of any
  length. A late reading of the clock trims less, never more, so no request takes out a
  mark that still counts; the diagnostic route may, from a window longer than what it
  keeps, and `MarksKept` allows exactly that.
* `GuessesAreBounded`, from `GuessesLeft`: comparisons made so far and requests that
  hold the answer are together no more than the requests; once the answer is deleted
  nobody else comes by it.
* `OvershootIsLimited`, from `OvershootInv`: marks in the window and requests about to
  mark it are together at most the limit and one less than the requests. The lemmas
  count marks: as a set of pairs (`MarkSet`), one more under ZADD, no more under a trim
  or a tick.

**Order numbers** (`OrderNumbersProofs`)

* `OrderNumbersTyped`, `NumbersAreUnique` and `CountersAreKept`, from
  `DayLength + MaxStall + 2 * MaxSkew <= KeyLife`, which the code meets with a day to
  spare. `UniqueNumbers` is not inductive: a number may repeat once its counter is
  dropped. `CounterCovers` strengthens it: up to a fixed moment the counter of a day
  is no smaller than any number drawn from it. `ExpiryLate` says that no key of the
  day is dropped before that moment, `CallsInTime` that no call draws after it.

**Migration** (`MigrationProofs`)

* `MigrationTyped`, `StrictStaysStrict`, `CompletionIsTrue` and `NothingTakenBack`. The
  invariant names what each phase has achieved so far. That completion implies
  rewritten rows, though no phase checks them, follows from `StrictCheckHolds` with
  every column strict and every CHECK in place.

Only model-checked: liveness, which is out of reach of the prover
(`EventuallySettled`, `LocksAreFreed`, `LockoutsEnd`, `EventuallyFresh`,
`EventuallyMigrated`), and the violations of the two findings. Type correctness of
`SeckillRedis`, `Fulfilment`, `Publication`, `OrderNumbers` and `Migration` is proved
and not repeated in the runs.

## 6. Not modelled

* The dialogue with the language model, its history in Redis and the log of its
  answers: they decide nothing about a sale, and an action may be prepared at any
  moment in `Approval`. The tools that only read are left out too, except that the
  order status tool reads like the order query.
* The value of `Retry-After`, metrics, health probes, input validation, settings and
  start-up wiring (except `create_all`), the text of SSE frames.
* Inserts of users, SKUs and activities: their rows are constants and initial states.
* A reconciliation in the middle of a sale: it only reads and then reports a
  difference that is none. `Reconciled` is its comparison for a quiet system.
* The older copies of the scripts in `redis/`, and deployment files.

Worth doing next: what the settlement theorems leave of `FinalStatusStable` and
`ClaimMatchesOrders` once a hash has expired or a lock has lapsed, stated for the
users concerned by none; and the claims of the composed modules about one another
(`Storefront` as a behaviour of the scripts, `Publication` as one of the
transactions) as theorems of their own.
