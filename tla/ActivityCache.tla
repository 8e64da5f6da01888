---------------------------- MODULE ActivityCache ----------------------------
(***************************************************************************)
(* The layers between a reader of an activity and the database: a TTL      *)
(* cache in each API process, Memcached if it is enabled, Redis.  A hit    *)
(* fills the layers above it.  Publishing commits a new version and then   *)
(* clears the layers of its own process and the shared ones, top down.     *)
(*                                                                         *)
(* One activity is modelled: keys do not interact.  A layer holds the      *)
(* version of the row it was filled from; Missing is the cached answer     *)
(* that there is no such row.  An await is a step of its own; the local    *)
(* cache is changed between two awaits, under a lock nobody waits in.      *)
(* The request-level layer dies with the request, which asks once: it is   *)
(* the value the reader has in hand.                                       *)
(***************************************************************************)
EXTENDS Naturals

CONSTANTS
  Processes,          \* API processes
  Readers,            \* requests for the activity that may overlap
  Publishers,         \* requests that publish it
  ProcessOf,          \* the process that serves a request
  MemcachedEnabled,
  LastVersion,        \* bound on the versions committed
  Empty               \* a layer that holds nothing

Missing == 0
Versions == Missing .. LastVersion
Layer == Versions \cup {Empty}

ASSUME CacheAssumption ==
  /\ Readers \cap Publishers = {}
  /\ ProcessOf \in [Readers \cup Publishers -> Processes]
  /\ MemcachedEnabled \in BOOLEAN
  /\ LastVersion \in Nat \ {0}
  /\ Empty \notin Nat

VARIABLES
  row,         \* seckill_activities.version, Missing before the activity exists
  redis,       \* cache:token:activity:{id} in Redis
  memcached,   \* the same key in Memcached
  local,       \* ActivityCache.local of each process
  pc,          \* what each request does next
  value,       \* what a reader has in hand
  disturbed    \* history: see InvalidationClears

vars == <<row, redis, memcached, local, pc, value, disturbed>>
layers == <<redis, memcached, local>>

FillPlaces == {"fillRedis", "fillMemcached", "fillLocal"}
ReaderPlaces == {"idle", "local", "memcached", "redis", "load"} \cup FillPlaces
PublisherPlaces == {"idle", "clearLocal", "clearMemcached", "clearRedis"}

CacheTypeOK ==
  /\ row \in Versions
  /\ redis \in Layer
  /\ memcached \in Layer
  /\ (memcached # Empty => MemcachedEnabled)
  /\ local \in [Processes -> Layer]
  /\ \A r \in Readers : pc[r] \in ReaderPlaces
  /\ \A r \in Publishers : pc[r] \in PublisherPlaces
  /\ value \in [Readers -> Layer]
  /\ \A r \in Readers : value[r] = Empty <=> pc[r] \notin FillPlaces
  /\ disturbed \in [Processes -> BOOLEAN]

Init ==
  /\ row = Missing
  /\ redis = Empty
  /\ memcached = Empty
  /\ local = [p \in Processes |-> Empty]
  /\ pc = [r \in Readers \cup Publishers |-> "idle"]
  /\ value = [r \in Readers |-> Empty]
  /\ disturbed = [p \in Processes |-> FALSE]

Goto(r, place) == pc' = [pc EXCEPT ![r] = place]
Busy(S) == \E r \in S : pc[r] # "idle"

-----------------------------------------------------------------------------
(* get *)

\* A request asks.  One that begins while a publication clears may refill a
\* layer behind its back.
Ask(r) ==
  /\ pc[r] = "idle"
  /\ Goto(r, "local")
  /\ disturbed' = IF Busy(Publishers) THEN [p \in Processes |-> TRUE] ELSE disturbed
  /\ UNCHANGED <<row, layers, value>>

\* Faulty variant: what the request had in hand is left for the next one.
AnsweredKeepingValue(r) ==
  /\ Goto(r, "idle")
  /\ UNCHANGED value

Answered(r) ==
  /\ Goto(r, "idle")
  /\ value' = [value EXCEPT ![r] = Empty]

\* The reader found v one layer down and goes on to fill the layers above.
Found(r, v, place) ==
  /\ Goto(r, place)
  /\ value' = [value EXCEPT ![r] = v]

Shared == IF MemcachedEnabled THEN "memcached" ELSE "redis"
AboveRedis == IF MemcachedEnabled THEN "fillMemcached" ELSE "fillLocal"

ReadLocal(r) ==
  /\ pc[r] = "local"
  /\ \/ /\ local[ProcessOf[r]] # Empty
        /\ Answered(r)
     \/ /\ local[ProcessOf[r]] = Empty
        /\ Goto(r, Shared)
        /\ UNCHANGED value
  /\ UNCHANGED <<row, layers, disturbed>>

ReadMemcached(r) ==
  /\ pc[r] = "memcached"
  /\ \/ memcached # Empty /\ Found(r, memcached, "fillLocal")
     \/ memcached = Empty /\ Goto(r, "redis") /\ UNCHANGED value
  /\ UNCHANGED <<row, layers, disturbed>>

\* Faulty variant: a hit renews the entry it found.
ReadRedisRenewing(r) ==
  /\ pc[r] = "redis"
  /\ \/ redis # Empty /\ Found(r, redis, "fillRedis")
     \/ redis = Empty /\ Goto(r, "load") /\ UNCHANGED value
  /\ UNCHANGED <<row, layers, disturbed>>

ReadRedis(r) ==
  /\ pc[r] = "redis"
  /\ \/ redis # Empty /\ Found(r, redis, AboveRedis)
     \/ redis = Empty /\ Goto(r, "load") /\ UNCHANGED value
  /\ UNCHANGED <<row, layers, disturbed>>

\* SELECT: a version, or nothing.
Load(r) ==
  /\ pc[r] = "load"
  /\ Found(r, row, "fillRedis")
  /\ UNCHANGED <<row, layers, disturbed>>

FillRedis(r) ==
  /\ pc[r] = "fillRedis"
  /\ redis' = value[r]
  /\ Goto(r, AboveRedis)
  /\ UNCHANGED <<row, memcached, local, value, disturbed>>

FillMemcached(r) ==
  /\ pc[r] = "fillMemcached"
  /\ memcached' = value[r]
  /\ Goto(r, "fillLocal")
  /\ UNCHANGED <<row, redis, local, value, disturbed>>

FillLocal(r) ==
  /\ pc[r] = "fillLocal"
  /\ local' = [local EXCEPT ![ProcessOf[r]] = value[r]]
  /\ Answered(r)
  /\ UNCHANGED <<row, redis, memcached, disturbed>>

-----------------------------------------------------------------------------
(* Creation, publication and invalidate *)

\* create_activity: the answer that there is none may be cached, and stays.
Create ==
  /\ row = Missing
  /\ row' = 1
  /\ disturbed' = [p \in Processes |-> TRUE]
  /\ UNCHANGED <<layers, pc, value>>

\* publish commits the next version.  The layers below will be clear unless
\* another request is under way, or comes in, before they all are.
Commit(r) ==
  /\ pc[r] = "idle"
  /\ row \in 1 .. LastVersion - 1
  /\ row' = row + 1
  /\ Goto(r, "clearLocal")
  /\ disturbed' = [p \in Processes |->
       p # ProcessOf[r] \/ Busy(Readers \cup Publishers)]
  /\ UNCHANGED <<layers, value>>

ClearLocal(r) ==
  /\ pc[r] = "clearLocal"
  /\ local' = [local EXCEPT ![ProcessOf[r]] = Empty]
  /\ Goto(r, IF MemcachedEnabled THEN "clearMemcached" ELSE "clearRedis")
  /\ UNCHANGED <<row, redis, memcached, value, disturbed>>

\* Faulty variant: the delete is not awaited.
ClearMemcachedUnawaited(r) ==
  /\ pc[r] = "clearMemcached"
  /\ Goto(r, "clearRedis")
  /\ UNCHANGED <<row, layers, value, disturbed>>

ClearMemcached(r) ==
  /\ pc[r] = "clearMemcached"
  /\ memcached' = Empty
  /\ Goto(r, "clearRedis")
  /\ UNCHANGED <<row, redis, local, value, disturbed>>

ClearRedis(r) ==
  /\ pc[r] = "clearRedis"
  /\ redis' = Empty
  /\ Goto(r, "idle")
  /\ UNCHANGED <<row, memcached, local, value, disturbed>>

-----------------------------------------------------------------------------
(* Time and failures *)

ExpireLocal(p) ==
  /\ local[p] # Empty
  /\ local' = [local EXCEPT ![p] = Empty]
  /\ UNCHANGED <<row, redis, memcached, pc, value, disturbed>>

ExpireMemcached ==
  /\ memcached # Empty
  /\ memcached' = Empty
  /\ UNCHANGED <<row, redis, local, pc, value, disturbed>>

ExpireRedis ==
  /\ redis # Empty
  /\ redis' = Empty
  /\ UNCHANGED <<row, memcached, local, pc, value, disturbed>>

\* A command raises and the request is over, whatever it has filled or cleared.
ReaderFails(r) ==
  /\ pc[r] # "idle"
  /\ Answered(r)
  /\ UNCHANGED <<row, layers, disturbed>>

PublisherFails(r) ==
  /\ pc[r] # "idle"
  /\ Goto(r, "idle")
  /\ disturbed' = [p \in Processes |-> TRUE]
  /\ UNCHANGED <<row, layers, value>>

ReaderStep(r) ==
  \/ ReadLocal(r)
  \/ ReadMemcached(r)
  \/ ReadRedis(r)
  \/ Load(r)
  \/ FillRedis(r)
  \/ FillMemcached(r)
  \/ FillLocal(r)

PublisherStep(r) == ClearLocal(r) \/ ClearMemcached(r) \/ ClearRedis(r)

Next ==
  \/ \E r \in Readers : Ask(r) \/ ReaderStep(r) \/ ReaderFails(r)
  \/ \E r \in Publishers : Commit(r) \/ PublisherStep(r) \/ PublisherFails(r)
  \/ Create
  \/ \E p \in Processes : ExpireLocal(p)
  \/ ExpireMemcached
  \/ ExpireRedis

Spec == Init /\ [][Next]_vars

\* Requests that came in are handled, and every entry has a TTL.  Nothing has
\* to be asked or published.
FairSpec ==
  /\ Spec
  /\ \A r \in Readers : WF_vars(ReaderStep(r))
  /\ \A p \in Processes : WF_vars(ExpireLocal(p))
  /\ WF_vars(ExpireMemcached)
  /\ WF_vars(ExpireRedis)

-----------------------------------------------------------------------------
\* Unless a request overlapped with it or it failed, a publication leaves no
\* older version in the shared layers or in its own process: each layer is
\* cleared, and none is refilled from one not yet cleared
\* (activity_cache.py 113-121).
InvalidationClears ==
  \A p \in Processes :
    ~Busy(Publishers) /\ ~disturbed[p] =>
      {redis, memcached, local[p]} \subseteq {row, Empty}

\* What a get in flight wrote back behind an invalidation, what an invalidation
\* that failed left, a miss cached before the activity was created and the local
\* caches of other processes do not last: fills go upwards only, so an old
\* version cannot keep itself alive by being read (activity_cache.py 80-110).
EventuallyFresh ==
  <>[](\A v \in {redis, memcached} \cup {local[p] : p \in Processes} : v \in {row, Empty})
=============================================================================
