------------------------- MODULE ActivityCacheProofs -------------------------
(***************************************************************************)
(* For every number of processes, readers and publishers, with or without  *)
(* Memcached: a publication that nothing overlapped leaves no old version  *)
(* in the shared layers or in its own process.                             *)
(***************************************************************************)
EXTENDS ActivityCache, TLAPS

CacheTypes ==
  /\ CacheTypeOK
  /\ pc \in [Readers \cup Publishers -> ReaderPlaces \cup PublisherPlaces]
  /\ \A r \in Readers : pc[r] = "fillMemcached" => MemcachedEnabled

\* A publisher that clears undisturbed is alone, and clears top down.
ClearsAlone(p) ==
  \A b \in Publishers : pc[b] # "idle" =>
    /\ ProcessOf[b] = p
    /\ \A r \in (Readers \cup Publishers) \ {b} : pc[r] = "idle"
    /\ pc[b] \in {"clearMemcached", "clearRedis"} => local[p] = Empty
    /\ pc[b] = "clearRedis" => memcached = Empty

\* Once it is through, every layer that is filled is filled from the row: what
\* a reader has in hand it has from a shared layer or from the database.
HoldsNoOther(p) ==
  ~Busy(Publishers) =>
    /\ {redis, memcached, local[p]} \subseteq {row, Empty}
    /\ \A r \in Readers : value[r] \in {row, Empty}

CacheInv ==
  /\ CacheTypes
  /\ \A p \in Processes : ~disturbed[p] => ClearsAlone(p) /\ HoldsNoOther(p)

LEMMA CacheInit == Init => CacheInv
<1> SUFFICES ASSUME Init PROVE CacheInv
  OBVIOUS
<1>1. \A r \in Readers \cup Publishers : pc[r] = "idle"
  BY DEF Init
<1>2. CacheTypes
  BY CacheAssumption
  DEF CacheAssumption, Init, CacheTypes, CacheTypeOK, ReaderPlaces, PublisherPlaces,
      FillPlaces, Versions, Missing, Layer
<1> QED
  BY <1>1, <1>2 DEF Init, CacheInv, ClearsAlone, HoldsNoOther

LEMMA Places ==
  ASSUME CacheTypes
  PROVE  /\ pc \in [Readers \cup Publishers -> ReaderPlaces \cup PublisherPlaces]
         /\ \A r \in Readers : pc[r] \in ReaderPlaces /\ r \notin Publishers
         /\ \A b \in Publishers : pc[b] \in PublisherPlaces /\ b \notin Readers
BY CacheAssumption DEF CacheAssumption, CacheTypes, CacheTypeOK

\* A step of a reader, place by place.
LEMMA ReaderTypes ==
  ASSUME CacheTypes, NEW r \in Readers, Ask(r) \/ ReaderStep(r) \/ ReaderFails(r)
  PROVE  CacheTypes'
<1> USE DEF CacheTypes, CacheTypeOK, ReaderPlaces, PublisherPlaces, FillPlaces, Layer
<1>1. /\ r \in Readers \cup Publishers /\ r \notin Publishers
      /\ ProcessOf[r] \in Processes /\ MemcachedEnabled \in BOOLEAN
      /\ Empty \notin Versions
  BY CacheAssumption DEF CacheAssumption, Versions, Missing
<1>2. CASE Ask(r)
  BY <1>1, <1>2 DEF Ask, Goto, Busy, layers
<1>3. CASE ReadLocal(r)
  BY <1>1, <1>3 DEF ReadLocal, Goto, Answered, Shared, layers
<1>4. CASE ReadMemcached(r)
  BY <1>1, <1>4 DEF ReadMemcached, Goto, Found, layers
<1>5. CASE ReadRedis(r)
  BY <1>1, <1>5 DEF ReadRedis, Goto, Found, AboveRedis, layers
<1>6. CASE Load(r)
  BY <1>1, <1>6 DEF Load, Goto, Found, layers
<1>7. CASE FillRedis(r)
  BY <1>1, <1>7 DEF FillRedis, Goto, AboveRedis
<1>8. CASE FillMemcached(r)
  BY <1>1, <1>8 DEF FillMemcached, Goto
<1>9. CASE FillLocal(r)
  BY <1>1, <1>9 DEF FillLocal, Goto, Answered
<1>10. CASE ReaderFails(r)
  BY <1>1, <1>10 DEF ReaderFails, Goto, Answered, layers
<1> QED
  BY <1>2, <1>3, <1>4, <1>5, <1>6, <1>7, <1>8, <1>9, <1>10 DEF ReaderStep

LEMMA OtherTypes ==
  ASSUME CacheTypes,
         \/ \E b \in Publishers : Commit(b) \/ PublisherStep(b) \/ PublisherFails(b)
         \/ Create \/ ExpireMemcached \/ ExpireRedis
         \/ \E p \in Processes : ExpireLocal(p)
         \/ UNCHANGED vars
  PROVE  CacheTypes'
<1> USE DEF CacheTypes, CacheTypeOK, ReaderPlaces, PublisherPlaces, FillPlaces, Layer
<1>1. /\ MemcachedEnabled \in BOOLEAN /\ LastVersion \in Nat \ {0} /\ Empty \notin Versions
      /\ Versions = 0 .. LastVersion
  BY CacheAssumption DEF CacheAssumption, Versions, Missing
<1>2. ASSUME NEW b \in Publishers, Commit(b) \/ PublisherStep(b) \/ PublisherFails(b)
      PROVE  CacheTypes'
  <2>1. b \in Readers \cup Publishers /\ b \notin Readers /\ ProcessOf[b] \in Processes
    BY CacheAssumption DEF CacheAssumption
  <2>2. CASE Commit(b)
    <3>1. row' \in Versions
      BY <1>1, <2>2 DEF Commit
    <3>2. disturbed' \in [Processes -> BOOLEAN]
      BY <2>2 DEF Commit, Busy
    <3> QED
      BY <1>1, <2>1, <2>2, <3>1, <3>2 DEF Commit, Goto, layers
  <2>3. CASE ClearLocal(b)
    BY <1>1, <2>1, <2>3 DEF ClearLocal, Goto
  <2>4. CASE ClearMemcached(b)
    BY <1>1, <2>1, <2>4 DEF ClearMemcached, Goto
  <2>5. CASE ClearRedis(b)
    BY <1>1, <2>1, <2>5 DEF ClearRedis, Goto
  <2>6. CASE PublisherFails(b)
    BY <1>1, <2>1, <2>6 DEF PublisherFails, Goto, layers
  <2> QED
    BY <1>2, <2>2, <2>3, <2>4, <2>5, <2>6 DEF PublisherStep
<1>3. CASE Create
  <2>1. row' \in Versions /\ disturbed' \in [Processes -> BOOLEAN]
    BY <1>1, <1>3 DEF Create
  <2> QED
    BY <1>3, <2>1 DEF Create, layers
<1>5. CASE ExpireMemcached
  BY <1>1, <1>5 DEF ExpireMemcached
<1>6. CASE ExpireRedis
  BY <1>1, <1>6 DEF ExpireRedis
<1>7. CASE \E p \in Processes : ExpireLocal(p)
  BY <1>1, <1>7 DEF ExpireLocal
<1>4. CASE UNCHANGED vars
  BY <1>4 DEF vars, layers
<1> QED
  BY <1>2, <1>3, <1>4, <1>5, <1>6, <1>7

LEMMA CacheTypesStep ==
  ASSUME CacheTypes, [Next]_vars
  PROVE  CacheTypes'
BY ReaderTypes, OtherTypes DEF Next

\* A reader fills an upper layer with what it found in a lower one, and one that
\* comes in while a publisher clears takes the process off the list.
LEMMA ReaderKeeps ==
  ASSUME CacheTypes, CacheTypes', NEW r \in Readers,
         Ask(r) \/ ReaderStep(r) \/ ReaderFails(r),
         NEW p \in Processes, ~disturbed'[p], ~disturbed[p], ClearsAlone(p), HoldsNoOther(p)
  PROVE  ClearsAlone(p)' /\ HoldsNoOther(p)'
<1>1. /\ pc \in [Readers \cup Publishers -> ReaderPlaces \cup PublisherPlaces]
      /\ r \notin Publishers /\ r \in Readers \cup Publishers
      /\ local \in [Processes -> Layer] /\ value \in [Readers -> Layer]
      /\ ProcessOf[r] \in Processes
  BY Places, CacheAssumption DEF CacheAssumption, CacheTypes, CacheTypeOK
<1>2. ~Busy(Publishers)
  <2>1. CASE Ask(r)
    BY <2>1 DEF Ask
  <2>2. CASE pc[r] # "idle"
    BY <1>1, <2>2 DEF Busy, ClearsAlone
  <2> QED
    BY <2>1, <2>2 DEF ReaderStep, ReadLocal, ReadMemcached, ReadRedis, Load, FillRedis,
       FillMemcached, FillLocal, ReaderFails
<1>3. ~Busy(Publishers)'
  <2>1. \A b \in Publishers : pc'[b] = pc[b]
    BY <1>1 DEF Ask, ReaderStep, ReadLocal, ReadMemcached, ReadRedis, Load, FillRedis,
       FillMemcached, FillLocal, ReaderFails, Goto, Answered, Found
  <2> QED
    BY <1>2, <2>1 DEF Busy
<1>4. /\ redis \in {row, Empty} /\ memcached \in {row, Empty} /\ local[p] \in {row, Empty}
      /\ \A q \in Readers : value[q] \in {row, Empty}
  BY <1>2 DEF HoldsNoOther
<1>5. row' = row
  BY DEF Ask, ReaderStep, ReadLocal, ReadMemcached, ReadRedis, Load, FillRedis,
       FillMemcached, FillLocal, ReaderFails
<1>6. \A q \in Readers : value'[q] \in {row, Empty}
  BY <1>1, <1>4 DEF Ask, ReaderStep, ReadLocal, ReadMemcached, ReadRedis, Load, FillRedis,
       FillMemcached, FillLocal, ReaderFails, Answered, Found, layers
<1>7. redis' \in {row, Empty} /\ memcached' \in {row, Empty} /\ local'[p] \in {row, Empty}
  BY <1>1, <1>4 DEF Ask, ReaderStep, ReadLocal, ReadMemcached, ReadRedis, Load, FillRedis,
       FillMemcached, FillLocal, ReaderFails, layers
<1>8. ClearsAlone(p)'
  BY <1>3 DEF ClearsAlone, Busy
<1> QED
  BY <1>5, <1>6, <1>7, <1>8 DEF HoldsNoOther

LEMMA PublisherKeeps ==
  ASSUME CacheTypes, CacheTypes', NEW b \in Publishers,
         Commit(b) \/ PublisherStep(b) \/ PublisherFails(b),
         NEW p \in Processes, ~disturbed'[p],
         ~disturbed[p] => ClearsAlone(p) /\ HoldsNoOther(p)
  PROVE  ClearsAlone(p)' /\ HoldsNoOther(p)'
<1>1. /\ pc \in [Readers \cup Publishers -> ReaderPlaces \cup PublisherPlaces]
      /\ b \notin Readers /\ b \in Readers \cup Publishers
      /\ local \in [Processes -> Layer] /\ value \in [Readers -> Layer]
      /\ ProcessOf[b] \in Processes
      /\ \A r \in Readers : value[r] = Empty <=> pc[r] \notin FillPlaces
      /\ memcached # Empty => MemcachedEnabled
  BY Places, CacheAssumption DEF CacheAssumption, CacheTypes, CacheTypeOK
<1>2. CASE Commit(b)
  <2>1. ProcessOf[b] = p /\ \A r \in Readers \cup Publishers : pc[r] = "idle"
    BY <1>2 DEF Commit, Busy
  <2>2. /\ pc'[b] = "clearLocal"
        /\ \A r \in (Readers \cup Publishers) \ {b} : pc'[r] = "idle"
    BY <1>1, <1>2, <2>1 DEF Commit, Goto
  <2> QED
    BY <1>1, <2>1, <2>2 DEF ClearsAlone, HoldsNoOther, Busy
<1>3. CASE PublisherFails(b)
  BY <1>3 DEF PublisherFails
<1>4. CASE PublisherStep(b)
  <2>1. /\ pc[b] # "idle" /\ ~disturbed[p]
    BY <1>4 DEF PublisherStep, ClearLocal, ClearMemcached, ClearRedis
  <2>2. /\ ProcessOf[b] = p
        /\ \A r \in (Readers \cup Publishers) \ {b} : pc[r] = "idle"
        /\ pc[b] \in {"clearMemcached", "clearRedis"} => local[p] = Empty
        /\ pc[b] = "clearRedis" => memcached = Empty
    BY <2>1 DEF ClearsAlone
  <2>3. \A r \in Readers : value[r] = Empty /\ value'[r] = Empty
    BY <1>1, <1>4, <2>2 DEF PublisherStep, ClearLocal, ClearMemcached, ClearRedis, FillPlaces
  <2>4. \A r \in (Readers \cup Publishers) \ {b} : pc'[r] = "idle"
    BY <1>1, <1>4, <2>2 DEF PublisherStep, ClearLocal, ClearMemcached, ClearRedis, Goto
  <2>5. CASE ClearLocal(b)
    <3>1. /\ local'[p] = Empty
          /\ pc'[b] = IF MemcachedEnabled THEN "clearMemcached" ELSE "clearRedis"
          /\ memcached' = memcached
      BY <1>1, <2>2, <2>5 DEF ClearLocal, Goto
    <3> QED
      BY <1>1, <2>2, <2>4, <3>1 DEF ClearsAlone, HoldsNoOther, Busy
  <2>6. CASE ClearMemcached(b)
    <3>1. local'[p] = Empty /\ pc'[b] = "clearRedis" /\ memcached' = Empty
      BY <1>1, <2>2, <2>6 DEF ClearMemcached, Goto
    <3> QED
      BY <1>1, <2>2, <2>4, <3>1 DEF ClearsAlone, HoldsNoOther, Busy
  <2>7. CASE ClearRedis(b)
    <3>1. local'[p] = Empty /\ pc'[b] = "idle" /\ memcached' = Empty /\ redis' = Empty
      BY <1>1, <2>2, <2>7 DEF ClearRedis, Goto
    <3> QED
      BY <1>1, <2>3, <2>4, <3>1 DEF ClearsAlone, HoldsNoOther, Busy
  <2> QED
    BY <1>4, <2>5, <2>6, <2>7 DEF PublisherStep
<1> QED
  BY <1>2, <1>3, <1>4

LEMMA CacheStep ==
  ASSUME CacheInv, [Next]_vars
  PROVE  CacheInv'
<1>1. CacheTypes /\ CacheTypes'
  BY CacheTypesStep DEF CacheInv
<1>2. ASSUME NEW p \in Processes, ~disturbed'[p]
      PROVE  ClearsAlone(p)' /\ HoldsNoOther(p)'
  <2>1. ~disturbed[p] => ClearsAlone(p) /\ HoldsNoOther(p)
    BY DEF CacheInv
  <2>2. ASSUME NEW r \in Readers, Ask(r) \/ ReaderStep(r) \/ ReaderFails(r)
        PROVE  ClearsAlone(p)' /\ HoldsNoOther(p)'
    <3>1. ~disturbed[p]
      BY <1>2, <2>2 DEF Ask, ReaderStep, ReadLocal, ReadMemcached, ReadRedis, Load,
         FillRedis, FillMemcached, FillLocal, ReaderFails
    <3> QED
      BY <1>1, <1>2, <2>1, <2>2, <3>1, ReaderKeeps
  <2>3. ASSUME NEW b \in Publishers, Commit(b) \/ PublisherStep(b) \/ PublisherFails(b)
        PROVE  ClearsAlone(p)' /\ HoldsNoOther(p)'
    BY <1>1, <1>2, <2>1, <2>3, PublisherKeeps
  <2>4. ~Create
    BY <1>2 DEF Create
  <2>5. CASE ExpireMemcached \/ ExpireRedis \/ \E q \in Processes : ExpireLocal(q)
    BY <1>1, <1>2, <2>1, <2>5
    DEF ExpireMemcached, ExpireRedis, ExpireLocal, ClearsAlone, HoldsNoOther, Busy,
        CacheTypes, CacheTypeOK
  <2>6. CASE UNCHANGED vars
    BY <1>2, <2>1, <2>6 DEF vars, ClearsAlone, HoldsNoOther, Busy
  <2> QED
    BY <2>2, <2>3, <2>4, <2>5, <2>6 DEF Next
<1> QED
  BY <1>1, <1>2 DEF CacheInv

LEMMA CacheAlways == Spec => []CacheInv
BY CacheInit, CacheStep, PTL DEF Spec

\* Layers, requests and what readers hold keep their types; in particular a
\* Memcached that is switched off holds nothing (activity_cache.py 80-121).
THEOREM CacheTypeCorrect == Spec => []CacheTypeOK
BY CacheAlways, PTL DEF CacheInv, CacheTypes

\* For every number of processes and requests, with or without Memcached: a
\* publication that succeeds and that no request overlaps leaves nothing but the
\* committed version in the shared layers and its own process, and nothing older
\* comes back there afterwards (activity_cache.py 80-121).
THEOREM PublicationIsSeen == Spec => []InvalidationClears
<1>1. CacheInv => InvalidationClears
  BY DEF CacheInv, HoldsNoOther, InvalidationClears
<1> QED
  BY <1>1, CacheAlways, PTL
=============================================================================
