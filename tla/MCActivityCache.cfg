SPECIFICATION FairSpec
CONSTANTS
  p1 = p1
  p2 = p2
  r1 = r1
  r2 = r2
  b1 = b1
  b2 = b2
  Empty = Empty
  Processes = {p1, p2}
  Readers = {r1, r2}
  Publishers = {b1, b2}
  ProcessOf <- MCProcessOf
  MemcachedEnabled = TRUE
  LastVersion = 3
INVARIANTS
  CacheTypeOK
  InvalidationClears
PROPERTIES
  EventuallyFresh
