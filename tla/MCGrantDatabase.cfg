SPECIFICATION DatabaseSpec
CONSTANTS
  u1 = u1
  u2 = u2
  u3 = u3
  a1 = a1
  a2 = a2
  w1 = w1
  w2 = w2
  NoTask = NoTask
  Orphan = Orphan
  Users <- MCUsers
  Activities <- MCActivities
  InitialStock <- MCInitialStock
  Registered <- MCRegistered
  OnSale <- MCActivities
  Workers <- MCWorkers
  Cancellers = {}
  MaxOrders = 3
INVARIANTS
  DatabaseTypeOK
  NoOversell
  OneGrantPerUser
  LedgerExplainsBalance
CHECK_DEADLOCK FALSE
