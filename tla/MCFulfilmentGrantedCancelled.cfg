SPECIFICATION Spec
CONSTANTS
  u1 = u1
  u2 = u2
  a1 = a1
  a2 = a2
  w1 = w1
  w2 = w2
  c1 = c1
  NoTask = NoTask
  Orphan = Orphan
  OnSale = {a1}
  Cancellers <- MCCancellers
  Process <- MCProcess
  ScanSize = 2
  Activities <- OneActivity
  Workers <- OneWorker
  BatchSize = 2
  MaxOrders = 2
  Users <- OneUser
  Registered = {u1}
  InitialStock <- OneUnit
  Budget <- OneCrash
INVARIANTS
  GrantedKeepsStock
