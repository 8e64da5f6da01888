SPECIFICATION Spec
CONSTANTS
  u1 = u1
  u2 = u2
  a1 = a1
  a2 = a2
  w1 = w1
  w2 = w2
  c1 = c1
  NoTask = NoTask
  Orphan = Orphan
  OnSale = {a1, a2}
  Cancellers <- MCCancellers
  Process <- MCProcess
  ScanSize = 1
  Activities <- TwoActivities
  Workers <- TwoWorkers
  BatchSize = 1
  MaxOrders = 2
  Users <- TwoUsers
  Registered = {u1}
  InitialStock <- TwoUnitsAndOne
  Budget <- NoFaults
INVARIANTS
  GrantedKeepsStock
  Reconciled
PROPERTIES
  ImplementsQuotaSale
