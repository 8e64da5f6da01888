SPECIFICATION PublicationSpec
CONSTANTS
  u1 = u1
  a1 = a1
  w1 = w1
  c1 = c1
  p1 = p1
  p2 = p2
  NoTask = NoTask
  Orphan = Orphan
  Users = {u1}
  Registered = {u1}
  Activities = {a1}
  OnSale = {a1}
  InitialStock <- TwoUnits
  MaxOrders = 3
  Workers = {w1}
  Cancellers = {c1}
  Process <- MCProcess
  BatchSize = 1
  ScanSize = 1
  Budget <- OneCrash
  Publishers = {p1, p2}
  MaxPublications = 2
SYMMETRY Alike
INVARIANTS
  OneClaimPerPublication
PROPERTIES
  OnlyPublicationsChangeUnits
