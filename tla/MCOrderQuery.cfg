SPECIFICATION OrderQuerySpec
CONSTANTS
  u1 = u1
  a1 = a1
  w1 = w1
  c1 = c1
  q1 = q1
  q2 = q2
  NoTask = NoTask
  Orphan = Orphan
  Users = {u1}
  Registered = {u1}
  Activities = {a1}
  OnSale = {a1}
  InitialStock <- OneUnit
  MaxOrders = 2
  Workers = {w1}
  Cancellers = {c1}
  Process <- MCProcess
  BatchSize = 1
  ScanSize = 1
  Budget <- CrashLapseAndExpiry
  Queries = {q1, q2}
SYMMETRY Alike
INVARIANTS
  AnswersStand
  SuccessStands
  SuccessIsBacked
