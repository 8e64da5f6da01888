SPECIFICATION StorefrontSpec
CONSTANTS
  u1 = u1
  u2 = u2
  a1 = a1
  x1 = x1
  r1 = r1
  r2 = r2
  v1 = v1
  p1 = p1
  NoTask = NoTask
  Orphan = Orphan
  Nothing = Nothing
  Users = {u1, u2}
  Activities = {a1}
  InitialStock <- OneUnit
  Registered = {u1, u2}
  OnSale = {a1}
  Workers = {}
  Cancellers = {}
  MaxOrders = 2
  Actions = {x1}
  Approvers = {r1, r2}
  MaxFaults = 1
  Viewers = {v1}
  Publishers = {p1}
SYMMETRY Alike
INVARIANTS
  StorefrontTypeOK
  AnswersAgree
  OneOrderPerAction
  ApprovedByOwner
  NamedOrderIsTheActions
  ShownIsCurrent
