SPECIFICATION FairSpec
CONSTANTS
  r1 = r1
  r2 = r2
  u1 = u1
  ip1 = ip1
  a1 = a1
  c1 = c1
  NoChallenge = NoChallenge
  Requests <- MCRequests
  Users = {u1}
  Ips = {ip1}
  Activities = {a1}
  Challenges = {c1}
  Limit <- MCLimit
  Window <- MCWindow
  PeekWindow = 1
  MaxLag = 1
  OldestAge <- MCOldestAge
  RateLimitEnabled = TRUE
  ChallengeEnabled = TRUE
INVARIANTS
  AdmissionTypeOK
  OvershootBounded
  GuessesBounded
PROPERTIES
  MarksKept
  LockoutsEnd
