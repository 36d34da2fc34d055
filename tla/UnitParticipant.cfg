SPECIFICATION Spec
CONSTANTS
  c1 = c1
  c2 = c2
  c3 = c3
  c4 = c4
  c5 = c5
  n1 = n1
  n2 = n2
  root = root
  Calls = {c1, c2, c3}
  FailureThreshold = 2
  RecoveryTimeout = 2
  RateWindow = 2
  RateFailures = 1
  HalfOpenMax = 2
  Callers = {c1, c2, c3, c4, c5}
  MaxConcurrent = 2
  MaxWaiters = 2
  Jobs = {c1, c2, c3}
  Nodes = {n1, n2}
  Home <- MCHome
  Ttl = 1
  MaxClock = 3
  MaxFence = 3
  Root = root
  Children = {c4, c5}
  MaxScopes = 2
INVARIANTS
  FailedParticipantRollsBack
SYMMETRY MCSymmetry
CHECK_DEADLOCK FALSE
