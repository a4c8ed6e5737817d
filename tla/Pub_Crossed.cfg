SPECIFICATION Spec
CONSTANTS
  w1 = w1
  w2 = w2
  k1 = k1
  k2 = k2
  k3 = k3
  k4 = k4
  r1 = r1
  r2 = r2
  Workers = {w1, w2}
  Keys = {k1, k2, k3}
  Requests = {r1, r2}
  Plan <- CrossedPlan
  BasisBound = {w1, w2}
  WithAuthority = {w2}
  Async = {w2}
  AuthorityOf <- NewObjects
  ChunkSize = 2
  MaxReplans = 2
  MaxFaults = 1
INVARIANTS OneDecisionPerKey DecidedIsSealed
PROPERTY ImplementsLog
CHECK_DEADLOCK FALSE
