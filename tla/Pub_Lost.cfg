SPECIFICATION Spec
CONSTANTS
  w1 = w1
  w2 = w2
  k1 = k1
  k2 = k2
  k3 = k3
  k4 = k4
  r1 = r1
  r2 = r2
  Workers = {w1, w2}
  Keys = {k1, k2, k3}
  Requests = {r1}
  Plan <- SamePlan
  BasisBound = {}
  WithAuthority = {}
  Async = {}
  AuthorityOf <- NewObjects
  ChunkSize = 2
  MaxReplans = 2
  MaxFaults = 1
INVARIANT LostMeansUnpublished
CHECK_DEADLOCK FALSE
