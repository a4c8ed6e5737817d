SPECIFICATION Spec
CONSTANTS
  c1 = c1
  c2 = c2
  h1 = h1
  h2 = h2
  m1 = m1
  o1 = o1
  o2 = o2
  b1 = b1
  b2 = b2
  big = big
  Nothing = Nothing
  Clients = {c1, c2}
  HeadKeys = {h1}
  ImmutableKeys = {o1, o2}
  OutcomeKeys = {o1, o2}
  Bodies = {b1, b2}
  Oversized = {}
  Generations = {1, 2, 3}
  Batches <- CrossedBatches
  ImmutableSlots = 2
  HeadSlots = 1
  VersionTokens = 3
  MaxFaults = 1
INVARIANT OutcomesWithHead
INVARIANT ResolutionSound
PROPERTY ImplementsHeads
CHECK_DEADLOCK FALSE
SYMMETRY ClientSymmetry
