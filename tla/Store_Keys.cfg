SPECIFICATION Spec
CONSTANTS
  c1 = c1
  c2 = c2
  h1 = h1
  h2 = h2
  m1 = m1
  o1 = o1
  o2 = o2
  b1 = b1
  b2 = b2
  big = big
  Nothing = Nothing
  Clients = {c1, c2}
  HeadKeys = {h1, h2}
  ImmutableKeys = {}
  OutcomeKeys = {}
  Bodies = {b1, big}
  Oversized = {big}
  Generations = {1, 2, 3}
  Batches = {}
  ImmutableSlots = 1
  HeadSlots = 2
  VersionTokens = 4
  MaxFaults = 1
INVARIANTS TypeOK LinearHistory ReceiptsAuthentic
CHECK_DEADLOCK FALSE
SYMMETRY ClientSymmetry
