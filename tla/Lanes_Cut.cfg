SPECIFICATION Spec
CONSTANTS
  c1 = c1
  c2 = c2
  c3 = c3
  c4 = c4
  again = again
  l1 = l1
  l2 = l2
  s1 = s1
  s2 = s2
  s3 = s3
  s4 = s4
  NoClaim = NoClaim
  Capsules = {c1, c2, c3, c4}
  Transactions = {1, 2, 3, 4}
  LaneIds = {l1}
  Slots = {s1, s2, s3, s4}
  TransactionOf <- Transaction
  PriorityOf <- Priority
  ReadyAt <- Ready
  LengthOf <- Length
  WitnessesOf <- Witnesses
  MaxCapsules = 4
  MaxLaneBytes = 9
  DecisionLimit = 3
  ByteCeiling = 5
  OldestTick = 2
  Ticks = {0, 1, 2, 3}
  MaxRefusals = 0
INVARIANT BatchWithinBounds
INVARIANT NoPriorityInversion
INVARIANT ComponentsIsolate
CHECK_DEADLOCK FALSE
SYMMETRY SlotSymmetry
