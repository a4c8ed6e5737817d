SPECIFICATION Spec
CONSTANTS
  c1 = c1
  c2 = c2
  c3 = c3
  c4 = c4
  again = again
  l1 = l1
  l2 = l2
  s1 = s1
  s2 = s2
  s3 = s3
  s4 = s4
  NoClaim = NoClaim
  Capsules = {c1, c2, again}
  Transactions = {1, 2}
  LaneIds = {l1, l2}
  Slots = {s1, s2, s3}
  TransactionOf <- Transaction
  PriorityOf <- Priority
  ReadyAt <- Ready
  LengthOf <- Length
  WitnessesOf <- Witnesses
  MaxCapsules = 2
  MaxLaneBytes = 9
  DecisionLimit = 2
  ByteCeiling = 5
  OldestTick = 2
  Ticks = {1}
  MaxRefusals = 1
INVARIANT TypeOK
INVARIANT SlotHasOneOwner
INVARIANT SlotMatchesCapsule
CHECK_DEADLOCK FALSE
SYMMETRY SlotSymmetry
