SPECIFICATION Spec
CONSTANTS
  r1 = r1
  r2 = r2
  r3 = r3
  bytes = bytes
  slots = slots
  NoRegion = NoRegion
  Regions = {r1, r2}
  Roots = {r1, r2}
  Grades = {bytes}
  Consumable = {bytes}
  Required = {bytes}
  RootCapacity <- TwoBytes
  Amounts <- ByteAmounts
  Foreign = {"absorb"}
  Resolutions = {"Acknowledge"}
  MaxGrants = 1
  MaxObligations = 1
  MaxLeaks = 0
INVARIANT Conserved
CHECK_DEADLOCK FALSE
