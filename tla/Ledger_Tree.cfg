SPECIFICATION Spec
CONSTANTS
  r1 = r1
  r2 = r2
  r3 = r3
  bytes = bytes
  slots = slots
  NoRegion = NoRegion
  Regions = {r1, r2, r3}
  Roots = {r1}
  Grades = {bytes}
  Consumable = {bytes}
  Required = {bytes}
  RootCapacity <- OneByte
  Amounts <- ByteAmounts
  Foreign = {"child"}
  Resolutions = {"Acknowledge"}
  MaxGrants = 1
  MaxObligations = 1
  MaxLeaks = 0
INVARIANT OrderlyTreeConserves
INVARIANT Conserved
PROPERTY QuiescentIsFinal
CHECK_DEADLOCK FALSE
