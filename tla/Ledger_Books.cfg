SPECIFICATION Spec
CONSTANTS
  r1 = r1
  r2 = r2
  r3 = r3
  bytes = bytes
  slots = slots
  NoRegion = NoRegion
  Regions = {r1}
  Roots = {r1}
  Grades = {bytes, slots}
  Consumable = {bytes}
  Required = {bytes}
  RootCapacity <- TwoAndOne
  Amounts <- PairAmounts
  Foreign = {}
  Resolutions = {"Acknowledge", "Defer", "Escalate", "FailTerminally"}
  MaxGrants = 2
  MaxObligations = 2
  MaxLeaks = 1
INVARIANT TypeOK
INVARIANT Conserved
INVARIANT JournalReplays
INVARIANT PossessionIsRecorded
CHECK_DEADLOCK FALSE
