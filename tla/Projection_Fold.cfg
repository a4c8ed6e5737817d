SPECIFICATION FairSpec
CONSTANTS
    a = a
    b = b
    c = c
    d = d
    d1 = d1
    d2 = d2
    x2 = x2
    here = here
    there = there
    NoRow = NoRow
    Sessions = {a, b, c, d}
    Sources = {here, there}
    Schemas = {1, 2}
    Builds = {"current"}
    Identity <- Owners
    Digests = {d1, d2, x2}
    Feed <- Histories
    Readers = {a}
    Limits = {1}
    MaxEpochs = 2
    MaxFaults = 1
INVARIANTS
    PrefixExact
    OneGeneration
    ReportedOnce
    PagesJoinUp
PROPERTIES
    EventuallyFolded
CHECK_DEADLOCK FALSE
