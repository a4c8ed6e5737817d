SPECIFICATION FairSpec
CONSTANTS
    Deliverers = {a}
    Dispatchers = {b, c}
    Durable = durable
    Routes = {1, 2}
    MaxAttempts = 2
    MaxStops = 1
CHECK_DEADLOCK FALSE
INVARIANTS
    TypeOK
    SendIsOwned
    OneDriverSends
    SendsWithinBudget
    WeakAtMostOnce
    SettlementIsTrue
PROPERTIES
    EventuallySettled
