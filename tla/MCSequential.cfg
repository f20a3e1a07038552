SPECIFICATION Spec

CONSTANTS
    Worker = {w1}
    Investigation = {i1, i2}
    HealthEvent = {h1, h2}
    Issue = {}
    Handlers = {"stream", "event", "sweep"}
    ExternalTask = {x1}
    LinkedTask = {i1, i2}
    ActiveStatus = {"IN_PROGRESS"}
    MaxConcurrency = 1
    DailyBudget = 2
    StaleReads = FALSE
    NoInv = NoInv
    NoTask = NoTask

SYMMETRY Symmetry
INVARIANT NoLeaseLost
INVARIANT PointerFollowsLink
INVARIANT ChargedOnce
INVARIANT CreatingHoldsLease
PROPERTY FollowsLifecycle
CHECK_DEADLOCK FALSE
