SPECIFICATION Spec

CONSTANTS
    Worker = {w1, w2}
    Investigation = {i1, i2}
    HealthEvent = {h1}
    Issue = {}
    Handlers = {"stream", "tool", "event", "sweep", "refresh"}
    ExternalTask = {}
    LinkedTask = {}
    ActiveStatus = {"IN_PROGRESS"}
    MaxConcurrency = 1
    DailyBudget = 2
    StaleReads = FALSE
    NoInv = NoInv
    NoTask = NoTask

SYMMETRY Symmetry
INVARIANT NoLeaseLost
CHECK_DEADLOCK FALSE
