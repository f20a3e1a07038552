SPECIFICATION LiveSpec

CONSTANTS
    Worker = {w1}
    Investigation = {i1}
    HealthEvent = {h1}
    Issue = {}
    Handlers = {"stream", "tool", "sweep"}
    ExternalTask = {x1}
    LinkedTask = {i1}
    ActiveStatus = {"IN_PROGRESS"}
    MaxConcurrency = 1
    DailyBudget = 1
    StaleReads = FALSE
    NoInv = NoInv
    NoTask = NoTask

PROPERTY LeaseReturned
PROPERTY EveryInvestigationCloses
CHECK_DEADLOCK FALSE
