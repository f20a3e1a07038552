SPECIFICATION LiveSpec

CONSTANTS
    Worker = {w1}
    Mitigation = {e1, e2}
    Own = Own
    MaxTime = 4
    MaxRevision = 1
    Deadlines = TRUE
    None = None

INVARIANT CompletedHasSummary
INVARIANT Pursued
INVARIANT OutcomeAgrees
PROPERTY NeverOlder
PROPERTY MitigationEnds
CHECK_DEADLOCK FALSE
