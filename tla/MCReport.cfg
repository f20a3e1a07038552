SPECIFICATION LiveSpec

CONSTANTS
    Reports = 2
    a = a
    b = b
    c = c
    Section = {a, b, c}
    Templates <- MCTemplates
    None = None
    MaxFaults = 1

INVARIANT DependentsWait
INVARIANT CompleteMeansDone
INVARIANT EditKeepsContent
INVARIANT BusyShown
PROPERTY CardMoves
PROPERTY ReportEnds
CHECK_DEADLOCK FALSE
