SPECIFICATION LiveSpec

CONSTANTS
    Reports = 1
    a = a
    b = b
    c = c
    Section = {a, b, c}
    Templates <- MCTemplates
    None = None
    MaxFaults = 1

PROPERTY ProgressSurvives
CHECK_DEADLOCK FALSE
