SPECIFICATION Spec

CONSTANTS
    Worker = {w1, w2}
    MaxRuns = 1
    Region = {g1, g2}
    None = None
    MaxReceives = 2
    MaxFaults = 1


PROPERTY Immutable
CHECK_DEADLOCK FALSE
