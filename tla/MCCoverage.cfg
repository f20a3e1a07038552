SPECIFICATION Spec

CONSTANTS
    Worker = {w1, w2}
    MaxRuns = 2
    Region = {g1, g2}
    None = None
    MaxReceives = 2
    MaxFaults = 2

SYMMETRY Symmetry
VIEW Seen

INVARIANT PublishedIsWhole
INVARIANT CompleteIsTrue
INVARIANT RunIsPublished
CHECK_DEADLOCK FALSE
