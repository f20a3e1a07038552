SPECIFICATION Spec

CONSTANTS
    Turns = 2
    Title = {a}
    MaxEvents = 1
    MaxPending = 2
    TitlePage = 3
    MaxFaults = 1
    Tabs = FALSE

INVARIANT OwnArtifacts
CHECK_DEADLOCK FALSE
