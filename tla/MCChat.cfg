SPECIFICATION LiveSpec

CONSTANTS
    Turns = 2
    Title = {a}
    MaxEvents = 1
    MaxPending = 2
    TitlePage = 3
    MaxFaults = 1
    Tabs = FALSE

INVARIANT FollowUpSeesAnswer
INVARIANT MarkersResolve
INVARIANT IdleMeansSaved
INVARIANT ArtifactsAnnounced
PROPERTY TurnEnds
PROPERTY ThreadFrees
CHECK_DEADLOCK FALSE
