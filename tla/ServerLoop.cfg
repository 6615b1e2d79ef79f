SPECIFICATION FairSpec
CONSTANTS
    Slice = 2
    QueueSize = 2
    MaxOther = 1
    HasTimers = TRUE
INVARIANTS TickRuns InputFirst
PROPERTIES SliceEnds InputHandled Terminates
CHECK_DEADLOCK FALSE
