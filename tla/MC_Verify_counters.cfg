SPECIFICATION FairSpec
CONSTANTS
    Patterns = {p1, p2}
    NCounters = 2
    Before = 1
    Backlog = 1
    MaxFrames = 1
    MaxRestarts = 1
    MaxGaps = 1
INVARIANTS TypeOK NeverClamps ObservedIsOurs TotalCovered DriftIsBaseline
PROPERTY CatchesUp
CHECK_DEADLOCK FALSE
