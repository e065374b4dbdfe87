\* A counter that went backwards against the reset of the baseline.
SPECIFICATION Spec
CONSTANTS
    Patterns = {p1}
    NCounters = 1
    Before = 0
    Backlog = 0
    MaxFrames = 3
    MaxRestarts = 1
    MaxGaps = 0
PROPERTY BackwardsResets
CHECK_DEADLOCK FALSE
