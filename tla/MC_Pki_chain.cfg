\* Four calls, killed anywhere, with sensible deletions between them.
SPECIFICATION Spec
CONSTANTS
    NodeNames = {n0, n1, n2}
    NoName = n0
    Removable <- Sensible
    MaxRuns = 4
INVARIANTS TypeOK Chained
PROPERTY KeepsWhole
CHECK_DEADLOCK FALSE
