SPECIFICATION FairSpec
CONSTANTS
    Clients = {c1, c2}
    MaxPublish = 3
INVARIANTS TypeOK Counted NothingLeft
PROPERTY CancelEnds
CHECK_DEADLOCK FALSE
