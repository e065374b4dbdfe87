\* The default settings with some altered; sessions of up to 100 bytes.
SPECIFICATION FairSpec
CONSTANTS
    KnobSpace <- MCKnobSpace
    DefaultSession = 75
    SessionCap = 100
    PoolSizes <- MCPoolSizes
    Hosts = 5
    PoolStop = 3
INVARIANTS TypeOK SessionSent LostOnlyOverLimit PanicOnlyBadKnobs
PROPERTY Constructed
CHECK_DEADLOCK FALSE
