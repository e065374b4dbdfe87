\* The settings of the shipped presets, to the byte.
SPECIFICATION Spec
CONSTANTS
    KnobSpace <- PresetKnobs
    DefaultSession = 1024
    SessionCap = 1048576
    PoolSizes <- MCPoolSizes
    Hosts = 5
    PoolStop = 3
INVARIANT EveryQueryPacks
CHECK_DEADLOCK FALSE
