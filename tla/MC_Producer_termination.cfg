\* Liveness: no symmetry, one builder, the beacon, one slot.
SPECIFICATION FairSpec
CONSTANTS
    Builders = {b1}
    Buffers = {f1, f2, f3}
    BuildPatterns = {"background"}
    NoFrame = NoFrame
    QueueCap = 1
    MaxSent = 0
    Unbounded = FALSE
PROPERTIES RunReturns BackgroundEnds
CHECK_DEADLOCK FALSE
