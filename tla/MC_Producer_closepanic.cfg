\* One unthrottled builder and the beacon, against the comment on the close.
SPECIFICATION Spec
INVARIANT CloseAfterBeacon
CONSTANTS
    Builders = {b1}
    Buffers = {f1, f2, f3, f4}
    BuildPatterns = {"background"}
    NoFrame = NoFrame
    QueueCap = 1
    MaxSent = 0
    Unbounded = TRUE
CHECK_DEADLOCK FALSE
