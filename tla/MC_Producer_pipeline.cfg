SPECIFICATION Spec
CONSTANTS
    Builders = {b1, b2}
    Buffers = {f1, f2, f3, f4, f5}
    BuildPatterns = {"background"}
    NoFrame = NoFrame
    QueueCap = 1
    MaxSent = 1
    Unbounded = TRUE
SYMMETRY Symmetry
INVARIANTS TypeOK BufferOwnership CloseAfterBuilders
PROPERTIES StopDrains CancelDrains ImplementsPipeline
CHECK_DEADLOCK FALSE
