\* A source checkout; one kill in the bootstrap, one pause between polls; two
\* frames through a pipeline of one, to an EDM that was used before and is behind.
SPECIFICATION FairCommand
CONSTANTS
    Commands = {"run", "benchmark", "serve"}
    Checkout = TRUE
    Stabilise = TRUE
    MaxCrashes = 1
    MaxPolls = 1
    Bound = 1
    Before = 1
    Backlog = 1
    MaxFrames = 2
INVARIANTS CommandTypeOK NoOrphan WholeDawg ReportFinal ReportHonest
PROPERTIES StopReturns BenchmarkEnds InterruptExits
CHECK_DEADLOCK FALSE
