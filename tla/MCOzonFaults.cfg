\* One caller; what the environments of MCOzonFaults narrow down: every
\* operation, a pool that may refuse, statements that may fail, one restart of
\* the process (4 is one after the 3 that name the third environment).
CONSTANTS
    Caller = {c1}
    Boot = boot
    Ops = {"trigger", "full", "stop", "reset"}
    Pages = 1
    MaxFailures = 1
    Workers = 2
    PoolRejects = TRUE
    PageLoss = FALSE
    DbFaults = TRUE
    MaxJobs = 2
    MaxRestarts = 4
SPECIFICATION MCSpec
ACTION_CONSTRAINT Narrowed
INVARIANTS
    CheckpointCovered
    NoGhostProgress
PROPERTIES
    FlagIsReleased
CHECK_DEADLOCK FALSE
