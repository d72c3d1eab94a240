\* A user stops a sync that has stored a page.
CONSTANTS
    Caller = {c1}
    Boot = boot
    Ops = {"trigger", "stop"}
    Pages = 2
    MaxFailures = 2
    Workers = 1
    PoolRejects = TRUE
    PageLoss = TRUE
    DbFaults = FALSE
    MaxJobs = 2
    MaxRestarts = 1
SPECIFICATION SafeSpec
INVARIANTS
    StoppedIsFinal
CHECK_DEADLOCK FALSE
