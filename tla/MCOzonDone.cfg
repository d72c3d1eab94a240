\* The details of a page cannot be fetched or upserted, and the sync goes on.
CONSTANTS
    Caller = {c1}
    Boot = boot
    Ops = {"trigger"}
    Pages = 2
    MaxFailures = 2
    Workers = 1
    PoolRejects = TRUE
    PageLoss = TRUE
    DbFaults = FALSE
    MaxJobs = 2
    MaxRestarts = 1
SPECIFICATION SafeSpec
INVARIANTS
    DoneMeansStored
CHECK_DEADLOCK FALSE
