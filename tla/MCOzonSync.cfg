\* Two callers that trigger and stop, a pool that may refuse a run, a database
\* that works; one crash or exit and the restart after it; two syncs.
CONSTANTS
    Caller = {c1, c2}
    Boot = boot
    Ops = {"trigger", "stop"}
    Pages = 2
    MaxFailures = 2
    Workers = 1
    PoolRejects = TRUE
    PageLoss = TRUE
    DbFaults = FALSE
    MaxJobs = 2
    MaxRestarts = 1
SPECIFICATION SafeSpec
SYMMETRY CallerSymmetry
INVARIANTS
    TypeOK
    OneRun
    FinishOwnRecord
    OneRunningRecord
    NoOrphanRecord
    CrashedRunIsResumable
PROPERTIES
    StopNotLost
CHECK_DEADLOCK FALSE
