\* Two pulls with a reset or a restart, requests served by two threads.
CONSTANTS
    HttpThreads = 2
    MaxPosts = 2
    MaxBreaks = 1
SPECIFICATION Spec
INVARIANTS
    TypeOK
    OneOpenCheckpoint
    LivePullIsResumable
    DoneIsRecorded
    NewestIsClosed
CHECK_DEADLOCK FALSE
