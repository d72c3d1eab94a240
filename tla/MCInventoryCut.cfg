\* Two pulls whose requests overlap, and a restart.
CONSTANTS
    HttpThreads = 2
    MaxPosts = 2
    MaxBreaks = 1
SPECIFICATION Spec
INVARIANTS
    OnlyCutPullsResume
CHECK_DEADLOCK FALSE
