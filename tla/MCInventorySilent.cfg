\* Two pulls, one request at a time.
CONSTANTS
    HttpThreads = 1
    MaxPosts = 2
    MaxBreaks = 0
SPECIFICATION Spec
PROPERTIES
    SupersededIsSilent
CHECK_DEADLOCK FALSE
