\* Two threads; requests for no SKU, one and three, in chunks of two; pages of
\* two rows; a server that takes URLs of one key or of two; two requests that
\* fail, which is all the attempts at a page, one odd answer, one edit in 1C.
CONSTANTS
    Workers = {r1, r2}
    Main = main
    Requests <- MCRequests
    Books <- MCBooks
    Newcomers <- MCNewcomers
    UrlLimits = {1, 2}
    ChunkSize = 2
    BalanceChunk = 2
    PageSize = 2
    BalanceTop = 2
    MaxRetries = 2
    MaxFaults = 2
    MaxOdd = 1
    MaxChanges = 1
    Unit = 1
SPECIFICATION Spec
INVARIANTS
    TypeOK
    NothingTwice
    LossIsExplained
PROPERTIES
    PullEnds
CHECK_DEADLOCK FALSE
