\* Two threads, two events of which the history keeps one, a connection that
\* names any event as its last.
CONSTANTS
    Broadcasters = {b1, b2}
    Conns = {c1}
    HistoryMax = 1
    MaxEvents = 2
SPECIFICATION FairSpec
INVARIANTS
    TypeOK
    OneWriteAtATime
    NothingMissed
    NoNeedlessDuplicate
    PerThreadOrder
PROPERTIES
    EventIsWritten
    BrokenIsForgotten
CHECK_DEADLOCK FALSE
