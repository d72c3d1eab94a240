\* Two workers, four tasks and a queue of two: a full queue, a task submitted
\* while every worker sleeps, and a shutdown with a backlog all occur.
CONSTANTS
    Task = {t1, t2, t3, t4}
    Worker = {w1, w2}
    MaxQueue = 2
    NoTask = NoTask
SPECIFICATION Spec
INVARIANTS
    TypeOK
    NoTaskBehindSleeper
    IdleWaiterNotForgotten
    IdleReportIsFinal
PROPERTIES
    DestructorReturns
    ImplementsTaskService
CHECK_DEADLOCK FALSE
