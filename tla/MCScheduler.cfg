SPECIFICATION SchedulerFairSpec
CONSTANTS
    Task = {t1, t2}
    Instants = {1, 2}
    Periods = {1}
    Worker = {w1, w2}
    MaxTime = 2
    MaxCalls = 3
    MaxFaults = 2
    None = None
INVARIANTS
    TimerIsNearest
    CalmCallbacksAreExact
    RemindersAreKept
PROPERTIES
    DueTasksRun
CHECK_DEADLOCK FALSE
