SPECIFICATION FairSpec
CONSTANTS
    Job = {j1, j2}
    Waiter = {w1}
INVARIANTS
    ReportedOnce
    ReportMatchesStatus
    CompleteWaitIsFinal
    LateStartsAreKilled
PROPERTIES
    TerminalIsFinal
    JobsEnd
CHECK_DEADLOCK FALSE
