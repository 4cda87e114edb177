SPECIFICATION FairSpec
CONSTANTS
    MaxBuild = 2
    MaxJobs = 1
    MaxAttempts = 2
    MaxSaveFails = 2
    MaxLive = 1
    Worker = {w1, w2}
INVARIANTS
    DeliveredOnce
    NothingLost
PROPERTIES
    RowsSettle
CHECK_DEADLOCK FALSE
