SPECIFICATION FairSpec
CONSTANTS
    Card = {k1, k2}
    DefaultMaxParallel = 3
    Proc = {p1, p2, p3}
    Bound = {1, 2}
    MaxRounds = 2
    Gated = {k1}
    Column = {"approval", "ready", "doing", "done"}
    MaxRuns = 2
    MaxCalls = 1
    MaxSaveFails = 1
    None = None
INVARIANTS
    PoolIsSound
    StopReachesTheRun
PROPERTIES
    DeliverablesAwaitTheHuman
    Settles
    Bounded
CHECK_DEADLOCK FALSE
