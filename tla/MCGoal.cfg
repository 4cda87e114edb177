SPECIFICATION FairSpec
CONSTANTS
    Objective = {o1, o2}
    Reason = {r1, r2}
    MaxGoalAutoTurns = 4
    MaxSets = 4
INVARIANTS
    BlockedIsEarned
PROPERTIES
    DeadGoalStaysDead
    StopStopsTheGoal
    LoopEnds
CHECK_DEADLOCK FALSE
