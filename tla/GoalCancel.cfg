SPECIFICATION FairSpec
CONSTANTS
    Objective = {o1}
    Reason = {r1}
    MaxGoalAutoTurns = 3
    MaxSets = 1
PROPERTIES
    CancelEndsLoop
CHECK_DEADLOCK FALSE
