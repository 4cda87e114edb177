SPECIFICATION FairSpec
CONSTANTS
    Msg = {m1, m2}
    Caller = {c1, c2}
    Rotations = 1
    None = None
INVARIANTS
    OneTurn
    SteerInTimeIsHeard
PROPERTIES
    FatesAreFinal
    FrozenWhilePaused
    FirstPauseHolds
    StopEndsTurn
CHECK_DEADLOCK FALSE
