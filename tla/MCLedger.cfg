SPECIFICATION FairSpec
CONSTANTS
    Command = {c1, c2}
    Daemon = daemon
    MaxBlocks = 3
    MaxFaults = 1
    None = None
INVARIANTS
    
    ToldIsKept
PROPERTIES
    MemoryIsSaved
CHECK_DEADLOCK FALSE
