SPECIFICATION FairSpec
CONSTANTS
    h1 = h1
    h2 = h2
    h3 = h3
    Host = {h1, h2, h3}
    Admins = {h1, h2}
    Quorum = 2
    MaxBlocks = 4
    CheckpointEvery = 1
    Peers <- MCPeers
    Proposals <- MCProposals
    MaxFaults = 1
INVARIANTS
    CheckpointsAgree
PROPERTIES
    BranchesAreKept
    NodesAgree
CHECK_DEADLOCK FALSE
