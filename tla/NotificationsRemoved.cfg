SPECIFICATION FairSpec
CONSTANTS
    Notes = {n1}
    Peers = {p1}
    Removable = {p1}
    Closes = FALSE
    QueueDepth = 1
    Severs = TRUE
PROPERTIES RemovalEnds
CHECK_DEADLOCK FALSE
