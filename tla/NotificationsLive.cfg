SPECIFICATION FairSpec
CONSTANTS
    Notes = {n1, n2}
    Peers = {p1}
    Removable = {}
    Closes = TRUE
    QueueDepth = 1
    Severs = TRUE
CHECK_DEADLOCK FALSE
INVARIANTS NothingAfterClose
PROPERTIES NotificationsEnd
