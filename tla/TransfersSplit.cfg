SPECIFICATION Spec
CONSTANTS
    r1 = r1
    r2 = r2
    p1 = p1
    l1 = l1
    l2 = l2
    Progress = Progress
    Requests = {r1}
    Peers = {p1}
    Lanes = {l1, l2}
    PeerOf <- OnePeer
    Plan <- TwoOneChunks
    MaxOps = 2
    Quantum = 1
    MaxInflight = 1
    CompletionDepth = 1
    Env = {"cancel", "depend", "depart", "remove", "close", "poll"}
CHECK_DEADLOCK FALSE
INVARIANTS EndedIsQuiet SuccessIsWhole EndsAreReportedOnce QuietInv
PROPERTIES LifecycleRefined
