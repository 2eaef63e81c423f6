SPECIFICATION Spec
CONSTANTS
    r1 = r1
    r2 = r2
    p1 = p1
    l1 = l1
    l2 = l2
    Progress = Progress
    Requests = {r1, r2}
    Peers = {p1}
    Lanes = {l1, l2}
    PeerOf <- OnePeer
    Plan <- SplitPlan
    MaxOps = 1
    Quantum = 1
    MaxInflight = 2
    CompletionDepth = 1
    Env = {"close"}
INVARIANTS EndingsAreExact CloseMeansDrained
CHECK_DEADLOCK FALSE
