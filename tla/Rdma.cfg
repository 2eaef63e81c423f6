SPECIFICATION Spec
CONSTANTS
    c1 = c1
    c2 = c2
    Conns = {c1, c2}
    QpOf <- TwoPairs
    SqDepth = 2
    SignalPeriod = 3
    Window = 3
    OpSize <- ThreeOps
    Batches = {3}
    RqDepth = 1
    CqBatch = 2
    Users = {c1}
    Faulty = {1}
    Failures = {"Err"}
    PostFails = TRUE
    Nil = Nil
CHECK_DEADLOCK FALSE
INVARIANTS CompletionsAreExact BudgetIsOutstanding  ProofsReachTheirDial
