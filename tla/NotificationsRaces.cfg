SPECIFICATION Spec
CONSTANTS
    Notes = {n1, n2}
    Peers = {p1, p2}
    Removable = {p1}
    Closes = FALSE
    QueueDepth = 1
    Severs = TRUE
SYMMETRY Symmetry
CHECK_DEADLOCK FALSE
INVARIANTS OutcomeIsTrue  DepartureEndsItsOwn
