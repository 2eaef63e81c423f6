SPECIFICATION MCFairSpec
CONSTANTS
    a = a
    b = b
    c = c
    d = d
    Messages = {a, b, c, d}
    Size <- Sizes
    Limit = 3
    MaxResets = 2
    Halves = {"sending", "receiving"}
    HeaderBytes = 2
    MaxItems = 1
CHECK_DEADLOCK FALSE
INVARIANTS OutboxIsExact HandedInOrder
PROPERTIES AcceptedGoesOut LastWordsAreHeard
