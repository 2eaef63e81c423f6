SPECIFICATION MCSpec
CONSTANTS
    a = a
    b = b
    Parts = {"ipc"}
    Procs = {a, b}
    KeysOf <- TwoAndOne
    Capacity = 2
    MaxDials = 1
    Talkers = {a}
    Ops = {1, 2, 3}
    Objects = {1, 2, 3}
    MaxEvents = 1
    Copiers = {1, 2}
    Withdrawers = {1, 2}
    MaxMessages = 2
    Sizes <- FourSizes
    Window = 3
    Floor = 2
    MinRate = 1
    MaxRate = 3
    StartRate = 2
    Increase = 1
    TLow = 2
    THigh = 3
    Delays = {1, 3, 4}
    NoDelay = 2
    MaxRounds = 2
INVARIANT RefusedIsUnmapped
CHECK_DEADLOCK FALSE
