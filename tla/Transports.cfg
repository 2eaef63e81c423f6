SPECIFICATION MCFairSpec
CONSTANTS
    a = a
    b = b
    Parts = {"ipc", "ucx", "local", "congestion"}
    Procs = {a, b}
    KeysOf <- OneEach
    Capacity = 2
    MaxDials = 2
    Talkers = {a}
    Ops = {1, 2, 3}
    Objects = {1, 2, 3}
    MaxEvents = 1
    Copiers = {1, 2}
    Withdrawers = {1, 2}
    MaxMessages = 2
    Sizes <- FourSizes
    Window = 3
    Floor = 2
    MinRate = 1
    MaxRate = 3
    StartRate = 2
    Increase = 1
    TLow = 2
    THigh = 3
    Delays = {1, 3, 4}
    NoDelay = 2
    MaxRounds = 2
CHECK_DEADLOCK FALSE
INVARIANTS   ReportedOnceLanded NoCopyIntoFreed
  
