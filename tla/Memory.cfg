SPECIFICATION MCFairSpec
CONSTANTS
    Parts = {"regions", "peers", "codec", "paths", "topology", "mappings", "handoffs"}
    h1 = h1
    h2 = h2
    h3 = h3
    Nobody = Nobody
    Callers = {h1, h2, h3}
    Ask <- Asks
    Providers = {"rdma", "ipc"}
    Refusals = {{"ipc"}, {"ipc", "rdma"}}
    CacheSizes = {0, 1}
    MaxRuns = 2
    MaxPeers = 2
    Pids = {1, 2}
    ReusesPids = FALSE
    Bare = TRUE
    IdBytes = 3
    KeyBytes = 2
    ChunkBytes = 3
    Width = 4
    LocalLength = 10
    RemoteLength = 11
    MaxAdapters = 3
    Space = 5
    Backends = {"looks up", "claims"}
    Pieces = {1, 2}
    Depths = {0, 1, 2}
    Capacity = 2
CHECK_DEADLOCK FALSE
INVARIANTS  OpenWhileUsed  NoticesAreExact ReadExactly PathIsUsable MovedAsAsked LanesFinishTogether NearestIsChosen MappedWhileUsed ReadyMeansLanded
PROPERTIES BusyEnds 
