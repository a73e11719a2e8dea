SPECIFICATION LiveSpec
CONSTANTS
    Nodes = 3
    Reachable <- MCReachable
    NGPUs <- MCNGPUs
    FirstIdx <- MCFirstIdx
    Sizes <- MCSizes
    AVAIL_SIZES <- MCAvail
    MAX_GPU = 3
    MAX_PROXY_PER_GPU = 3
    Managed <- MCManaged
    MaxModels = 1
    IdleMem = 1
    MemThread = MemThread
    NoThread = NoThread
INVARIANTS ChannelQuiet
PROPERTIES CallReturns CallsAreAtomic
