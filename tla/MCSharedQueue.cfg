SPECIFICATION Spec
CONSTANTS
    Proxies <- MCTwoProxies
    Batchers <- MCBatchers
    Outputs <- MCOutputs
    ProxyOf <- MCProxyOfTwo
    Models <- MCSingleModel
    Nodes <- MCSingleNodes
    ModelOf <- MCSingleModelOf
    Entry <- MCSingleNodes
    Succ <- MCSingleSucc
    OutputCheck <- MCSingleNodes
    BatchSize <- MCBatchTwo
    Delayed = TRUE
    Tasks = {k1, k2, k3}
    InitNets <- MCAllNets
    MaxReroutes = 0
    DropOn = FALSE
    NoModel = NoModel
CHECK_DEADLOCK FALSE
SYMMETRY MCSymmetry
INVARIANTS NoRequestLost
