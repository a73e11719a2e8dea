SPECIFICATION Spec
CONSTANTS
    Proxies <- MCOneProxy
    Batchers <- MCBatchers
    Outputs <- MCOutputs
    ProxyOf <- MCProxyOfOne
    Models <- MCTwoModels
    Nodes <- MCTwoNodes
    ModelOf <- MCTwoModelOf
    Entry <- MCTwoNodes
    Succ <- MCFanSucc
    OutputCheck <- MCTwoNodes
    BatchSize <- MCBatchOne
    Delayed = FALSE
    Tasks = {k1}
    InitNets <- MCAllNets
    MaxReroutes = 0
    DropOn = TRUE
    NoModel = NoModel
CHECK_DEADLOCK FALSE
INVARIANTS RepliesAccounted
