SPECIFICATION FairSpec
CONSTANTS
    Proxies <- MCOneProxy
    Batchers <- MCBatchers
    Outputs <- MCOutputs
    ProxyOf <- MCProxyOfOne
    Models <- MCTwoModels
    Nodes <- MCTwoNodes
    ModelOf <- MCTwoModelOf
    Entry <- MCFirst
    Succ <- MCChainSucc
    OutputCheck <- MCLast
    BatchSize <- MCBatchOne
    Delayed = FALSE
    Tasks = {k1}
    InitNets <- MCOneNet
    MaxReroutes = 1
    DropOn = FALSE
    NoModel = NoModel
CHECK_DEADLOCK FALSE
PROPERTIES UnloadCompletes 
