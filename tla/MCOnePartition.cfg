SPECIFICATION Spec
CONSTANTS
    Proxies <- MCOneProxy
    Batchers <- MCBatchers
    Outputs <- MCOutputs
    ProxyOf <- MCProxyOfOne
    Models <- MCTwoModels
    Nodes <- MCTwoNodes
    ModelOf <- MCTwoModelOf
    Entry <- MCFirst
    Succ <- MCChainSucc
    OutputCheck <- MCLast
    BatchSize <- MCBatchTwo
    Delayed = TRUE
    Tasks = {k1, k2}
    InitNets <- MCAllNets
    MaxReroutes = 0
    DropOn = FALSE
    NoModel = NoModel
CHECK_DEADLOCK FALSE
SYMMETRY MCSymmetry
INVARIANTS OneBatching OneExecution ResultsMatch BackendMatch
