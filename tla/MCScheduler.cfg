SPECIFICATION MCSpec
CONSTANTS
    Models = {1, 2}
    Counts <- MCCounts
    InitRates <- MCInitRates
    ConfigGPUs = {1, 2}
    NGPUs = 2
    Capacity = 2500
    RateInterval = 500
    BeaconInterval = 500
    HistLen = 1
INVARIANTS PlanCoversTargets WellPartitioned 
PROPERTIES   PartitionsKept RateServed LoopsProgress
