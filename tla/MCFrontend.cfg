CONSTANTS
    Models <- MCModels
    Partitions <- MCPartitions
    Costs <- MCCosts
    FreshMin = 2
    MaxCredit = 6
    MaxUpdates = 2
SPECIFICATION LiveSpec
CHECK_DEADLOCK FALSE
INVARIANTS RefusedOnlyForLagging AnsweredOnce   EstimatesSound
PROPERTIES SessionEnds BootCompletes
