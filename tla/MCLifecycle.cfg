SPECIFICATION FairSpec
CONSTANTS
    Models <- MCThreeModels
    MaxEpochs = 5
    MaxChange = 1
CHECK_DEADLOCK FALSE
INVARIANTS RecordAgrees
PROPERTIES  DecisionApplied UnloaderEnds
