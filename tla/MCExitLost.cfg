SPECIFICATION FairSpec
CONSTANTS
    Models <- MCModels
    MaxEpochs = 2
    MaxChange = 2
CHECK_DEADLOCK FALSE
PROPERTIES UnloaderEnds
