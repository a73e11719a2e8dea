SPECIFICATION MCSpec
CONSTANTS
    Batchers = {"b1", "b2"}
    Kinds <- MCKinds
    InputDims <- MCInputDims
    OutputDims <- MCOutputDims
    MaxBatches = 2
    MaxCommands = 1
INVARIANTS FramesKept ResultsBelong
