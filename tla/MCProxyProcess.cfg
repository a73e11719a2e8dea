SPECIFICATION FairSpec
CONSTANTS
    Models <- MCModels
    MaxBatches = 3
    MaxOutstanding = 2
    MaxRequests = 4
    SlowWaiters = {"loadControl", "send_output"}
INVARIANTS  BatchesKept
  
