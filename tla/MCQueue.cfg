CONSTANTS
    w1 = w1
    w2 = w2
    w3 = w3
    r1 = r1
    r2 = r2
    None = None
    Threads = {w1, w2, w3}
    Nodes = {blk1, blk2}
    NoNode = None
    SHOULD_BE_ON_FREELIST = 8
SPECIFICATION LiveSpec
INVARIANTS FreeListSound QueueSound
PROPERTIES IsStream 
