SPECIFICATION PFSpec
CONSTANTS
    Worker = {w1, w2}
    Client = {c1}
    Job = {1, 2, 3, 4, 5}
    Throwing = {1}
    None = None
    Caller = c1
    Ranges <- SomeRanges
    Chunks = {1, 2}
INVARIANT EachIndexOnce
CHECK_DEADLOCK FALSE
