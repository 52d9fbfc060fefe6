SPECIFICATION FairSpec
CONSTANTS
    Worker = {w1, w2}
    Client = {c1}
    Job = {j1, j2, j3}
    Throwing = {j1}
    None = None
INVARIANTS IdsIdentify WorkerForEachTask NoExceptionLost AllDoneBeforeExit
CHECK_DEADLOCK FALSE
PROPERTIES WaitsEnd
