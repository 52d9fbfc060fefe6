SPECIFICATION Spec
CONSTANTS
    e1 = e1  e2 = e2  d1 = d1  d2 = d2  w1 = w1  c1 = c1
    Thread <- BufferThreads
    MayCall <- BufferCalls
    MaxSize = 2
    Item = {a, b}
    Blank = blank
    Nums = {1}
INVARIANTS WaiterCounts NoItemOverlooked
PROPERTIES RefinesFifo
CHECK_DEADLOCK FALSE
