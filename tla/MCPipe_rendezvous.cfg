SPECIFICATION FairSpec
CONSTANTS
    e1 = e1  e2 = e2  d1 = d1  d2 = d2  w1 = w1  c1 = c1
    Thread <- OfferThreads
    MayCall <- OfferCalls
    MaxSize = 0
    Item = {a}
    Blank = blank
    Nums = {1}
INVARIANTS NoEnqueueOverlooked DestructorSafe
PROPERTIES RefinesFifo CallsReturn
CHECK_DEADLOCK FALSE
