SPECIFICATION FairSpec
CONSTANTS
    Starter = {u1}
    Clearer = {u2}
    Async = {a1, a2}
    Con = {c1, c2}
    Limits = {1}
    DefaultMax = 2
    None = None
INVARIANTS ConsAreOpen ThreadCountExact AcceptBelowMax
PROPERTY ClearReturns
CHECK_DEADLOCK FALSE
