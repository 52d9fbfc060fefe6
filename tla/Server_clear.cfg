SPECIFICATION Spec
CONSTANTS
    Starter = {u1}
    Clearer = {u1}
    Async = {a1, a2}
    Con = {c1}
    Limits = {1}
    DefaultMax = 2
    None = None
INVARIANT ClearWaitsForAll
CHECK_DEADLOCK FALSE
