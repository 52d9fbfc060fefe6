SPECIFICATION FairSpec
CONSTANTS
    User = {u1, u2}
    Pool = {p1, p2, p3}
    Job = {j1, j2, j3}
    Handler = {h1}
    None = None
INVARIANTS CountsExact NoJobOverlooked NoCreatorOverlooked HandlersBeforeReuse
CHECK_DEADLOCK FALSE
PROPERTY Progress
