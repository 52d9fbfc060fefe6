SPECIFICATION FairSpec
CONSTANTS
    N = 3
    Link <- Links
    Leaves = {0, 1, 2}
    Throws = {1}
    MaxSend = 1
    LastEpoch = 3
INVARIANTS AllUnblock NothingLost
PROPERTIES BarrierIsSound ReceivedInItsSuperstep JobEnds
CHECK_DEADLOCK FALSE
