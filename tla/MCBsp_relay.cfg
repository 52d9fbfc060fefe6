SPECIFICATION FairSpec
CONSTANTS
    N = 3
    Link <- Relay
    Leaves = {}
    Throws = {}
    MaxSend = 1
    LastEpoch = 2
PROPERTY BarrierIsSound
CHECK_DEADLOCK FALSE
