SPECIFICATION FairSpec
CONSTANTS
    Timers = {t1, x1}
    Timeouts = {x1}
    Delays = {0, 2}
    DefaultDelay = 1
    IdleDelay = 3
    MaxLate = 2
    Out = Out
INVARIANTS ClockInTime RunningIsScheduled StoppedForGood
PROPERTY CalledAgain
