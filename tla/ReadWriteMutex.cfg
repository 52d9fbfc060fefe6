SPECIFICATION FairSpec
CONSTANTS
    Thread = {t1, t2, t3, t4}
    max_locks = 2
    MaxHeld = 1
    StrayUnlock = FALSE
INVARIANTS MutualExclusion AllLocksAccounted NobodyOverlooked
PROPERTY DrainsWhenQuiet
CHECK_DEADLOCK FALSE
