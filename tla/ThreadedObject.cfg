SPECIFICATION FairSpec
CONSTANTS
    Client = {c1, c2, c3}
    Helper = {h1, h2}
INVARIANTS OneThreadIfAlive NobodyOverlooked RestartNotLost
PROPERTIES RespawnAtMostOnce StopTakesEffect
