SPECIFICATION FairSpec
CONSTANTS
    m1 = m1
    m2 = m2
    f1 = f1
    VAs <- MCVAs
    Mine <- MCMine
    Relists = TRUE
    MaxFaults = 1
INVARIANTS
    TypeOK
    NilMeansCleaned
PROPERTIES
    ContextEndsWait
    WatchedCleanupEndsWait
    WakeupNotLost
CHECK_DEADLOCK FALSE
