SPECIFICATION FairSpec
CONSTANTS
    m1 = m1
    m2 = m2
    f1 = f1
    VAs <- MCVAs
    Mine <- MCMine
    Relists = FALSE
    MaxFaults = 0
PROPERTY CleanupEndsWait
CHECK_DEADLOCK FALSE
