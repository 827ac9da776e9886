SPECIFICATION FairSpec
CONSTANTS
    MaxArrivals = 4
    MaxTime = 3
    Configs <- MCConfigs
INVARIANTS
    TypeOK
    IntendedArrivals
PROPERTY PromiseKept
CHECK_DEADLOCK FALSE
