SPECIFICATION FairSpec
CONSTANTS
    MaxWorkers = 2
    MaxTime = 3
    MaxCall = 2
    Configs <- MCConfigs
INVARIANTS
    TypeOK
    BudgetKept
    LoadAsAsked
PROPERTY PromiseKept
CHECK_DEADLOCK FALSE
