\* Shared Threads, Ultimate Machines, usage statistics: each with its fairness.
SPECIFICATION RecordsSpec
CONSTANTS
    TsThreads = {1, 2}
    PageLimit = 1
    MaxChanges = 2
    MaxClock = 1
    StatRows = {"audit", "call"}
    Lag = 1
    FoldBudget = 1
    MaxHour = 3
    MaxStatRows = 1
    MaxStatFaults = 1
CHECK_DEADLOCK FALSE
INVARIANTS
    RecordsTypeOK
    PagesSkipNothing
    OneEffectPerRun
    
PROPERTIES
    RevocationReachesViewer
    
    SettledIsShown
