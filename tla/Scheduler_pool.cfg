CONSTANTS
    p1 = p1
    p2 = p2
    Ids = {1,2}
    Providers = {p1,p2}
    Priorities = {0,1}
    Order <- BothProviders
    Deliverable <- PoolRecords
    Strategies = {"round_robin","fill_first"}
    Rebuilding = TRUE
    MaxTime = 3
SPECIFICATION SchedulerSpec
INVARIANT IndexesAgree
PROPERTY ImplementsPool
VIEW WithoutHistory
