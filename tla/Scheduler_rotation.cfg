CONSTANTS
    p1 = p1
    p2 = p2
    Ids = {1,2,3}
    Providers = {p1,p2}
    Priorities = {0}
    Order <- BothProviders
    Deliverable <- RotationRecords
    Strategies = {"round_robin"}
    Rebuilding = FALSE
    MaxTime = 1
SPECIFICATION SchedulerSpec
INVARIANT RotationIsEven
INVARIANT MixedIsEven
