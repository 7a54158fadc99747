CONSTANTS
    Models = {m1}
    NoHint = NoHint
    Hints = {2}
    QuotaBase = 1
    QuotaMax = 1
    LadderTop = 0
    CloudflareFloor = 1
    TransientWait = 1
    AuthErrorWait = 2
    MissingWait = 1
    LongestWait = 2
    Kinds <- MCKinds
    AuthResults = FALSE
    MaxTime = 3
    Callers = {c1, c2}
    Settings <- MCSettings
SPECIFICATION DeliverySpec
SYMMETRY CallerSymmetry
INVARIANT RefusalIsExcused
INVARIANT StaleBlocksEnd
INVARIANT SchedulerAgrees
INVARIANT RegistryAgrees
