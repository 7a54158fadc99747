CONSTANTS
    c1 = c1
    c2 = c2
    Models = {m1}
    NoHint = NoHint
    Hints = {1}
    QuotaBase = 2
    QuotaMax = 2
    LadderTop = 0
    CloudflareFloor = 2
    TransientWait = 1
    AuthErrorWait = 2
    MissingWait = 2
    LongestWait = 2
    Creds = {c1, c2}
    Reliable = {c2}
    NoOverride = NoOverride
    Override <- MCOverride
    Settings <- MCSettings
    JitterDivisor = 1
    JitterCap = 1
    Kinds <- MCKinds
SPECIFICATION FairSpec
INVARIANT HealthyServes
INVARIANT CallsAreBounded
INVARIANT WaitsWithinLimit
INVARIANT WaitCoversBlock
PROPERTY RequestsEnd
