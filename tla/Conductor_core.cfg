CONSTANTS
    Models = {m1, m2}
    NoHint = NoHint
    Hints = {2}
    QuotaBase = 1
    QuotaMax = 2
    LadderTop = 1
    CloudflareFloor = 2
    TransientWait = 1
    AuthErrorWait = 2
    MissingWait = 2
    LongestWait = 2
    Kinds <- CoreKinds
    AuthResults = TRUE
    MaxTime = 3
SPECIFICATION ConductorSpec
SYMMETRY ModelSymmetry
INVARIANT ConductorTypeOK
INVARIANT BlocksEndInTime
INVARIANT AggregateAgrees
INVARIANT NoBlackoutWithoutCooling
PROPERTY WindowsDoNotOverlap
PROPERTY LadderFallsToGround
