CONSTANTS
    Workers = {w1}
    Lifetime = 1
    PendingBackoff = 2
    FailureBackoff = 3
    IneffectiveBackoff = 1
    AuthErrors = FALSE
    MaxTokens = 2
    MaxChanges = 1
    MaxTime = 3
SPECIFICATION FairRefreshSpec
INVARIANT NobodyIsForgotten
INVARIANT RefreshesAreSpaced
INVARIANT NewestTokenIsKept
PROPERTY DueIsRefreshed
