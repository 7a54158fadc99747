CONSTANTS
    Clients = {c1,c2}
    Models = {m1,m2}
    Providers = {p1,p2}
    NoProvider = NoProvider
    MaxCopies = 2
    Window = 1
    Marked = {c1}
    StrayResults = FALSE
    MaxTime = 2
SPECIFICATION RegistrySpec
SYMMETRY ProviderSymmetry
INVARIANT CountsAreRegistrations
INVARIANT CacheIsFresh
INVARIANT MarksBelongToClients
