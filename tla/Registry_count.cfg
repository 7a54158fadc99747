CONSTANTS
    Clients = {c1,c2}
    Models = {m1}
    Providers = {p1}
    NoProvider = NoProvider
    MaxCopies = 1
    Window = 2
    Marked = {c1,c2}
    StrayResults = FALSE
    MaxTime = 3
SPECIFICATION RegistrySpec
SYMMETRY RegistrySymmetry
INVARIANT CountIsAvailableClients
