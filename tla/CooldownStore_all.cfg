CONSTANTS
    Creds = {a, b}
    Callers = {k1, k2}
    Loader = Loader
    None = None
    Waits = {1}
    Stores = {s1, s2}
    NoStore = NoStore
    MaxChanges = 2
    MaxEvents = 1
    MaxFaults = 1
SPECIFICATION FairSpec
PROPERTY SavesEnd
INVARIANT FilesAreCurrent
INVARIANT MemoryIsTrue
