CONSTANTS
    base = base
    moved = moved
    outside = outside
    tls = tls
    Configs = {base, moved}
    Mode <- MCMode
    Boot <- MCBoot
    Unfit = {}
    Notes = {n1}
    Poll = Poll
    MaxStarts = 2
    MaxEdits = 1
    MaxFaults = 1
CHECK_DEADLOCK FALSE
SPECIFICATION Spec
INVARIANT BridgeFollowsRouting
