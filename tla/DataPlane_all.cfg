CONSTANTS
    base = base
    moved = moved
    outside = outside
    tls = tls
    Configs = {base, moved, outside, tls}
    Mode <- MCMode
    Boot <- MCBoot
    Unfit = {tls}
    Notes = {n1}
    Poll = Poll
    MaxStarts = 3
    MaxEdits = 2
    MaxFaults = 1
CHECK_DEADLOCK FALSE
SPECIFICATION FairSpec
INVARIANT ChildHasOwner
INVARIANT RoutedAsConfigured
INVARIANT AnnouncedIsApplied
INVARIANT ReportedIsApplied
PROPERTY SnapshotConverges
