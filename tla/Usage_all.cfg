CONSTANTS
    MaxRecords = 3
    Publishers = {a}
    Bridged = {2}
    Subscribers = {s1}
    Buffer = 1
    Retention = 0
    CompactAt = 2
    Batch = 2
    MaxSwitches = 1
    MaxHanded = 2
    MaxTime = 2
SPECIFICATION FairUsageSpec
INVARIANT OneConsumer
INVARIANT NothingVanishes
INVARIANT ChannelsHaveOneOwner
PROPERTY ImplementsFifo
PROPERTY StopDrains
PROPERTY RecordsAreDispatched
