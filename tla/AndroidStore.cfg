SPECIFICATION FairSpec
CONSTANTS
    DeviceIds = {d1}
    NodeIds = {n1}
    Values = {v1, v2}
    None = None
    Torn = Torn
    Absent = Absent
INVARIANTS
    UnwrittenIsDue
    FilesWhole
PROPERTIES
    ImplementsDurableMap
    EventuallyDurable
