SPECIFICATION FairSpec
CONSTANTS
    Avds = {a1}
    Calls = {c1}
    Jobs = {j1}
    Polls = {p1}
    Ports = {1}
    BootTimeout = 1
    MaxTime = 2
    MaxRestarts = 1
    None = None
    Idle = Idle
    NoRecord = NoRecord
PROPERTIES
    GoneStaysGone
    BootEnds
    
    
