SPECIFICATION FairSpec
CONSTANTS
    d1 = d1   d2 = d2   c1 = c1   c2 = c2   p1 = p1
    None = None
    NoRecord = NoRecord
    Idle = Idle
    Ids = {d1, d2}
    Templated = {d1}
    Vmids = {100}
    Calls = {c1, c2}
    Polls = {p1}
    Asks <- MCAsks
    Watched = {d1}
    InFlight = 2

    
PROPERTIES
    
    AttachedSettles
    RemovalEnds
    LossIsNoticed
CHECK_DEADLOCK FALSE
