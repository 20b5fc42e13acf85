SPECIFICATION FairSpec
CONSTANTS
    Nodes = {n1, n2}
    Serials = {s1}
    Beats = {b1}
    Polls = {p1}
    Idle = Idle
    NoRecord = NoRecord
PROPERTIES
    UnplugIsNoticed
    ReturnIsNoticed
    PromptIsShown
