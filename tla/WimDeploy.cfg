SPECIFICATION FairSpec
CONSTANTS
    Deploys = {d1, d2}
    Scans = {s1}
    Vmids = {1}
    MaxMishaps = 1
    MaxUser = 2
    None = None
    Idle = Idle
    NoVm = NoVm
INVARIANTS
    ReimagedOnlyByUser
    
PROPERTIES
    OrphansRecovered
