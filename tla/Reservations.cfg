SPECIFICATION Spec
CONSTANTS
    Users = {ann, bob}
    Physical = {tab}
    Virtual = {}
    Disposable = {}
    Tickers = {t1}
    Minutes = {0, 3}
    MinHold = 1
    MaxHold = 3
    Ttl = 2
    MaxAge = 2
    MaxTime = 3
    MaxRestarts = 1
    NoHold = NoHold
    Idle = Idle
SYMMETRY Symmetry
INVARIANTS
    ConflictIsNewer
PROPERTIES
    OnlyReserveSteals
    ReapsOverdueOrNewer
