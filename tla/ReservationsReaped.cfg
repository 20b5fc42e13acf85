SPECIFICATION FairSpec
CONSTANTS
    Users = {ann}
    Physical = {}
    Virtual = {avd}
    Disposable = {avd}
    Tickers = {t1, t2}
    Minutes = {0, 3}
    MinHold = 1
    MaxHold = 3
    Ttl = 2
    MaxAge = 2
    MaxTime = 3
    MaxRestarts = 1
    NoHold = NoHold
    Idle = Idle
PROPERTIES
    DisposesUnheldOrNewer
    OverdueHoldsEnd
