SPECIFICATION Spec
CONSTANTS
    custom = custom   builtin = builtin   r1 = r1   r2 = r2
    Absent = Absent
    Unreadable = Unreadable
    NoFile = NoFile
    Rows = {custom, builtin}
    Versions = {1, 2}
    Releases = {r1, r2}
    Shipped <- MCShipped
    Names = {n1, n2}
    Uploads = {u1, u2}
    Walks = {w1, w2}
    Ensures = {e1, e2}
    MaxCrashes = 2
INVARIANTS
    
    PublishedIsWhole

    
    
CHECK_DEADLOCK FALSE
