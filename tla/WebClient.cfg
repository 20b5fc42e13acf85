SPECIFICATION Spec
CONSTANTS
    n1 = n1   n2 = n2
    Nodes = {n1, n2}
    Disks = {"local", "big"}
    Cores <- MCCores
    Capacity <- MCCapacity
    Clusters <- MCClusters
    Sizes <- MCSizes
    Spinners <- MCSpinners
    SlowDirs <- MCSlowDirs
    Fallback <- MCSlowDirs
    Vmids = {1, 2}
    Forms = {f1, f2}
    NoPlan = NoPlan
    MaxWorld = 3
    Views = {"dashboard", "panel"}
INVARIANTS
    PlacementsAgree
    PlanIsForRequest
PROPERTIES
    GoneLeavesTheList
    
    LostSessionIsNoticed
    
CHECK_DEADLOCK FALSE
