\* A model value stands for itself; the records are in SchedulerMC.
CONSTANTS
    pve1 = pve1   pve2 = pve2   phone1 = phone1
    d1 = d1   d2 = d2   anna = anna
    sdk = sdk   none = none   away = away
    None = none
    Away = away
    Nodes = {pve1, pve2}
    Place <- MCPlace
    Keys = {sdk}
    Facts <- MCFacts
    Images <- MCImages
    Profiles <- MCProfiles
    FormFactors <- MCFormFactors
    Registered = {"android-emulator", "qemu", "physical-adb"}
    Volumes <- MCVolumes
    Phones <- MCPhones
    Ids = {d1, d2}
    Users = {anna}
    Asks <- MCAsks
SYMMETRY MCSymmetry
SPECIFICATION Spec
INVARIANTS
    
    CardAgrees
PROPERTIES
    NativeBeforeTranslated
CHECK_DEADLOCK FALSE
