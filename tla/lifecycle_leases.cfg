SPECIFICATION Spec
CONSTANTS
    Owner = {o1, o2, o3}
    NoOwner = NoOwner
    Members = 2
    WithProvider = {1}
    MaxGeneration = 3
    MaxCrashes = 1
SYMMETRY Coordinators
INVARIANTS OneHost SuspendedIsQuiet StaleStopIsHarmless
PROPERTIES ResumeIsComplete
CHECK_DEADLOCK FALSE
