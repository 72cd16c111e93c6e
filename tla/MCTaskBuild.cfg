SPECIFICATION FairSpec
CONSTANTS
    Tasks = {build}
    Mutating = {build}
    Runs = {r1, r2}
    Workers = 2
    MaxAttempts = 2
    ClientOps = {"start", "status", "cancel"}
    MaxAge = 1
    MaxCrashes = 1
    None = None
    Orphan = Orphan
    Loop = Loop
INVARIANTS
    OneRunPerTask
    NoStrayProcess
    CancelReachesWatcher
PROPERTIES
    CancelHonoured
    RunsEnd
    EventuallyFinal
CHECK_DEADLOCK FALSE
