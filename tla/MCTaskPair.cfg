SPECIFICATION FairSpec
CONSTANTS
    Tasks = {report, build}
    Mutating = {build}
    Runs = {r1, r2}
    Workers = 1
    MaxAttempts = 2
    ClientOps = {"start", "cancel"}
    MaxAge = 0
    MaxCrashes = 0
    None = None
    Orphan = Orphan
    Loop = Loop
PROPERTIES
    ContractSpec
CHECK_DEADLOCK FALSE
