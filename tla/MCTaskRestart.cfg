SPECIFICATION Spec
CONSTANTS
    Tasks = {build}
    Mutating = {build}
    Runs = {r1, r2}
    Workers = 2
    MaxAttempts = 1
    ClientOps = {"restart"}
    MaxAge = 2
    MaxCrashes = 0
    None = None
    Orphan = Orphan
    Loop = Loop
SYMMETRY RunSymmetry
INVARIANTS
    SuccessIsReal
CHECK_DEADLOCK FALSE
