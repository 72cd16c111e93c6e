SPECIFICATION Spec
CONSTANTS
    Tasks = {build}
    Mutating = {build}
    Runs = {r1}
    Workers = 1
    MaxAttempts = 1
    ClientOps = {"start", "cancel"}
    MaxAge = 0
    MaxCrashes = 0
    None = None
    Orphan = Orphan
    Loop = Loop
PROPERTIES
    TerminalStaysTerminal
CHECK_DEADLOCK FALSE
