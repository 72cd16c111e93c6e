SPECIFICATION Spec
CONSTANTS
    Sessions = {s1, s2}
    Requests = {q}
    Tasks = {t}
    Loop = Loop
    None = None
    MaxEvents = 3
    MaxMappings = 1
    Retention = 0
    MaxFaults = 1
INVARIANTS
    ReplayUnmixed
CHECK_DEADLOCK FALSE
