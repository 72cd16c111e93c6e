SPECIFICATION Spec
CONSTANTS
    Sessions = {s1}
    Requests = {q1, q2}
    Tasks = {t}
    Loop = Loop
    None = None
    MaxEvents = 2
    MaxMappings = 2
    Retention = 0
    MaxFaults = 2
SYMMETRY RequestSymmetry
INVARIANTS
    TypeOK
    NoGap
    ReplayAvailable
    MonotonicAlone
CHECK_DEADLOCK FALSE
