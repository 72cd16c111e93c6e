SPECIFICATION Spec
CONSTANTS
    Sessions = {s1}
    Keys = {k}
    NoKey = NoKey
    Bodies = {patch, diff}
    patch = patch
    diff = diff
    Wraps <- ApplyDiff
    NoBody = NoBody
    MaxEntries = 2
    MaxGuards = 3
    MaxHead = 1
INVARIANTS
    KeyBindsOne
    PlainOkIsReal
PROPERTIES
    AtMostOnce
    WriteAhead
    SettledStays
