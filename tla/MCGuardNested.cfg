SPECIFICATION Spec
CONSTANTS
    Sessions = {s}
    Keys = {k}
    NoKey = NoKey
    Bodies = {patch, diff}
    patch = patch
    diff = diff
    Wraps <- ApplyDiff
    NoBody = NoBody
    MaxEntries = 2
    MaxGuards = 2
    MaxHead = 0
INVARIANTS
    ConflictMeansReuse
