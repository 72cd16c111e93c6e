SPECIFICATION AllSpec
CONSTANTS
    Writers = {w1, w2}
    Readers = {r1}
    Values = {v1, v2}
    Inodes = {i1, i2, i3}
    NoValue = NoValue
    NoInode = NoInode

    Txns = {tx}
    Paths = {n1, n2}
    Contents = {lf, crlf}
    lf = lf
    crlf = crlf
    Decoded <- Newlines
    Torn = Torn
    Absent = Absent
    Unsaved = Unsaved
    None = None

    Keys = {n1, n2}
    Topics = {d1}
    Trace = Trace
    Compacted = Compacted
    Ttl = 0
    CompactAbove = 1
    ValidateLimit = 2
    MemMaxRows = 4
    MemMaxNow = 1
    MemTorn = MemTorn

    SnapNames = {n1, n2}
    Versions = {v1, v2}
    NoFile = NoFile
    NoCommit = NoCommit
    SnapMaxEdits = 2

    PxOrder <- Given
    PxName <- GivenNames
    PxOther <- OtherWords
    PxMaxWords = 3
    PxMustAudit = TRUE

    Clients = {a1}
    Budget = 2
    Window = 5
    Second = 2
    RateMaxNow = 16

    IdxFiles = {1, 2}
    IdxPython = {1, 2}
    IdxRoots <- Roots
    IdxTexts = {t1, t2}
    Gone = Gone
    PrintMax = 3
    CacheMax = 1
    DepsMax = 2
    ListMax = 2
    CompactMax = 1
    SymMax = 2
    EdgeMax = 1
    NoPayload = NoPayload
    IdxMaxEdits = 2
    IdxMaxCalls = 2

    TermIds = {s1}
    TermNone = TermNone
    TermCap = 2
    TermMaxOut = 4
SYMMETRY ServicesSymmetry
INVARIANTS
    ServicesTypeOK
    WholeReads
    BackupIsOriginal
    RollbackRestores
    MemHumanWins
    MemKept
    NoWorkLost
    RestoreExact
    PxDisclosed
    PxRestored
    WithinBudget
    AnswerIsCurrent
    IndexIsCurrent
    TermReachable
    TermLogged
    TermLastWords
PROPERTIES
    RegisterSpec
    WaitSuffices
CHECK_DEADLOCK FALSE
