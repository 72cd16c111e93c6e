SPECIFICATION FairSpec
CONSTANTS
    Clients = {c1}
    Runs = {r1}
    Loop = Loop
    HistoryMax = 2
    QueueMax = 2
    MaxOutput = 2
INVARIANTS
    NothingLost
    SeamlessReplay
    SourceOrder
    FinishLast
PROPERTY
    LoopReturns
CHECK_DEADLOCK FALSE
