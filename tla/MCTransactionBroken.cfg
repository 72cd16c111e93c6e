SPECIFICATION TxSpec
CONSTANTS
    Txns = {t}
    Paths = {p, q}
    Contents = {lf, crlf}
    lf = lf
    crlf = crlf
    Decoded <- Newlines
    Torn = Torn
    Absent = Absent
    Unsaved = Unsaved
    None = None
INVARIANTS
    RollbackUndoesAll
