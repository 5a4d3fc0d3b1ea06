SPECIFICATION Spec
CONSTANTS
    c1 = c1
    c2 = c2
    t1 = t1
    t2 = t2
    Clients = {c1, c2}
    Threads = {t1, t2}
    Masters = {t1, t2}
    Owner <- TwoCaches
    NoOne = NoOne
    Rows = 2
    RowWords = 2
    Regions <- RowOnly
    Capacity = 4
    MaxCalls = 1
    MaxFaults = 0
    MaxInterrupts = 0
INVARIANTS
    ReadsReturnWritten
CHECK_DEADLOCK FALSE
