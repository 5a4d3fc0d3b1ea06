SPECIFICATION FairSpec
CONSTANTS
    c1 = c1
    c2 = c2
    t1 = t1
    t2 = t2
    Clients = {c1}
    Threads = {t1, t2}
    Masters = {t1}
    Owner <- OneCache
    NoOne = NoOne
    Rows = 2
    RowWords = 2
    Regions <- BothRegions
    Capacity = 2
    MaxCalls = 2
    MaxFaults = 1
    MaxInterrupts = 1
INVARIANTS
    ReadsReturnWritten
    ServerUpToDate
PROPERTIES
    CallsReturn
    SessionsEnd
CHECK_DEADLOCK FALSE
