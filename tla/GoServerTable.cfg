SPECIFICATION Spec
CONSTANTS
    t1 = t1
    t2 = t2
    c1 = c1
    c2 = c2
    NoBody = NoBody
    BadBody = BadBody
    NoThread = NoThread
    Threads <- MCThreads
    ClientIds <- MCClients
    Requests <- MCEveryRoute
    HISTORY_SIZE = 2
    OFFLINE_TIMEOUT = 1
    MaxCap = 3
    MaxTime = 1
    MaxReports = 3
SYMMETRY Permutable
INVARIANTS
    HistoriesAreWindows
    EncodedIsSnapshot
    WritesMissReaders
PROPERTIES
    ImplementsStore
    ImplementsMutex
