SPECIFICATION FairSpec
CONSTANTS
    t1 = t1
    t2 = t2
    c1 = c1
    c2 = c2
    EmptyId = EmptyId
    NoBody = NoBody
    BadBody = BadBody
    NoThread = NoThread
    Threads <- MCTwoThreads
    ClientIds <- MCClients
    Requests <- MCPutsAndRoutes
    MAX_CLIENTS = 2
    HISTORY_SIZE = 1
    OFFLINE_TIMEOUT = 1
    MaxTime = 0
    MaxReports = 2
INVARIANTS
    ScanIsCurrent
    PageGoesForward
    NoticeIsHonest
PROPERTIES
    EventuallyAnswered
