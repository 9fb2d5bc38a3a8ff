SPECIFICATION Spec
CONSTANTS
    t1 = t1
    t2 = t2
    c1 = c1
    c2 = c2
    EmptyId = EmptyId
    NoBody = NoBody
    BadBody = BadBody
    NoThread = NoThread
    Threads <- MCTwoThreads
    ClientIds <- MCThreeClients
    Requests <- MCPutsAndData
    MAX_CLIENTS = 2
    HISTORY_SIZE = 2
    OFFLINE_TIMEOUT = 1
    MaxTime = 1
    MaxReports = 3
SYMMETRY Permutable
INVARIANTS
    MutualExclusion
    UniqueClients
    HistoryIsWindow
    TimesOrdered
    DroppedOnlyWhenFull
PROPERTIES
    SlotsAreStable
    ImplementsStore
